---------------------------- MODULE AgentReview ----------------------------
(***************************************************************************)
(* The review of an agent's module writes (xlideAgentDiff.ts) with those   *)
(* who write: the agent tools of this window (writeModuleForAgent), an MCP *)
(* server whose reports arrive later (mcpEditMirror.ts), the editor's      *)
(* saves, the user's Keep, Revert and delete, and programs that tell XLIDE *)
(* nothing.  A write takes effect in the file some time before the review  *)
(* hears of it: the host coordination may still be reopening the file.     *)
(*                                                                         *)
(* NoText stands for a module the file does not have, and as the before    *)
(* of a review for beforeExisted = false.  Texts are compared as the code  *)
(* compares them, line ends and trailing blanks aside.                     *)
(***************************************************************************)
EXTENDS Naturals, Sequences

CONSTANTS
    Modules, Texts, NoText,
    AtOnce,       \* what nothing comes between: subset of
                  \* {"call", "revert", "rename"}
    Fails,        \* which reads of the module may fail: subset of
                  \* {"before", "after"} of a write
    MaxWrites,    \* bound: writes of agents
    MaxUser       \* bound: acts of the user and of others

ASSUME NoTextAssumption == NoText \notin Texts
ASSUME AtOnceAssumption == AtOnce \subseteq {"call", "revert", "rename"}
ASSUME FailsAssumption == Fails \subseteq {"before", "after"}
ASSUME NoModuleAssumption == "no module" \notin Modules
ASSUME BoundsAssumption == MaxWrites \in Nat /\ MaxUser \in Nat

VARIABLES
    text,        \* per module: what the file holds
    pending,     \* pendingReviews: NoReview or [before, after]
    timer,       \* is presenterTimer running?
    presented, held,   \* presentedReview, heldReview: a module or NoModule
    call,        \* the tool call under way
    reports,     \* reports of the MCP server, in the order they came
    save,        \* the editor's save under way
    revert,      \* the Revert under way
    open,        \* ghost, per module: the agents' writes nobody has decided on
    author,      \* ghost, per module: who wrote it last, "user", "agent" or "other";
                 \* while the review had yet to hear of a save: "both" and "other"
                 \* for an agent and a Revert
    latest,      \* ghost: the module whose review was presented last
    writes, acts \* counters of the bounds

presenter == <<timer, presented, held>>
ghosts == <<open, author, latest>>
ops == <<call, reports, save, revert>>
vars == <<text, pending, presenter, ops, ghosts, writes, acts>>

NoReview == [is |-> "none"]
Review(before, after) == [is |-> "review", before |-> before, after |-> after]
Reviewed(m) == pending[m].is = "review"
NoModule == "no module"
Idle == [at |-> "idle"]

Init ==
    /\ text \in [Modules -> Texts \cup {NoText}]
    /\ pending = [m \in Modules |-> NoReview]
    /\ timer = FALSE /\ presented = NoModule /\ held = NoModule
    /\ call = Idle /\ reports = <<>> /\ save = Idle /\ revert = Idle
    /\ open = [m \in Modules |-> {}] /\ latest = NoModule
    /\ author = [m \in Modules |-> "user"]
    /\ writes = 0 /\ acts = 0

\* Nothing comes between the read and the write of a call, or the steps of a
\* Revert, that AtOnce names; "rename": a module is renamed when the review has
\* heard of all, to a name that none of a deleted module is left under.
Midway(op) ==
    \/ op = "call" /\ call.at = "read"
    \/ op = "revert" /\ revert.at # "idle"
Undisturbed(op) == \A o \in AtOnce \ {op} : ~Midway(o)

\* A save whose text is in the file, and that the review has yet to hear of.
Saving(m) == save.at = "written" /\ save.mod = m

-----------------------------------------------------------------------------
(* Ghost: the writes of agents that await a decision.                      *)

\* A write is of a module that its tool had read, or had failed to.  The review
\* hears of it some time after it was made: in turn, or late, when it has heard
\* of a later one before.
Write(id, before, unread) == [id |-> id, before |-> before, unread |-> unread, at |-> "coming"]
Unshown(ws) == {w \in ws : w.at = "coming"}
Overtaken(ws, id) == \E v \in ws : v.id > id /\ v.at # "coming"
HeardAs(ws, id) == IF Overtaken(ws, id) THEN "late" ELSE "shown"
MarkShown(ws, id) ==
    {IF w.id = id THEN [w EXCEPT !.at = HeardAs(ws, id)] ELSE w : w \in ws}
Written(m, unread) == open[m] \cup {Write(writes, text[m], unread)}

-----------------------------------------------------------------------------
(* The review.                                                             *)

\* Kept, reverted, deleted, or back where it was; undecided is what of the
\* agent's writes that leaves open.
Resolve(m, undecided) ==
    /\ pending' = [pending EXCEPT ![m] = NoReview]
    /\ presented' = IF presented = m THEN NoModule ELSE presented
    /\ open' = [open EXCEPT ![m] = undecided]
    /\ UNCHANGED <<timer, held, latest>>

\* Mutant: a held review is opened by nobody.
PresentReviewDrops(m) ==
    /\ timer' = TRUE
    /\ presented' = IF timer THEN presented ELSE m
    /\ UNCHANGED held

\* The first write of a burst opens its review; later ones are held, and each
\* restarts the timer.
PresentReview(m) ==
    /\ timer' = TRUE
    /\ presented' = IF timer THEN presented ELSE m
    /\ held' = IF timer THEN m ELSE held

\* Mutant: each write is compared with the one before it.
MergedAfresh(m, before, after) == Review(before, after)

\* Stacked writes merge: the first one's before stays.
Merged(m, before, after) == Review(IF Reviewed(m) THEN pending[m].before ELSE before, after)

BackWhereItWas(r) == r.before # NoText /\ r.before = r.after

PresentWrite(m, before, after, id) ==
    LET merged == Merged(m, before, after) IN
    IF BackWhereItWas(merged)
    THEN Resolve(m, Unshown(MarkShown(open[m], id)))
    ELSE /\ pending' = [pending EXCEPT ![m] = merged]
         /\ open' = [open EXCEPT ![m] = MarkShown(@, id)]
         /\ latest' = m
         /\ PresentReview(m)

\* A write that presents no review of its own.
TrackWrite(m, new, undecided) ==
    IF ~Reviewed(m)
    THEN open' = [open EXCEPT ![m] = undecided] /\ UNCHANGED <<pending, presenter, latest>>
    ELSE IF BackWhereItWas(Review(pending[m].before, new))
    THEN Resolve(m, Unshown(undecided))
    ELSE /\ pending' = [pending EXCEPT ![m].after = new]
         /\ open' = [open EXCEPT ![m] = undecided]
         /\ UNCHANGED <<presenter, latest>>

\* The settle timer runs out.
OpenHeldReview ==
    /\ timer
    /\ held' = NoModule
    /\ IF held = NoModule \/ held = presented \/ ~(held \in Modules /\ Reviewed(held))
       THEN timer' = FALSE /\ UNCHANGED presented
       ELSE presented' = held /\ timer' = TRUE
    /\ UNCHANGED <<text, pending, ops, ghosts, writes, acts>>

-----------------------------------------------------------------------------
(* An agent tool of this window.                                           *)

AgentWrites(m, t, unread) ==
    /\ text' = [text EXCEPT ![m] = t]
    /\ open' = [open EXCEPT ![m] = Written(m, unread)]
    /\ author' = [author EXCEPT ![m] = IF Saving(m) THEN "both" ELSE "agent"]
    /\ writes' = writes + 1

\* A module that is not there is to be created, and so is one that cannot be read.
Befores(m) == {text[m]} \cup (IF "before" \in Fails THEN {NoText} ELSE {})

CallReads(m) ==
    /\ call.at = "idle" /\ writes < MaxWrites /\ Undisturbed("call")
    /\ \E before \in Befores(m) : call' = [at |-> "read", mod |-> m, before |-> before]
    /\ UNCHANGED <<text, pending, presenter, reports, save, revert, ghosts, writes, acts>>

CallWrites(t) ==
    /\ call.at = "read" /\ Undisturbed("call") /\ writes < MaxWrites
    /\ AgentWrites(call.mod, t, call.before = NoText /\ text[call.mod] # NoText)
    /\ call' = [at |-> "written", mod |-> call.mod, before |-> call.before,
                wrote |-> t, id |-> writes]
    /\ UNCHANGED <<pending, presenter, reports, save, revert, latest, acts>>

\* Mutant: what was asked for is taken for what the module holds.
AftersAsked(m, asked) == {asked}

\* Mutant: a module that cannot be read is taken to be empty.
AftersUnread(m, asked) == {text[m]}

\* The module as it reads now is the after; what was asked for, when it cannot
\* be read.
Afters(m, asked) ==
    ({text[m]} \ {NoText}) \cup (IF text[m] = NoText \/ "after" \in Fails THEN {asked} ELSE {})

CallPresents ==
    /\ call.at = "written" /\ Undisturbed("call")
    /\ \E after \in Afters(call.mod, call.wrote) :
           PresentWrite(call.mod, call.before, after, call.id)
    /\ call' = Idle
    /\ UNCHANGED <<text, reports, save, revert, author, writes, acts>>

-----------------------------------------------------------------------------
(* The MCP server: it writes in a process of its own, and reports.         *)

McpWrites(m, t) ==
    /\ writes < MaxWrites
    /\ Undisturbed("mcp")
    /\ t = NoText => text[m] # NoText
    /\ AgentWrites(m, t, FALSE)
    /\ reports' = Append(reports, [mod |-> m, before |-> text[m], after |-> t, id |-> writes])
    /\ UNCHANGED <<pending, presenter, call, save, revert, latest, acts>>

\* One report of a file at a time, in the order they came (inTurn).  A window
\* that does not show the file presents nothing, and a review it has follows
\* the module.
McpReported(shown) ==
    /\ reports # <<>> /\ Undisturbed("mcp")
    /\ reports' = Tail(reports)
    /\ LET r == Head(reports)
           heard == MarkShown(open[r.mod], r.id)
       IN
       \/ r.after = NoText /\ Resolve(r.mod, Unshown(heard))
       \/ /\ r.after # NoText
          /\ \E after \in Afters(r.mod, r.after) :
              \/ shown /\ PresentWrite(r.mod, r.before, after, r.id)
              \/ /\ ~shown
                 /\ TrackWrite(r.mod, after,
                        IF Reviewed(r.mod) THEN heard ELSE {w \in open[r.mod] : w.id # r.id})
    /\ UNCHANGED <<text, call, save, revert, author, writes, acts>>

-----------------------------------------------------------------------------
(* The user, and others.                                                   *)

Acts == acts < MaxUser /\ acts' = acts + 1

SaveWrites(m, t) ==
    /\ save.at = "idle" /\ text[m] # NoText
    /\ Undisturbed("save") /\ Acts
    /\ text' = [text EXCEPT ![m] = t]
    /\ author' = [author EXCEPT ![m] = "user"]
    /\ save' = [at |-> "written", mod |-> m, wrote |-> t]
    /\ UNCHANGED <<pending, presenter, call, reports, revert, open, latest, writes>>

SaveTracks ==
    /\ save.at = "written" /\ Undisturbed("save")
    /\ TrackWrite(save.mod, save.wrote, open[save.mod])
    /\ save' = Idle
    /\ UNCHANGED <<text, call, reports, revert, author, writes, acts>>

Keep(m) ==
    /\ Undisturbed("keep") /\ Reviewed(m) /\ Acts
    /\ Resolve(m, Unshown(open[m]))
    /\ UNCHANGED <<text, ops, author, writes>>

\* A delete through XLIDE, or by the user's hand on the tree.
Delete(m) ==
    /\ Undisturbed("delete") /\ text[m] # NoText /\ Acts
    /\ text' = [text EXCEPT ![m] = NoText]
    /\ Resolve(m, Unshown(open[m]))
    /\ author' = [author EXCEPT ![m] = "user"]
    /\ UNCHANGED <<ops, writes>>

\* Every write the review will hear of, it has heard of.
Quiet(m) ==
    /\ call.at = "written" => call.mod # m
    /\ \A i \in DOMAIN reports : reports[i].mod # m
    /\ ~Saving(m)
    /\ revert.at # "idle" => revert.mod # m

\* The review goes with the module, and so do the burst's marks.
RenameReview(m, n) ==
    LET follow(x) == IF x = m THEN n ELSE x IN
    IF ~Reviewed(m) THEN UNCHANGED <<pending, held, presented>>
    ELSE /\ pending' = [pending EXCEPT ![m] = NoReview, ![n] = pending[m]]
         /\ held' = follow(held)
         /\ presented' = follow(presented)

\* renameProjectModule; the name is free.
Rename(m, n) ==
    /\ text[m] # NoText /\ text[n] = NoText /\ Acts
    /\ Undisturbed("rename")
    /\ "rename" \in AtOnce =>
           call.at = "idle" /\ (\A x \in Modules : Quiet(x)) /\ ~Reviewed(n)
    /\ text' = [text EXCEPT ![m] = NoText, ![n] = text[m]]
    /\ RenameReview(m, n)
    /\ open' = [open EXCEPT ![m] = {}, ![n] = open[m]]
    /\ author' = [author EXCEPT ![n] = author[m]]
    /\ latest' = IF latest = m THEN n ELSE IF latest = n THEN NoModule ELSE latest
    /\ UNCHANGED <<timer, ops, writes>>

\* The application, git, another editor.
OutsideWrite(m, t) ==
    /\ Undisturbed("outside") /\ text[m] # NoText /\ t # text[m] /\ Acts
    /\ text' = [text EXCEPT ![m] = t]
    /\ author' = [author EXCEPT ![m] = "other"]
    /\ UNCHANGED <<pending, presenter, ops, open, latest, writes>>

\* Revert refuses a module that changed again after the agent's write, and one
\* it cannot read.
MayRevert(m) == Reviewed(m) /\ text[m] = pending[m].after

RevertChecks(m) ==
    /\ revert.at = "idle" /\ Undisturbed("revert") /\ MayRevert(m) /\ Acts
    /\ revert' = [at |-> "checked", mod |-> m, record |-> pending[m],
                  known |-> {w.id : w \in open[m] \ Unshown(open[m])}]
    /\ UNCHANGED <<text, pending, presenter, call, reports, save, ghosts, writes>>

\* The before goes back, or the module the agent created goes; deleting one
\* that is gone already fails.
RevertWrites ==
    /\ revert.at = "checked" /\ Undisturbed("revert")
    /\ LET m == revert.mod IN
       IF revert.record.before = NoText /\ text[m] = NoText
       THEN revert' = Idle /\ UNCHANGED <<text, author>>
       ELSE /\ text' = [text EXCEPT ![m] = revert.record.before]
            /\ author' = [author EXCEPT ![m] = IF Saving(m) THEN "other" ELSE "user"]
            /\ revert' = [revert EXCEPT !.at = "written"]
    /\ UNCHANGED <<pending, presenter, call, reports, save, open, latest, writes, acts>>

RevertEnds ==
    /\ revert.at = "written" /\ Undisturbed("revert")
    /\ Resolve(revert.mod, {w \in open[revert.mod] : w.id \notin revert.known})
    /\ revert' = Idle
    /\ UNCHANGED <<text, call, reports, save, author, writes, acts>>

-----------------------------------------------------------------------------
Next ==
    \/ \E m \in Modules :
        \/ CallReads(m) \/ Keep(m) \/ Delete(m) \/ RevertChecks(m)
        \/ \E n \in Modules : Rename(m, n)
        \/ \E t \in Texts : SaveWrites(m, t) \/ OutsideWrite(m, t)
        \/ \E t \in Texts \cup {NoText} : McpWrites(m, t)
    \/ \E t \in Texts : CallWrites(t)
    \/ CallPresents \/ SaveTracks \/ RevertWrites \/ RevertEnds
    \/ \E shown \in BOOLEAN : McpReported(shown)
    \/ OpenHeldReview

Spec == Init /\ [][Next]_vars

-----------------------------------------------------------------------------
TypeOK ==
    /\ text \in [Modules -> Texts \cup {NoText}]
    /\ \A m \in Modules : Reviewed(m) =>
           pending[m] \in [is : {"review"}, before : Texts \cup {NoText}, after : Texts]
    /\ timer \in BOOLEAN
    /\ presented \in Modules \cup {NoModule} /\ held \in Modules \cup {NoModule}
    /\ call.at \in {"idle", "read", "written"}
    /\ save.at \in {"idle", "written"} /\ revert.at \in {"idle", "checked", "written"}
    /\ author \in [Modules -> {"user", "agent", "both", "other"}] /\ latest \in Modules \cup {NoModule}
    /\ writes \in 0 .. MaxWrites /\ acts \in 0 .. MaxUser

\* The review has heard of the writes nobody decided on in the order they were made.
InOrder(m) ==
    \A v, w \in open[m] : v.id < w.id /\ w.at # "coming" => v.at = "shown"

IsOldest(w, m) == w \in open[m] /\ \A v \in open[m] : w.id <= v.id

\* "The review always compares against the state before the agent's FIRST
\* unreviewed write": of the writes nobody decided on, the oldest one's before
\* is the one Revert restores.
FirstWriteKept ==
    \A m \in Modules : Reviewed(m) =>
        \E w \in open[m] : IsOldest(w, m) /\ pending[m].before = w.before

\* What Revert restores of a write: what it wrote over, or nothing where that
\* could not be read.
Restores(before, w) == before = w.before \/ (w.unread /\ before = NoText)

\* What the code keeps of that: so it is, unless the review heard of the writes in
\* another order, or that write's module could not be read.
OriginalKept ==
    \A m \in Modules : Reviewed(m) /\ InOrder(m) =>
        \E w \in open[m] : IsOldest(w, m) /\ Restores(pending[m].before, w)

\* The after-image follows the module, so that Revert stays offered: only a
\* write nobody reported parts them, or an agent's or a Revert's in the middle of
\* a save.
AfterFollows ==
    \A m \in Modules :
        Reviewed(m) /\ Quiet(m) /\ author[m] \in {"user", "agent"} /\ text[m] # NoText =>
            text[m] = pending[m].after

\* What an agent wrote and nobody kept, reverted or deleted is under review.
NothingUnreviewed == \A m \in Modules : Quiet(m) /\ open[m] # {} => Reviewed(m)

\* However saves, calls and reports cross: the review of an undecided write is
\* there, and its after is what the module holds.
ReviewFollows == AfterFollows /\ NothingUnreviewed

\* "reverting would discard the newer edit too": a Revert writes over nothing
\* but the text its review showed.
RevertDiscardsNothingNewer ==
    [][revert.at = "checked" /\ revert'.at = "written" =>
           text[revert.mod] = revert.record.after]_vars

\* "a burst still ends on the same review": when the timer is idle the review
\* opened last is that of the latest write, if it is still pending.
BurstEndsOnLatest ==
    ~timer /\ latest # NoModule /\ Reviewed(latest) => presented = latest

-----------------------------------------------------------------------------
\* "A deleted module has nothing left to review": a report that comes after the
\* delete opens one.
NoReviewOfNothing == \A m \in Modules : Reviewed(m) /\ Quiet(m) => text[m] # NoText
=============================================================================
