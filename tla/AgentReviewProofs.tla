------------------------- MODULE AgentReviewProofs -------------------------
(***************************************************************************)
(* The safety of AgentReview for any modules, texts and numbers of writes, *)
(* and of the lock that takes an MCP server's reports in turn.             *)
(*                                                                         *)
(* A write is coming until the review hears of it; then it is shown, or    *)
(* late when the review had heard of a later one. That the after follows   *)
(* the module is FollowInv: when the review has heard of all, or waits     *)
(* for one save only, what it shows or will show is the module's text      *)
(* (AfterAt, SaveAt). That no write goes unreviewed is UndecidedInv: what  *)
(* is coming is with the call under way or in a report (ComingAt), what    *)
(* was heard of has a review (HeardAt), writes have ids of their own       *)
(* (IdsAt), and a Revert decides on just what was heard of when it         *)
(* checked (KnownInv). That the before is the oldest write's rests on      *)
(* SourceInv: a call's read is what the module holds, or failed            *)
(* (ReadInv), whoever brings a write brings that write's before            *)
(* (CarriedInv), and nobody else brings it too (ApartInv); then            *)
(* OriginalAt holds from step to step, since a write heard of in order is  *)
(* newer than all that were shown.                                         *)
(*                                                                         *)
(* The theorems say which operations nothing comes between, and which      *)
(* reads do not fail. The code takes no lock for that: review_agents.cfg   *)
(* and review_revert.cfg are where something does come between.            *)
(***************************************************************************)
EXTENDS AgentReview, KeyedAsyncLock, SequenceTheorems, TLAPS

TextOrNone == Texts \cup {NoText}
Pending == [is : {"review"}, before : TextOrNone, after : Texts]
Reviews == {NoReview} \cup Pending
Writes == [id : Nat, before : TextOrNone, unread : BOOLEAN, at : {"coming", "shown", "late"}]
Reports == [mod : Modules, before : TextOrNone, after : TextOrNone, id : Nat]
CallStates ==
    {Idle} \cup [at : {"read"}, mod : Modules, before : TextOrNone]
           \cup [at : {"written"}, mod : Modules, before : TextOrNone, wrote : Texts, id : Nat]
SaveStates == {Idle} \cup [at : {"written"}, mod : Modules, wrote : Texts]
RevertStates ==
    {Idle} \cup [at : {"checked", "written"}, mod : Modules, record : Pending, known : SUBSET Nat]

TextTypes ==
    /\ text \in [Modules -> TextOrNone]
    /\ author \in [Modules -> {"user", "agent", "both", "other"}]
    /\ writes \in 0 .. MaxWrites /\ acts \in 0 .. MaxUser
ReviewTypes == pending \in [Modules -> Reviews] /\ open \in [Modules -> SUBSET Writes]
PresenterTypes ==
    /\ timer \in BOOLEAN
    /\ presented \in Modules \cup {NoModule} /\ held \in Modules \cup {NoModule}
    /\ latest \in Modules \cup {NoModule}
OpTypes ==
    /\ call \in CallStates /\ reports \in Seq(Reports)
    /\ save \in SaveStates /\ revert \in RevertStates

TypeInv == TextTypes /\ ReviewTypes /\ PresenterTypes /\ OpTypes

-----------------------------------------------------------------------------
(* The operators on writes and reviews.                                    *)

LEMMA StateFacts ==
    ASSUME TypeInv
    PROVE  /\ \A m \in Modules : pending[m] \in Reviews /\ open[m] \in SUBSET Writes
                                 /\ text[m] \in TextOrNone
           /\ \A m \in Modules : Reviewed(m) =>
                 pending[m] \in Pending
           /\ \A m \in Modules : ~Reviewed(m) => pending[m] = NoReview
           /\ writes \in Nat /\ acts \in Nat
<1>1. \A m \in Modules : pending[m] \in Reviews /\ open[m] \in SUBSET Writes /\ text[m] \in TextOrNone
  BY DEF TypeInv, ReviewTypes, TextTypes
<1>2. writes \in Nat /\ acts \in Nat
  BY BoundsAssumption DEF TypeInv, TextTypes
<1>3. \A m \in Modules : Reviewed(m) =>
                 pending[m] \in Pending
  BY <1>1 DEF Reviewed, Reviews, Pending, NoReview
<1>4. \A m \in Modules : ~Reviewed(m) => pending[m] = NoReview
  BY <1>1 DEF Reviewed, Reviews, Pending, NoReview
<1> QED BY <1>1, <1>2, <1>3, <1>4

LEMMA CallFacts ==
    ASSUME TypeInv
    PROVE  /\ call.at \in {"idle", "read", "written"}
           /\ call.at = "idle" => call = Idle
           /\ call.at = "read" => call.mod \in Modules /\ call.before \in TextOrNone
           /\ call.at = "written" => /\ call.mod \in Modules /\ call.before \in TextOrNone
                                     /\ call.wrote \in Texts /\ call.id \in Nat
<1>1. CASE call = Idle
  BY <1>1 DEF Idle
<1>2. CASE call \in [at : {"read"}, mod : Modules, before : TextOrNone]
  BY <1>2
<1>3. CASE call \in [at : {"written"}, mod : Modules, before : TextOrNone, wrote : Texts, id : Nat]
  BY <1>3
<1> QED BY <1>1, <1>2, <1>3 DEF TypeInv, OpTypes, CallStates

LEMMA SaveFacts ==
    ASSUME TypeInv
    PROVE  /\ save.at \in {"idle", "written"}
           /\ save.at = "written" => save.mod \in Modules /\ save.wrote \in Texts
<1>1. CASE save = Idle
  BY <1>1 DEF Idle
<1>2. CASE save \in [at : {"written"}, mod : Modules, wrote : Texts]
  BY <1>2
<1> QED BY <1>1, <1>2 DEF TypeInv, OpTypes, SaveStates

LEMMA RevertFacts ==
    ASSUME TypeInv
    PROVE  /\ revert.at \in {"idle", "checked", "written"}
           /\ revert.at # "idle" =>
                 /\ revert \in [at : {"checked", "written"}, mod : Modules, record : Pending,
                                known : SUBSET Nat]
                 /\ revert.mod \in Modules
<1>1. CASE revert = Idle
  BY <1>1 DEF Idle
<1>2. CASE revert \in [at : {"checked", "written"}, mod : Modules, record : Pending, known : SUBSET Nat]
  BY <1>2
<1> QED BY <1>1, <1>2 DEF TypeInv, OpTypes, RevertStates

LEMMA WriteType ==
    ASSUME NEW id \in Nat, NEW before \in TextOrNone, NEW unread \in BOOLEAN
    PROVE  /\ Write(id, before, unread) \in Writes
           /\ Write(id, before, unread).id = id /\ Write(id, before, unread).before = before
           /\ Write(id, before, unread).at = "coming"
           /\ Write(id, before, unread).unread = unread
BY DEF Write, Writes

LEMMA HeardType ==
    ASSUME NEW w \in Writes, NEW at \in {"shown", "late"}
    PROVE  /\ [w EXCEPT !.at = at] \in Writes
           /\ [w EXCEPT !.at = at].id = w.id /\ [w EXCEPT !.at = at].before = w.before
           /\ [w EXCEPT !.at = at].unread = w.unread /\ [w EXCEPT !.at = at].at = at
BY DEF Writes

LEMMA ReviewType ==
    ASSUME NEW before \in TextOrNone, NEW after \in Texts
    PROVE  /\ Review(before, after) \in Reviews /\ Review(before, after).is = "review"
           /\ Review(before, after).before = before /\ Review(before, after).after = after
BY DEF Review, Reviews, Pending

LEMMA NoReviewType == NoReview \in Reviews /\ NoReview.is # "review"
BY DEF NoReview, Reviews, Pending

\* A write is shown, or late, when it is heard of, and the others stay as they are.
LEMMA Marked ==
    ASSUME NEW ws \in SUBSET Writes, NEW id
    PROVE  /\ MarkShown(ws, id) \in SUBSET Writes
           /\ HeardAs(ws, id) \in {"shown", "late"}
           /\ \A w \in ws : w.id # id => w \in MarkShown(ws, id)
           /\ \A w \in ws : w.id = id =>
                 /\ [w EXCEPT !.at = HeardAs(ws, id)] \in MarkShown(ws, id)
                 /\ [w EXCEPT !.at = HeardAs(ws, id)] \in Writes
           /\ \A w \in MarkShown(ws, id) :
                 \/ w \in ws /\ w.id # id
                 \/ /\ w.id = id /\ w.at = HeardAs(ws, id)
                    /\ \E v \in ws : v.id = id /\ w = [v EXCEPT !.at = HeardAs(ws, id)]
<1>0. HeardAs(ws, id) \in {"shown", "late"}
  BY DEF HeardAs
<1>1. ASSUME NEW v \in ws
      PROVE  LET w == [v EXCEPT !.at = HeardAs(ws, id)]
             IN  w \in Writes /\ w.id = v.id /\ w.at = HeardAs(ws, id)
  <2>1. v \in Writes
    OBVIOUS
  <2> QED BY <1>0, <2>1, HeardType
<1>2. ASSUME NEW w \in MarkShown(ws, id)
      PROVE  \/ w \in ws /\ w.id # id
             \/ /\ w.id = id /\ w.at = HeardAs(ws, id)
                /\ \E v \in ws : v.id = id /\ w = [v EXCEPT !.at = HeardAs(ws, id)]
  <2>1. PICK v \in ws : w = IF v.id = id THEN [v EXCEPT !.at = HeardAs(ws, id)] ELSE v
    BY DEF MarkShown
  <2>2. CASE v.id = id
    <3>1. w = [v EXCEPT !.at = HeardAs(ws, id)]
      BY <2>1, <2>2
    <3>2. w.id = id /\ w.at = HeardAs(ws, id)
      BY <1>1, <2>2, <3>1
    <3> QED BY <2>2, <3>1, <3>2
  <2> QED BY <2>1, <2>2
<1>3. \A w \in MarkShown(ws, id) : w \in Writes
  BY <1>1 DEF MarkShown
<1>4. \A w \in ws : /\ w.id # id => w \in MarkShown(ws, id)
                    /\ w.id = id => [w EXCEPT !.at = HeardAs(ws, id)] \in MarkShown(ws, id)
  BY DEF MarkShown
<1> QED BY <1>0, <1>1, <1>2, <1>3, <1>4

LEMMA UnshownType ==
    ASSUME NEW ws \in SUBSET Writes
    PROVE  Unshown(ws) \in SUBSET Writes
BY DEF Unshown

-----------------------------------------------------------------------------
(* The records of the review hold what their types say.                    *)

LEMMA ResolveTypes ==
    ASSUME TypeInv, NEW m \in Modules, NEW ws \in SUBSET Writes, Resolve(m, ws)
    PROVE  ReviewTypes' /\ PresenterTypes'
<1>1. ReviewTypes'
  BY NoReviewType DEF Resolve, TypeInv, ReviewTypes
<1>2. /\ presented' \in Modules \cup {NoModule} /\ held' \in Modules \cup {NoModule}
      /\ latest' \in Modules \cup {NoModule}
  BY DEF Resolve, TypeInv, PresenterTypes
<1>3. timer' \in BOOLEAN
  BY Zenon DEF Resolve, TypeInv, PresenterTypes
<1> QED BY <1>1, <1>2, <1>3 DEF PresenterTypes

LEMMA PresentTypes ==
    ASSUME TypeInv, NEW m \in Modules, NEW before \in TextOrNone, NEW after \in Texts,
           NEW id, PresentWrite(m, before, after, id)
    PROVE  ReviewTypes' /\ PresenterTypes'
<1>1. open[m] \in SUBSET Writes /\ MarkShown(open[m], id) \in SUBSET Writes
      /\ Unshown(MarkShown(open[m], id)) \in SUBSET Writes
  BY StateFacts, Marked, UnshownType
<1>2. Merged(m, before, after) \in Reviews
  <2>1. (IF Reviewed(m) THEN pending[m].before ELSE before) \in TextOrNone
    BY StateFacts DEF Pending
  <2> QED BY <2>1, ReviewType DEF Merged
<1>3. CASE BackWhereItWas(Merged(m, before, after))
  BY <1>1, <1>3, ResolveTypes DEF PresentWrite
<1>4. CASE ~BackWhereItWas(Merged(m, before, after))
  <2>1. /\ pending' = [pending EXCEPT ![m] = Merged(m, before, after)]
        /\ open' = [open EXCEPT ![m] = MarkShown(open[m], id)]
        /\ latest' = m /\ PresentReview(m)
    BY <1>4 DEF PresentWrite
  <2>2. ReviewTypes'
    BY <1>1, <1>2, <2>1 DEF TypeInv, ReviewTypes
  <2>3. /\ presented' \in Modules \cup {NoModule} /\ held' \in Modules \cup {NoModule}
        /\ latest' \in Modules \cup {NoModule}
    BY <2>1 DEF PresentReview, TypeInv, PresenterTypes
  <2>4. timer' \in BOOLEAN
    BY <2>1 DEF PresentReview
  <2> QED BY <2>2, <2>3, <2>4 DEF PresenterTypes
<1> QED BY <1>3, <1>4

LEMMA TrackTypes ==
    ASSUME TypeInv, NEW m \in Modules, NEW new \in Texts, NEW ws \in SUBSET Writes,
           TrackWrite(m, new, ws)
    PROVE  ReviewTypes' /\ PresenterTypes'
<1>1. Unshown(ws) \in SUBSET Writes
  BY UnshownType
<1>2. CASE ~Reviewed(m)
  <2>1. open' = [open EXCEPT ![m] = ws] /\ UNCHANGED <<pending, presenter, latest>>
    BY <1>2 DEF TrackWrite
  <2>2. ReviewTypes'
    BY <2>1 DEF TypeInv, ReviewTypes
  <2>3. PresenterTypes'
    BY <2>1 DEF TypeInv, PresenterTypes, presenter
  <2> QED BY <2>2, <2>3
<1>3. CASE Reviewed(m) /\ BackWhereItWas(Review(pending[m].before, new))
  BY <1>1, <1>3, ResolveTypes DEF TrackWrite
<1>4. CASE Reviewed(m) /\ ~BackWhereItWas(Review(pending[m].before, new))
  <2>1. /\ pending' = [pending EXCEPT ![m].after = new]
        /\ open' = [open EXCEPT ![m] = ws] /\ UNCHANGED <<presenter, latest>>
    BY <1>4 DEF TrackWrite
  <2>2. [pending[m] EXCEPT !.after = new] \in Reviews
    BY <1>4, StateFacts DEF Reviews, Pending
  <2>3. ReviewTypes'
    BY <2>1, <2>2 DEF TypeInv, ReviewTypes
  <2>4. PresenterTypes'
    BY <2>1 DEF TypeInv, PresenterTypes, presenter
  <2> QED BY <2>3, <2>4
<1> QED BY <1>2, <1>3, <1>4

LEMMA HeardTypes ==
    ASSUME TypeInv, NEW m \in Modules, NEW id
    PROVE  /\ MarkShown(open[m], id) \in SUBSET Writes
           /\ Unshown(open[m]) \in SUBSET Writes
           /\ Unshown(MarkShown(open[m], id)) \in SUBSET Writes
           /\ {w \in open[m] : w.id # id} \in SUBSET Writes
BY StateFacts, Marked, UnshownType

\* An agent writes.
LEMMA AgentWritesTypes ==
    ASSUME TypeInv, NEW m \in Modules, NEW t \in TextOrNone, NEW unread \in BOOLEAN,
           writes < MaxWrites, AgentWrites(m, t, unread), UNCHANGED <<pending, presenter, latest, acts>>
    PROVE  TextTypes' /\ ReviewTypes' /\ PresenterTypes'
<1>1. Written(m, unread) \in SUBSET Writes
  BY StateFacts, WriteType DEF Written
<1>2. writes' \in 0 .. MaxWrites
  BY BoundsAssumption DEF AgentWrites, TypeInv, TextTypes
<1>3. text' \in [Modules -> TextOrNone] /\ author' \in [Modules -> {"user", "agent", "both", "other"}]
  BY DEF AgentWrites, TypeInv, TextTypes
<1>4. TextTypes'
  BY <1>2, <1>3 DEF TextTypes, TypeInv
<1>5. ReviewTypes'
  BY <1>1 DEF AgentWrites, TypeInv, ReviewTypes
<1>6. PresenterTypes'
  BY DEF TypeInv, PresenterTypes, presenter
<1> QED BY <1>4, <1>5, <1>6

\* Somebody else does.
LEMMA TextStepTypes ==
    ASSUME TypeInv, NEW m \in Modules, NEW t \in TextOrNone,
           text' = [text EXCEPT ![m] = t],
           \E a \in {"user", "other"} : author' = [author EXCEPT ![m] = a],
           UNCHANGED writes, Acts \/ UNCHANGED acts
    PROVE  TextTypes'
<1>1. acts' \in 0 .. MaxUser
  BY BoundsAssumption DEF Acts, TypeInv, TextTypes
<1>2. text' \in [Modules -> TextOrNone] /\ author' \in [Modules -> {"user", "agent", "both", "other"}]
  BY DEF TypeInv, TextTypes
<1> QED BY <1>1, <1>2 DEF TextTypes, TypeInv

LEMMA ActTypes ==
    ASSUME TypeInv, Acts, UNCHANGED <<text, author, writes>>
    PROVE  TextTypes'
BY BoundsAssumption DEF Acts, TypeInv, TextTypes

LEMMA SameTypes ==
    ASSUME TypeInv
    PROVE  /\ UNCHANGED <<text, author, writes, acts>> => TextTypes'
           /\ UNCHANGED <<pending, open>> => ReviewTypes'
           /\ UNCHANGED <<presenter, latest>> => PresenterTypes'
           /\ UNCHANGED ops => OpTypes'
<1>1. UNCHANGED <<text, author, writes, acts>> => TextTypes'
  BY DEF TypeInv, TextTypes
<1>2. UNCHANGED <<pending, open>> => ReviewTypes'
  BY DEF TypeInv, ReviewTypes
<1>3. UNCHANGED <<presenter, latest>> => PresenterTypes'
  BY DEF TypeInv, PresenterTypes, presenter
<1>4. UNCHANGED ops => OpTypes'
  BY DEF TypeInv, OpTypes, ops
<1> QED BY <1>1, <1>2, <1>3, <1>4

LEMMA InitTypes == Init => TypeInv
<1> SUFFICES ASSUME Init PROVE TypeInv
  OBVIOUS
<1>1. TextTypes
  BY BoundsAssumption DEF Init, TextTypes, TextOrNone
<1>2. ReviewTypes
  BY NoReviewType DEF Init, ReviewTypes
<1>3. PresenterTypes
  BY DEF Init, PresenterTypes
<1>4. OpTypes
  BY EmptySeq DEF Init, OpTypes, CallStates, SaveStates, RevertStates
<1> QED BY <1>1, <1>2, <1>3, <1>4 DEF TypeInv

LEMMA StepTypes == ASSUME TypeInv, [Next]_vars PROVE TypeInv'
<1> USE DEF ghosts, ops
<1>1. CASE \E m \in Modules : CallReads(m)
  <2> PICK m \in Modules : CallReads(m)
    BY <1>1
  <2>1. UNCHANGED <<text, pending, presenter, ghosts, writes, acts>>
    BY DEF CallReads
  <2>2. call' \in CallStates
    <3>1. Befores(m) \subseteq TextOrNone
      BY StateFacts DEF Befores, TextOrNone
    <3> QED BY <3>1 DEF CallReads, CallStates
  <2>3. OpTypes'
    BY <2>2 DEF CallReads, TypeInv, OpTypes
  <2> QED BY <2>1, <2>3, SameTypes DEF TypeInv
<1>2. CASE \E t \in Texts : CallWrites(t)
  <2> PICK t \in Texts : CallWrites(t)
    BY <1>2
  <2>1. /\ call.mod \in Modules /\ call.before \in TextOrNone /\ writes < MaxWrites
        /\ \E unread \in BOOLEAN : AgentWrites(call.mod, t, unread)
        /\ UNCHANGED <<pending, presenter, latest, acts>>
    BY CallFacts DEF CallWrites
  <2>2. TextTypes' /\ ReviewTypes' /\ PresenterTypes'
    BY <2>1, AgentWritesTypes DEF TextOrNone
  <2>3. call' \in CallStates
    BY <2>1, StateFacts DEF CallWrites, CallStates
  <2>4. OpTypes'
    BY <2>3 DEF CallWrites, TypeInv, OpTypes
  <2> QED BY <2>2, <2>4 DEF TypeInv
<1>3. CASE CallPresents
  <2>1. /\ call.mod \in Modules /\ call.before \in TextOrNone
        /\ Afters(call.mod, call.wrote) \subseteq Texts
    BY <1>3, CallFacts, StateFacts DEF CallPresents, Afters, TextOrNone
  <2>2. PICK after \in Texts : PresentWrite(call.mod, call.before, after, call.id)
    BY <1>3, <2>1 DEF CallPresents
  <2>3. ReviewTypes' /\ PresenterTypes'
    BY <2>1, <2>2, PresentTypes
  <2>4. OpTypes'
    BY <1>3 DEF CallPresents, TypeInv, OpTypes, CallStates
  <2>5. TextTypes'
    BY <1>3, SameTypes DEF CallPresents
  <2> QED BY <2>3, <2>4, <2>5 DEF TypeInv
<1>4. CASE \E m \in Modules, t \in TextOrNone : McpWrites(m, t)
  <2> PICK m \in Modules, t \in TextOrNone : McpWrites(m, t)
    BY <1>4
  <2>1. /\ writes < MaxWrites /\ AgentWrites(m, t, FALSE)
        /\ UNCHANGED <<pending, presenter, latest, acts>>
    BY DEF McpWrites
  <2>2. TextTypes' /\ ReviewTypes' /\ PresenterTypes'
    BY <2>1, AgentWritesTypes
  <2>3. [mod |-> m, before |-> text[m], after |-> t, id |-> writes] \in Reports
    BY StateFacts DEF Reports
  <2>4. reports' \in Seq(Reports)
    BY <2>3, AppendProperties DEF McpWrites, TypeInv, OpTypes
  <2>5. OpTypes'
    BY <2>4 DEF McpWrites, TypeInv, OpTypes
  <2> QED BY <2>2, <2>5 DEF TypeInv
<1>5. CASE \E shown \in BOOLEAN : McpReported(shown)
  <2> PICK shown \in BOOLEAN : McpReported(shown)
    BY <1>5
  <2>1. /\ Head(reports) \in Reports /\ reports' \in Seq(Reports)
    BY HeadTailProperties DEF McpReported, TypeInv, OpTypes
  <2> DEFINE r == Head(reports)
  <2>2. r.mod \in Modules /\ r.before \in TextOrNone /\ r.after \in TextOrNone
    BY <2>1 DEF Reports
  <2>3. r.after # NoText => Afters(r.mod, r.after) \subseteq Texts
    BY <2>2, StateFacts DEF Afters, TextOrNone
  <2> HIDE DEF r
  <2>4. ReviewTypes' /\ PresenterTypes'
    <3> DEFINE heard == MarkShown(open[r.mod], r.id)
               left == IF Reviewed(r.mod) THEN heard ELSE {w \in open[r.mod] : w.id # r.id}
    <3>1. \/ Resolve(r.mod, Unshown(heard))
          \/ r.after # NoText /\ \E after \in Afters(r.mod, r.after) :
                \/ PresentWrite(r.mod, r.before, after, r.id)
                \/ TrackWrite(r.mod, after, left)
      BY DEF McpReported, r
    <3>2. Unshown(heard) \in SUBSET Writes /\ left \in SUBSET Writes
      BY <2>2, HeardTypes
    <3> HIDE DEF heard, left
    <3>3. CASE Resolve(r.mod, Unshown(heard))
      BY <2>2, <3>2, <3>3, ResolveTypes
    <3>4. ASSUME NEW after \in Texts, PresentWrite(r.mod, r.before, after, r.id)
          PROVE  ReviewTypes' /\ PresenterTypes'
      BY <2>2, <3>4, PresentTypes
    <3>5. ASSUME NEW after \in Texts, TrackWrite(r.mod, after, left)
          PROVE  ReviewTypes' /\ PresenterTypes'
      BY <2>2, <3>2, <3>5, TrackTypes
    <3> QED BY <2>3, <3>1, <3>3, <3>4, <3>5
  <2>5. OpTypes'
    BY <2>1 DEF McpReported, TypeInv, OpTypes
  <2>6. TextTypes'
    BY SameTypes DEF McpReported
  <2> QED BY <2>4, <2>5, <2>6 DEF TypeInv
<1>6. CASE \E m \in Modules, t \in Texts : SaveWrites(m, t)
  <2> PICK m \in Modules, t \in Texts : SaveWrites(m, t)
    BY <1>6
  <2>1. TextTypes'
    <3>1. t \in TextOrNone /\ Acts /\ text' = [text EXCEPT ![m] = t]
          /\ author' = [author EXCEPT ![m] = "user"] /\ writes' = writes
      BY DEF SaveWrites, TextOrNone
    <3> QED BY <3>1, TextStepTypes
  <2>2. ReviewTypes' /\ PresenterTypes'
    BY SameTypes DEF SaveWrites
  <2>3. save' \in SaveStates
    BY DEF SaveWrites, SaveStates
  <2>4. OpTypes'
    BY <2>3 DEF SaveWrites, TypeInv, OpTypes
  <2> QED BY <2>1, <2>2, <2>4 DEF TypeInv
<1>7. CASE SaveTracks
  <2>1. /\ save.mod \in Modules /\ save.wrote \in Texts /\ open[save.mod] \in SUBSET Writes
        /\ TrackWrite(save.mod, save.wrote, open[save.mod])
    BY <1>7, SaveFacts, StateFacts DEF SaveTracks
  <2>2. ReviewTypes' /\ PresenterTypes'
    BY <2>1, TrackTypes
  <2>3. OpTypes'
    BY <1>7 DEF SaveTracks, TypeInv, OpTypes, SaveStates
  <2>4. TextTypes'
    BY <1>7, SameTypes DEF SaveTracks
  <2> QED BY <2>2, <2>3, <2>4 DEF TypeInv
<1>8. CASE \E m \in Modules : Keep(m)
  <2> PICK m \in Modules : Keep(m)
    BY <1>8
  <2>1. Resolve(m, Unshown(open[m])) /\ Unshown(open[m]) \in SUBSET Writes
    BY HeardTypes DEF Keep
  <2>2. ReviewTypes' /\ PresenterTypes'
    BY <2>1, ResolveTypes
  <2>3. TextTypes' /\ OpTypes'
    BY ActTypes, SameTypes DEF Keep
  <2> QED BY <2>2, <2>3 DEF TypeInv
<1>9. CASE \E m \in Modules : Delete(m)
  <2> PICK m \in Modules : Delete(m)
    BY <1>9
  <2>1. Resolve(m, Unshown(open[m])) /\ Unshown(open[m]) \in SUBSET Writes
    BY HeardTypes DEF Delete
  <2>2. ReviewTypes' /\ PresenterTypes'
    BY <2>1, ResolveTypes
  <2>3. TextTypes'
    <3>1. NoText \in TextOrNone /\ Acts /\ text' = [text EXCEPT ![m] = NoText]
          /\ author' = [author EXCEPT ![m] = "user"] /\ writes' = writes
      BY DEF Delete, TextOrNone
    <3> QED BY <3>1, TextStepTypes
  <2>4. OpTypes'
    BY SameTypes DEF Delete
  <2> QED BY <2>2, <2>3, <2>4 DEF TypeInv
<1>10. CASE \E m, n \in Modules : Rename(m, n)
  <2> PICK m \in Modules, n \in Modules : Rename(m, n)
    BY <1>10
  <2>1. text[m] \in TextOrNone /\ pending[m] \in Reviews /\ open[m] \in SUBSET Writes
    BY StateFacts
  <2>2. TextTypes'
    <3>1. text' \in [Modules -> TextOrNone]
      BY <2>1 DEF Rename, TypeInv, TextTypes, TextOrNone
    <3>2. author' \in [Modules -> {"user", "agent", "both", "other"}]
      BY DEF Rename, TypeInv, TextTypes
    <3>3. acts' \in 0 .. MaxUser
      BY BoundsAssumption DEF Rename, Acts, TypeInv, TextTypes
    <3>4. writes' = writes
      BY DEF Rename
    <3> QED BY <3>1, <3>2, <3>3, <3>4 DEF TextTypes, TypeInv
  <2>3. pending' \in [Modules -> Reviews]
    <3>1. pending' = pending \/ pending' = [pending EXCEPT ![m] = NoReview, ![n] = pending[m]]
      BY DEF Rename, RenameReview
    <3> QED BY <2>1, <3>1, NoReviewType DEF TypeInv, ReviewTypes
  <2>4. open' \in [Modules -> SUBSET Writes]
    BY <2>1 DEF Rename, TypeInv, ReviewTypes
  <2>5. /\ presented' \in Modules \cup {NoModule} /\ held' \in Modules \cup {NoModule}
        /\ latest' \in Modules \cup {NoModule}
    BY DEF Rename, RenameReview, TypeInv, PresenterTypes
  <2>6. timer' \in BOOLEAN
    BY Zenon DEF Rename, TypeInv, PresenterTypes
  <2>7. OpTypes'
    BY SameTypes DEF Rename
  <2> QED BY <2>2, <2>3, <2>4, <2>5, <2>6, <2>7 DEF TypeInv, ReviewTypes, PresenterTypes
<1>11. CASE \E m \in Modules, t \in Texts : OutsideWrite(m, t)
  <2> PICK m \in Modules, t \in Texts : OutsideWrite(m, t)
    BY <1>11
  <2>1. TextTypes'
    <3>1. t \in TextOrNone /\ Acts /\ text' = [text EXCEPT ![m] = t]
          /\ author' = [author EXCEPT ![m] = "other"] /\ writes' = writes
      BY DEF OutsideWrite, TextOrNone
    <3> QED BY <3>1, TextStepTypes
  <2>2. ReviewTypes' /\ PresenterTypes' /\ OpTypes'
    BY SameTypes DEF OutsideWrite
  <2> QED BY <2>1, <2>2 DEF TypeInv
<1>12. CASE \E m \in Modules : RevertChecks(m)
  <2> PICK m \in Modules : RevertChecks(m)
    BY <1>12
  <2>1. TextTypes'
    BY ActTypes DEF RevertChecks
  <2>2. ReviewTypes' /\ PresenterTypes'
    BY SameTypes DEF RevertChecks
  <2>3. revert' \in RevertStates
    <3>1. open[m] \in SUBSET Writes /\ pending[m] \in Pending
      BY StateFacts DEF RevertChecks, MayRevert
    <3>2. {w.id : w \in open[m] \ Unshown(open[m])} \in SUBSET Nat
      BY <3>1 DEF Writes
    <3> QED BY <3>1, <3>2 DEF RevertChecks, RevertStates
  <2>4. OpTypes'
    BY <2>3 DEF RevertChecks, TypeInv, OpTypes
  <2> QED BY <2>1, <2>2, <2>4 DEF TypeInv
<1>13. CASE RevertWrites
  <2>1. revert.at = "checked"
    BY <1>13 DEF RevertWrites
  <2>2. /\ revert \in [at : {"checked", "written"}, mod : Modules, record : Pending,
                       known : SUBSET Nat]
        /\ revert.mod \in Modules
    BY <2>1, RevertFacts
  <2>3. ReviewTypes' /\ PresenterTypes'
    BY <1>13, SameTypes DEF RevertWrites
  <2>4. revert' \in RevertStates
    BY <1>13, <2>2 DEF RevertWrites, RevertStates
  <2>5. OpTypes'
    BY <1>13, <2>4 DEF RevertWrites, TypeInv, OpTypes
  <2>6. TextTypes'
    <3>1. CASE revert.record.before = NoText /\ text[revert.mod] = NoText
      BY <1>13, <3>1, SameTypes DEF RevertWrites
    <3>2. CASE ~(revert.record.before = NoText /\ text[revert.mod] = NoText)
      <4>1. /\ text' = [text EXCEPT ![revert.mod] = revert.record.before]
            /\ \E a \in {"user", "other"} : author' = [author EXCEPT ![revert.mod] = a]
            /\ UNCHANGED <<writes, acts>>
        BY <1>13, <3>2 DEF RevertWrites
      <4> QED BY <2>2, <4>1, TextStepTypes DEF Pending
    <3> QED BY <3>1, <3>2
  <2> QED BY <2>3, <2>5, <2>6 DEF TypeInv
<1>14. CASE RevertEnds
  <2>1. revert.mod \in Modules /\ Resolve(revert.mod, {w \in open[revert.mod] : w.id \notin revert.known})
    BY <1>14, RevertFacts DEF RevertEnds
  <2>2. {w \in open[revert.mod] : w.id \notin revert.known} \in SUBSET Writes
    BY <2>1, StateFacts
  <2>3. ReviewTypes' /\ PresenterTypes'
    BY <2>1, <2>2, ResolveTypes
  <2>4. OpTypes'
    BY <1>14 DEF RevertEnds, TypeInv, OpTypes, RevertStates
  <2>5. TextTypes'
    BY <1>14, SameTypes DEF RevertEnds
  <2> QED BY <2>3, <2>4, <2>5 DEF TypeInv
<1>15. CASE OpenHeldReview
  <2>1. UNCHANGED <<text, pending, ops, ghosts, writes, acts>>
    BY <1>15 DEF OpenHeldReview
  <2>2. PresenterTypes'
    BY <1>15 DEF OpenHeldReview, TypeInv, PresenterTypes
  <2> QED BY <2>1, <2>2, SameTypes DEF TypeInv
<1>16. CASE UNCHANGED vars
  BY <1>16, SameTypes DEF vars, TypeInv
<1> QED
  BY <1>1, <1>2, <1>3, <1>4, <1>5, <1>6, <1>7, <1>8, <1>9, <1>10, <1>11, <1>12, <1>13,
     <1>14, <1>15, <1>16 DEF Next, TextOrNone

LEMMA TypesAlways == Spec => []TypeInv
BY InitTypes, StepTypes, PTL DEF Spec

\* What is remembered of a review, a write, a report and a Revert is of its kind;
\* in particular a module's review never ends with no text to go back from.
THEOREM TypeCorrect == Spec => []TypeOK
<1>1. ASSUME TypeInv PROVE TypeOK
  <2>1. \A m \in Modules : Reviewed(m) =>
           pending[m] \in [is : {"review"}, before : Texts \cup {NoText}, after : Texts]
    BY <1>1, StateFacts DEF Pending, TextOrNone
  <2>2. timer \in BOOLEAN
    BY <1>1, Zenon DEF TypeInv, PresenterTypes
  <2>3. /\ text \in [Modules -> Texts \cup {NoText}]
        /\ author \in [Modules -> {"user", "agent", "both", "other"}]
        /\ writes \in 0 .. MaxWrites /\ acts \in 0 .. MaxUser
    BY <1>1 DEF TypeInv, TextTypes, TextOrNone
  <2>4. /\ presented \in Modules \cup {NoModule} /\ held \in Modules \cup {NoModule}
        /\ latest \in Modules \cup {NoModule}
    BY <1>1 DEF TypeInv, PresenterTypes
  <2>5. /\ call.at \in {"idle", "read", "written"} /\ save.at \in {"idle", "written"}
        /\ revert.at \in {"idle", "checked", "written"}
    BY <1>1, CallFacts, SaveFacts, RevertFacts
  <2> QED BY <2>1, <2>2, <2>3, <2>4, <2>5 DEF TypeOK
<1> QED BY <1>1, TypesAlways, PTL

-----------------------------------------------------------------------------

(* A burst ends on the review of its latest write.                         *)

\* The latest write's review is shown, or is the one held for when the timer runs
\* out; none is held when no timer runs.
BurstInv ==
    /\ ~timer => held = NoModule
    /\ latest # NoModule /\ Reviewed(latest) =>
           IF held = NoModule THEN presented = latest ELSE held = latest

LEMMA ResolveBurst ==
    ASSUME TypeInv, BurstInv, NEW m \in Modules, NEW ws, Resolve(m, ws)
    PROVE  BurstInv'
<1>1. /\ latest' = latest /\ timer' = timer /\ held' = held
      /\ pending' = [pending EXCEPT ![m] = NoReview]
      /\ presented' = IF presented = m THEN NoModule ELSE presented
  BY DEF Resolve
<1>2. pending \in [Modules -> Reviews] /\ latest \in Modules \cup {NoModule}
  BY DEF TypeInv, PresenterTypes, ReviewTypes
<1>3. ASSUME latest # NoModule, Reviewed(latest)' PROVE latest # m /\ Reviewed(latest)
  <2>1. latest # m
    BY <1>1, <1>2, <1>3, NoReviewType DEF Reviewed
  <2> QED BY <1>1, <1>2, <1>3, <2>1 DEF Reviewed
<1>4. ~timer' => held' = NoModule
  BY <1>1 DEF BurstInv
<1>5. latest' # NoModule /\ Reviewed(latest)' =>
         IF held' = NoModule THEN presented' = latest' ELSE held' = latest'
  BY <1>1, <1>3 DEF BurstInv
<1> QED BY <1>4, <1>5 DEF BurstInv

LEMMA PresentBurst ==
    ASSUME TypeInv, BurstInv, NEW m \in Modules, NEW before, NEW after, NEW id,
           PresentWrite(m, before, after, id)
    PROVE  BurstInv'
<1>1. CASE BackWhereItWas(Merged(m, before, after))
  BY <1>1, ResolveBurst DEF PresentWrite
<1>2. CASE ~BackWhereItWas(Merged(m, before, after))
  <2>1. latest' = m /\ PresentReview(m)
    BY <1>2 DEF PresentWrite
  <2>2. CASE timer
    <3>1. timer' /\ held' = m
      BY <2>1, <2>2 DEF PresentReview
    <3> QED BY <2>1, <3>1, NoModuleAssumption DEF BurstInv, NoModule
  <2>3. CASE ~timer
    <3>1. timer' /\ held' = NoModule /\ presented' = m
      BY <2>1, <2>3 DEF PresentReview, BurstInv
    <3> QED BY <2>1, <3>1 DEF BurstInv
  <2> QED BY <2>2, <2>3
<1> QED BY <1>1, <1>2

LEMMA TrackBurst ==
    ASSUME TypeInv, BurstInv, NEW m \in Modules, NEW new, NEW ws, TrackWrite(m, new, ws)
    PROVE  BurstInv'
<1>1. CASE Reviewed(m) /\ BackWhereItWas(Review(pending[m].before, new))
  BY <1>1, ResolveBurst DEF TrackWrite
<1>2. CASE ~(Reviewed(m) /\ BackWhereItWas(Review(pending[m].before, new)))
  <2>1. /\ latest' = latest /\ timer' = timer /\ held' = held /\ presented' = presented
        /\ \/ pending' = pending
           \/ Reviewed(m) /\ pending' = [pending EXCEPT ![m].after = new]
    BY <1>2 DEF TrackWrite, presenter
  <2>2. \A n \in Modules : Reviewed(n)' <=> Reviewed(n)
    <3>1. pending \in [Modules -> Reviews]
      BY DEF TypeInv, ReviewTypes
    <3> SUFFICES ASSUME NEW n \in Modules PROVE Reviewed(n)' <=> Reviewed(n)
      OBVIOUS
    <3>2. CASE pending' = pending
      BY <3>2 DEF Reviewed
    <3>3. CASE Reviewed(m) /\ pending' = [pending EXCEPT ![m].after = new] /\ n # m
      BY <3>1, <3>3 DEF Reviewed
    <3>4. CASE Reviewed(m) /\ pending' = [pending EXCEPT ![m].after = new] /\ n = m
      <4>1. pending[m] \in Pending /\ pending'[m] = [pending[m] EXCEPT !.after = new]
        BY <3>1, <3>4, StateFacts
      <4> QED BY <3>4, <4>1 DEF Reviewed, Pending
    <3> QED BY <2>1, <3>2, <3>3, <3>4
  <2>3. latest \in Modules \cup {NoModule}
    BY DEF TypeInv, PresenterTypes
  <2> QED BY <2>1, <2>2, <2>3 DEF BurstInv
<1> QED BY <1>1, <1>2

\* A review follows the module to a name that has none.
LEMMA RenameBurst ==
    ASSUME TypeInv, BurstInv, "rename" \in AtOnce,
           NEW m \in Modules, NEW n \in Modules, Rename(m, n)
    PROVE  BurstInv'
<1>1. /\ latest' = IF latest = m THEN n ELSE IF latest = n THEN NoModule ELSE latest
      /\ timer' = timer /\ RenameReview(m, n) /\ ~Reviewed(n) /\ m # n
  BY DEF Rename
<1>2. pending \in [Modules -> Reviews] /\ latest \in Modules \cup {NoModule}
  BY DEF TypeInv, ReviewTypes, PresenterTypes
<1>3. m # NoModule /\ n # NoModule
  BY NoModuleAssumption DEF NoModule
<1>4. CASE ~Reviewed(m)
  <2>1. pending' = pending /\ held' = held /\ presented' = presented
    BY <1>1, <1>4 DEF RenameReview
  <2>2. latest' # NoModule /\ Reviewed(latest)' => latest' = latest
    BY <1>1, <1>4, <2>1 DEF Reviewed
  <2>3. ~timer' => held' = NoModule
    BY <1>1, <2>1 DEF BurstInv
  <2>4. latest' # NoModule /\ Reviewed(latest)' =>
           IF held' = NoModule THEN presented' = latest' ELSE held' = latest'
    BY <2>1, <2>2 DEF BurstInv, Reviewed
  <2> QED BY <2>3, <2>4 DEF BurstInv
<1>5. CASE Reviewed(m)
  <2>1. /\ pending' = [pending EXCEPT ![m] = NoReview, ![n] = pending[m]]
        /\ held' = IF held = m THEN n ELSE held
        /\ presented' = IF presented = m THEN n ELSE presented
    BY <1>1, <1>5 DEF RenameReview
  <2>2. ~timer' => held' = NoModule
    BY <1>1, <1>3, <2>1 DEF BurstInv
  <2>3. ASSUME latest' # NoModule, Reviewed(latest)'
        PROVE  IF held' = NoModule THEN presented' = latest' ELSE held' = latest'
    <3>1. CASE latest = m
      <4>1. IF held = NoModule THEN presented = m ELSE held = m
        BY <1>3, <1>5, <3>1 DEF BurstInv
      <4> QED BY <1>1, <1>3, <2>1, <3>1, <4>1
    <3>2. CASE latest # m
      <4>1. latest' = latest /\ latest # n /\ latest # NoModule
        BY <1>1, <2>3, <3>2
      <4>2. Reviewed(latest)
        BY <1>2, <2>1, <2>3, <3>2, <4>1 DEF Reviewed
      <4>3. IF held = NoModule THEN presented = latest ELSE held = latest
        BY <4>1, <4>2 DEF BurstInv
      <4> QED BY <1>3, <2>1, <3>2, <4>1, <4>3
    <3> QED BY <3>1, <3>2
  <2> QED BY <2>2, <2>3 DEF BurstInv
<1> QED BY <1>4, <1>5

LEMMA BurstStep ==
    ASSUME TypeInv, BurstInv, "rename" \in AtOnce, [Next]_vars
    PROVE  BurstInv'
<1>1. ASSUME UNCHANGED <<pending, presenter, latest>> PROVE BurstInv'
  BY <1>1 DEF BurstInv, Reviewed, presenter
<1>2. ASSUME NEW m \in Modules, NEW t, SaveWrites(m, t) \/ OutsideWrite(m, t) \/ McpWrites(m, t)
      PROVE  BurstInv'
  BY <1>1, <1>2 DEF SaveWrites, OutsideWrite, McpWrites
<1>3. ASSUME NEW m \in Modules, CallReads(m) \/ RevertChecks(m) PROVE BurstInv'
  BY <1>1, <1>3 DEF CallReads, RevertChecks, ghosts
<1>4. ASSUME NEW m \in Modules, Keep(m) \/ Delete(m) PROVE BurstInv'
  BY <1>4, ResolveBurst DEF Keep, Delete
<1>5. ASSUME NEW t, CallWrites(t) PROVE BurstInv'
  BY <1>1, <1>5 DEF CallWrites
<1>6. CASE CallPresents
  BY <1>6, PresentBurst, CallFacts DEF CallPresents
<1>7. CASE SaveTracks
  BY <1>7, TrackBurst, SaveFacts DEF SaveTracks
<1>8. CASE RevertWrites
  BY <1>1, <1>8 DEF RevertWrites
<1>9. CASE RevertEnds
  BY <1>9, ResolveBurst, RevertFacts DEF RevertEnds
<1>10. ASSUME NEW shown \in BOOLEAN, McpReported(shown) PROVE BurstInv'
  <2>1. Head(reports) \in Reports
    BY <1>10, HeadTailProperties DEF McpReported, TypeInv, OpTypes
  <2>2. PICK r \in Reports : r = Head(reports)
    BY <2>1
  <2>3. r.mod \in Modules
    BY <2>2 DEF Reports
  <2>4. \/ \E ws : Resolve(r.mod, ws)
        \/ \E before, after, id : PresentWrite(r.mod, before, after, id)
        \/ \E new, ws : TrackWrite(r.mod, new, ws)
    BY <1>10, <2>2 DEF McpReported
  <2> QED BY <2>3, <2>4, ResolveBurst, PresentBurst, TrackBurst
<1>11. CASE OpenHeldReview
  <2>1. held' = NoModule /\ latest' = latest /\ pending' = pending
    BY <1>11 DEF OpenHeldReview, ghosts
  <2>2. ASSUME latest # NoModule, Reviewed(latest) PROVE presented' = latest
    <3>1. latest \in Modules
      BY <2>2 DEF TypeInv, PresenterTypes
    <3>2. IF held = NoModule THEN presented = latest ELSE held = latest
      BY <2>2 DEF BurstInv
    <3>3. IF held = NoModule \/ held = presented \/ ~(held \in Modules /\ Reviewed(held))
          THEN presented' = presented ELSE presented' = held
      BY <1>11 DEF OpenHeldReview
    <3> QED BY <2>2, <3>1, <3>2, <3>3
  <2> QED BY <2>1, <2>2 DEF BurstInv, Reviewed
<1>12. CASE UNCHANGED vars
  BY <1>1, <1>12 DEF vars, ghosts
<1> QED
  BY <1>2, <1>3, <1>4, <1>5, <1>6, <1>7, <1>8, <1>9, <1>10, <1>11, <1>12, RenameBurst DEF Next

\* However many modules a burst of writes touches and in whatever order, what the
\* user is left with is the review of its latest write, as long as a rename
\* waits for the writes to be heard of.
THEOREM BurstsEndOnTheLatest ==
    ASSUME "rename" \in AtOnce
    PROVE  Spec => []BurstEndsOnLatest
<1>1. Init => BurstInv
  BY DEF Init, BurstInv
<1>2. TypeInv /\ BurstInv /\ [Next]_vars => BurstInv'
  BY BurstStep
<1>3. BurstInv => BurstEndsOnLatest
  BY DEF BurstInv, BurstEndsOnLatest
<1> QED BY <1>1, <1>2, <1>3, TypesAlways, PTL DEF Spec

-----------------------------------------------------------------------------
(* What one step does to the writes of a module and to its review.         *)

LEMMA WriteFacts ==
    \A w \in Writes :
        w.id \in Nat /\ w.before \in TextOrNone /\ w.at \in {"coming", "shown", "late"}
BY DEF Writes

LEMMA ReportFacts ==
    ASSUME TypeInv
    PROVE  /\ Len(reports) \in Nat /\ DOMAIN reports = 1..Len(reports)
           /\ \A i \in 1..Len(reports) :
                 /\ reports[i] \in Reports /\ reports[i].mod \in Modules /\ reports[i].id \in Nat
                 /\ reports[i].before \in TextOrNone /\ reports[i].after \in TextOrNone
<1>1. reports \in Seq(Reports) /\ Len(reports) \in Nat /\ DOMAIN reports = 1..Len(reports)
  BY LenProperties DEF TypeInv, OpTypes
<1>2. \A i \in 1..Len(reports) : reports[i] \in Reports
  BY <1>1, ElementOfSeq
<1> QED BY <1>1, <1>2 DEF Reports

\* The first report is taken, and those behind it move up.
LEMMA ReportTaken ==
    ASSUME TypeInv, reports # <<>>, reports' = Tail(reports)
    PROVE  /\ 1 \in 1..Len(reports) /\ Head(reports) = reports[1]
           /\ \A i \in 1..Len(reports) : i # 1 =>
                 i - 1 \in 1..Len(reports') /\ reports'[i - 1] = reports[i]
           /\ \A i \in 1..Len(reports') :
                 i + 1 \in 1..Len(reports) /\ reports'[i] = reports[i + 1]
<1>1. reports \in Seq(Reports)
  BY DEF TypeInv, OpTypes
<1>2. /\ Head(reports) = reports[1] /\ Len(reports') = Len(reports) - 1 /\ Len(reports) \in Nat
      /\ \A i \in 1..Len(reports') : reports'[i] = reports[i + 1]
  BY <1>1, HeadTailProperties, LenProperties
<1>3. Len(reports) # 0
  BY <1>1, EmptySeq
<1>4. \A i \in 1..Len(reports) : i # 1 => i - 1 \in 1..Len(reports') /\ (i - 1) + 1 = i
  BY <1>2
<1> QED BY <1>2, <1>3, <1>4

\* A report comes, behind those that wait.
LEMMA ReportAdded ==
    ASSUME TypeInv, NEW new \in Reports, reports' = Append(reports, new)
    PROVE  /\ Len(reports') = Len(reports) + 1 /\ Len(reports) \in Nat
           /\ \A i \in 1..Len(reports) : reports'[i] = reports[i]
           /\ reports'[Len(reports) + 1] = new
           /\ DOMAIN reports' = 1..Len(reports')
<1>1. reports \in Seq(Reports)
  BY DEF TypeInv, OpTypes
<1>2. reports' \in Seq(Reports)
  BY <1>1, AppendProperties
<1> QED BY <1>1, <1>2, AppendProperties, LenProperties

\* All that was coming to a module and is not heard of now is coming still.
LEMMA StillComing ==
    ASSUME NEW ws \in SUBSET Writes, NEW id
    PROVE  Unshown(MarkShown(ws, id)) = {w \in ws : w.at = "coming" /\ w.id # id}
<1> DEFINE left == {w \in ws : w.at = "coming" /\ w.id # id}
<1>1. \A v \in ws : v.id = id => [v EXCEPT !.at = HeardAs(ws, id)].at # "coming"
  <2>1. HeardAs(ws, id) # "coming"
    BY Marked
  <2>2. \A v \in ws : [v EXCEPT !.at = HeardAs(ws, id)].at = HeardAs(ws, id)
    BY Marked, HeardType
  <2> QED BY <2>1, <2>2
<1>2. ASSUME NEW w \in Unshown(MarkShown(ws, id)) PROVE w \in left
  <2>1. w \in MarkShown(ws, id) /\ w.at = "coming"
    BY DEF Unshown
  <2>2. w \in ws /\ w.id # id
    BY <1>1, <2>1, Marked
  <2> QED BY <2>1, <2>2
<1>3. ASSUME NEW w \in left PROVE w \in Unshown(MarkShown(ws, id))
  <2>1. w \in ws /\ w.at = "coming" /\ w.id # id
    OBVIOUS
  <2>2. w \in MarkShown(ws, id)
    BY <2>1, Marked
  <2> QED BY <2>1, <2>2 DEF Unshown
<1> QED BY <1>2, <1>3

Elsewhere(m) ==
    \A n \in Modules : n # m => open'[n] = open[n] /\ pending'[n] = pending[n]

\* The review of m is gone, and with it the writes it had heard of.
Decided(m) ==
    /\ Elsewhere(m)
    /\ ~Reviewed(m)' /\ open'[m] = Unshown(open[m])

\* The review of m has what it had, but for its after.
Carried(m) ==
    /\ Elsewhere(m)
    /\ open'[m] = open[m]
    /\ Reviewed(m)' => Reviewed(m) /\ pending'[m].before = pending[m].before
    /\ Reviewed(m) => Reviewed(m)'

\* A write is made in m, that the review has yet to hear of.
Makes(m, w) ==
    /\ Elsewhere(m)
    /\ open'[m] = open[m] \cup {w} /\ pending' = pending /\ writes' = writes + 1
    /\ w.id = writes /\ w.before = text[m] /\ w.at = "coming"

\* The review of m hears of the write id: it is gone, or is there and has heard.
Hears(m, id, before) ==
    /\ Elsewhere(m)
    /\ \/ ~Reviewed(m)' /\ open'[m] = {w \in open[m] : w.at = "coming" /\ w.id # id}
       \/ /\ Reviewed(m)' /\ open'[m] = MarkShown(open[m], id)
          /\ pending'[m].before = IF Reviewed(m) THEN pending[m].before ELSE before

LEMMA AgentWritesEffect ==
    ASSUME TypeInv, NEW m \in Modules, NEW t, NEW unread \in BOOLEAN,
           AgentWrites(m, t, unread), pending' = pending
    PROVE  \E w : Makes(m, w) /\ w.unread = unread
<1> DEFINE w0 == Write(writes, text[m], unread)
<1>1. open' = [open EXCEPT ![m] = open[m] \cup {w0}] /\ writes' = writes + 1
  BY DEF AgentWrites, Written
<1>2. w0.id = writes /\ w0.before = text[m] /\ w0.at = "coming" /\ w0.unread = unread
  BY StateFacts, WriteType
<1> HIDE DEF w0
<1>3. open'[m] = open[m] \cup {w0} /\ Elsewhere(m)
  BY <1>1 DEF TypeInv, ReviewTypes, Elsewhere
<1> QED BY <1>1, <1>2, <1>3 DEF Makes

LEMMA ResolveEffect ==
    ASSUME TypeInv, NEW m \in Modules, NEW ws, Resolve(m, ws)
    PROVE  Elsewhere(m) /\ ~Reviewed(m)' /\ open'[m] = ws
<1>1. pending' = [pending EXCEPT ![m] = NoReview] /\ open' = [open EXCEPT ![m] = ws]
  BY DEF Resolve
<1>2. pending'[m] = NoReview /\ open'[m] = ws /\ Elsewhere(m)
  BY <1>1 DEF TypeInv, ReviewTypes, Elsewhere
<1> QED BY <1>2, NoReviewType DEF Reviewed

LEMMA PresentEffect ==
    ASSUME TypeInv, NEW m \in Modules, NEW before, NEW after, NEW id,
           PresentWrite(m, before, after, id)
    PROVE  Hears(m, id, before) /\ (Reviewed(m)' => pending'[m].after = after)
<1> DEFINE heard == MarkShown(open[m], id)
           merged == Merged(m, before, after)
<1>1. open[m] \in SUBSET Writes
  BY StateFacts
<1>2. CASE BackWhereItWas(merged)
  <2>1. Resolve(m, Unshown(heard))
    BY <1>2 DEF PresentWrite
  <2>2. Elsewhere(m) /\ ~Reviewed(m)' /\ open'[m] = Unshown(heard)
    BY <2>1, ResolveEffect
  <2> QED BY <1>1, <2>2, StillComing DEF Hears
<1>3. CASE ~BackWhereItWas(merged)
  <2>1. /\ pending' = [pending EXCEPT ![m] = merged] /\ open' = [open EXCEPT ![m] = heard]
    BY <1>3 DEF PresentWrite
  <2>2. open'[m] = heard /\ pending'[m] = merged /\ Elsewhere(m)
    BY <2>1 DEF TypeInv, ReviewTypes, Elsewhere
  <2>3. /\ merged.is = "review" /\ merged.after = after
        /\ merged.before = IF Reviewed(m) THEN pending[m].before ELSE before
    BY DEF Merged, Review
  <2> HIDE DEF merged
  <2> QED BY <2>2, <2>3 DEF Hears, Reviewed
<1> QED BY <1>2, <1>3

\* A write that presents no review: there is none then, or it has moved, or it is
\* back where it was.
LEMMA TrackEffect ==
    ASSUME TypeInv, NEW m \in Modules, NEW new, NEW ws, TrackWrite(m, new, ws)
    PROVE  /\ Elsewhere(m)
           /\ \/ ~Reviewed(m) /\ ~Reviewed(m)' /\ open'[m] = ws
              \/ Reviewed(m) /\ ~Reviewed(m)' /\ open'[m] = Unshown(ws)
              \/ /\ Reviewed(m) /\ Reviewed(m)' /\ open'[m] = ws
                 /\ pending'[m].before = pending[m].before /\ pending'[m].after = new
<1>1. CASE ~Reviewed(m)
  <2>1. open' = [open EXCEPT ![m] = ws] /\ pending' = pending
    BY <1>1 DEF TrackWrite
  <2>2. open'[m] = ws /\ Elsewhere(m)
    BY <2>1 DEF TypeInv, ReviewTypes, Elsewhere
  <2> QED BY <1>1, <2>1, <2>2 DEF Reviewed
<1>2. CASE Reviewed(m) /\ BackWhereItWas(Review(pending[m].before, new))
  BY <1>2, ResolveEffect DEF TrackWrite
<1>3. CASE Reviewed(m) /\ ~BackWhereItWas(Review(pending[m].before, new))
  <2>1. pending' = [pending EXCEPT ![m].after = new] /\ open' = [open EXCEPT ![m] = ws]
    BY <1>3 DEF TrackWrite
  <2>2. pending[m] \in Pending
    BY <1>3, StateFacts
  <2>3. /\ pending'[m].is = "review" /\ pending'[m].before = pending[m].before
        /\ pending'[m].after = new
    BY <2>1, <2>2 DEF TypeInv, ReviewTypes, Pending
  <2>4. open'[m] = ws /\ Elsewhere(m)
    BY <2>1 DEF TypeInv, ReviewTypes, Elsewhere
  <2> QED BY <1>3, <2>3, <2>4 DEF Reviewed
<1> QED BY <1>1, <1>2, <1>3

\* Where a rename waits for the review to have heard of all.
LEMMA RenameIsQuiet ==
    ASSUME TypeInv, "rename" \in AtOnce, NEW m \in Modules, NEW n \in Modules, Rename(m, n)
    PROVE  /\ m # n /\ ~Reviewed(n) /\ call.at = "idle" /\ reports = <<>> /\ Len(reports) = 0
           /\ save.at = "idle" /\ revert.at = "idle" /\ \A x \in Modules : Quiet(x)
<1>1. /\ m # n /\ ~Reviewed(n) /\ call.at = "idle" /\ \A x \in Modules : Quiet(x)
  BY DEF Rename
<1>2. Len(reports) \in Nat /\ reports \in Seq(Reports)
  BY ReportFacts DEF TypeInv, OpTypes
<1>3. \A i \in 1..Len(reports) : FALSE
  BY <1>1, ReportFacts DEF Quiet
<1>4. Len(reports) = 0
  BY <1>2, <1>3
<1>5. reports = <<>>
  BY <1>2, <1>4, EmptySeq
<1>6. save.at = "idle"
  BY <1>1, SaveFacts DEF Quiet, Saving
<1>7. revert.at = "idle"
  BY <1>1, RevertFacts DEF Quiet
<1> QED BY <1>1, <1>4, <1>5, <1>6, <1>7

\* The review goes to the new name with what is undecided.
LEMMA Renamed ==
    ASSUME TypeInv, "rename" \in AtOnce, NEW m \in Modules, NEW n \in Modules, Rename(m, n)
    PROVE  /\ ~Reviewed(m)' /\ open'[m] = {} /\ open'[n] = open[m]
           /\ Reviewed(m) => pending'[n] = pending[m]
           /\ ~Reviewed(m) => ~Reviewed(n)'
           /\ \A x \in Modules : x # m /\ x # n =>
                 open'[x] = open[x] /\ pending'[x] = pending[x]
<1>1. m # n /\ ~Reviewed(n)
  BY RenameIsQuiet
<1>2. open' = [open EXCEPT ![m] = {}, ![n] = open[m]] /\ RenameReview(m, n)
  BY DEF Rename
<1>3. /\ open'[m] = {} /\ open'[n] = open[m]
      /\ \A x \in Modules : x # m /\ x # n => open'[x] = open[x]
  BY <1>1, <1>2 DEF TypeInv, ReviewTypes
<1>4. CASE ~Reviewed(m)
  <2>1. pending' = pending
    BY <1>2, <1>4 DEF RenameReview
  <2> QED BY <1>1, <1>3, <1>4, <2>1 DEF Reviewed
<1>5. CASE Reviewed(m)
  <2>1. pending' = [pending EXCEPT ![m] = NoReview, ![n] = pending[m]]
    BY <1>2, <1>5 DEF RenameReview
  <2>2. /\ pending'[m] = NoReview /\ pending'[n] = pending[m]
        /\ \A x \in Modules : x # m /\ x # n => pending'[x] = pending[x]
    BY <1>1, <2>1 DEF TypeInv, ReviewTypes
  <2> QED BY <1>3, <1>5, <2>2, NoReviewType DEF Reviewed
<1> QED BY <1>4, <1>5


-----------------------------------------------------------------------------
(* The after of a review follows its module.                               *)

AfterAt(m) ==
    Reviewed(m) /\ Quiet(m) /\ author[m] \in {"user", "agent"} /\ text[m] # NoText =>
        text[m] = pending[m].after

\* What a save is to report is what it wrote, if nobody wrote on top of it.
SaveAt(m) ==
    Saving(m) /\ author[m] \in {"user", "agent"} /\ text[m] # NoText => text[m] = save.wrote

FollowInv == \A m \in Modules : AfterAt(m) /\ SaveAt(m)

LEMMA FollowStays ==
    ASSUME NEW x \in Modules, FollowInv,
           text'[x] = text[x], pending'[x] = pending[x], author'[x] = author[x],
           Quiet(x)' => Quiet(x), Saving(x)' => Saving(x) /\ save'.wrote = save.wrote
    PROVE  AfterAt(x)' /\ SaveAt(x)'
BY DEF FollowInv, AfterAt, SaveAt, Reviewed

LEMMA QuietSame ==
    ASSUME UNCHANGED <<call, reports, save, revert>>, NEW x
    PROVE  (Quiet(x)' => Quiet(x)) /\ (Saving(x)' <=> Saving(x)) /\ save' = save
BY DEF Quiet, Saving

\* Nothing of what the invariant speaks of changes.
LEMMA FollowSame ==
    ASSUME FollowInv, UNCHANGED <<text, pending, author, save>>,
           \A x \in Modules : Quiet(x)' => Quiet(x)
    PROVE  FollowInv'
<1>1. \A x \in Modules : Saving(x)' => Saving(x) /\ save'.wrote = save.wrote
  BY DEF Saving
<1>2. \A x \in Modules : AfterAt(x)' /\ SaveAt(x)'
  BY <1>1, FollowStays
<1> QED BY <1>2 DEF FollowInv

\* An agent has written, and the review has yet to hear of it.
LEMMA AgentWritesFollow ==
    ASSUME TypeInv, FollowInv, NEW m \in Modules, NEW t, NEW unread, AgentWrites(m, t, unread),
           UNCHANGED <<pending, save>>, ~Quiet(m)',
           \A x \in Modules : x # m /\ Quiet(x)' => Quiet(x)
    PROVE  FollowInv'
<1>1. /\ text' = [text EXCEPT ![m] = t]
      /\ author' = [author EXCEPT ![m] = IF Saving(m) THEN "both" ELSE "agent"]
      /\ \A x : Saving(x)' <=> Saving(x)
  BY DEF AgentWrites, Saving
<1>2. ASSUME NEW x \in Modules, x # m PROVE AfterAt(x)' /\ SaveAt(x)'
  <2>1. text'[x] = text[x] /\ author'[x] = author[x] /\ pending'[x] = pending[x]
    BY <1>1, <1>2 DEF TypeInv, TextTypes
  <2> QED BY <1>1, <1>2, <2>1, FollowStays
<1>3. AfterAt(m)'
  BY DEF AfterAt
<1>4. SaveAt(m)'
  <2>1. Saving(m)' => author'[m] = "both"
    BY <1>1 DEF TypeInv, TextTypes
  <2> QED BY <2>1 DEF SaveAt
<1> QED BY <1>2, <1>3, <1>4 DEF FollowInv

\* The review of m hears of a write with what m reads as now, or of none.
LEMMA HearsFollow ==
    ASSUME TypeInv, FollowInv, NEW m \in Modules, Elsewhere(m),
           Reviewed(m)' /\ text[m] # NoText =>
               pending'[m].after = text[m] \/ (Quiet(m)' => author[m] \notin {"user", "agent"}),
           UNCHANGED <<text, author>>,
           \A x \in Modules : x # m /\ Quiet(x)' => Quiet(x),
           \A x \in Modules : Saving(x)' => Saving(x) /\ save'.wrote = save.wrote
    PROVE  FollowInv'
<1>1. ASSUME NEW x \in Modules, x # m PROVE AfterAt(x)' /\ SaveAt(x)'
  BY <1>1, FollowStays DEF Elsewhere
<1>2. AfterAt(m)'
  BY DEF AfterAt
<1>3. SaveAt(m)'
  BY DEF SaveAt, FollowInv
<1> QED BY <1>1, <1>2, <1>3 DEF FollowInv

LEMMA AgentFollows ==
    ASSUME TypeInv, FollowInv, "after" \notin Fails
    PROVE  /\ \A t : CallWrites(t) => FollowInv'
           /\ CallPresents => FollowInv'
<1>1. ASSUME NEW t, CallWrites(t) PROVE FollowInv'
  <2>1. PICK m \in Modules : m = call.mod
    BY <1>1, CallFacts DEF CallWrites
  <2>2. /\ \E unread : AgentWrites(m, t, unread)
        /\ UNCHANGED <<pending, save, reports, revert>>
        /\ call.at = "read" /\ call'.at = "written" /\ call'.mod = m
    BY <1>1, <2>1 DEF CallWrites
  <2>3. ~Quiet(m)' /\ \A x \in Modules : Quiet(x)' => Quiet(x)
    BY <2>2 DEF Quiet, Saving
  <2> QED BY <2>2, <2>3, AgentWritesFollow
<1>2. ASSUME CallPresents PROVE FollowInv'
  <2>1. PICK m \in Modules : m = call.mod
    BY <1>2, CallFacts DEF CallPresents
  <2>2. /\ call.at = "written" /\ call'.at = "idle"
        /\ UNCHANGED <<text, author, reports, save, revert>>
    BY <1>2 DEF CallPresents, Idle
  <2>3. PICK after \in Afters(m, call.wrote) : PresentWrite(m, call.before, after, call.id)
    BY <1>2, <2>1 DEF CallPresents
  <2>4. text[m] # NoText => after = text[m]
    BY <2>3 DEF Afters
  <2>5. Elsewhere(m) /\ (Reviewed(m)' => pending'[m].after = after)
    BY <2>3, PresentEffect DEF Hears
  <2>6. \A x \in Modules : x # m /\ Quiet(x)' => Quiet(x)
    BY <2>1, <2>2 DEF Quiet, Saving
  <2>7. \A x \in Modules : Saving(x)' => Saving(x) /\ save'.wrote = save.wrote
    BY <2>2 DEF Saving
  <2> QED BY <2>2, <2>4, <2>5, <2>6, <2>7, HearsFollow
<1> QED BY <1>1, <1>2

LEMMA McpFollows ==
    ASSUME TypeInv, FollowInv, "after" \notin Fails
    PROVE  /\ \A m \in Modules, t \in TextOrNone : McpWrites(m, t) => FollowInv'
           /\ \A shown \in BOOLEAN : McpReported(shown) => FollowInv'
<1>1. ASSUME NEW m \in Modules, NEW t \in TextOrNone, McpWrites(m, t) PROVE FollowInv'
  <2> DEFINE new == [mod |-> m, before |-> text[m], after |-> t, id |-> writes]
  <2>1. /\ AgentWrites(m, t, FALSE) /\ UNCHANGED <<pending, call, save, revert>>
        /\ reports' = Append(reports, new)
    BY <1>1 DEF McpWrites
  <2>2. new \in Reports /\ new.mod = m
    BY StateFacts DEF Reports
  <2> HIDE DEF new
  <2>3. /\ Len(reports) + 1 \in DOMAIN reports' /\ reports'[Len(reports) + 1].mod = m
        /\ \A i \in DOMAIN reports : i \in DOMAIN reports' /\ reports'[i] = reports[i]
    BY <2>1, <2>2, ReportAdded, ReportFacts
  <2>4. ~Quiet(m)' /\ \A x \in Modules : Quiet(x)' => Quiet(x)
    BY <2>1, <2>3 DEF Quiet, Saving
  <2> QED BY <2>1, <2>4, AgentWritesFollow
<1>2. ASSUME NEW shown \in BOOLEAN, McpReported(shown) PROVE FollowInv'
  <2>1. reports # <<>> /\ reports' = Tail(reports) /\ UNCHANGED <<text, author, call, save, revert>>
    BY <1>2 DEF McpReported
  <2>2. PICK r \in Reports : r = Head(reports) /\ r = reports[1]
    BY <2>1, ReportTaken, ReportFacts
  <2>3. PICK m \in Modules : m = r.mod
    BY <2>2 DEF Reports
  <2>4. Elsewhere(m) /\ (Reviewed(m)' /\ text[m] # NoText => pending'[m].after = text[m])
    <3>1. CASE \E ws : Resolve(m, ws)
      BY <3>1, ResolveEffect
    <3>2. CASE \E after \in Afters(m, r.after) : PresentWrite(m, r.before, after, r.id)
      <4> PICK after \in Afters(m, r.after) : PresentWrite(m, r.before, after, r.id)
        BY <3>2
      <4>1. text[m] # NoText => after = text[m]
        BY DEF Afters
      <4> QED BY <4>1, PresentEffect DEF Hears
    <3>3. CASE \E after \in Afters(m, r.after) : \E ws : TrackWrite(m, after, ws)
      <4> PICK after \in Afters(m, r.after) : \E ws : TrackWrite(m, after, ws)
        BY <3>3
      <4> PICK ws : TrackWrite(m, after, ws)
        OBVIOUS
      <4>1. text[m] # NoText => after = text[m]
        BY DEF Afters
      <4> QED BY <4>1, TrackEffect
    <3> QED BY <1>2, <2>2, <2>3, <3>1, <3>2, <3>3 DEF McpReported
  <2>5. \A x \in Modules : x # m /\ Quiet(x)' => Quiet(x)
    <3> SUFFICES ASSUME NEW x \in Modules, x # m, Quiet(x)' PROVE Quiet(x)
      OBVIOUS
    <3>1. DOMAIN reports' = 1..Len(reports')
      BY <2>1, ReportFacts, HeadTailProperties, LenProperties DEF TypeInv, OpTypes
    <3>2. \A i \in DOMAIN reports : reports[i].mod # x
      <4> SUFFICES ASSUME NEW i \in 1..Len(reports) PROVE reports[i].mod # x
        BY ReportFacts
      <4>1. CASE i = 1
        BY <2>2, <2>3, <4>1
      <4>2. CASE i # 1
        <5>1. i - 1 \in DOMAIN reports' /\ reports'[i - 1] = reports[i]
          BY <2>1, <3>1, <4>2, ReportTaken
        <5> QED BY <5>1 DEF Quiet
      <4> QED BY <4>1, <4>2
    <3> QED BY <2>1, <3>2 DEF Quiet, Saving
  <2>6. \A x \in Modules : Saving(x)' => Saving(x) /\ save'.wrote = save.wrote
    BY <2>1 DEF Saving
  <2> QED BY <2>1, <2>4, <2>5, <2>6, HearsFollow
<1> QED BY <1>1, <1>2

LEMMA SaveFollows ==
    ASSUME TypeInv, FollowInv
    PROVE  /\ \A m \in Modules, t \in Texts : SaveWrites(m, t) => FollowInv'
           /\ SaveTracks => FollowInv'
<1>1. ASSUME NEW m \in Modules, NEW t \in Texts, SaveWrites(m, t) PROVE FollowInv'
  <2>1. /\ text' = [text EXCEPT ![m] = t] /\ author' = [author EXCEPT ![m] = "user"]
        /\ save.at = "idle" /\ save'.at = "written" /\ save'.mod = m /\ save'.wrote = t
        /\ UNCHANGED <<pending, call, reports, revert>>
    BY <1>1 DEF SaveWrites
  <2>2. ~Quiet(m)' /\ \A x \in Modules : x # m => (Quiet(x)' => Quiet(x)) /\ ~Saving(x)'
    BY <2>1 DEF Quiet, Saving
  <2>3. ASSUME NEW x \in Modules, x # m PROVE AfterAt(x)' /\ SaveAt(x)'
    <3>1. text'[x] = text[x] /\ author'[x] = author[x] /\ pending'[x] = pending[x]
      BY <2>1, <2>3 DEF TypeInv, TextTypes
    <3> QED BY <2>2, <2>3, <3>1, FollowStays
  <2>4. AfterAt(m)'
    BY <2>2 DEF AfterAt
  <2>5. SaveAt(m)'
    BY <2>1 DEF SaveAt, TypeInv, TextTypes
  <2> QED BY <2>3, <2>4, <2>5 DEF FollowInv
<1>2. ASSUME SaveTracks PROVE FollowInv'
  <2>1. PICK m \in Modules : m = save.mod
    BY <1>2, SaveFacts DEF SaveTracks
  <2>2. /\ save.at = "written" /\ save'.at = "idle" /\ TrackWrite(m, save.wrote, open[m])
        /\ UNCHANGED <<text, author, call, reports, revert>>
    BY <1>2, <2>1 DEF SaveTracks, Idle
  <2>3. Elsewhere(m) /\ (Reviewed(m)' => pending'[m].after = save.wrote)
    BY <2>2, TrackEffect
  <2>4. author[m] \in {"user", "agent"} /\ text[m] # NoText => text[m] = save.wrote
    BY <2>1, <2>2 DEF FollowInv, SaveAt, Saving
  <2>5. \A x \in Modules : (x # m /\ Quiet(x)' => Quiet(x)) /\ ~Saving(x)'
    BY <2>1, <2>2 DEF Quiet, Saving
  <2> QED BY <2>2, <2>3, <2>4, <2>5, HearsFollow
<1> QED BY <1>1, <1>2

\* A review that is decided on is followed no more.
LEMMA DecisionFollows ==
    ASSUME TypeInv, FollowInv
    PROVE  /\ \A m \in Modules : Keep(m) => FollowInv'
           /\ \A m \in Modules : Delete(m) => FollowInv'
           /\ RevertEnds => FollowInv'
<1>1. ASSUME NEW m \in Modules, Keep(m) PROVE FollowInv'
  <2>1. Elsewhere(m) /\ ~Reviewed(m)'
    BY <1>1, ResolveEffect DEF Keep
  <2>2. UNCHANGED <<text, author, call, reports, save, revert>>
    BY <1>1 DEF Keep, ops
  <2>3. \A x \in Modules : (Quiet(x)' => Quiet(x)) /\ (Saving(x)' => Saving(x)) /\ save' = save
    BY <2>2, QuietSame
  <2> QED BY <2>1, <2>2, <2>3, HearsFollow
<1>2. ASSUME NEW m \in Modules, Delete(m) PROVE FollowInv'
  <2>1. Elsewhere(m) /\ ~Reviewed(m)'
    BY <1>2, ResolveEffect DEF Delete
  <2>2. /\ text' = [text EXCEPT ![m] = NoText] /\ author' = [author EXCEPT ![m] = "user"]
        /\ UNCHANGED <<call, reports, save, revert>>
    BY <1>2 DEF Delete, ops
  <2>3. \A x \in Modules : (Quiet(x)' => Quiet(x)) /\ (Saving(x)' => Saving(x)) /\ save' = save
    BY <2>2, QuietSame
  <2>4. ASSUME NEW x \in Modules, x # m PROVE AfterAt(x)' /\ SaveAt(x)'
    <3>1. text'[x] = text[x] /\ author'[x] = author[x] /\ pending'[x] = pending[x]
      BY <2>1, <2>2, <2>4 DEF TypeInv, TextTypes, Elsewhere
    <3> QED BY <2>3, <3>1, FollowStays
  <2>5. text'[m] = NoText
    BY <2>2 DEF TypeInv, TextTypes
  <2>6. AfterAt(m)' /\ SaveAt(m)'
    BY <2>5 DEF AfterAt, SaveAt
  <2> QED BY <2>4, <2>6 DEF FollowInv
<1>3. ASSUME RevertEnds PROVE FollowInv'
  <2>1. PICK m \in Modules : m = revert.mod
    BY <1>3, RevertFacts DEF RevertEnds
  <2>2. Elsewhere(m) /\ ~Reviewed(m)'
    BY <1>3, <2>1, ResolveEffect DEF RevertEnds
  <2>3. revert'.at = "idle" /\ UNCHANGED <<text, author, call, reports, save>>
    BY <1>3 DEF RevertEnds, Idle
  <2>4. \A x \in Modules : (x # m /\ Quiet(x)' => Quiet(x)) /\ (Saving(x)' => Saving(x)) /\ save' = save
    BY <2>1, <2>3 DEF Quiet, Saving
  <2> QED BY <2>2, <2>3, <2>4, HearsFollow
<1> QED BY <1>1, <1>2, <1>3

LEMMA RevertFollows ==
    ASSUME TypeInv, FollowInv
    PROVE  /\ \A m \in Modules : RevertChecks(m) => FollowInv'
           /\ RevertWrites => FollowInv'
<1>1. ASSUME NEW m \in Modules, RevertChecks(m) PROVE FollowInv'
  <2>1. /\ revert.at = "idle" /\ UNCHANGED <<text, pending, author, call, reports, save>>
    BY <1>1 DEF RevertChecks, ghosts
  <2>2. \A x \in Modules : Quiet(x)' => Quiet(x)
    BY <2>1 DEF Quiet, Saving
  <2> QED BY <2>1, <2>2, FollowSame
<1>2. ASSUME RevertWrites PROVE FollowInv'
  <2>1. PICK m \in Modules : m = revert.mod
    BY <1>2, RevertFacts DEF RevertWrites
  <2>2. revert.at = "checked" /\ UNCHANGED <<pending, call, reports, save>>
    BY <1>2 DEF RevertWrites
  <2>3. \A x \in Modules : (Saving(x)' <=> Saving(x)) /\ save' = save
    BY <2>2 DEF Saving
  <2>4. CASE revert.record.before = NoText /\ text[m] = NoText
    <3>1. UNCHANGED <<text, author>> /\ revert'.at = "idle"
      BY <1>2, <2>1, <2>4 DEF RevertWrites, Idle
    <3>3. \A x \in Modules : x # m /\ Quiet(x)' => Quiet(x)
      BY <2>1, <2>2, <3>1 DEF Quiet, Saving
    <3>4. ASSUME NEW x \in Modules, x # m PROVE AfterAt(x)' /\ SaveAt(x)'
      BY <2>2, <2>3, <3>1, <3>3, <3>4, FollowStays
    <3>5. AfterAt(m)' /\ SaveAt(m)'
      BY <2>4, <3>1 DEF AfterAt, SaveAt
    <3> QED BY <3>4, <3>5 DEF FollowInv
  <2>5. CASE ~(revert.record.before = NoText /\ text[m] = NoText)
    <3>1. /\ text' = [text EXCEPT ![m] = revert.record.before]
          /\ author' = [author EXCEPT ![m] = IF Saving(m) THEN "other" ELSE "user"]
          /\ revert' = [revert EXCEPT !.at = "written"]
      BY <1>2, <2>1, <2>5 DEF RevertWrites
    <3>2. revert'.at = "written" /\ revert'.mod = m
      BY <2>1, <2>2, <3>1, RevertFacts
    <3>3. ~Quiet(m)' /\ \A x \in Modules : x # m /\ Quiet(x)' => Quiet(x)
      BY <2>1, <2>2, <3>2 DEF Quiet, Saving
    <3>4. ASSUME NEW x \in Modules, x # m PROVE AfterAt(x)' /\ SaveAt(x)'
      <4>1. text'[x] = text[x] /\ author'[x] = author[x]
        BY <3>1, <3>4 DEF TypeInv, TextTypes
      <4> QED BY <2>2, <2>3, <3>3, <3>4, <4>1, FollowStays
    <3>5. AfterAt(m)'
      BY <3>3 DEF AfterAt
    <3>6. SaveAt(m)'
      <4>1. Saving(m)' => author'[m] = "other"
        BY <2>3, <3>1 DEF TypeInv, TextTypes
      <4> QED BY <4>1 DEF SaveAt
    <3> QED BY <3>4, <3>5, <3>6 DEF FollowInv
  <2> QED BY <2>4, <2>5
<1> QED BY <1>1, <1>2

LEMMA OthersFollow ==
    ASSUME TypeInv, FollowInv, "rename" \in AtOnce
    PROVE  /\ \A m, n \in Modules : Rename(m, n) => FollowInv'
           /\ \A m \in Modules, t \in Texts : OutsideWrite(m, t) => FollowInv'
<1>1. ASSUME NEW m \in Modules, NEW n \in Modules, Rename(m, n) PROVE FollowInv'
  <2>1. /\ m # n /\ save.at = "idle" /\ \A x \in Modules : Quiet(x)
    BY <1>1, RenameIsQuiet
  <2>2. /\ text' = [text EXCEPT ![m] = NoText, ![n] = text[m]]
        /\ author' = [author EXCEPT ![n] = author[m]] /\ save' = save
    BY <1>1 DEF Rename, ops
  <2>3. \A x \in Modules : ~Saving(x)'
    BY <2>1, <2>2 DEF Saving
  <2>4. /\ ~Reviewed(m)'
        /\ Reviewed(m) => pending'[n] = pending[m]
        /\ ~Reviewed(m) => ~Reviewed(n)'
        /\ \A x \in Modules : x # m /\ x # n => pending'[x] = pending[x]
    BY <1>1, Renamed
  <2>5. ASSUME NEW x \in Modules, x # m, x # n PROVE AfterAt(x)' /\ SaveAt(x)'
    <3>1. text'[x] = text[x] /\ author'[x] = author[x] /\ pending'[x] = pending[x]
      BY <2>2, <2>4, <2>5 DEF TypeInv, TextTypes
    <3> QED BY <2>1, <2>3, <3>1, FollowStays
  <2>6. AfterAt(m)'
    BY <2>4 DEF AfterAt
  <2>7. AfterAt(n)'
    <3>1. text'[n] = text[m] /\ author'[n] = author[m]
      BY <2>1, <2>2 DEF TypeInv, TextTypes
    <3>2. AfterAt(m)
      BY DEF FollowInv
    <3> QED BY <2>1, <2>4, <3>1, <3>2 DEF AfterAt
  <2> QED BY <2>3, <2>5, <2>6, <2>7 DEF FollowInv, SaveAt
<1>2. ASSUME NEW m \in Modules, NEW t \in Texts, OutsideWrite(m, t) PROVE FollowInv'
  <2>1. /\ text' = [text EXCEPT ![m] = t] /\ author' = [author EXCEPT ![m] = "other"]
        /\ UNCHANGED <<pending, call, reports, save, revert>>
    BY <1>2 DEF OutsideWrite, ops
  <2>2. \A x \in Modules : (Quiet(x)' => Quiet(x)) /\ (Saving(x)' <=> Saving(x)) /\ save' = save
    BY <2>1, QuietSame
  <2>3. ASSUME NEW x \in Modules, x # m PROVE AfterAt(x)' /\ SaveAt(x)'
    <3>1. text'[x] = text[x] /\ author'[x] = author[x] /\ pending'[x] = pending[x]
      BY <2>1, <2>3 DEF TypeInv, TextTypes
    <3> QED BY <2>2, <3>1, FollowStays
  <2>4. author'[m] = "other"
    BY <2>1 DEF TypeInv, TextTypes
  <2> QED BY <2>3, <2>4 DEF FollowInv, AfterAt, SaveAt
<1> QED BY <1>1, <1>2

LEMMA FollowStep ==
    ASSUME TypeInv, FollowInv, "rename" \in AtOnce, "after" \notin Fails, [Next]_vars
    PROVE  FollowInv'
<1>1. ASSUME NEW m \in Modules, CallReads(m) PROVE FollowInv'
  <2>1. /\ call.at = "idle" /\ call'.at = "read"
        /\ UNCHANGED <<text, pending, author, reports, save, revert>>
    BY <1>1 DEF CallReads, ghosts
  <2>2. \A x \in Modules : Quiet(x)' => Quiet(x)
    BY <2>1 DEF Quiet, Saving
  <2> QED BY <2>1, <2>2, FollowSame
<1>2. CASE OpenHeldReview \/ UNCHANGED vars
  <2>1. UNCHANGED <<text, pending, author, call, reports, save, revert>>
    BY <1>2 DEF OpenHeldReview, ops, ghosts, vars
  <2>2. \A x \in Modules : Quiet(x)' => Quiet(x)
    BY <2>1, QuietSame
  <2> QED BY <2>1, <2>2, FollowSame
<1> QED
  BY <1>1, <1>2, AgentFollows, McpFollows, SaveFollows, DecisionFollows, RevertFollows,
     OthersFollow DEF Next, TextOrNone

-----------------------------------------------------------------------------
(* What nobody decided on is under review.                                 *)

\* The review has yet to hear of a write: it is with the call under way or in a report.
Awaited(m, id) ==
    \/ call.at = "written" /\ call.mod = m /\ call.id = id
    \/ \E i \in 1..Len(reports) : reports[i].mod = m /\ reports[i].id = id

ComingAt(m) == \A w \in open[m] : w.at = "coming" => Awaited(m, w.id)
HeardAt(m) == \A w \in open[m] : w.at # "coming" => Reviewed(m)
IdsAt(m) ==
    /\ \A w \in open[m] : w.id < writes
    /\ \A v, w \in open[m] : v.id = w.id => v = w
UndecidedAt(m) == ComingAt(m) /\ HeardAt(m) /\ IdsAt(m)

\* A Revert under way decides on what the review had heard of when it began.
KnownInv ==
    revert.at # "idle" =>
        \A w \in open[revert.mod] : w.id \in revert.known <=> w.at # "coming"

UndecidedInv == KnownInv /\ \A m \in Modules : UndecidedAt(m)

\* A module whose review and writes a step leaves alone.
LEMMA UndecidedStays ==
    ASSUME TypeInv, NEW x \in Modules, UndecidedAt(x),
           open'[x] = open[x], pending'[x] = pending[x], writes' \in Nat, writes <= writes',
           \A id : Awaited(x, id) => Awaited(x, id)'
    PROVE  UndecidedAt(x)'
<1>1. ComingAt(x)' /\ HeardAt(x)'
  BY DEF UndecidedAt, ComingAt, HeardAt, Reviewed
<1>2. \A w \in open[x] : w.id \in Nat
  BY StateFacts, WriteFacts
<1>3. IdsAt(x)'
  BY <1>2, StateFacts DEF UndecidedAt, IdsAt
<1> QED BY <1>1, <1>3 DEF UndecidedAt

\* An agent has written.
LEMMA UndecidedWritten ==
    ASSUME TypeInv, NEW m \in Modules, UndecidedAt(m),
           NEW w0, Makes(m, w0),
           \A id : Awaited(m, id) => Awaited(m, id)', \A id : id = writes => Awaited(m, id)'
    PROVE  UndecidedAt(m)'
<1>1. /\ writes \in Nat /\ w0.id = writes /\ w0.at = "coming" /\ writes' = writes + 1
      /\ pending' = pending
      /\ \A w \in open[m] : w.id \in Nat /\ w.id < writes
  BY StateFacts, WriteFacts DEF Makes, UndecidedAt, IdsAt
<1>2. open'[m] = open[m] \cup {w0}
  BY DEF Makes
<1>3. ComingAt(m)'
  BY <1>1, <1>2 DEF UndecidedAt, ComingAt
<1>4. HeardAt(m)'
  BY <1>1, <1>2 DEF UndecidedAt, HeardAt, Reviewed
<1>5. \A w \in open'[m] : w.id < writes'
  BY <1>1, <1>2
<1>6. ASSUME NEW v \in open'[m], NEW w \in open'[m], v.id = w.id PROVE v = w
  <2>1. v \in open[m] /\ w \in open[m] => v = w
    BY <1>6 DEF UndecidedAt, IdsAt
  <2> QED BY <1>1, <1>2, <1>6, <2>1
<1> QED BY <1>3, <1>4, <1>5, <1>6 DEF UndecidedAt, IdsAt

\* The review has heard of one.
LEMMA UndecidedHeard ==
    ASSUME TypeInv, NEW m \in Modules, UndecidedAt(m), NEW id, NEW before, Hears(m, id, before),
           writes' = writes, \A i : i # id /\ Awaited(m, i) => Awaited(m, i)'
    PROVE  UndecidedAt(m)'
<1>1. open[m] \in SUBSET Writes
  BY StateFacts
<1>2. CASE ~Reviewed(m)' /\ open'[m] = {w \in open[m] : w.at = "coming" /\ w.id # id}
  BY <1>2 DEF UndecidedAt, ComingAt, HeardAt, IdsAt
<1>3. CASE Reviewed(m)' /\ open'[m] = MarkShown(open[m], id)
  <2>1. \A w \in open'[m] :
           \/ w \in open[m] /\ w.id # id
           \/ /\ w.id = id /\ w.at # "coming"
              /\ \E v \in open[m] : v.id = id /\ w = [v EXCEPT !.at = HeardAs(open[m], id)]
    <3>1. \A ws \in SUBSET Writes : HeardAs(ws, id) # "coming"
      BY Marked
    <3>2. \A ws \in SUBSET Writes : \A w \in MarkShown(ws, id) :
             \/ w \in ws /\ w.id # id
             \/ /\ w.id = id /\ w.at = HeardAs(ws, id)
                /\ \E v \in ws : v.id = id /\ w = [v EXCEPT !.at = HeardAs(ws, id)]
      BY Marked
    <3> QED BY <1>1, <1>3, <3>1, <3>2
  <2>2. ComingAt(m)'
    BY <2>1 DEF UndecidedAt, ComingAt
  <2>3. HeardAt(m)'
    BY <1>3 DEF HeardAt
  <2>4. \A w \in open'[m] : w.id < writes'
    BY <2>1 DEF UndecidedAt, IdsAt
  <2>5. ASSUME NEW v \in open'[m], NEW w \in open'[m], v.id = w.id PROVE v = w
    <3>1. CASE v.id # id
      BY <2>1, <2>5, <3>1 DEF UndecidedAt, IdsAt
    <3>2. CASE v.id = id
      BY <2>1, <2>5, <3>2 DEF UndecidedAt, IdsAt
    <3> QED BY <3>1, <3>2
  <2> QED BY <2>2, <2>3, <2>4, <2>5 DEF UndecidedAt, IdsAt
<1> QED BY <1>2, <1>3 DEF Hears

\* Somebody has decided on the review, or it has what it had.
LEMMA UndecidedDecided ==
    ASSUME TypeInv, NEW m \in Modules, UndecidedAt(m), Decided(m) \/ Carried(m),
           writes' = writes, \A id : Awaited(m, id) => Awaited(m, id)'
    PROVE  UndecidedAt(m)'
<1>1. CASE Decided(m)
  <2>1. ~Reviewed(m)' /\ open'[m] = {w \in open[m] : w.at = "coming"}
    BY <1>1 DEF Decided, Unshown
  <2> QED BY <2>1 DEF UndecidedAt, ComingAt, HeardAt, IdsAt
<1>2. CASE Carried(m)
  <2>1. open'[m] = open[m] /\ (Reviewed(m) => Reviewed(m)')
    BY <1>2 DEF Carried
  <2> QED BY <2>1 DEF UndecidedAt, ComingAt, HeardAt, IdsAt
<1> QED BY <1>1, <1>2

\* What a step is to the review of a module, and what it is to what it waits for.
LEMMA CallPresentsEffect ==
    ASSUME TypeInv, CallPresents, NEW c, c = call
    PROVE  /\ c.mod \in Modules /\ c.id \in Nat /\ c.before \in TextOrNone
           /\ Hears(c.mod, c.id, c.before)
           /\ \A x, id : (x # c.mod \/ id # c.id) /\ Awaited(x, id) => Awaited(x, id)'
<1>1. /\ c.mod \in Modules /\ c.id \in Nat /\ c.before \in TextOrNone
      /\ call'.at = "idle" /\ reports' = reports
  BY CallFacts DEF CallPresents, Idle
<1>2. PICK m \in Modules : m = c.mod
  BY <1>1
<1>3. PICK after : PresentWrite(m, c.before, after, c.id)
  BY <1>2 DEF CallPresents
<1>4. Hears(m, c.id, c.before)
  BY <1>3, PresentEffect
<1>5. ASSUME NEW x, NEW id, x # c.mod \/ id # c.id, Awaited(x, id) PROVE Awaited(x, id)'
  BY <1>1, <1>5 DEF Awaited
<1> QED BY <1>1, <1>2, <1>4, <1>5

LEMMA McpReportedEffect ==
    ASSUME TypeInv, UndecidedInv, NEW shown \in BOOLEAN, McpReported(shown), NEW r, r = reports[1]
    PROVE  /\ 1 \in 1..Len(reports) /\ r \in Reports /\ r.mod \in Modules
           /\ Hears(r.mod, r.id, r.before)
           /\ \A x, id : (x # r.mod \/ id # r.id) /\ Awaited(x, id) => Awaited(x, id)'
<1>1. /\ reports # <<>> /\ reports' = Tail(reports) /\ call' = call
      /\ 1 \in 1..Len(reports) /\ Head(reports) = r
  BY ReportTaken DEF McpReported
<1>2. r \in Reports /\ r.mod \in Modules
  BY <1>1, ReportFacts
<1>3. PICK m \in Modules : m = r.mod
  BY <1>2
<1>4. open[m] \in SUBSET Writes
  BY StateFacts
<1> DEFINE heard == MarkShown(open[m], r.id)
<1>5. ASSUME Resolve(m, Unshown(heard))
      PROVE  Hears(m, r.id, r.before)
  <2>1. Elsewhere(m) /\ ~Reviewed(m)' /\ open'[m] = Unshown(heard)
    BY <1>5, ResolveEffect
  <2> QED BY <1>4, <2>1, StillComing DEF Hears
<1>6. ASSUME \E after : PresentWrite(m, r.before, after, r.id)
      PROVE  Hears(m, r.id, r.before)
  BY <1>6, PresentEffect
<1>7. ASSUME \E after : ~Reviewed(m) /\ TrackWrite(m, after, {w \in open[m] : w.id # r.id})
      PROVE  Hears(m, r.id, r.before)
  <2>1. Elsewhere(m) /\ ~Reviewed(m)' /\ open'[m] = {w \in open[m] : w.id # r.id}
    BY <1>7, TrackEffect
  <2>2. \A w \in open[m] : w.at = "coming"
    BY <1>7 DEF UndecidedInv, UndecidedAt, HeardAt
  <2>3. open'[m] = {w \in open[m] : w.at = "coming" /\ w.id # r.id}
    BY <2>1, <2>2
  <2> QED BY <2>1, <2>3 DEF Hears
<1>8. ASSUME \E after : Reviewed(m) /\ TrackWrite(m, after, heard)
      PROVE  Hears(m, r.id, r.before)
  <2>1. /\ Elsewhere(m)
        /\ \/ ~Reviewed(m)' /\ open'[m] = Unshown(heard)
           \/ Reviewed(m)' /\ open'[m] = heard /\ pending'[m].before = pending[m].before
    BY <1>8, TrackEffect
  <2> QED BY <1>4, <1>8, <2>1, StillComing DEF Hears
<1>9. Hears(m, r.id, r.before)
  <2>1. \/ Resolve(m, Unshown(heard))
        \/ \E after : PresentWrite(m, r.before, after, r.id)
        \/ \E after : TrackWrite(m, after,
                IF Reviewed(m) THEN heard ELSE {w \in open[m] : w.id # r.id})
    BY <1>1, <1>3 DEF McpReported
  <2> HIDE DEF heard
  <2>2. CASE \E after : TrackWrite(m, after,
                IF Reviewed(m) THEN heard ELSE {w \in open[m] : w.id # r.id})
    <3>1. CASE Reviewed(m)
      BY <1>8, <2>2, <3>1
    <3>2. CASE ~Reviewed(m)
      BY <1>7, <2>2, <3>2
    <3> QED BY <3>1, <3>2
  <2> QED BY <1>5, <1>6, <2>1, <2>2
<1>10. ASSUME NEW x, NEW id, x # r.mod \/ id # r.id, Awaited(x, id) PROVE Awaited(x, id)'
  <2>1. CASE call.at = "written" /\ call.mod = x /\ call.id = id
    BY <1>1, <2>1 DEF Awaited
  <2>2. CASE \E i \in 1..Len(reports) : reports[i].mod = x /\ reports[i].id = id
    <3> PICK i \in 1..Len(reports) : reports[i].mod = x /\ reports[i].id = id
      BY <2>2
    <3>1. i # 1
      BY <1>10
    <3>2. i - 1 \in 1..Len(reports') /\ reports'[i - 1] = reports[i]
      BY <1>1, <3>1, ReportTaken
    <3> QED BY <3>2 DEF Awaited
  <2> QED BY <1>10, <2>1, <2>2 DEF Awaited
<1> QED BY <1>1, <1>2, <1>3, <1>9, <1>10

LEMMA SaveTracksEffect ==
    ASSUME TypeInv, SaveTracks
    PROVE  \E m \in Modules : m = save.mod /\ (Decided(m) \/ Carried(m))
<1>1. PICK m \in Modules : m = save.mod
  BY SaveFacts DEF SaveTracks
<1>2. TrackWrite(m, save.wrote, open[m])
  BY <1>1 DEF SaveTracks
<1>3. Decided(m) \/ Carried(m)
  BY <1>2, TrackEffect DEF Decided, Carried
<1> QED BY <1>1, <1>3

LEMMA RevertEndsEffect ==
    ASSUME TypeInv, KnownInv, RevertEnds
    PROVE  \E m \in Modules : m = revert.mod /\ Decided(m)
<1>1. PICK m \in Modules : m = revert.mod
  BY RevertFacts DEF RevertEnds
<1>2. /\ Resolve(m, {w \in open[m] : w.id \notin revert.known})
      /\ \A w \in open[m] : w.id \in revert.known <=> w.at # "coming"
  BY <1>1 DEF RevertEnds, KnownInv
<1>3. Elsewhere(m) /\ ~Reviewed(m)' /\ open'[m] = {w \in open[m] : w.id \notin revert.known}
  BY <1>2, ResolveEffect
<1>4. open'[m] = {w \in open[m] : w.at = "coming"}
  BY <1>2, <1>3
<1> QED BY <1>1, <1>3, <1>4 DEF Decided, Unshown

LEMMA DecisionEffect ==
    ASSUME TypeInv, NEW m \in Modules, Keep(m) \/ Delete(m)
    PROVE  Decided(m)
BY ResolveEffect DEF Keep, Delete, Decided

\* An agent's write, by a call and by the server.
LEMMA CallWritesEffect ==
    ASSUME TypeInv, NEW t, CallWrites(t)
    PROVE  \E m, w :
              /\ m \in Modules /\ m = call.mod /\ Makes(m, w)
              /\ call.before = NoText /\ text[m] # NoText => w.unread
              /\ \A x, id : Awaited(x, id) => Awaited(x, id)'
              /\ \A id : id = writes => Awaited(m, id)'
<1>1. PICK m \in Modules : m = call.mod
  BY CallFacts DEF CallWrites
<1>2. PICK unread \in BOOLEAN :
         /\ AgentWrites(m, t, unread)
         /\ call.before = NoText /\ text[m] # NoText => unread
  BY <1>1 DEF CallWrites
<1>3. PICK w : Makes(m, w) /\ w.unread = unread
  BY <1>2, AgentWritesEffect DEF CallWrites
<1>4. /\ call.at = "read" /\ call'.at = "written" /\ call'.mod = m /\ call'.id = writes
      /\ reports' = reports
  BY <1>1 DEF CallWrites
<1>5. ASSUME NEW x, NEW id, Awaited(x, id) PROVE Awaited(x, id)'
  BY <1>4, <1>5 DEF Awaited
<1>6. \A id : id = writes => Awaited(m, id)'
  BY <1>4 DEF Awaited
<1> QED BY <1>1, <1>2, <1>3, <1>5, <1>6

LEMMA McpWritesEffect ==
    ASSUME TypeInv, NEW m \in Modules, NEW t \in TextOrNone, McpWrites(m, t)
    PROVE  /\ \E w : Makes(m, w)
           /\ \A x, id : Awaited(x, id) => Awaited(x, id)'
           /\ \A id : id = writes => Awaited(m, id)'
<1> DEFINE new == [mod |-> m, before |-> text[m], after |-> t, id |-> writes]
<1>1. AgentWrites(m, t, FALSE) /\ pending' = pending /\ call' = call /\ reports' = Append(reports, new)
  BY DEF McpWrites
<1>2. new \in Reports /\ new.mod = m /\ new.id = writes
  BY StateFacts DEF Reports
<1> HIDE DEF new
<1>3. \E w : Makes(m, w)
  BY <1>1, AgentWritesEffect
<1>4. /\ \A i \in 1..Len(reports) : i \in 1..Len(reports') /\ reports'[i] = reports[i]
      /\ Len(reports) + 1 \in 1..Len(reports') /\ reports'[Len(reports) + 1] = new
  BY <1>1, <1>2, ReportAdded
<1>5. \A x, id : Awaited(x, id) => Awaited(x, id)'
  BY <1>1, <1>4 DEF Awaited
<1>6. \A id : id = writes => Awaited(m, id)'
  BY <1>2, <1>4 DEF Awaited
<1> QED BY <1>3, <1>5, <1>6

\* Nothing comes between the steps of what AtOnce names.
LEMMA Alone ==
    ASSUME TypeInv, NEW op, Undisturbed(op)
    PROVE  /\ "revert" \in AtOnce /\ op # "revert" => revert.at = "idle"
           /\ "call" \in AtOnce /\ op # "call" => call.at # "read"
BY DEF Undisturbed, Midway

LEMMA KnownStep ==
    ASSUME TypeInv, UndecidedInv, "revert" \in AtOnce, [Next]_vars
    PROVE  KnownInv'
<1>1. ASSUME revert.at = "idle", revert' = revert PROVE KnownInv'
  BY <1>1 DEF KnownInv
<1>2. ASSUME NEW m \in Modules, NEW t, SaveWrites(m, t) \/ OutsideWrite(m, t) PROVE KnownInv'
  BY <1>1, <1>2, Alone DEF SaveWrites, OutsideWrite, ops
<1>mcp. ASSUME NEW m \in Modules, NEW t, McpWrites(m, t) PROVE KnownInv'
  <2>1. Undisturbed("mcp") /\ revert' = revert
    BY <1>mcp DEF McpWrites
  <2> QED BY <1>1, <2>1, Alone
<1>3. ASSUME NEW m \in Modules, CallReads(m) \/ Keep(m) \/ Delete(m) PROVE KnownInv'
  BY <1>1, <1>3, Alone DEF CallReads, Keep, Delete, ops
<1>4. ASSUME NEW t, CallWrites(t) PROVE KnownInv'
  BY <1>1, <1>4, Alone DEF CallWrites
<1>5. CASE CallPresents \/ SaveTracks
  BY <1>1, <1>5, Alone DEF CallPresents, SaveTracks
<1>6. ASSUME NEW shown \in BOOLEAN, McpReported(shown) PROVE KnownInv'
  BY <1>1, <1>6, Alone DEF McpReported
<1>7. ASSUME NEW m \in Modules, NEW n \in Modules, Rename(m, n) PROVE KnownInv'
  BY <1>1, <1>7, Alone DEF Rename, ops
<1>8. ASSUME NEW m \in Modules, RevertChecks(m) PROVE KnownInv'
  <2>1. /\ open' = open /\ revert'.mod = m
        /\ revert'.known = {w.id : w \in open[m] \ Unshown(open[m])}
    BY <1>8 DEF RevertChecks, ghosts
  <2>2. \A v, w \in open[m] : v.id = w.id => v = w
    BY DEF UndecidedInv, UndecidedAt, IdsAt
  <2>3. \A w \in open[m] : w.id \in revert'.known <=> w.at # "coming"
    BY <2>1, <2>2 DEF Unshown
  <2> QED BY <2>1, <2>3 DEF KnownInv
<1>9. CASE RevertWrites
  <2>1. /\ revert.at = "checked" /\ open' = open
        /\ revert'.at # "idle" => revert'.mod = revert.mod /\ revert'.known = revert.known
    <3>1. /\ revert.at = "checked" /\ open' = open
          /\ revert' = Idle \/ revert' = [revert EXCEPT !.at = "written"]
      BY <1>9 DEF RevertWrites
    <3> QED BY <3>1, RevertFacts DEF Idle
  <2> QED BY <2>1 DEF UndecidedInv, KnownInv
<1>10. CASE RevertEnds
  BY <1>10 DEF RevertEnds, KnownInv, Idle
<1>11. CASE OpenHeldReview \/ UNCHANGED vars
  <2>1. open' = open /\ revert' = revert
    BY <1>11 DEF OpenHeldReview, ops, ghosts, vars
  <2> QED BY <2>1 DEF UndecidedInv, KnownInv
<1> QED
  BY <1>2, <1>3, <1>4, <1>5, <1>6, <1>7, <1>8, <1>9, <1>10, <1>11, <1>mcp DEF Next

\* A step that leaves the reviews, the writes and what awaits them alone.
LEMMA UndecidedSame ==
    ASSUME TypeInv, NEW x \in Modules, UndecidedAt(x), UNCHANGED <<open, pending, writes>>,
           call'.at # "written" => call.at # "written",
           call'.at = "written" => call' = call, reports' = reports
    PROVE  UndecidedAt(x)'
<1>1. \A id : Awaited(x, id) => Awaited(x, id)'
  BY DEF Awaited
<1>2. writes' \in Nat /\ writes <= writes'
  BY StateFacts
<1> QED BY <1>1, <1>2, UndecidedStays

LEMMA UndecidedStep ==
    ASSUME TypeInv, UndecidedInv, {"revert", "rename"} \subseteq AtOnce, [Next]_vars
    PROVE  UndecidedInv'
<1> SUFFICES ASSUME NEW x \in Modules PROVE UndecidedAt(x)'
  BY KnownStep DEF UndecidedInv
<1>0. UndecidedAt(x) /\ KnownInv /\ writes \in Nat
  BY StateFacts DEF UndecidedInv
<1>1. ASSUME NEW m \in Modules, NEW w, Makes(m, w),
             \A y, id : Awaited(y, id) => Awaited(y, id)', \A id : id = writes => Awaited(m, id)'
      PROVE  UndecidedAt(x)'
  <2>1. CASE x = m
    BY <1>0, <1>1, <2>1, UndecidedWritten
  <2>2. CASE x # m
    <3>1. open'[x] = open[x] /\ pending'[x] = pending[x] /\ writes' \in Nat /\ writes <= writes'
      BY <1>0, <1>1, <2>2 DEF Makes, Elsewhere
    <3> QED BY <1>0, <1>1, <3>1, UndecidedStays
  <2> QED BY <2>1, <2>2
<1>2. ASSUME NEW m \in Modules, NEW id, NEW before, Hears(m, id, before), writes' = writes,
             \A y, i : (y # m \/ i # id) /\ Awaited(y, i) => Awaited(y, i)'
      PROVE  UndecidedAt(x)'
  <2>1. CASE x = m
    BY <1>0, <1>2, <2>1, UndecidedHeard
  <2>2. CASE x # m
    <3>1. open'[x] = open[x] /\ pending'[x] = pending[x] /\ writes' \in Nat /\ writes <= writes'
      BY <1>0, <1>2, <2>2 DEF Hears, Elsewhere
    <3> QED BY <1>0, <1>2, <2>2, <3>1, UndecidedStays
  <2> QED BY <2>1, <2>2
<1>3. ASSUME NEW m \in Modules, Decided(m) \/ Carried(m), UNCHANGED <<writes, call, reports>>
      PROVE  UndecidedAt(x)'
  <2>1. \A y, id : Awaited(y, id) => Awaited(y, id)'
    BY <1>3 DEF Awaited
  <2>2. CASE x = m
    BY <1>0, <1>3, <2>1, <2>2, UndecidedDecided
  <2>3. CASE x # m
    <3>1. open'[x] = open[x] /\ pending'[x] = pending[x] /\ writes' \in Nat /\ writes <= writes'
      BY <1>0, <1>3, <2>3 DEF Decided, Carried, Elsewhere
    <3> QED BY <1>0, <2>1, <3>1, UndecidedStays
  <2> QED BY <2>2, <2>3
<1>4. ASSUME NEW t, CallWrites(t) PROVE UndecidedAt(x)'
  BY <1>1, <1>4, CallWritesEffect
<1>5. ASSUME NEW m \in Modules, NEW t \in TextOrNone, McpWrites(m, t) PROVE UndecidedAt(x)'
  BY <1>1, <1>5, McpWritesEffect
<1>6. CASE CallPresents
  <2>1. writes' = writes
    BY <1>6 DEF CallPresents
  <2>2. PICK c : c = call
    OBVIOUS
  <2> QED BY <1>2, <1>6, <2>1, <2>2, CallPresentsEffect
<1>7. ASSUME NEW shown \in BOOLEAN, McpReported(shown) PROVE UndecidedAt(x)'
  <2>1. writes' = writes
    BY <1>7 DEF McpReported
  <2>2. PICK r : r = reports[1]
    OBVIOUS
  <2> QED BY <1>2, <1>7, <2>1, <2>2, McpReportedEffect
<1>8. CASE SaveTracks
  <2>1. UNCHANGED <<writes, call, reports>>
    BY <1>8 DEF SaveTracks
  <2> QED BY <1>3, <1>8, <2>1, SaveTracksEffect
<1>9. CASE RevertEnds
  <2>1. UNCHANGED <<writes, call, reports>>
    BY <1>9 DEF RevertEnds
  <2> QED BY <1>0, <1>3, <1>9, <2>1, RevertEndsEffect
<1>10. ASSUME NEW m \in Modules, Keep(m) \/ Delete(m) PROVE UndecidedAt(x)'
  <2>1. UNCHANGED <<writes, call, reports>>
    BY <1>10 DEF Keep, Delete, ops
  <2> QED BY <1>3, <1>10, <2>1, DecisionEffect
<1>11. ASSUME NEW m \in Modules, NEW n \in Modules, Rename(m, n) PROVE UndecidedAt(x)'
  <2>1. /\ call.at = "idle" /\ Len(reports) = 0 /\ UNCHANGED <<call, reports, writes>>
    BY <1>11, RenameIsQuiet DEF Rename, ops
  <2>2. \A y, id : ~Awaited(y, id) /\ ~Awaited(y, id)'
    BY <2>1 DEF Awaited
  <2>3. /\ open'[m] = {} /\ open'[n] = open[m]
        /\ Reviewed(m) => pending'[n] = pending[m]
        /\ \A y \in Modules : y # m /\ y # n => open'[y] = open[y] /\ pending'[y] = pending[y]
    BY <1>11, Renamed
  <2>4. CASE x # m /\ x # n
    <3>1. writes' \in Nat /\ writes <= writes'
      BY <1>0, <2>1
    <3> QED BY <1>0, <2>2, <2>3, <2>4, <3>1, UndecidedStays
  <2>5. CASE x = m
    BY <2>3, <2>5 DEF UndecidedAt, ComingAt, HeardAt, IdsAt
  <2>6. CASE x = n
    <3>1. UndecidedAt(m)
      BY DEF UndecidedInv
    <3>2. \A w \in open[m] : w.at # "coming"
      BY <2>2, <3>1 DEF UndecidedAt, ComingAt
    <3>3. open[m] # {} => Reviewed(n)'
      BY <2>3, <3>1, <3>2 DEF UndecidedAt, HeardAt, Reviewed
    <3> QED BY <2>1, <2>3, <2>6, <3>1, <3>2, <3>3 DEF UndecidedAt, ComingAt, HeardAt, IdsAt
  <2> QED BY <2>4, <2>5, <2>6
<1>12. ASSUME NEW m \in Modules, CallReads(m) PROVE UndecidedAt(x)'
  <2>1. /\ UNCHANGED <<open, pending, writes, reports>> /\ call.at = "idle" /\ call'.at = "read"
    BY <1>12 DEF CallReads, ghosts
  <2> QED BY <1>0, <2>1, UndecidedSame
<1>13. ASSUME UNCHANGED <<open, pending, writes, call, reports>> PROVE UndecidedAt(x)'
  BY <1>0, <1>13, UndecidedSame
<1>14. ASSUME NEW m \in Modules, NEW t, SaveWrites(m, t) \/ OutsideWrite(m, t) PROVE UndecidedAt(x)'
  BY <1>13, <1>14 DEF SaveWrites, OutsideWrite, ops
<1>15. ASSUME NEW m \in Modules, RevertChecks(m) PROVE UndecidedAt(x)'
  BY <1>13, <1>15 DEF RevertChecks, ghosts
<1>16. CASE RevertWrites \/ OpenHeldReview \/ UNCHANGED vars
  BY <1>13, <1>16 DEF RevertWrites, OpenHeldReview, ops, ghosts, vars
<1> QED
  BY <1>4, <1>5, <1>6, <1>7, <1>8, <1>9, <1>10, <1>11, <1>12, <1>14, <1>15, <1>16
  DEF Next, TextOrNone

\* Where all is heard of, what is undecided has its review.
LEMMA HeardReviewed == ASSUME TypeInv, UndecidedInv PROVE NothingUnreviewed
<1> SUFFICES ASSUME NEW m \in Modules, Quiet(m), NEW w \in open[m] PROVE Reviewed(m)
  BY DEF NothingUnreviewed
<1>1. \A id : ~Awaited(m, id)
  BY ReportFacts DEF Awaited, Quiet
<1> QED BY <1>1 DEF UndecidedInv, UndecidedAt, ComingAt, HeardAt

\* Saves, calls and reports may cross in every order, and a read that should find
\* what a call replaces may fail: an agent's write that nobody decided on is under
\* review, and the review shows what the module holds, as long as nothing comes
\* between the steps of a Revert, a rename waits for the review to have heard of
\* all, and the module can be read when it does.
THEOREM ReviewsFollow ==
    ASSUME {"revert", "rename"} \subseteq AtOnce, "after" \notin Fails
    PROVE  Spec => []ReviewFollows
<1>1. Init => FollowInv /\ UndecidedInv
  <2> SUFFICES ASSUME Init PROVE FollowInv /\ UndecidedInv
    OBVIOUS
  <2>1. \A m \in Modules : pending[m] = NoReview /\ open[m] = {}
    BY DEF Init
  <2>2. save.at = "idle" /\ revert.at = "idle"
    BY DEF Init, Idle
  <2>3. FollowInv
    BY <2>1, <2>2, NoReviewType DEF FollowInv, AfterAt, SaveAt, Saving, Reviewed
  <2>4. UndecidedInv
    BY <2>1, <2>2 DEF UndecidedInv, KnownInv, UndecidedAt, ComingAt, HeardAt, IdsAt
  <2> QED BY <2>3, <2>4
<1>2. TypeInv /\ FollowInv /\ [Next]_vars => FollowInv'
  BY FollowStep
<1>3. TypeInv /\ UndecidedInv /\ [Next]_vars => UndecidedInv'
  BY UndecidedStep
<1>4. TypeInv /\ FollowInv /\ UndecidedInv => ReviewFollows
  <2>1. FollowInv => AfterFollows
    BY DEF FollowInv, AfterFollows, AfterAt
  <2> QED BY <2>1, HeardReviewed DEF ReviewFollows
<1> QED BY <1>1, <1>2, <1>3, <1>4, TypesAlways, PTL DEF Spec

-----------------------------------------------------------------------------
(* The before of a review is that of the oldest write nobody decided on.   *)

\* What the call under way, or a report, has to tell of a write.
Brings(m, id, before) ==
    \/ call.at = "written" /\ call.mod = m /\ call.id = id /\ call.before = before
    \/ \E i \in 1..Len(reports) :
          reports[i].mod = m /\ reports[i].id = id /\ reports[i].before = before

\* That write is there, and nobody has heard of it.
Carries(m, id, before) ==
    \E w \in open[m] : w.at = "coming" /\ w.id = id /\ Restores(before, w)

\* What a call has read is there, unless it could not be read.
ReadInv == call.at = "read" => call.before = NoText \/ call.before = text[call.mod]
CarriedInv == \A m \in Modules : \A id, before : Brings(m, id, before) => Carries(m, id, before)
ApartInv ==
    /\ call.at = "written" => call.id < writes
    /\ \A i \in 1..Len(reports) : reports[i].id < writes
    /\ call.at = "written" => \A i \in 1..Len(reports) : reports[i].id # call.id
    /\ \A i, j \in 1..Len(reports) : i # j => reports[i].id # reports[j].id
SourceInv == ReadInv /\ CarriedInv /\ ApartInv

LEMMA ReadStep ==
    ASSUME TypeInv, ReadInv, "call" \in AtOnce, [Next]_vars
    PROVE  ReadInv'
<1>1. ASSUME call.at # "read", call' = call PROVE ReadInv'
  BY <1>1 DEF ReadInv
<1>2. ASSUME UNCHANGED <<call, text>> PROVE ReadInv'
  BY <1>2 DEF ReadInv
<1>3. ASSUME NEW m \in Modules, CallReads(m) PROVE ReadInv'
  <2>1. PICK before \in {text[m], NoText} : call' = [at |-> "read", mod |-> m, before |-> before]
    BY <1>3 DEF CallReads, Befores
  <2>2. text' = text
    BY <1>3 DEF CallReads
  <2> QED BY <2>1, <2>2 DEF ReadInv
<1>4. ASSUME NEW t, CallWrites(t) \/ CallPresents PROVE ReadInv'
  BY <1>4 DEF CallWrites, CallPresents, ReadInv, Idle
<1>5. ASSUME NEW m \in Modules, NEW t, SaveWrites(m, t) \/ OutsideWrite(m, t) PROVE ReadInv'
  BY <1>1, <1>5, Alone DEF SaveWrites, OutsideWrite, ops
<1>mcp. ASSUME NEW m \in Modules, NEW t, McpWrites(m, t) PROVE ReadInv'
  <2>1. Undisturbed("mcp") /\ call' = call
    BY <1>mcp DEF McpWrites
  <2> QED BY <1>1, <2>1, Alone
<1>6. ASSUME NEW m \in Modules, Keep(m) \/ Delete(m) PROVE ReadInv'
  BY <1>1, <1>6, Alone DEF Keep, Delete, ops
<1>7. ASSUME NEW m \in Modules, NEW n \in Modules, Rename(m, n) PROVE ReadInv'
  BY <1>1, <1>7, Alone DEF Rename, ops
<1>8. CASE RevertWrites \/ RevertEnds \/ SaveTracks \/ \E shown \in BOOLEAN : McpReported(shown)
  BY <1>1, <1>8, Alone DEF RevertWrites, RevertEnds, SaveTracks, McpReported
<1>9. ASSUME NEW m \in Modules, RevertChecks(m) PROVE ReadInv'
  BY <1>2, <1>9 DEF RevertChecks
<1>10. CASE OpenHeldReview \/ UNCHANGED vars
  BY <1>2, <1>10 DEF OpenHeldReview, ops, vars
<1> QED
  BY <1>3, <1>4, <1>5, <1>6, <1>7, <1>8, <1>9, <1>10, <1>mcp DEF Next

\* A write that is coming stays so until the review hears of that write.
LEMMA CarriesStays ==
    ASSUME TypeInv, NEW x \in Modules, NEW m \in Modules, NEW i, NEW b, Carries(x, i, b)
    PROVE  /\ open'[x] = open[x] => Carries(x, i, b)'
           /\ Decided(m) \/ Carried(m) => Carries(x, i, b)'
           /\ \A new : Makes(m, new) => Carries(x, i, b)'
           /\ \A id, before :
                 Hears(m, id, before) /\ (x = m => i # id) => Carries(x, i, b)'
<1>1. PICK w \in open[x] : w.at = "coming" /\ w.id = i /\ Restores(b, w)
  BY DEF Carries
<1>2. w \in open'[x] => Carries(x, i, b)'
  BY <1>1 DEF Carries
<1>3. Elsewhere(m) /\ x # m => w \in open'[x]
  BY <1>1 DEF Elsewhere
<1>4. ASSUME Decided(m) \/ Carried(m) PROVE w \in open'[x]
  BY <1>1, <1>3, <1>4 DEF Decided, Carried, Unshown
<1>5. ASSUME NEW new, Makes(m, new) PROVE w \in open'[x]
  BY <1>1, <1>3, <1>5 DEF Makes
<1>6. ASSUME NEW id, NEW before, Hears(m, id, before), x = m => i # id PROVE w \in open'[x]
  <2>1. CASE x # m
    BY <1>3, <1>6, <2>1 DEF Hears
  <2>2. CASE x = m
    <3>1. w \in MarkShown(open[m], id)
      BY <1>1, <1>6, <2>2, StateFacts, Marked
    <3> QED BY <1>1, <1>6, <2>2, <3>1 DEF Hears
  <2> QED BY <2>1, <2>2
<1> QED BY <1>1, <1>2, <1>4, <1>5, <1>6

\* What a step takes from, or adds to, what is brought.
LEMMA BringsSame ==
    ASSUME UNCHANGED <<call, reports>> \/ (call.at # "written" /\ call'.at # "written" /\ reports' = reports)
    PROVE  \A x, i, b : Brings(x, i, b)' => Brings(x, i, b)
BY DEF Brings

LEMMA CallPresentsBrings ==
    ASSUME TypeInv, ApartInv, CallPresents, NEW c, c = call
    PROVE  /\ Brings(c.mod, c.id, c.before)
           /\ \A x, i, b : Brings(x, i, b)' => Brings(x, i, b) /\ i # c.id
<1>1. call.at = "written" /\ call'.at = "idle" /\ reports' = reports
  BY DEF CallPresents, Idle
<1> QED BY <1>1 DEF Brings, ApartInv

LEMMA McpReportedBrings ==
    ASSUME TypeInv, ApartInv, NEW shown \in BOOLEAN, McpReported(shown), NEW r, r = reports[1]
    PROVE  /\ Brings(r.mod, r.id, r.before)
           /\ \A x, i, b : Brings(x, i, b)' => Brings(x, i, b) /\ i # r.id
           /\ ApartInv'
<1>1. /\ reports # <<>> /\ reports' = Tail(reports) /\ call' = call /\ writes' = writes
      /\ 1 \in 1..Len(reports)
  BY ReportTaken DEF McpReported
<1>2. /\ \A i \in 1..Len(reports') : i + 1 \in 1..Len(reports) /\ reports'[i] = reports[i + 1]
      /\ \A i \in 1..Len(reports') : i + 1 # 1
      /\ \A i, j \in 1..Len(reports') : i # j => i + 1 # j + 1
  BY <1>1, ReportTaken
<1>3. Brings(r.mod, r.id, r.before)
  BY <1>1 DEF Brings
<1>4. ASSUME NEW x, NEW i, NEW b, Brings(x, i, b)' PROVE Brings(x, i, b) /\ i # r.id
  BY <1>1, <1>2, <1>4 DEF Brings, ApartInv
<1>5. ApartInv'
  BY <1>1, <1>2 DEF ApartInv
<1> QED BY <1>3, <1>4, <1>5

LEMMA CallWritesBrings ==
    ASSUME TypeInv, SourceInv, NEW t, CallWrites(t), NEW m, m = call.mod, NEW w, Makes(m, w),
           call.before = NoText /\ text[m] # NoText => w.unread
    PROVE  /\ \A x, i, b : Brings(x, i, b)' =>
                  Brings(x, i, b) \/ (x = m /\ i = writes /\ Restores(b, w))
           /\ ApartInv'
<1>1. /\ call.at = "read" /\ call'.at = "written" /\ call'.mod = m
      /\ call'.id = writes /\ call'.before = call.before /\ reports' = reports
      /\ writes' = writes + 1 /\ writes \in Nat
  BY StateFacts DEF CallWrites, AgentWrites
<1>r. Restores(call.before, w)
  BY <1>1 DEF SourceInv, ReadInv, Restores, Makes
<1>2. \A i \in 1..Len(reports) : reports[i].id \in Nat /\ reports[i].id < writes
  BY ReportFacts DEF SourceInv, ApartInv
<1>3. \A x, i, b : Brings(x, i, b)' =>
            Brings(x, i, b) \/ (x = m /\ i = writes /\ Restores(b, w))
  BY <1>1, <1>r DEF Brings
<1>4. /\ call'.id < writes'
      /\ \A i \in 1..Len(reports) : reports[i].id < writes' /\ reports[i].id # call'.id
  BY <1>1, <1>2
<1> QED BY <1>1, <1>3, <1>4 DEF SourceInv, ApartInv

LEMMA McpWritesBrings ==
    ASSUME TypeInv, SourceInv, NEW m \in Modules, NEW t \in TextOrNone, McpWrites(m, t),
           NEW w, Makes(m, w)
    PROVE  /\ \A x, i, b : Brings(x, i, b)' =>
                  Brings(x, i, b) \/ (x = m /\ i = writes /\ Restores(b, w))
           /\ ApartInv'
<1> DEFINE new == [mod |-> m, before |-> text[m], after |-> t, id |-> writes]
<1>1. /\ call' = call /\ reports' = Append(reports, new)
      /\ writes' = writes + 1 /\ writes \in Nat
  BY StateFacts DEF McpWrites, AgentWrites
<1>2. new \in Reports /\ new.mod = m /\ new.id = writes /\ new.before = text[m]
  BY StateFacts DEF Reports
<1> HIDE DEF new
<1>3. /\ Len(reports) \in Nat /\ Len(reports') = Len(reports) + 1
      /\ \A i \in 1..Len(reports) : reports'[i] = reports[i]
      /\ reports'[Len(reports) + 1] = new
  BY <1>1, <1>2, ReportAdded
<1>4. \A i \in 1..Len(reports') : i \in 1..Len(reports) \/ i = Len(reports) + 1
  BY <1>3
<1>5. \A i \in 1..Len(reports) : reports[i].id \in Nat /\ reports[i].id < writes
  BY ReportFacts DEF SourceInv, ApartInv
<1>6. call.at = "written" => call.id \in Nat /\ call.id < writes
  BY CallFacts DEF SourceInv, ApartInv
<1>7. ASSUME NEW x, NEW i, NEW b, Brings(x, i, b)'
      PROVE  Brings(x, i, b) \/ (x = m /\ i = writes /\ Restores(b, w))
  <2>1. Restores(text[m], w)
    BY DEF Restores, Makes
  <2> QED BY <1>1, <1>2, <1>3, <1>4, <1>7, <2>1 DEF Brings
<1>8. call'.at = "written" => call'.id < writes'
  BY <1>1, <1>6
<1>9. \A i \in 1..Len(reports') : reports'[i].id < writes'
  BY <1>1, <1>2, <1>3, <1>4, <1>5
<1>10. call'.at = "written" => \A i \in 1..Len(reports') : reports'[i].id # call'.id
  <2>1. \A i \in 1..Len(reports) : call.at = "written" => reports[i].id # call.id
    BY DEF SourceInv, ApartInv
  <2> QED BY <1>1, <1>2, <1>3, <1>4, <1>6, <2>1
<1>11. ASSUME NEW i \in 1..Len(reports'), NEW j \in 1..Len(reports'), i # j
       PROVE  reports'[i].id # reports'[j].id
  <2>1. \A k, l \in 1..Len(reports) : k # l => reports[k].id # reports[l].id
    BY DEF SourceInv, ApartInv
  <2>2. CASE i \in 1..Len(reports) /\ j \in 1..Len(reports)
    BY <1>3, <1>11, <2>1, <2>2
  <2>3. CASE i \in 1..Len(reports) /\ j = Len(reports) + 1
    BY <1>2, <1>3, <1>5, <2>3
  <2>4. CASE i = Len(reports) + 1 /\ j \in 1..Len(reports)
    BY <1>2, <1>3, <1>5, <2>4
  <2> QED BY <1>4, <1>11, <2>2, <2>3, <2>4
<1> QED BY <1>7, <1>8, <1>9, <1>10, <1>11 DEF ApartInv

LEMMA SourceStep ==
    ASSUME TypeInv, SourceInv, UndecidedInv, {"call", "revert", "rename"} \subseteq AtOnce,
           [Next]_vars
    PROVE  SourceInv'
<1> SUFFICES CarriedInv' /\ ApartInv'
  BY ReadStep DEF SourceInv
<1>0. CarriedInv /\ ApartInv /\ KnownInv
  BY DEF SourceInv, UndecidedInv
<1>1. ASSUME NEW m \in Modules, NEW w, Makes(m, w),
             \A x, i, b : Brings(x, i, b)' =>
                Brings(x, i, b) \/ (x = m /\ i = writes /\ Restores(b, w))
      PROVE  CarriedInv'
  <2>1. ASSUME NEW i, NEW b, i = writes, Restores(b, w) PROVE Carries(m, i, b)'
    BY <1>1, <2>1 DEF Carries, Makes
  <2>2. ASSUME NEW x \in Modules, NEW i, NEW b, Brings(x, i, b)' PROVE Carries(x, i, b)'
    <3>1. CASE Brings(x, i, b)
      BY <1>0, <1>1, <3>1, CarriesStays DEF CarriedInv
    <3>2. CASE x = m /\ i = writes /\ Restores(b, w)
      BY <2>1, <3>2
    <3> QED BY <1>1, <2>2, <3>1, <3>2
  <2> QED BY <2>2 DEF CarriedInv
<1>2. ASSUME NEW m \in Modules, NEW id, NEW before, Hears(m, id, before),
             \A x, i, b : Brings(x, i, b)' => Brings(x, i, b) /\ i # id
      PROVE  CarriedInv'
  BY <1>0, <1>2, CarriesStays DEF CarriedInv
<1>3. ASSUME NEW m \in Modules, Decided(m) \/ Carried(m), UNCHANGED <<writes, call, reports>>
      PROVE  CarriedInv' /\ ApartInv'
  <2>1. \A x, i, b : Brings(x, i, b)' => Brings(x, i, b)
    BY <1>3, BringsSame
  <2>2. CarriedInv'
    BY <1>0, <1>3, <2>1, CarriesStays DEF CarriedInv
  <2>3. ApartInv'
    BY <1>0, <1>3 DEF ApartInv
  <2> QED BY <2>2, <2>3
<1>4. ASSUME UNCHANGED <<open, writes, reports>>,
             call' = call \/ (call.at # "written" /\ call'.at # "written")
      PROVE  CarriedInv' /\ ApartInv'
  <2>1. \A x, i, b : Brings(x, i, b)' => Brings(x, i, b)
    BY <1>4, BringsSame
  <2>2. \A x, i, b : Carries(x, i, b) => Carries(x, i, b)'
    BY <1>4 DEF Carries
  <2>3. CarriedInv'
    BY <1>0, <2>1, <2>2 DEF CarriedInv
  <2>4. ApartInv'
    BY <1>0, <1>4 DEF ApartInv
  <2> QED BY <2>3, <2>4
<1>5. ASSUME NEW t, CallWrites(t) PROVE CarriedInv' /\ ApartInv'
  <2>1. PICK m, w :
           /\ m \in Modules /\ m = call.mod /\ Makes(m, w)
           /\ call.before = NoText /\ text[m] # NoText => w.unread
    BY <1>5, CallWritesEffect
  <2> QED BY <1>1, <1>5, <2>1, CallWritesBrings
<1>6. ASSUME NEW m \in Modules, NEW t \in TextOrNone, McpWrites(m, t) PROVE CarriedInv' /\ ApartInv'
  BY <1>1, <1>6, McpWritesEffect, McpWritesBrings
<1>7. CASE CallPresents
  <2>1. PICK c : c = call
    OBVIOUS
  <2>2. CarriedInv'
    BY <1>0, <1>2, <1>7, <2>1, CallPresentsEffect, CallPresentsBrings
  <2>3. ApartInv'
    <3>1. call'.at = "idle" /\ reports' = reports /\ writes' = writes
      BY <1>7 DEF CallPresents, Idle
    <3> QED BY <1>0, <3>1 DEF ApartInv
  <2> QED BY <2>2, <2>3
<1>8. ASSUME NEW shown \in BOOLEAN, McpReported(shown) PROVE CarriedInv' /\ ApartInv'
  <2>1. PICK r : r = reports[1]
    OBVIOUS
  <2> QED BY <1>0, <1>2, <1>8, <2>1, McpReportedEffect, McpReportedBrings
<1>9. CASE SaveTracks
  <2>1. UNCHANGED <<writes, call, reports>>
    BY <1>9 DEF SaveTracks
  <2> QED BY <1>3, <1>9, <2>1, SaveTracksEffect
<1>10. CASE RevertEnds
  <2>1. UNCHANGED <<writes, call, reports>>
    BY <1>10 DEF RevertEnds
  <2> QED BY <1>0, <1>3, <1>10, <2>1, RevertEndsEffect
<1>11. ASSUME NEW m \in Modules, Keep(m) \/ Delete(m) PROVE CarriedInv' /\ ApartInv'
  <2>1. UNCHANGED <<writes, call, reports>>
    BY <1>11 DEF Keep, Delete, ops
  <2> QED BY <1>3, <1>11, <2>1, DecisionEffect
<1>12. ASSUME NEW m \in Modules, NEW n \in Modules, Rename(m, n) PROVE CarriedInv' /\ ApartInv'
  <2>1. call.at = "idle" /\ Len(reports) = 0 /\ UNCHANGED <<call, reports, writes>>
    BY <1>12, RenameIsQuiet DEF Rename, ops
  <2>2. CarriedInv'
    BY <2>1 DEF CarriedInv, Brings
  <2> QED BY <1>0, <2>1, <2>2 DEF ApartInv
<1>13. ASSUME NEW m \in Modules, CallReads(m) PROVE CarriedInv' /\ ApartInv'
  <2>1. UNCHANGED <<open, writes, reports>> /\ call.at = "idle" /\ call'.at = "read"
    BY <1>13 DEF CallReads, ghosts
  <2> QED BY <1>4, <2>1
<1>14. ASSUME NEW m \in Modules, NEW t, SaveWrites(m, t) \/ OutsideWrite(m, t)
       PROVE  CarriedInv' /\ ApartInv'
  BY <1>4, <1>14 DEF SaveWrites, OutsideWrite, ops
<1>15. ASSUME NEW m \in Modules, RevertChecks(m) PROVE CarriedInv' /\ ApartInv'
  BY <1>4, <1>15 DEF RevertChecks, ghosts
<1>16. CASE RevertWrites \/ OpenHeldReview \/ UNCHANGED vars
  BY <1>4, <1>16 DEF RevertWrites, OpenHeldReview, ops, ghosts, vars
<1> QED
  BY <1>5, <1>6, <1>7, <1>8, <1>9, <1>10, <1>11, <1>12, <1>13, <1>14, <1>15, <1>16
  DEF Next, TextOrNone

OriginalAt(m) ==
    Reviewed(m) /\ InOrder(m) =>
        \E w \in open[m] : IsOldest(w, m) /\ Restores(pending[m].before, w)

LEMMA OriginalStays ==
    ASSUME NEW x \in Modules, OriginalAt(x), open'[x] = open[x],
           Reviewed(x)' => Reviewed(x) /\ pending'[x].before = pending[x].before
    PROVE  OriginalAt(x)'
BY DEF OriginalAt, InOrder, IsOldest

\* A later write is not the oldest.
LEMMA OriginalWritten ==
    ASSUME TypeInv, NEW m \in Modules, IdsAt(m), OriginalAt(m), NEW w0, Makes(m, w0)
    PROVE  OriginalAt(m)'
<1> SUFFICES ASSUME Reviewed(m)', InOrder(m)'
             PROVE  \E w \in open'[m] : IsOldest(w, m)' /\ Restores(pending'[m].before, w)
  BY DEF OriginalAt
<1>1. /\ writes \in Nat /\ w0.id = writes
      /\ \A w \in open[m] : w.id \in Nat /\ w.id < writes
  BY StateFacts, WriteFacts DEF IdsAt, Makes
<1>2. open'[m] = open[m] \cup {w0} /\ pending' = pending
  BY DEF Makes
<1>3. Reviewed(m) /\ InOrder(m)
  BY <1>2 DEF InOrder, Reviewed
<1>4. PICK w \in open[m] : IsOldest(w, m) /\ Restores(pending[m].before, w)
  BY <1>3 DEF OriginalAt
<1>5. \A v \in open'[m] : w.id <= v.id
  BY <1>1, <1>2, <1>4 DEF IsOldest
<1> QED BY <1>2, <1>4, <1>5 DEF IsOldest

\* A review hears of a write in its turn, or the order is lost: what it has heard
\* of in order before has the oldest, and what it hears of first is the oldest.
LEMMA OriginalHeard ==
    ASSUME TypeInv, NEW m \in Modules, UndecidedAt(m), OriginalAt(m), NEW id, NEW before,
           Hears(m, id, before), Carries(m, id, before)
    PROVE  OriginalAt(m)'
<1> SUFFICES ASSUME Reviewed(m)', InOrder(m)'
             PROVE  \E w \in open'[m] : IsOldest(w, m)' /\ Restores(pending'[m].before, w)
  BY DEF OriginalAt
<1> DEFINE as == HeardAs(open[m], id)
           marked(w) == IF w.id = id THEN [w EXCEPT !.at = as] ELSE w
<1>1. open[m] \in SUBSET Writes /\ \A w \in open[m] : w.id \in Nat
  BY StateFacts, WriteFacts
<1>2. /\ open'[m] = MarkShown(open[m], id)
      /\ pending'[m].before = IF Reviewed(m) THEN pending[m].before ELSE before
  BY DEF Hears
<1>3. open'[m] = {marked(w) : w \in open[m]} /\ as # "coming"
  BY <1>1, <1>2, Marked DEF MarkShown
<1>4. \A w \in open[m] :
         /\ marked(w) \in open'[m] /\ marked(w).id = w.id
         /\ \A b : Restores(b, w) => Restores(b, marked(w))
         /\ w.at # "coming" => marked(w).at # "coming"
         /\ w.id # id => marked(w) = w
         /\ w.id = id => marked(w).at = as
  <2>1. as \in {"shown", "late"}
    BY <1>1, Marked
  <2>2. \A w \in open[m] : marked(w).before = w.before /\ marked(w).unread = w.unread
    BY <1>1, <2>1, HeardType
  <2>3. \A w \in open[m] : marked(w) \in open'[m] /\ marked(w).id = w.id
    BY <1>1, <1>3, <2>1, HeardType
  <2>4. \A w \in open[m] : (w.id # id => marked(w) = w) /\ (w.id = id => marked(w).at = as)
    BY <1>1, <2>1, HeardType
  <2>5. \A w \in open[m] : w.at # "coming" => marked(w).at # "coming"
    BY <2>1, <2>4
  <2>6. \A w \in open[m] : \A b : Restores(b, w) => Restores(b, marked(w))
    BY <2>2 DEF Restores
  <2> QED BY <2>3, <2>4, <2>5, <2>6
<1>5. \A v \in open'[m] : \E w \in open[m] : v = marked(w)
  BY <1>3
<1> HIDE DEF marked
<1>6. CASE Reviewed(m)
  <2>1. ASSUME NEW v \in open[m], NEW w \in open[m], v.id < w.id, w.at # "coming"
        PROVE  v.at = "shown"
    <3>1. marked(v).at = "shown"
      BY <1>4, <2>1 DEF InOrder
    <3>2. CASE v.id # id
      BY <1>4, <3>1, <3>2
    <3>3. CASE v.id = id
      <4>1. as = "late"
        BY <2>1, <3>3 DEF HeardAs, Overtaken
      <4> QED BY <1>4, <3>1, <3>3, <4>1
    <3> QED BY <3>2, <3>3
  <2>2. PICK w \in open[m] : IsOldest(w, m) /\ Restores(pending[m].before, w)
    BY <1>6, <2>1 DEF OriginalAt, InOrder
  <2>3. \A v \in open'[m] : marked(w).id <= v.id
    BY <1>4, <1>5, <2>2 DEF IsOldest
  <2> QED BY <1>2, <1>4, <1>6, <2>2, <2>3 DEF IsOldest
<1>7. CASE ~Reviewed(m)
  <2>1. PICK w \in open[m] : w.id = id /\ Restores(before, w)
    BY DEF Carries
  <2>2. \A v \in open[m] : v.at = "coming"
    BY <1>7 DEF UndecidedAt, HeardAt
  <2>3. ASSUME NEW v \in open[m], v.id < w.id PROVE FALSE
    <3>1. marked(v) = v /\ v \in open'[m]
      BY <1>1, <1>4, <2>1, <2>3
    <3>2. marked(w) \in open'[m] /\ marked(w).id = w.id /\ marked(w).at # "coming"
      BY <1>3, <1>4, <2>1
    <3>3. v.at = "shown"
      BY <2>3, <3>1, <3>2 DEF InOrder
    <3> QED BY <2>2, <3>3
  <2>4. \A v \in open[m] : w.id <= v.id
    BY <1>1, <2>3
  <2>5. \A v \in open'[m] : marked(w).id <= v.id
    BY <1>4, <1>5, <2>4
  <2> QED BY <1>2, <1>4, <1>7, <2>1, <2>5 DEF IsOldest
<1> QED BY <1>6, <1>7

LEMMA OriginalStep ==
    ASSUME TypeInv, SourceInv, UndecidedInv, \A m \in Modules : OriginalAt(m),
           "rename" \in AtOnce, [Next]_vars
    PROVE  \A m \in Modules : OriginalAt(m)'
<1> SUFFICES ASSUME NEW x \in Modules PROVE OriginalAt(x)'
  OBVIOUS
<1>0. OriginalAt(x) /\ UndecidedAt(x) /\ KnownInv /\ CarriedInv /\ ApartInv
  BY DEF UndecidedInv, SourceInv
<1>1. ASSUME NEW m \in Modules, Elsewhere(m), x # m PROVE OriginalAt(x)'
  BY <1>0, <1>1, OriginalStays DEF Elsewhere, Reviewed
<1>2. ASSUME NEW m \in Modules, Decided(m) \/ Carried(m) PROVE OriginalAt(x)'
  <2>1. CASE x # m
    BY <1>1, <1>2, <2>1 DEF Decided, Carried
  <2>2. CASE x = m /\ Decided(m)
    BY <2>2 DEF Decided, OriginalAt
  <2>3. CASE x = m /\ Carried(m)
    BY <1>0, <2>3, OriginalStays DEF Carried
  <2> QED BY <1>2, <2>1, <2>2, <2>3
<1>3. ASSUME NEW m \in Modules, NEW id, NEW before, Hears(m, id, before), Brings(m, id, before)
      PROVE  OriginalAt(x)'
  <2>1. Carries(m, id, before)
    BY <1>0, <1>3 DEF CarriedInv
  <2>2. CASE x # m
    BY <1>1, <1>3, <2>2 DEF Hears
  <2>3. CASE x = m
    BY <1>0, <1>3, <2>1, <2>3, OriginalHeard
  <2> QED BY <2>2, <2>3
<1>4. ASSUME NEW m \in Modules, NEW w, Makes(m, w) PROVE OriginalAt(x)'
  <2>1. CASE x # m
    BY <1>1, <1>4, <2>1 DEF Makes
  <2>2. CASE x = m
    <3>1. IdsAt(m)
      BY <1>0, <1>4, <2>2 DEF UndecidedAt
    <3> QED BY <1>0, <1>4, <2>2, <3>1, OriginalWritten
  <2> QED BY <2>1, <2>2
<1>5. ASSUME UNCHANGED <<open, pending>> PROVE OriginalAt(x)'
  BY <1>0, <1>5, OriginalStays DEF Reviewed
<1>6. ASSUME NEW t, CallWrites(t) PROVE OriginalAt(x)'
  BY <1>4, <1>6, CallWritesEffect
<1>7. ASSUME NEW m \in Modules, NEW t \in TextOrNone, McpWrites(m, t) PROVE OriginalAt(x)'
  BY <1>4, <1>7, McpWritesEffect
<1>8. CASE CallPresents
  <2>1. PICK c : c = call
    OBVIOUS
  <2> QED BY <1>0, <1>3, <1>8, <2>1, CallPresentsEffect, CallPresentsBrings
<1>9. ASSUME NEW shown \in BOOLEAN, McpReported(shown) PROVE OriginalAt(x)'
  <2>1. PICK r : r = reports[1]
    OBVIOUS
  <2> QED BY <1>0, <1>3, <1>9, <2>1, McpReportedEffect, McpReportedBrings
<1>10. CASE SaveTracks
  BY <1>2, <1>10, SaveTracksEffect
<1>11. CASE RevertEnds
  BY <1>0, <1>2, <1>11, RevertEndsEffect
<1>12. ASSUME NEW m \in Modules, Keep(m) \/ Delete(m) PROVE OriginalAt(x)'
  BY <1>2, <1>12, DecisionEffect
<1>13. ASSUME NEW m \in Modules, NEW n \in Modules, Rename(m, n) PROVE OriginalAt(x)'
  <2>1. /\ ~Reviewed(m)' /\ open'[n] = open[m]
        /\ Reviewed(m) => pending'[n] = pending[m]
        /\ ~Reviewed(m) => ~Reviewed(n)'
        /\ \A y \in Modules : y # m /\ y # n => open'[y] = open[y] /\ pending'[y] = pending[y]
    BY <1>13, Renamed
  <2>2. CASE x # m /\ x # n
    BY <1>0, <2>1, <2>2, OriginalStays DEF Reviewed
  <2>3. CASE x = m
    BY <2>1, <2>3 DEF OriginalAt
  <2>4. CASE x = n
    <3>1. OriginalAt(m)
      OBVIOUS
    <3> QED BY <2>1, <2>4, <3>1 DEF OriginalAt, InOrder, IsOldest
  <2> QED BY <2>2, <2>3, <2>4
<1>14. ASSUME NEW m \in Modules, CallReads(m) \/ RevertChecks(m) PROVE OriginalAt(x)'
  BY <1>5, <1>14 DEF CallReads, RevertChecks, ghosts
<1>15. ASSUME NEW m \in Modules, NEW t, SaveWrites(m, t) \/ OutsideWrite(m, t) PROVE OriginalAt(x)'
  BY <1>5, <1>15 DEF SaveWrites, OutsideWrite
<1>16. CASE RevertWrites \/ OpenHeldReview \/ UNCHANGED vars
  BY <1>5, <1>16 DEF RevertWrites, OpenHeldReview, ghosts, vars
<1> QED
  BY <1>6, <1>7, <1>8, <1>9, <1>10, <1>11, <1>12, <1>13, <1>14, <1>15, <1>16
  DEF Next, TextOrNone

\* Whatever saves, calls and reports of an MCP server cross, and whatever is kept,
\* deleted or taken back among them: a Revert would restore the module as it was
\* before the agents' oldest undecided write, unless the review heard of their
\* writes in another order or that write's module could not be read, which takes it
\* for one that was not there.  Nothing may come between a call's read and its
\* write or the steps of a Revert, and a rename waits for the review to have heard
\* of all.
THEOREM OriginalsAreKept ==
    ASSUME {"call", "revert", "rename"} \subseteq AtOnce
    PROVE  Spec => []OriginalKept
<1> DEFINE Original == \A m \in Modules : OriginalAt(m)
<1>1. Init => SourceInv /\ UndecidedInv /\ Original
  <2> SUFFICES ASSUME Init PROVE SourceInv /\ UndecidedInv /\ Original
    OBVIOUS
  <2>1. \A m \in Modules : pending[m] = NoReview /\ open[m] = {}
    BY DEF Init
  <2>2. call.at = "idle" /\ revert.at = "idle" /\ Len(reports) = 0
    BY EmptySeq DEF Init, Idle
  <2>3. SourceInv
    BY <2>2 DEF SourceInv, ReadInv, CarriedInv, Brings, ApartInv
  <2>4. UndecidedInv
    BY <2>1, <2>2 DEF UndecidedInv, KnownInv, UndecidedAt, ComingAt, HeardAt, IdsAt
  <2>5. Original
    BY <2>1, NoReviewType DEF OriginalAt, Reviewed
  <2> QED BY <2>3, <2>4, <2>5
<1>2. TypeInv /\ UndecidedInv /\ [Next]_vars => UndecidedInv'
  BY UndecidedStep
<1>3. TypeInv /\ SourceInv /\ UndecidedInv /\ [Next]_vars => SourceInv'
  BY SourceStep
<1>4. TypeInv /\ SourceInv /\ UndecidedInv /\ Original /\ [Next]_vars => Original'
  BY OriginalStep
<1>5. Original => OriginalKept
  BY DEF OriginalAt, OriginalKept
<1> HIDE DEF Original
<1> QED BY <1>1, <1>2, <1>3, <1>4, <1>5, TypesAlways, PTL DEF Spec
-----------------------------------------------------------------------------
(* The turns.  The reports of a file are taken one at a time, in the order *)
(* they came, by createKeyedAsyncLock, whose invariant follows the chain   *)
(* of promises: the calls of a key are numbered, the call before a call in *)
(* the chain is the one numbered before it, the head of a chain has only   *)
(* ended calls before it, and the map's entry is the last call numbered    *)
(* for as long as it is under way.                                         *)

\* d was called before c, under the same key.
Before(d, c) == KeyOf[d] = KeyOf[c] /\ ticket[d] # 0 /\ ticket[d] < ticket[c]

\* The calls of a key have places of their own.
Places ==
    \A c, d \in Calls :
        KeyOf[c] = KeyOf[d] /\ ticket[c] # 0 /\ ticket[c] = ticket[d] => c = d

\* What a call waits for is the call in the place before its own.
Chain ==
    \A c \in Calls : ticket[c] # 0 =>
        IF previous[c] = NoCall
        THEN \A d \in Calls : Before(d, c) => state[d] = "done"
        ELSE /\ KeyOf[previous[c]] = KeyOf[c]
             /\ ticket[previous[c]] # 0
             /\ ticket[c] = ticket[previous[c]] + 1

\* Those before a call that has begun are over.
Turns ==
    \A c, d \in Calls :
        state[c] \in {"running", "done"} /\ Before(d, c) => state[d] = "done"

\* The map holds the last call of the key, and only while it is under way.
Tails ==
    \A k \in Keys :
        /\ queues[k] # NoCall =>
              KeyOf[queues[k]] = k /\ Active(queues[k]) /\ ticket[queues[k]] = made[k]
        /\ queues[k] = NoCall => \A c \in Calls : KeyOf[c] = k => ~Active(c)

LockInv == LockTypeOK /\ Places /\ Chain /\ Turns /\ Tails

LEMMA LockBegins == LockInit => LockInv
BY KeyAssumption, NoCallAssumption
   DEF LockInit, LockInv, LockTypeOK, Numbered, Places, Chain, Turns, Tails, Before, Active

LEMMA LockCall == ASSUME LockInv, NEW c \in Calls, Call(c) PROVE LockInv'
<1> DEFINE k == KeyOf[c]
<1>k. k \in Keys
  BY KeyAssumption
<1>t. LockTypeOK
  BY DEF LockInv
<1>m. Numbered
  BY <1>t DEF LockTypeOK
<1>n. made[k] \in Nat
  BY <1>k, <1>t, <1>m DEF LockTypeOK, Numbered
<1>1. /\ state[c] = "idle" /\ ticket[c] = 0
      /\ state' = [state EXCEPT ![c] = "waiting"]
      /\ previous' = [previous EXCEPT ![c] = queues[k]]
      /\ queues' = [queues EXCEPT ![k] = c]
      /\ made' = [made EXCEPT ![k] = @ + 1]
      /\ ticket' = [ticket EXCEPT ![c] = made[k] + 1]
  BY <1>m DEF Call, Numbered
<1>2. /\ state'[c] = "waiting" /\ previous'[c] = queues[k] /\ ticket'[c] = made[k] + 1
      /\ \A d \in Calls : d # c => /\ state'[d] = state[d] /\ previous'[d] = previous[d]
                                   /\ ticket'[d] = ticket[d]
      /\ queues'[k] = c /\ made'[k] = made[k] + 1
      /\ \A j \in Keys : j # k => queues'[j] = queues[j] /\ made'[j] = made[j]
  BY <1>1, <1>t, <1>k DEF LockTypeOK
<1>3. \A d \in Calls : ticket[d] \in Nat /\ ticket[d] <= made[KeyOf[d]]
  BY <1>t, <1>m DEF LockTypeOK, Numbered
<1>b. \A d, e \in Calls : e # c => (Before(d, e)' <=> (d # c /\ Before(d, e)) \/ (d = c /\ Before(d, e)'))
  BY <1>2 DEF Before
<1>c. \A e \in Calls : e # c => ~Before(c, e)'
  BY <1>2, <1>3, <1>n DEF Before
<1>4. LockTypeOK'
  <2>1. /\ state' \in [Calls -> {"idle", "waiting", "running", "done"}]
        /\ previous' \in [Calls -> Calls \cup {NoCall}]
        /\ queues' \in [Keys -> Calls \cup {NoCall}]
    BY <1>1, <1>t, <1>k DEF LockTypeOK
  <2>2. ticket' \in [Calls -> Nat] /\ made' \in [Keys -> Nat]
    BY <1>1, <1>t, <1>k, <1>n DEF LockTypeOK
  <2>3. \A d \in Calls : ticket'[d] <= made'[KeyOf[d]]
    BY <1>2, <1>3, <1>k, <1>n, KeyAssumption
  <2>4. \A d \in Calls : /\ state'[d] = "idle" => ticket'[d] = 0
                         /\ state'[d] # "idle" => ticket'[d] # 0
    <3>1. ticket'[c] # 0 /\ state'[c] # "idle"
      BY <1>2, <1>n
    <3> QED BY <3>1, <1>2, <1>t, <1>m DEF LockTypeOK, Numbered
  <2> QED BY <2>1, <2>2, <2>3, <2>4 DEF LockTypeOK, Numbered
<1>5. Places'
  <2> SUFFICES ASSUME NEW d \in Calls, NEW e \in Calls, KeyOf[d] = KeyOf[e],
                      ticket'[d] # 0, ticket'[d] = ticket'[e]
               PROVE  d = e
    BY DEF Places
  <2>1. CASE d # c /\ e # c
    BY <2>1, <1>2 DEF LockInv, Places
  <2>2. CASE d = c /\ e # c
    BY <2>2, <1>2, <1>3, <1>n
  <2>3. CASE d # c /\ e = c
    BY <2>3, <1>2, <1>3, <1>n
  <2> QED BY <2>1, <2>2, <2>3
<1>6. Chain'
  <2> SUFFICES ASSUME NEW e \in Calls, ticket'[e] # 0
               PROVE  IF previous'[e] = NoCall
                      THEN \A d \in Calls : Before(d, e)' => state'[d] = "done"
                      ELSE /\ KeyOf[previous'[e]] = KeyOf[e]
                           /\ ticket'[previous'[e]] # 0
                           /\ ticket'[e] = ticket'[previous'[e]] + 1
    BY DEF Chain
  <2>1. CASE e = c /\ queues[k] = NoCall
    <3>1. \A d \in Calls : KeyOf[d] = k => ~Active(d)
      BY <2>1, <1>k DEF LockInv, Tails
    <3>2. \A d \in Calls : d # c /\ KeyOf[d] = k /\ ticket[d] # 0 => state[d] = "done"
      BY <3>1, <1>t, <1>m DEF LockTypeOK, Numbered, Active
    <3>3. \A d \in Calls : Before(d, c)' => d # c /\ KeyOf[d] = k /\ ticket[d] # 0
      BY <1>2, <1>n DEF Before
    <3> QED BY <2>1, <3>2, <3>3, <1>2
  <2>2. CASE e = c /\ queues[k] # NoCall
    <3>1. queues[k] \in Calls
      BY <2>2, <1>t, <1>k DEF LockTypeOK
    <3>2. KeyOf[queues[k]] = k /\ Active(queues[k]) /\ ticket[queues[k]] = made[k]
      BY <2>2, <1>k DEF LockInv, Tails
    <3>3. queues[k] # c /\ ticket[queues[k]] # 0
      BY <3>1, <3>2, <1>1, <1>t, <1>m DEF Active, LockTypeOK, Numbered
    <3> QED BY <2>2, <3>1, <3>2, <3>3, <1>2, NoCallAssumption
  <2>3. CASE e # c
    <3>1. previous'[e] = previous[e] /\ ticket'[e] = ticket[e]
      BY <2>3, <1>2
    <3>2. CASE previous[e] = NoCall
      <4>1. \A d \in Calls : Before(d, e) => state[d] = "done"
        BY <3>1, <3>2 DEF LockInv, Chain
      <4> QED BY <4>1, <2>3, <3>1, <3>2, <1>b, <1>c, <1>2
    <3>3. CASE previous[e] # NoCall
      <4>1. /\ KeyOf[previous[e]] = KeyOf[e] /\ ticket[previous[e]] # 0
            /\ ticket[e] = ticket[previous[e]] + 1
        BY <3>1, <3>3 DEF LockInv, Chain
      <4>2. previous[e] \in Calls /\ previous[e] # c
        BY <3>3, <4>1, <1>1, <1>t, <1>m DEF LockTypeOK, Numbered
      <4> QED BY <3>1, <3>3, <4>1, <4>2, <1>2
    <3> QED BY <3>2, <3>3
  <2> QED BY <2>1, <2>2, <2>3
<1>7. Turns'
  <2> SUFFICES ASSUME NEW e \in Calls, NEW d \in Calls,
                      state'[e] \in {"running", "done"}, Before(d, e)'
               PROVE  state'[d] = "done"
    BY DEF Turns
  <2>1. e # c
    BY <1>2
  <2>2. d # c /\ Before(d, e)
    BY <2>1, <1>b, <1>c
  <2> QED BY <2>1, <2>2, <1>2 DEF LockInv, Turns
<1>8. Tails'
  <2> SUFFICES ASSUME NEW j \in Keys
               PROVE  /\ queues'[j] # NoCall => /\ KeyOf[queues'[j]] = j
                                                /\ state'[queues'[j]] \in {"waiting", "running"}
                                                /\ ticket'[queues'[j]] = made'[j]
                      /\ queues'[j] = NoCall =>
                            \A d \in Calls : KeyOf[d] = j => ~Active(d)'
    BY DEF Tails, Active
  <2>1. CASE j = k
    BY <2>1, <1>2, NoCallAssumption DEF Active
  <2>2. CASE j # k
    <3>1. queues'[j] = queues[j] /\ made'[j] = made[j]
      BY <2>2, <1>2
    <3>2. CASE queues[j] = NoCall
      <4>1. \A d \in Calls : KeyOf[d] = j => d # c /\ ~Active(d)
        BY <2>2, <3>2 DEF LockInv, Tails
      <4> QED BY <3>1, <3>2, <4>1, <1>2 DEF Active
    <3>3. CASE queues[j] # NoCall
      <4>1. KeyOf[queues[j]] = j /\ Active(queues[j]) /\ ticket[queues[j]] = made[j]
        BY <3>3 DEF LockInv, Tails
      <4>2. queues[j] \in Calls /\ queues[j] # c
        BY <3>3, <4>1, <2>2, <1>t, <1>m DEF LockTypeOK, Numbered
      <4> QED BY <3>1, <3>3, <4>1, <4>2, <1>2 DEF Active
    <3> QED BY <3>2, <3>3
  <2> QED BY <2>1, <2>2
<1> QED BY <1>4, <1>5, <1>6, <1>7, <1>8 DEF LockInv

LEMMA LockStart == ASSUME LockInv, NEW c \in Calls, Start(c) PROVE LockInv'
<1>t. LockTypeOK
  BY DEF LockInv
<1>m. Numbered
  BY <1>t DEF LockTypeOK
<1>1. /\ state[c] = "waiting" /\ MayStart(c)
      /\ state' = [state EXCEPT ![c] = "running"]
      /\ UNCHANGED <<previous, queues, ticket, made>>
  BY DEF Start
<1>2. state'[c] = "running" /\ \A d \in Calls : d # c => state'[d] = state[d]
  BY <1>1, <1>t, <1>m DEF LockTypeOK, Numbered
<1>3. \A d \in Calls : ticket[d] \in Nat
  BY <1>t, <1>m DEF LockTypeOK, Numbered
<1>b. \A d, e \in Calls : Before(d, e)' <=> Before(d, e)
  BY <1>1 DEF Before
<1>4. \A d \in Calls : state[d] = "done" => state'[d] = "done"
  BY <1>1, <1>2
<1>5. LockTypeOK'
  <2>1. state' \in [Calls -> {"idle", "waiting", "running", "done"}]
    BY <1>1, <1>t, <1>m DEF LockTypeOK, Numbered
  <2>2. \A d \in Calls : /\ state'[d] = "idle" => ticket'[d] = 0
                         /\ state'[d] # "idle" => ticket'[d] # 0
    BY <1>1, <1>2, <1>t, <1>m DEF LockTypeOK, Numbered
  <2> QED BY <2>1, <2>2, <1>1, <1>t, <1>m DEF LockTypeOK, Numbered
<1>6. Places'
  BY <1>1 DEF LockInv, Places
<1>7. Chain'
  <2>1. \A e \in Calls : ticket[e] # 0 /\ previous[e] = NoCall =>
            \A d \in Calls : Before(d, e) => state[d] = "done"
    BY DEF LockInv, Chain
  <2>2. \A e \in Calls : ticket[e] # 0 /\ previous[e] # NoCall =>
            /\ KeyOf[previous[e]] = KeyOf[e] /\ ticket[previous[e]] # 0
            /\ ticket[e] = ticket[previous[e]] + 1
    BY DEF LockInv, Chain
  <2> QED BY <2>1, <2>2, <1>1, <1>4, <1>b DEF Chain
<1>8. Turns'
  <2> SUFFICES ASSUME NEW e \in Calls, NEW d \in Calls,
                      state'[e] \in {"running", "done"}, Before(d, e)
               PROVE  state[d] = "done"
    BY <1>4, <1>b DEF Turns
  <2>1. CASE e # c
    BY <2>1, <1>2 DEF LockInv, Turns
  <2>2. CASE e = c /\ previous[c] = NoCall
    BY <2>2, <1>3 DEF LockInv, Chain, Before
  <2>3. CASE e = c /\ previous[c] # NoCall
    <3> DEFINE p == previous[c]
    <3>1. p \in Calls
      BY <2>3, <1>t, <1>m DEF LockTypeOK, Numbered
    <3>2. ticket[c] # 0
      BY <1>1, <1>t, <1>m DEF LockTypeOK, Numbered
    <3>3. KeyOf[p] = KeyOf[c] /\ ticket[p] # 0 /\ ticket[c] = ticket[p] + 1
      BY <2>3, <3>2 DEF LockInv, Chain
    <3>4. state[p] = "done"
      BY <2>3, <1>1 DEF MayStart
    <3>5. d = p \/ Before(d, p)
      <4> HIDE DEF p
      <4>1. CASE ticket[d] = ticket[p]
        BY <4>1, <2>3, <3>1, <3>3 DEF LockInv, Places, Before
      <4>2. CASE ticket[d] # ticket[p]
        BY <4>2, <2>3, <3>1, <3>3, <1>3 DEF Before
      <4> QED BY <4>1, <4>2
    <3> QED BY <3>1, <3>4, <3>5 DEF LockInv, Turns
  <2> QED BY <2>1, <2>2, <2>3
<1>9. Tails'
  <2>1. \A d \in Calls : Active(d)' <=> Active(d)
    BY <1>1, <1>2 DEF Active
  <2>2. \A k \in Keys : queues[k] # NoCall => queues[k] \in Calls
    BY <1>t, <1>m DEF LockTypeOK, Numbered
  <2> QED BY <1>1, <2>1, <2>2 DEF LockInv, Tails
<1> QED BY <1>5, <1>6, <1>7, <1>8, <1>9 DEF LockInv

LEMMA LockFinish == ASSUME LockInv, NEW c \in Calls, Finish(c) PROVE LockInv'
<1> DEFINE k == KeyOf[c]
<1>k. k \in Keys
  BY KeyAssumption
<1>t. LockTypeOK
  BY DEF LockInv
<1>m. Numbered
  BY <1>t DEF LockTypeOK
<1>1. /\ state[c] = "running"
      /\ state' = [state EXCEPT ![c] = "done"]
      /\ queues' = [queues EXCEPT ![k] = Kept(c)]
      /\ UNCHANGED <<previous, ticket, made>>
  BY DEF Finish
<1>2. state'[c] = "done" /\ \A d \in Calls : d # c => state'[d] = state[d]
  BY <1>1, <1>t, <1>m DEF LockTypeOK, Numbered
<1>q. /\ queues'[k] = IF queues[k] = c THEN NoCall ELSE queues[k]
      /\ \A j \in Keys : j # k => queues'[j] = queues[j]
  BY <1>1, <1>k, <1>t DEF Kept, LockTypeOK, Numbered
<1>3. \A d \in Calls : ticket[d] \in Nat /\ ticket[d] <= made[KeyOf[d]]
  BY <1>t, <1>m DEF LockTypeOK, Numbered
<1>b. \A d, e \in Calls : Before(d, e)' <=> Before(d, e)
  BY <1>1 DEF Before
<1>4. \A d \in Calls : state[d] = "done" => state'[d] = "done"
  BY <1>2
<1>5. LockTypeOK'
  <2>1. state' \in [Calls -> {"idle", "waiting", "running", "done"}]
    BY <1>1, <1>t, <1>m DEF LockTypeOK, Numbered
  <2>2. queues' \in [Keys -> Calls \cup {NoCall}]
    BY <1>1, <1>k, <1>t DEF Kept, LockTypeOK, Numbered
  <2>3. \A d \in Calls : /\ state'[d] = "idle" => ticket'[d] = 0
                         /\ state'[d] # "idle" => ticket'[d] # 0
    BY <1>1, <1>2, <1>t, <1>m DEF LockTypeOK, Numbered
  <2> QED BY <2>1, <2>2, <2>3, <1>1, <1>t, <1>m DEF LockTypeOK, Numbered
<1>6. Places'
  BY <1>1 DEF LockInv, Places
<1>7. Chain'
  <2>1. \A e \in Calls : ticket[e] # 0 /\ previous[e] = NoCall =>
            \A d \in Calls : Before(d, e) => state[d] = "done"
    BY DEF LockInv, Chain
  <2>2. \A e \in Calls : ticket[e] # 0 /\ previous[e] # NoCall =>
            /\ KeyOf[previous[e]] = KeyOf[e] /\ ticket[previous[e]] # 0
            /\ ticket[e] = ticket[previous[e]] + 1
    BY DEF LockInv, Chain
  <2> QED BY <2>1, <2>2, <1>1, <1>4, <1>b DEF Chain
<1>8. Turns'
  <2> SUFFICES ASSUME NEW e \in Calls, NEW d \in Calls,
                      state'[e] \in {"running", "done"}, Before(d, e)
               PROVE  state[d] = "done"
    BY <1>4, <1>b DEF Turns
  <2>1. state[e] \in {"running", "done"}
    BY <1>1, <1>2
  <2> QED BY <2>1 DEF LockInv, Turns
<1>9. Tails'
  <2> SUFFICES ASSUME NEW j \in Keys
               PROVE  /\ queues'[j] # NoCall => /\ KeyOf[queues'[j]] = j
                                                /\ state'[queues'[j]] \in {"waiting", "running"}
                                                /\ ticket[queues'[j]] = made[j]
                      /\ queues'[j] = NoCall =>
                            \A d \in Calls : KeyOf[d] = j => ~Active(d)'
    BY <1>1 DEF Tails, Active
  <2>1. CASE j = k /\ queues[k] = c
    <3>1. ticket[c] = made[k]
      BY <2>1, <1>k, NoCallAssumption DEF LockInv, Tails
    <3>2. \A d \in Calls : d # c /\ KeyOf[d] = k /\ ticket[d] # 0 => Before(d, c)
      <4> SUFFICES ASSUME NEW d \in Calls, d # c, KeyOf[d] = k, ticket[d] # 0
                   PROVE  ticket[d] < ticket[c]
        BY DEF Before
      <4>1. ticket[d] # ticket[c]
        BY DEF LockInv, Places
      <4>2. ticket[d] <= ticket[c]
        BY <3>1, <1>3
      <4> QED BY <4>1, <4>2, <1>3
    <3>3. \A d \in Calls : d # c /\ KeyOf[d] = k /\ ticket[d] # 0 => state[d] = "done"
      BY <3>2, <1>1 DEF LockInv, Turns
    <3>4. \A d \in Calls : KeyOf[d] = k => state'[d] \in {"idle", "done"}
      BY <3>3, <1>2, <1>t, <1>m DEF LockTypeOK, Numbered
    <3> QED BY <2>1, <3>4, <1>q DEF Active
  <2>2. CASE j # k \/ queues[k] # c
    <3>1. queues'[j] = queues[j]
      BY <2>2, <1>q
    <3>2. CASE queues[j] = NoCall
      <4>1. \A d \in Calls : KeyOf[d] = j => ~Active(d)
        BY <3>2 DEF LockInv, Tails
      <4>2. \A d \in Calls : Active(d)' => Active(d)
        BY <1>2 DEF Active
      <4> QED BY <3>1, <3>2, <4>1, <4>2
    <3>3. CASE queues[j] # NoCall
      <4>1. KeyOf[queues[j]] = j /\ Active(queues[j]) /\ ticket[queues[j]] = made[j]
        BY <3>3 DEF LockInv, Tails
      <4>2. queues[j] \in Calls /\ queues[j] # c
        BY <3>3, <4>1, <2>2, <1>t, <1>m DEF LockTypeOK, Numbered
      <4> QED BY <3>1, <3>3, <4>1, <4>2, <1>2 DEF Active
    <3> QED BY <3>2, <3>3
  <2> QED BY <2>1, <2>2
<1> QED BY <1>5, <1>6, <1>7, <1>8, <1>9 DEF LockInv

LEMMA LockStep == ASSUME LockInv, [LockNext]_lockVars PROVE LockInv'
<1>1. CASE UNCHANGED lockVars
  BY <1>1 DEF lockVars, LockInv, LockTypeOK, Numbered, Places, Chain, Turns, Tails, Before, Active
<1>2. CASE LockNext
  BY <1>2, LockCall, LockStart, LockFinish DEF LockNext
<1> QED BY <1>1, <1>2

\* The inductive invariant holds of every behaviour.
LEMMA LockAlways == LockSpec => []LockInv
BY LockBegins, LockStep, PTL DEF LockSpec

-----------------------------------------------------------------------------
\* Type correctness, and a call has a place exactly from when it is made.
THEOREM LockTypeCorrect == LockSpec => []LockTypeOK
<1>1. LockInv => LockTypeOK
  BY DEF LockInv
<1> QED BY <1>1, LockAlways, PTL

\* Mutual exclusion in the order of the calls, for any number of calls and
\* keys, although the lock forgets a key whenever its queue runs dry.
THEOREM RunsInCallOrder == LockSpec => []InCallOrder
<1>1. ASSUME LockInv PROVE InCallOrder
  <2> SUFFICES ASSUME NEW c \in Calls, NEW d \in Calls, KeyOf[c] = KeyOf[d], c # d,
                      state[c] = "running", state[d] # "idle"
               PROVE  state[d] = IF ticket[d] < ticket[c] THEN "done" ELSE "waiting"
    BY DEF InCallOrder
  <2>1. /\ ticket[c] \in Nat /\ ticket[d] \in Nat /\ ticket[c] # 0 /\ ticket[d] # 0
        /\ state[d] \in {"waiting", "running", "done"}
    BY <1>1 DEF LockInv, LockTypeOK, Numbered
  <2>2. ticket[c] # ticket[d]
    BY <1>1, <2>1 DEF LockInv, Places
  <2>3. CASE ticket[d] < ticket[c]
    BY <1>1, <2>1, <2>3 DEF LockInv, Turns, Before
  <2>4. CASE ticket[c] < ticket[d]
    <3>1. Before(c, d)
      BY <2>1, <2>4 DEF Before
    <3>2. state[d] \notin {"running", "done"}
      BY <1>1, <3>1 DEF LockInv, Turns
    <3>3. ~(ticket[d] < ticket[c])
      BY <2>1, <2>4
    <3> QED BY <2>1, <3>2, <3>3
  <2> QED BY <2>1, <2>2, <2>3, <2>4
<1> QED BY <1>1, LockAlways, PTL

\* The map's entries are exactly the keys with a call under way.
THEOREM EntriesAreActive == LockSpec => []EntryWhileActive
<1>1. ASSUME LockInv PROVE EntryWhileActive
  <2> SUFFICES ASSUME NEW k \in Keys
               PROVE  (queues[k] # NoCall) <=> (\E c \in Calls : KeyOf[c] = k /\ Active(c))
    BY DEF EntryWhileActive
  <2>1. queues[k] \in Calls \cup {NoCall}
    BY <1>1 DEF LockInv, LockTypeOK, Numbered
  <2>2. CASE queues[k] = NoCall
    BY <1>1, <2>2 DEF LockInv, Tails
  <2>3. CASE queues[k] # NoCall
    BY <1>1, <2>1, <2>3 DEF LockInv, Tails
  <2> QED BY <2>2, <2>3
<1> QED BY <1>1, LockAlways, PTL

=============================================================================
