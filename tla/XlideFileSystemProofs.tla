----------------------- MODULE XlideFileSystemProofs -----------------------
(***************************************************************************)
(* The safety of XlideFileSystem for any modules, texts and lengths.  The  *)
(* invariant is about the pair of stamps VS Code compares: the provider's  *)
(* entry of an open document is never behind what VS Code was told, and    *)
(* where it is ahead the size is another too, so that the comparison of    *)
(* both is the comparison of the first; and it is ahead, or will be by the *)
(* look that a save begins with, where the module was changed.             *)
(***************************************************************************)
EXTENDS XlideFileSystem, ProjectFileChanges, TLAPS

Entries == [mtime : Nat, size : Nat, given : Texts \cup {NoText}]
Documents == [open : BOOLEAN, dirty : BOOLEAN, seen : Texts \cup {NoText},
              mtime : Nat, size : Nat]

\* The provider has moved the stat since VS Code was told it.
Ahead(m) == doc[m].mtime < entry[m].mtime

\* What VS Code was told of m, and what the provider has.
ToldInv(m) ==
    /\ entry[m].given \in Texts /\ entry[m].mtime # 0 /\ accounted # 0
    /\ doc[m].size = Size[entry[m].given]
    /\ doc[m].mtime <= entry[m].mtime
    /\ Ahead(m) => entry[m].size # doc[m].size

\* A change of m has moved the stat, or its announcement or a look will.
ChangeInv(m) ==
    /\ ~Ahead(m) => entry[m].given = doc[m].seen
    /\ ~Ahead(m) /\ entry[m].given # text[m] => m \in announcing \/ accounted # stamp
    /\ Ahead(m) \/ entry[m].given # text[m] => m \in touched

DocumentInv(m) ==
    /\ save[m] # "none" => doc[m].open
    /\ doc[m].open =>
        /\ ToldInv(m)
        /\ save[m] # "recording" => ChangeInv(m)
        /\ save[m] = "recording" => text[m] = doc[m].seen
        /\ save[m] = "conflict" => Ahead(m)
        /\ m \in announcing => m \in touched

FileInv == TypeOK /\ stamp # 0 /\ \A m \in Modules : DocumentInv(m)

-----------------------------------------------------------------------------
(* The operators on entries.                                               *)

LEMMA LaterIs ==
    ASSUME stamp \in Nat, NEW t \in Nat
    PROVE  Later(t) \in Nat /\ Later(t) > t
BY DEF Later

LEMMA EnsureIs ==
    ASSUME stamp \in Nat, NEW e \in Entries
    PROVE  /\ EnsureStat(e) \in Entries
           /\ EnsureStat(e).size = e.size /\ EnsureStat(e).given = e.given
           /\ EnsureStat(e).mtime >= e.mtime
           /\ e.mtime # 0 => EnsureStat(e) = e
           /\ stamp # 0 => EnsureStat(e).mtime # 0
BY DEF EnsureStat, Entries

LEMMA GivenSizeIs ==
    ASSUME NEW e \in Entries
    PROVE  /\ GivenSize(e) \in Nat
           /\ e.given \in Texts => GivenSize(e) = Size[e.given]
<1>1. e.size \in Nat /\ e.given \in Texts \cup {NoText}
  BY DEF Entries
<1>2. e.given \in Texts => Size[e.given] \in Nat /\ e.given # NoText
  BY TextAssumption
<1> QED
  BY <1>1, <1>2 DEF GivenSize

\* The size that is made up is another than the one the document was given.
LEMMA SizeAfterChangeIs ==
    ASSUME NEW e \in Entries, NEW size \in Nat
    PROVE  /\ SizeAfterChange(e, size) \in Nat
           /\ SizeAfterChange(e, size) # GivenSize(e)
<1>1. GivenSize(e) \in Nat
  BY GivenSizeIs
<1> QED
  BY <1>1 DEF SizeAfterChange

LEMMA RecordContentIs ==
    ASSUME NEW e \in Entries, NEW t \in Texts
    PROVE  /\ RecordContent(e, t) \in Entries
           /\ RecordContent(e, t).mtime = e.mtime
           /\ RecordContent(e, t).size = Size[t]
           /\ RecordContent(e, t).given = t
<1>1. Size[t] \in Nat
  BY TextAssumption
<1> QED
  BY <1>1 DEF RecordContent, Entries

LEMMA RecordSaveIs ==
    ASSUME stamp \in Nat, stamp # 0, NEW e \in Entries, NEW t \in Texts
    PROVE  /\ RecordSave(e, t) \in Entries
           /\ RecordSave(e, t).mtime >= e.mtime
           /\ RecordSave(e, t).mtime # 0
           /\ RecordSave(e, t).size = Size[t]
           /\ RecordSave(e, t).given = t
<1> DEFINE made == EnsureStat(e)
           moved == [made EXCEPT !.mtime = Later(@)]
<1>1. made \in Entries /\ made.mtime >= e.mtime /\ made.mtime \in Nat /\ e.mtime \in Nat
  BY EnsureIs DEF Entries
<1>2. Later(made.mtime) \in Nat /\ Later(made.mtime) > made.mtime
  BY <1>1, LaterIs
<1>3. moved \in Entries /\ moved.mtime = Later(made.mtime)
  BY <1>1, <1>2 DEF Entries
<1>4. RecordSave(e, t) = RecordContent(moved, t)
  BY DEF RecordSave
<1> HIDE DEF made, moved
<1> QED
  BY <1>1, <1>2, <1>3, <1>4, RecordContentIs

LEMMA NotifiedIs ==
    ASSUME stamp \in Nat, NEW e \in Entries
    PROVE  /\ Notified(e) \in Entries
           /\ Notified(e).mtime > e.mtime
           /\ Notified(e).given = e.given
           /\ e.given \in Texts => Notified(e).size # Size[e.given]
<1> DEFINE made == EnsureStat(e)
           size == SizeAfterChange(made, GivenSize(made))
<1>1. /\ made \in Entries /\ made.mtime >= e.mtime /\ made.given = e.given
      /\ made.mtime \in Nat /\ e.mtime \in Nat
  BY EnsureIs DEF Entries
<1>2. Later(made.mtime) \in Nat /\ Later(made.mtime) > made.mtime
  BY <1>1, LaterIs
<1>3. /\ size \in Nat
      /\ e.given \in Texts => size # Size[e.given]
  BY <1>1, GivenSizeIs, SizeAfterChangeIs
<1>4. Notified(e) = [made EXCEPT !.mtime = Later(@), !.size = size]
  BY DEF Notified
<1> HIDE DEF made, size
<1>5. /\ Notified(e) \in Entries /\ Notified(e).mtime = Later(made.mtime)
      /\ Notified(e).given = made.given /\ Notified(e).size = size
  BY <1>1, <1>2, <1>3, <1>4 DEF Entries
<1> QED
  BY <1>1, <1>2, <1>3, <1>5

\* A look moves the stat of what a change reached, to a size that is another
\* than the one given, and nothing else.
LEMMA ReconciledIs ==
    ASSUME TypeOK, NEW ents \in [Modules -> Entries], NEW m \in Modules
    PROVE  /\ Reconciled(ents) \in [Modules -> Entries]
           /\ Reconciled(ents)[m].mtime >= ents[m].mtime
           /\ Reconciled(ents)[m].given = ents[m].given
           /\ ~(Fires /\ Reached(ents, m)) => Reconciled(ents)[m] = ents[m]
           /\ Fires /\ Reached(ents, m) =>
                /\ Reconciled(ents)[m].mtime > ents[m].mtime
                /\ ents[m].given \in Texts =>
                       Reconciled(ents)[m].size # Size[ents[m].given]
<1> DEFINE R(n) == LET e == EnsureStat(ents[n])
                   IN  [e EXCEPT !.mtime = Later(@), !.size = SizeAfterChange(e, Size[text[n]])]
<1>1. stamp \in Nat /\ text \in [Modules -> Texts]
  BY DEF TypeOK
<1>2. ASSUME NEW n \in Modules
      PROVE  /\ R(n) \in Entries /\ R(n).mtime > ents[n].mtime /\ R(n).given = ents[n].given
             /\ ents[n].given \in Texts => R(n).size # Size[ents[n].given]
  <2> DEFINE e == EnsureStat(ents[n])
             size == SizeAfterChange(e, Size[text[n]])
  <2>1. Size[text[n]] \in Nat
    BY <1>1, TextAssumption
  <2>2. /\ e \in Entries /\ e.mtime >= ents[n].mtime /\ e.given = ents[n].given
        /\ e.mtime \in Nat /\ ents[n].mtime \in Nat
    BY <1>1, EnsureIs DEF Entries
  <2>3. Later(e.mtime) \in Nat /\ Later(e.mtime) > e.mtime
    BY <1>1, <2>2, LaterIs
  <2>4. size \in Nat /\ (e.given \in Texts => size # Size[e.given])
    BY <2>1, <2>2, GivenSizeIs, SizeAfterChangeIs
  <2>5. R(n) = [e EXCEPT !.mtime = Later(@), !.size = size]
    OBVIOUS
  <2> HIDE DEF e, size, R
  <2>6. /\ R(n) \in Entries /\ R(n).mtime = Later(e.mtime)
        /\ R(n).given = e.given /\ R(n).size = size
    BY <2>2, <2>3, <2>4, <2>5 DEF Entries
  <2> QED BY <2>2, <2>3, <2>4, <2>6
<1>3. Reconciled(ents) = [n \in Modules |-> IF Fires /\ Reached(ents, n) THEN R(n) ELSE ents[n]]
  BY DEF Reconciled
<1> HIDE DEF R
<1>4. Reconciled(ents) \in [Modules -> Entries]
  BY <1>2, <1>3
<1>5. Reconciled(ents)[m] = IF Fires /\ Reached(ents, m) THEN R(m) ELSE ents[m]
  BY <1>3
<1>6. ents[m] \in Entries /\ ents[m].mtime \in Nat
  BY DEF Entries
<1>7. /\ R(m) \in Entries /\ R(m).mtime > ents[m].mtime /\ R(m).given = ents[m].given
      /\ ents[m].given \in Texts => R(m).size # Size[ents[m].given]
  BY <1>2
<1>8. R(m).mtime \in Nat
  BY <1>7 DEF Entries
<1>9. CASE Fires /\ Reached(ents, m)
  BY <1>4, <1>5, <1>6, <1>7, <1>8, <1>9
<1>10. CASE ~(Fires /\ Reached(ents, m))
  BY <1>4, <1>5, <1>6, <1>10
<1> QED
  BY <1>9, <1>10

-----------------------------------------------------------------------------
(* The parts of the invariant.                                             *)

FileTypes == text \in [Modules -> Texts] /\ stamp \in Nat /\ accounted \in 0..stamp
SetTypes == changed \subseteq Modules /\ announcing \subseteq Modules /\ touched \subseteq Modules
EntryTypes == entry \in [Modules -> Entries]
DocTypes ==
    /\ doc \in [Modules -> Documents]
    /\ save \in [Modules -> {"none", "conflict", "writing", "recording"}]

LEMMA FileParts ==
    FileInv => /\ TypeOK /\ stamp # 0
               /\ FileTypes /\ SetTypes /\ EntryTypes /\ DocTypes
               /\ \A m \in Modules : DocumentInv(m)
BY DEF FileInv, TypeOK, FileTypes, SetTypes, EntryTypes, DocTypes, Entries, Documents

LEMMA FilePartsNext ==
    ASSUME FileTypes', SetTypes', EntryTypes', DocTypes', stamp' # 0,
           \A m \in Modules : DocumentInv(m)'
    PROVE  FileInv'
<1>1. \A m \in Modules : doc'[m].open => doc'[m].mtime <= entry'[m].mtime
  BY DEF DocumentInv, ToldInv
<1>2. TypeOK'
  BY <1>1 DEF TypeOK, FileTypes, SetTypes, EntryTypes, DocTypes, Entries, Documents
<1> QED
  BY <1>2 DEF FileInv

LEMMA FileInit == Init => FileInv
<1> SUFFICES ASSUME Init PROVE FileInv
  OBVIOUS
<1>1. TypeOK
  BY DEF Init, TypeOK, NoEntry, Closed
<1>2. stamp # 0 /\ \A m \in Modules : DocumentInv(m)
  BY DEF Init, DocumentInv, Closed
<1> QED
  BY <1>1, <1>2 DEF FileInv

\* A step that does nothing to n, and accounts for no change unseen.
LEMMA Bystander ==
    ASSUME NEW n \in Modules, DocumentInv(n),
           doc'[n] = doc[n], text'[n] = text[n], save'[n] = save[n], entry'[n] = entry[n],
           n \in announcing' <=> n \in announcing, n \in touched' <=> n \in touched,
           accounted # 0 => accounted' # 0, Fires => accounted' # stamp'
    PROVE  DocumentInv(n)'
BY DEF DocumentInv, ToldInv, ChangeInv, Ahead, Fires

LEMMA ReachedOpen ==
    ASSUME NEW n \in Modules, NEW ents, doc[n].open, ents[n].given \in Texts
    PROVE  Reached(ents, n) <=> text[n] # ents[n].given
<1>1. ents[n].given # NoText
  BY TextAssumption
<1> QED
  BY <1>1 DEF Reached

\* A save of n goes no further than past its stat.
SaveStays(n) ==
    \/ save'[n] = save[n]
    \/ /\ doc[n].open /\ save[n] = "none" /\ save'[n] # "recording"
       /\ save'[n] = "conflict" => Ahead(n)'

\* A step that, of n, only looks at the file.
LEMMA Looked ==
    ASSUME TypeOK, stamp # 0, NEW n \in Modules, DocumentInv(n),
           NEW ents \in [Modules -> Entries], ents[n] = entry[n],
           entry'[n] = Reconciled(ents)[n], accounted' = stamp, stamp' = stamp,
           doc'[n] = doc[n], text'[n] = text[n], SaveStays(n),
           n \in announcing' <=> n \in announcing, n \in touched' <=> n \in touched
    PROVE  /\ DocumentInv(n)'
           /\ doc[n].open /\ save[n] # "recording" /\ Ahead(n)' => n \in touched
           /\ doc[n].open /\ save[n] # "recording" /\ ~Ahead(n)' =>
                  doc[n].seen = text[n] \/ n \in announcing
<1>1. CASE ~doc[n].open
  BY <1>1 DEF DocumentInv, SaveStays
<1>2. CASE doc[n].open
  <2>0. /\ ents[n] \in Entries /\ entry[n].mtime \in Nat /\ doc[n].mtime \in Nat
        /\ Reconciled(ents)[n].mtime \in Nat
    <3>1. Reconciled(ents)[n] \in Entries /\ ents[n] \in Entries
      BY ReconciledIs
    <3>2. doc[n].mtime \in Nat
      BY DEF TypeOK
    <3> QED BY <3>1, <3>2 DEF Entries
  <2>1. ToldInv(n) /\ entry[n].given \in Texts /\ doc[n].size = Size[entry[n].given]
    BY <1>2 DEF DocumentInv, ToldInv
  <2>2. Reached(ents, n) <=> text[n] # entry[n].given
    BY <1>2, <2>1, ReachedOpen
  <2>3. CASE Fires /\ text[n] # entry[n].given
    <3>1. /\ entry'[n].mtime > entry[n].mtime /\ entry'[n].given = entry[n].given
          /\ entry'[n].size # Size[entry[n].given]
      BY <2>1, <2>2, <2>3, ReconciledIs
    <3>2. Ahead(n)'
      BY <2>0, <2>1, <3>1 DEF Ahead, ToldInv
    <3>3. ToldInv(n)'
      BY <2>0, <2>1, <3>1 DEF ToldInv, Ahead
    <3>4. save[n] # "recording" => n \in touched
      BY <1>2, <2>3 DEF DocumentInv, ChangeInv
    <3> QED BY <1>2, <3>2, <3>3, <3>4 DEF DocumentInv, ChangeInv, SaveStays
  <2>4. CASE ~(Fires /\ text[n] # entry[n].given)
    <3>1. entry'[n] = entry[n]
      BY <2>2, <2>4, ReconciledIs
    <3>2. ToldInv(n)' /\ (Ahead(n)' <=> Ahead(n))
      BY <2>1, <3>1 DEF ToldInv, Ahead
    <3>3. text[n] # entry[n].given => accounted = stamp
      BY <2>1, <2>4 DEF Fires, ToldInv
    <3>4. save[n] # "recording" => ChangeInv(n)
      BY <1>2 DEF DocumentInv
    <3>5. save[n] # "recording" => ChangeInv(n)'
      BY <3>1, <3>2, <3>3, <3>4 DEF ChangeInv
    <3>6. /\ save[n] # "recording" /\ Ahead(n)' => n \in touched
          /\ save[n] # "recording" /\ ~Ahead(n)' => doc[n].seen = text[n] \/ n \in announcing
      BY <3>2, <3>3, <3>4 DEF ChangeInv
    <3> QED BY <1>2, <3>1, <3>2, <3>5, <3>6 DEF DocumentInv, SaveStays
  <2> QED BY <2>3, <2>4
<1> QED
  BY <1>1, <1>2

LEMMA LookTypes ==
    ASSUME FileInv, NEW ents \in [Modules -> Entries], Look(ents), UNCHANGED fileVars
    PROVE  FileTypes' /\ EntryTypes' /\ stamp' # 0
<1>1. FileTypes /\ TypeOK /\ stamp # 0
  BY FileParts
<1>2. EntryTypes'
  <2>1. CASE Modules # {}
    BY <1>1, <2>1, ReconciledIs DEF Look, EntryTypes
  <2>2. CASE Modules = {}
    <3>1. entry' = [m \in Modules |-> entry'[m]]
      BY <2>2 DEF Look, Reconciled
    <3> QED BY <2>2, <3>1 DEF EntryTypes
  <2> QED BY <2>1, <2>2
<1>3. FileTypes' /\ stamp' # 0
  BY <1>1 DEF Look, FileTypes, fileVars
<1> QED
  BY <1>2, <1>3

LEMMA MovedIs == ASSUME NEW ents PROVE Moved(ents) \subseteq Modules
BY DEF Moved

-----------------------------------------------------------------------------
(* Documents.                                                              *)

\* A load makes the module's document as the module is, and looks at the rest.
LEMMA LoadKeeps ==
    ASSUME FileInv, SizeAsRead, NEW m \in Modules, Load(m), UNCHANGED fileVars,
           announcing' = announcing, changed' \subseteq Modules,
           save' = [save EXCEPT ![m] = "none"]
    PROVE  FileInv'
<1> DEFINE base == Reconciled(entry)
           told == EnsureStat(base[m])
           seen == [open |-> TRUE, dirty |-> FALSE, seen |-> text[m],
                    mtime |-> told.mtime, size |-> Size[text[m]]]
<1>p. /\ TypeOK /\ stamp # 0 /\ FileTypes /\ SetTypes /\ EntryTypes /\ DocTypes
      /\ \A n \in Modules : DocumentInv(n)
  BY FileParts
<1>1. base \in [Modules -> Entries] /\ base[m] \in Entries
  BY <1>p, ReconciledIs DEF EntryTypes
<1>2. text[m] \in Texts /\ Size[text[m]] \in Nat
  BY <1>p, TextAssumption DEF FileTypes
<1>3. told \in Entries /\ told.mtime # 0 /\ told.mtime \in Nat
  <2>1. told \in Entries /\ told.mtime # 0
    BY <1>p, <1>1, EnsureIs DEF FileTypes
  <2> QED BY <2>1 DEF Entries
<1>4. /\ RecordContent(told, text[m]) \in Entries
      /\ RecordContent(told, text[m]).mtime = told.mtime
      /\ RecordContent(told, text[m]).given = text[m]
  BY <1>2, <1>3, RecordContentIs
<1>5. /\ accounted' = stamp
      /\ entry' = [base EXCEPT ![m] = RecordContent(told, text[m])]
      /\ doc' = [doc EXCEPT ![m] = seen]
      /\ touched' = Untouched(m)
  BY DEF Load
<1>6. text' = text /\ stamp' = stamp
  BY DEF fileVars
<1>7. seen \in Documents
  BY <1>2, <1>3 DEF Documents
<1>8. /\ seen.open = TRUE /\ seen.seen = text[m] /\ seen.mtime = told.mtime
      /\ seen.size = Size[text[m]]
  OBVIOUS
<1> HIDE DEF base, told, seen
<1>9. FileTypes' /\ stamp' # 0
  BY <1>p, <1>5, <1>6 DEF FileTypes
<1>10. EntryTypes'
  BY <1>1, <1>4, <1>5 DEF EntryTypes
<1>11. DocTypes'
  BY <1>p, <1>5, <1>7 DEF DocTypes
<1>12. SetTypes'
  BY <1>p, <1>5 DEF SetTypes, Untouched
<1>13. DocumentInv(m)'
  <2>1. /\ entry'[m].mtime = told.mtime /\ entry'[m].given = text[m]
        /\ doc'[m] = seen /\ save'[m] = "none"
    BY <1>p, <1>1, <1>4, <1>5 DEF DocTypes
  <2>2. m \in announcing' => m \in touched'
    BY <1>5 DEF Untouched
  <2>3. ~Ahead(m)'
    BY <1>3, <1>8, <2>1 DEF Ahead
  <2>4. ToldInv(m)'
    BY <1>p, <1>2, <1>3, <1>5, <1>8, <2>1, <2>3 DEF ToldInv
  <2>5. ChangeInv(m)'
    BY <1>6, <1>8, <2>1, <2>3 DEF ChangeInv
  <2> QED BY <1>8, <2>1, <2>2, <2>4, <2>5 DEF DocumentInv
<1>14. ASSUME NEW n \in Modules, n # m PROVE DocumentInv(n)'
  <2>1. /\ entry'[n] = base[n] /\ doc'[n] = doc[n] /\ text'[n] = text[n]
        /\ save'[n] = save[n] /\ DocumentInv(n)
        /\ n \in announcing' <=> n \in announcing
        /\ n \in touched' <=> n \in touched
    BY <1>p, <1>1, <1>5, <1>6, <1>14 DEF DocTypes, Untouched
  <2>2. entry \in [Modules -> Entries] /\ entry'[n] = Reconciled(entry)[n]
    BY <1>p, <2>1 DEF EntryTypes, base
  <2> QED BY <1>p, <1>5, <1>6, <2>1, <2>2, Looked DEF SaveStays
<1> QED
  BY <1>9, <1>10, <1>11, <1>12, <1>13, <1>14, FilePartsNext

\* A step that only looks.
LEMMA LookKeeps ==
    ASSUME FileInv, NEW ents \in [Modules -> Entries], Look(ents),
           UNCHANGED <<fileVars, announcing, doc, touched>>, changed' \subseteq Modules,
           \A n \in Modules : doc[n].open => ents[n] = entry[n],
           DocTypes',
           \A n \in Modules : SaveStays(n)
    PROVE  FileInv'
<1>p. /\ TypeOK /\ stamp # 0 /\ FileTypes /\ SetTypes /\ EntryTypes /\ DocTypes
      /\ \A n \in Modules : DocumentInv(n)
  BY FileParts
<1>1. FileTypes' /\ EntryTypes' /\ stamp' # 0
  BY LookTypes
<1>2. SetTypes'
  BY <1>p DEF SetTypes
<1>3. ASSUME NEW n \in Modules PROVE DocumentInv(n)'
  <2>1. CASE ~doc[n].open
    BY <1>p, <2>1 DEF DocumentInv, SaveStays
  <2>2. CASE doc[n].open
    <3>1. /\ ents[n] = entry[n] /\ entry'[n] = Reconciled(ents)[n]
          /\ accounted' = stamp /\ stamp' = stamp /\ doc'[n] = doc[n] /\ text'[n] = text[n]
          /\ announcing' = announcing /\ touched' = touched /\ DocumentInv(n)
      BY <1>p, <2>2 DEF Look, fileVars
    <3> QED BY <1>p, <3>1, Looked
  <2> QED BY <2>1, <2>2
<1> QED
  BY <1>1, <1>2, <1>3, FilePartsNext

LEMMA ChangedOnly ==
    ASSUME FileInv, changed' \subseteq Modules,
           UNCHANGED <<text, stamp, accounted, entry, announcing, doc, save, touched>>
    PROVE  FileInv'
<1>p. /\ stamp # 0 /\ FileTypes /\ SetTypes /\ EntryTypes /\ DocTypes
      /\ \A n \in Modules : DocumentInv(n)
  BY FileParts
<1>1. stamp' # 0 /\ FileTypes' /\ SetTypes' /\ EntryTypes' /\ DocTypes'
  BY <1>p DEF FileTypes, SetTypes, EntryTypes, DocTypes
<1>2. ASSUME NEW n \in Modules PROVE DocumentInv(n)'
  BY <1>p, Bystander DEF Fires
<1> QED
  BY <1>1, <1>2, FilePartsNext

LEMMA DocumentsKeep ==
    ASSUME FileInv, SizeAsRead, NEW m \in Modules,
           WatcherLook \/ OpenDocument(m) \/ Revert(m) \/ HearChange(m)
    PROVE  FileInv'
<1>p. /\ SetTypes /\ EntryTypes /\ DocTypes
      /\ \A n \in Modules : DocumentInv(n)
  BY FileParts
<1>0. entry \in [Modules -> Entries]
  BY <1>p DEF EntryTypes
<1>1. CASE WatcherLook
  <2>1. changed' \subseteq Modules
    BY <1>p, <1>1, MovedIs DEF WatcherLook, SetTypes
  <2>2. DocTypes' /\ \A n \in Modules : SaveStays(n)
    BY <1>p, <1>1 DEF WatcherLook, codeVars, DocTypes, SaveStays
  <2> QED BY <1>0, <1>1, <2>1, <2>2, LookKeeps DEF WatcherLook, codeVars
<1>2. CASE OpenDocument(m)
  <2>1. changed' \subseteq Modules
    BY <1>p, <1>2, MovedIs DEF OpenDocument, SetTypes
  <2>2. save[m] = "none"
    BY <1>p, <1>2 DEF OpenDocument, DocumentInv
  <2>3. save' = [save EXCEPT ![m] = "none"]
    BY <1>p, <1>2, <2>2 DEF OpenDocument, DocTypes
  <2> QED BY <1>2, <2>1, <2>3, LoadKeeps DEF OpenDocument
<1>3. CASE Revert(m)
  <2>1. changed' \subseteq Modules
    BY <1>p, <1>3, MovedIs DEF Revert, SetTypes
  <2> QED BY <1>3, <2>1, LoadKeeps DEF Revert
<1>4. CASE HearChange(m) /\ doc[m].open /\ ~doc[m].dirty /\ save[m] = "none"
  <2>1. changed' \subseteq Modules
    BY <1>p, <1>4, MovedIs DEF HearChange, SetTypes
  <2>2. save' = save /\ UNCHANGED <<fileVars, announcing>>
    BY <1>4 DEF HearChange
  <2>3. (Look(entry) /\ UNCHANGED <<doc, touched>>) \/ Load(m)
    BY <1>4 DEF HearChange
  <2>4. CASE Look(entry) /\ UNCHANGED <<doc, touched>>
    <3>1. DocTypes' /\ \A n \in Modules : SaveStays(n)
      BY <1>p, <2>2, <2>4 DEF DocTypes, SaveStays
    <3> QED BY <1>0, <2>1, <2>2, <2>4, <3>1, LookKeeps
  <2>5. CASE Load(m)
    <3>1. save' = [save EXCEPT ![m] = "none"]
      BY <1>p, <1>4, <2>2 DEF DocTypes
    <3> QED BY <2>1, <2>2, <2>5, <3>1, LoadKeeps
  <2> QED BY <2>3, <2>4, <2>5
<1>5. CASE HearChange(m) /\ ~(doc[m].open /\ ~doc[m].dirty /\ save[m] = "none")
  <2>1. changed' = changed \ {m} /\ UNCHANGED <<accounted, entry, doc, touched, fileVars, announcing, save>>
    BY <1>5 DEF HearChange
  <2> QED BY <1>p, <2>1, ChangedOnly DEF fileVars, SetTypes
<1> QED
  BY <1>1, <1>2, <1>3, <1>4, <1>5

LEMMA PlainKeeps ==
    ASSUME FileInv, NEW m \in Modules,
           CloseDocument(m) \/ ForgetClosed(m) \/ Edit(m) \/ Overwrite(m) \/ FailSave(m)
    PROVE  FileInv'
<1>p. /\ stamp # 0 /\ FileTypes /\ SetTypes /\ EntryTypes /\ DocTypes
      /\ \A n \in Modules : DocumentInv(n)
  BY FileParts
<1>w. UNCHANGED <<text, stamp, accounted, changed, announcing>>
  BY DEF CloseDocument, ForgetClosed, Edit, Overwrite, FailSave, fileVars, providerVars
<1>f. FileTypes' /\ stamp' # 0
  BY <1>p, <1>w DEF FileTypes
<1>m. doc[m] \in Documents /\ text[m] \in Texts
  BY <1>p DEF DocTypes, FileTypes
<1>1. CASE CloseDocument(m)
  <2>1. /\ doc' = [doc EXCEPT ![m] = Closed] /\ touched' = touched \ {m}
        /\ entry' = entry /\ save' = save /\ save[m] = "none"
    BY <1>1 DEF CloseDocument, providerVars
  <2>2. SetTypes' /\ EntryTypes' /\ DocTypes'
    BY <1>p, <1>w, <2>1 DEF SetTypes, EntryTypes, DocTypes, Documents, Closed
  <2>3. DocumentInv(m)'
    BY <1>p, <2>1 DEF DocumentInv, DocTypes, Closed
  <2>4. ASSUME NEW n \in Modules, n # m PROVE DocumentInv(n)'
    BY <1>p, <1>w, <2>1, <2>4, Bystander DEF DocTypes, Fires
  <2> QED BY <1>f, <2>2, <2>3, <2>4, FilePartsNext
<1>2. CASE ForgetClosed(m)
  <2>1. /\ entry' = [entry EXCEPT ![m] = NoEntry] /\ ~doc[m].open
        /\ doc' = doc /\ save' = save /\ touched' = touched
    BY <1>2 DEF ForgetClosed, codeVars
  <2>2. SetTypes' /\ EntryTypes' /\ DocTypes'
    BY <1>p, <1>w, <2>1 DEF SetTypes, EntryTypes, DocTypes, Entries, NoEntry
  <2>3. DocumentInv(m)'
    BY <1>p, <2>1 DEF DocumentInv
  <2>4. ASSUME NEW n \in Modules, n # m PROVE DocumentInv(n)'
    BY <1>p, <1>w, <2>1, <2>4, Bystander DEF EntryTypes, Fires
  <2> QED BY <1>f, <2>2, <2>3, <2>4, FilePartsNext
<1>3. CASE Edit(m)
  <2>1. /\ doc' = [doc EXCEPT ![m].dirty = TRUE]
        /\ entry' = entry /\ save' = save /\ touched' = touched
    BY <1>3 DEF Edit, providerVars
  <2>2. SetTypes' /\ EntryTypes' /\ DocTypes'
    BY <1>p, <1>w, <2>1 DEF SetTypes, EntryTypes, DocTypes, Documents
  <2>3. /\ doc'[m].open = doc[m].open /\ doc'[m].seen = doc[m].seen
        /\ doc'[m].mtime = doc[m].mtime /\ doc'[m].size = doc[m].size
    BY <1>p, <1>m, <2>1 DEF DocTypes, Documents
  <2>4. DocumentInv(m)'
    BY <1>p, <1>w, <2>1, <2>3 DEF DocumentInv, ToldInv, ChangeInv, Ahead
  <2>5. ASSUME NEW n \in Modules, n # m PROVE DocumentInv(n)'
    BY <1>p, <1>w, <2>1, <2>5, Bystander DEF DocTypes, Fires
  <2> QED BY <1>f, <2>2, <2>4, <2>5, FilePartsNext
<1>4. CASE Overwrite(m)
  <2>1. /\ doc' = [doc EXCEPT ![m].seen = text[m]] /\ save' = [save EXCEPT ![m] = "writing"]
        /\ save[m] = "conflict" /\ entry' = entry /\ touched' = touched
    BY <1>4 DEF Overwrite, providerVars
  <2>2. SetTypes' /\ EntryTypes' /\ DocTypes'
    BY <1>p, <1>w, <1>m, <2>1 DEF SetTypes, EntryTypes, DocTypes, Documents
  <2>3. /\ doc'[m].open = doc[m].open
        /\ doc'[m].mtime = doc[m].mtime /\ doc'[m].size = doc[m].size
        /\ save'[m] = "writing"
    BY <1>p, <1>m, <2>1 DEF DocTypes, Documents
  <2>4. doc[m].open /\ Ahead(m) /\ ToldInv(m) /\ ChangeInv(m) /\ (m \in announcing => m \in touched)
    BY <1>p, <2>1 DEF DocumentInv
  <2>5. Ahead(m)' /\ ToldInv(m)' /\ ChangeInv(m)'
    BY <1>w, <2>1, <2>3, <2>4 DEF ToldInv, ChangeInv, Ahead
  <2>6. DocumentInv(m)'
    BY <1>w, <2>1, <2>3, <2>4, <2>5 DEF DocumentInv
  <2>7. ASSUME NEW n \in Modules, n # m PROVE DocumentInv(n)'
    BY <1>p, <1>w, <2>1, <2>7, Bystander DEF DocTypes, Fires
  <2> QED BY <1>f, <2>2, <2>6, <2>7, FilePartsNext
<1>5. CASE FailSave(m)
  <2>1. /\ save' = [save EXCEPT ![m] = "none"] /\ save[m] \in {"writing", "conflict"}
        /\ doc' = doc /\ entry' = entry /\ touched' = touched
    BY <1>5 DEF FailSave, providerVars
  <2>2. SetTypes' /\ EntryTypes' /\ DocTypes'
    BY <1>p, <1>w, <2>1 DEF SetTypes, EntryTypes, DocTypes
  <2>3. save'[m] = "none"
    BY <1>p, <2>1 DEF DocTypes
  <2>4. DocumentInv(m)'
    BY <1>p, <1>w, <2>1, <2>3 DEF DocumentInv, ToldInv, ChangeInv, Ahead
  <2>5. ASSUME NEW n \in Modules, n # m PROVE DocumentInv(n)'
    BY <1>p, <1>w, <2>1, <2>5, Bystander DEF DocTypes, Fires
  <2> QED BY <1>f, <2>2, <2>4, <2>5, FilePartsNext
<1> QED
  BY <1>1, <1>2, <1>3, <1>4, <1>5

\* Where a save goes after its stat.
LEMMA SaveStatsIs ==
    ASSUME FileInv, NEW m \in Modules, SaveStats(m)
    PROVE  /\ FileInv'
           /\ save'[m] = "writing" => text[m] = doc'[m].seen \/ m \in announcing
           /\ save'[m] = "conflict" => m \in touched
           /\ \A n \in Modules : n # m => save'[n] = save[n]
<1> DEFINE ents == [entry EXCEPT ![m] = EnsureStat(@)]
<1>p. /\ TypeOK /\ stamp # 0 /\ FileTypes /\ SetTypes /\ EntryTypes /\ DocTypes
      /\ \A n \in Modules : DocumentInv(n)
  BY FileParts
<1>0. /\ doc[m].open /\ save[m] = "none" /\ Look(ents)
      /\ changed' = changed \cup Moved(entry)
      /\ save' = [save EXCEPT ![m] = IF Conflicts(m) THEN "conflict" ELSE "writing"]
      /\ UNCHANGED <<text, stamp, announcing, doc, touched>>
  BY DEF SaveStats, fileVars
<1>1. ToldInv(m) /\ entry[m] \in Entries
  BY <1>p, <1>0 DEF DocumentInv, EntryTypes
<1>2. EnsureStat(entry[m]) = entry[m]
  BY <1>p, <1>1, EnsureIs DEF ToldInv, FileTypes
<1>3. ents = entry /\ ents \in [Modules -> Entries]
  BY <1>p, <1>2 DEF EntryTypes
<1> HIDE DEF ents
<1>4. /\ entry' = Reconciled(entry) /\ accounted' = stamp /\ entry'[m] \in Entries
      /\ entry'[m].mtime >= entry[m].mtime
  BY <1>p, <1>0, <1>3, ReconciledIs DEF Look
<1>5. EnsureStat(entry'[m]) = entry'[m]
  <2>1. entry'[m].mtime \in Nat /\ entry[m].mtime \in Nat /\ entry[m].mtime # 0
    BY <1>1, <1>4 DEF Entries, ToldInv
  <2>2. entry'[m].mtime # 0
    BY <1>4, <2>1
  <2> QED BY <1>p, <1>4, <2>2, EnsureIs DEF FileTypes
<1>6. Conflicts(m) <=> doc[m].mtime < entry'[m].mtime /\ doc[m].size # entry'[m].size
  BY <1>4, <1>5 DEF Conflicts
<1>7. save'[m] = IF Conflicts(m) THEN "conflict" ELSE "writing"
  BY <1>p, <1>0 DEF DocTypes
<1>8. SaveStays(m)
  BY <1>0, <1>6, <1>7 DEF SaveStays, Ahead
<1>9. \A n \in Modules : n # m => save'[n] = save[n]
  BY <1>p, <1>0 DEF DocTypes
<1>10. DocTypes' /\ changed' \subseteq Modules
  BY <1>p, <1>0, MovedIs DEF DocTypes, SetTypes
<1>11. FileInv'
  BY <1>0, <1>3, <1>8, <1>9, <1>10, LookKeeps DEF SaveStays, fileVars
<1>12. /\ Ahead(m)' => m \in touched
       /\ ~Ahead(m)' => doc[m].seen = text[m] \/ m \in announcing
  BY <1>p, <1>0, <1>3, <1>4, <1>8, Looked
<1>13. Ahead(m)' <=> Conflicts(m)
  <2>1. ToldInv(m)'
    BY <1>0, <1>11, FileParts DEF FileInv, DocumentInv
  <2> QED BY <1>0, <1>6, <2>1 DEF ToldInv, Ahead
<1> QED
  BY <1>0, <1>7, <1>9, <1>11, <1>12, <1>13

-----------------------------------------------------------------------------
(* Writes.                                                                 *)

LEMMA AccountIs ==
    ASSUME FileTypes, stamp # 0, AccountForWrite, stamp' = stamp + 1
    PROVE  /\ accounted' \in 0..stamp' /\ accounted' # 0 /\ stamp' \in Nat /\ stamp' # 0
           /\ Fires => accounted' # stamp'
BY DEF FileTypes, AccountForWrite, Fires

LEMMA WriteFileKeeps ==
    ASSUME FileInv, NEW m \in Modules, NEW t \in Texts, WriteFile(m, t)
    PROVE  FileInv'
<1>p. /\ stamp # 0 /\ FileTypes /\ SetTypes /\ EntryTypes /\ DocTypes
      /\ \A n \in Modules : DocumentInv(n)
  BY FileParts
<1>0. /\ save[m] = "writing" /\ text' = [text EXCEPT ![m] = Stored[t]]
      /\ stamp' = stamp + 1 /\ AccountForWrite
      /\ save' = [save EXCEPT ![m] = "recording"]
      /\ doc' = [doc EXCEPT ![m].seen = Stored[t], ![m].dirty = FALSE]
      /\ touched' = Untouched(m)
      /\ UNCHANGED <<entry, changed, announcing>>
  BY DEF WriteFile
<1>1. /\ accounted' \in 0..stamp' /\ accounted' # 0 /\ stamp' \in Nat /\ stamp' # 0
      /\ Fires => accounted' # stamp'
  BY <1>p, <1>0, AccountIs
<1>2. Stored[t] \in Texts /\ doc[m] \in Documents
  BY <1>p, TextAssumption DEF DocTypes
<1>3. FileTypes'
  BY <1>p, <1>0, <1>1, <1>2 DEF FileTypes
<1>4. DocTypes'
  BY <1>p, <1>0, <1>2 DEF DocTypes, Documents
<1>5. SetTypes' /\ EntryTypes'
  BY <1>p, <1>0 DEF SetTypes, EntryTypes, Untouched
<1>6. /\ doc'[m].open = doc[m].open /\ doc'[m].seen = Stored[t] /\ text'[m] = Stored[t]
      /\ doc'[m].mtime = doc[m].mtime /\ doc'[m].size = doc[m].size
      /\ save'[m] = "recording"
  BY <1>p, <1>0, <1>2 DEF DocTypes, Documents, FileTypes
<1>7. DocumentInv(m)'
  <2>1. doc[m].open /\ ToldInv(m)
    BY <1>p, <1>0 DEF DocumentInv
  <2>2. ToldInv(m)'
    BY <1>0, <1>1, <1>6, <2>1 DEF ToldInv, Ahead
  <2>3. m \in announcing' => m \in touched'
    BY <1>0 DEF Untouched
  <2> QED BY <1>6, <2>1, <2>2, <2>3 DEF DocumentInv
<1>8. ASSUME NEW n \in Modules, n # m PROVE DocumentInv(n)'
  <2>1. /\ doc'[n] = doc[n] /\ text'[n] = text[n] /\ save'[n] = save[n]
        /\ n \in touched' <=> n \in touched
    BY <1>p, <1>0, <1>8 DEF DocTypes, FileTypes, Untouched
  <2> QED BY <1>p, <1>0, <1>1, <2>1, Bystander
<1> QED
  BY <1>1, <1>3, <1>4, <1>5, <1>7, <1>8, FilePartsNext

LEMMA FinishSaveKeeps ==
    ASSUME FileInv, NEW m \in Modules, FinishSave(m)
    PROVE  FileInv'
<1> DEFINE recorded == [entry EXCEPT ![m] = RecordSave(@, text[m])]
<1>p. /\ TypeOK /\ stamp # 0 /\ FileTypes /\ SetTypes /\ EntryTypes /\ DocTypes
      /\ \A n \in Modules : DocumentInv(n)
  BY FileParts
<1>0. /\ save[m] = "recording" /\ Look(recorded)
      /\ changed' = changed \cup {m} \cup Moved(recorded)
      /\ doc' = [doc EXCEPT ![m].mtime = Reconciled(recorded)[m].mtime,
                            ![m].size = Reconciled(recorded)[m].size]
      /\ save' = [save EXCEPT ![m] = "none"]
      /\ UNCHANGED <<text, stamp, announcing, touched>>
  BY DEF FinishSave, fileVars
<1>1. text[m] \in Texts /\ entry[m] \in Entries /\ doc[m] \in Documents
  BY <1>p DEF FileTypes, EntryTypes, DocTypes
<1>2. /\ RecordSave(entry[m], text[m]) \in Entries
      /\ RecordSave(entry[m], text[m]).mtime # 0
      /\ RecordSave(entry[m], text[m]).size = Size[text[m]]
      /\ RecordSave(entry[m], text[m]).given = text[m]
  BY <1>p, <1>1, RecordSaveIs DEF FileTypes
<1>3. /\ recorded \in [Modules -> Entries]
      /\ recorded[m] = RecordSave(entry[m], text[m])
      /\ \A n \in Modules : n # m => recorded[n] = entry[n]
  BY <1>p, <1>2 DEF EntryTypes
<1> HIDE DEF recorded
<1>4. doc[m].open /\ text[m] = doc[m].seen /\ (m \in announcing => m \in touched)
  BY <1>p, <1>0 DEF DocumentInv
<1>5. Reconciled(recorded)[m] = recorded[m]
  <2>1. ~Reached(recorded, m)
    BY <1>1, <1>2, <1>3, <1>4, ReachedOpen
  <2> QED BY <1>p, <1>3, <2>1, ReconciledIs
<1>6. /\ entry'[m] = recorded[m] /\ accounted' = stamp /\ entry' = Reconciled(recorded)
  BY <1>0, <1>5 DEF Look
<1>7. FileTypes' /\ EntryTypes' /\ stamp' # 0
  BY <1>0, <1>3, LookTypes DEF fileVars
<1>8. recorded[m].mtime \in Nat /\ recorded[m].size \in Nat
  BY <1>3 DEF Entries
<1>9. DocTypes'
  BY <1>p, <1>0, <1>1, <1>5, <1>8 DEF DocTypes, Documents
<1>10. SetTypes'
  BY <1>p, <1>0, MovedIs DEF SetTypes
<1>11. /\ doc'[m].open = doc[m].open /\ doc'[m].seen = doc[m].seen
       /\ doc'[m].mtime = recorded[m].mtime /\ doc'[m].size = Size[text[m]]
       /\ save'[m] = "none"
  BY <1>p, <1>0, <1>1, <1>2, <1>3, <1>5 DEF DocTypes, Documents
<1>12. DocumentInv(m)'
  <2>1. ~Ahead(m)'
    BY <1>6, <1>8, <1>11 DEF Ahead
  <2>2. ToldInv(m)'
    BY <1>p, <1>1, <1>2, <1>3, <1>6, <1>8, <1>11, <2>1 DEF ToldInv
  <2>3. ChangeInv(m)'
    BY <1>0, <1>2, <1>3, <1>4, <1>6, <1>11, <2>1 DEF ChangeInv
  <2> QED BY <1>0, <1>4, <1>11, <2>2, <2>3 DEF DocumentInv
<1>13. ASSUME NEW n \in Modules, n # m PROVE DocumentInv(n)'
  <2>1. /\ doc'[n] = doc[n] /\ text'[n] = text[n] /\ save'[n] = save[n]
        /\ recorded[n] = entry[n] /\ entry'[n] = Reconciled(recorded)[n]
    BY <1>p, <1>0, <1>3, <1>6, <1>13 DEF DocTypes
  <2> QED BY <1>p, <1>0, <1>3, <1>6, <2>1, Looked DEF SaveStays
<1> QED
  BY <1>7, <1>9, <1>10, <1>12, <1>13, FilePartsNext

\* A write by somebody else, while no save is between its write and its record.
LEMMA OthersKeep ==
    ASSUME FileInv, "save" \notin Slow, NEW m \in Modules, NEW t \in Texts,
           AgentWrite(m, t) \/ OutsideWrite(m, t)
    PROVE  FileInv'
<1>p. /\ stamp # 0 /\ FileTypes /\ SetTypes /\ EntryTypes /\ DocTypes
      /\ \A n \in Modules : DocumentInv(n)
  BY FileParts
<1>0. /\ Quiet /\ text' = [text EXCEPT ![m] = Stored[t]] /\ stamp' = stamp + 1
      /\ touched' = IF doc[m].open THEN touched \cup {m} ELSE touched
      /\ UNCHANGED <<entry, changed, doc, save>>
      /\ \/ AccountForWrite /\ announcing' = announcing \cup {m}
         \/ accounted' = accounted /\ announcing' = announcing
  BY DEF AgentWrite, OutsideWrite, codeVars, providerVars
<1>1. /\ accounted' \in 0..stamp' /\ stamp' \in Nat /\ stamp' # 0
      /\ accounted # 0 => accounted' # 0
      /\ Fires => accounted' # stamp'
      /\ m \in announcing' \/ accounted' # stamp'
  <2>1. CASE AccountForWrite /\ announcing' = announcing \cup {m}
    BY <1>p, <1>0, <2>1, AccountIs
  <2>2. CASE accounted' = accounted /\ announcing' = announcing
    BY <1>p, <1>0, <2>2 DEF FileTypes
  <2> QED BY <1>0, <2>1, <2>2
<1>2. Stored[t] \in Texts
  BY TextAssumption
<1>3. FileTypes'
  BY <1>p, <1>0, <1>1, <1>2 DEF FileTypes
<1>4. SetTypes' /\ EntryTypes' /\ DocTypes'
  BY <1>p, <1>0 DEF SetTypes, EntryTypes, DocTypes
<1>5. save[m] # "recording"
  BY <1>0 DEF Quiet
<1>6. DocumentInv(m)'
  <2>1. CASE ~doc[m].open
    BY <1>p, <1>0, <2>1 DEF DocumentInv
  <2>2. CASE doc[m].open
    <3>1. ToldInv(m) /\ ChangeInv(m) /\ (save[m] = "conflict" => Ahead(m))
      BY <1>p, <1>5, <2>2 DEF DocumentInv
    <3>2. ToldInv(m)' /\ (Ahead(m)' <=> Ahead(m))
      BY <1>0, <1>1, <3>1 DEF ToldInv, Ahead
    <3>3. m \in touched'
      BY <1>0, <2>2
    <3>4. ChangeInv(m)'
      BY <1>0, <1>1, <3>1, <3>2, <3>3 DEF ChangeInv
    <3> QED BY <1>0, <1>5, <2>2, <3>1, <3>2, <3>3, <3>4 DEF DocumentInv
  <2> QED BY <2>1, <2>2
<1>7. ASSUME NEW n \in Modules, n # m PROVE DocumentInv(n)'
  <2>1. /\ text'[n] = text[n] /\ doc' = doc /\ save' = save /\ entry' = entry
        /\ n \in touched' <=> n \in touched
        /\ n \in announcing' <=> n \in announcing
    BY <1>p, <1>0, <1>7 DEF FileTypes
  <2> QED BY <1>p, <1>1, <2>1, Bystander
<1> QED
  BY <1>1, <1>3, <1>4, <1>6, <1>7, FilePartsNext

LEMMA AnnounceKeeps ==
    ASSUME FileInv, NEW m \in Modules, Announce(m)
    PROVE  FileInv'
<1>p. /\ stamp # 0 /\ FileTypes /\ SetTypes /\ EntryTypes /\ DocTypes
      /\ \A n \in Modules : DocumentInv(n)
  BY FileParts
<1>0. /\ m \in announcing /\ announcing' = announcing \ {m}
      /\ entry' = [entry EXCEPT ![m] = Notified(@)]
      /\ changed' = changed \cup {m}
      /\ UNCHANGED <<text, stamp, accounted, doc, save, touched>>
  BY DEF Announce, fileVars, codeVars
<1>1. /\ entry[m] \in Entries /\ Notified(entry[m]) \in Entries
      /\ Notified(entry[m]).mtime > entry[m].mtime
      /\ Notified(entry[m]).given = entry[m].given
      /\ entry[m].given \in Texts => Notified(entry[m]).size # Size[entry[m].given]
  BY <1>p, NotifiedIs DEF EntryTypes, FileTypes
<1>2. entry'[m] = Notified(entry[m])
  BY <1>p, <1>0 DEF EntryTypes
<1>3. FileTypes' /\ SetTypes' /\ EntryTypes' /\ DocTypes'
  BY <1>p, <1>0, <1>1 DEF FileTypes, SetTypes, EntryTypes, DocTypes
<1>4. DocumentInv(m)'
  <2>1. CASE ~doc[m].open
    BY <1>p, <1>0, <2>1 DEF DocumentInv
  <2>2. CASE doc[m].open
    <3>1. ToldInv(m) /\ m \in touched /\ (save[m] = "recording" => text[m] = doc[m].seen)
      BY <1>p, <1>0, <2>2 DEF DocumentInv
    <3>2. /\ entry[m].mtime \in Nat /\ doc[m].mtime \in Nat
          /\ Notified(entry[m]).mtime \in Nat
      BY <1>p, <1>1 DEF Entries, DocTypes, Documents
    <3>3. Ahead(m)'
      BY <1>0, <1>1, <1>2, <3>1, <3>2 DEF Ahead, ToldInv
    <3>4. ToldInv(m)'
      BY <1>0, <1>1, <1>2, <3>1, <3>2 DEF ToldInv, Ahead
    <3>5. ChangeInv(m)'
      BY <1>0, <3>1, <3>3 DEF ChangeInv
    <3> QED BY <1>0, <2>2, <3>1, <3>3, <3>4, <3>5 DEF DocumentInv
  <2> QED BY <2>1, <2>2
<1>5. ASSUME NEW n \in Modules, n # m PROVE DocumentInv(n)'
  <2>1. /\ entry'[n] = entry[n] /\ text' = text /\ doc' = doc /\ save' = save
        /\ touched' = touched /\ n \in announcing' <=> n \in announcing
    BY <1>p, <1>0, <1>5 DEF EntryTypes
  <2> QED BY <1>p, <1>0, <2>1, Bystander DEF Fires
<1> QED
  BY <1>p, <1>0, <1>3, <1>4, <1>5, FilePartsNext

-----------------------------------------------------------------------------
(* The specification, where VS Code keeps the size of what it read and     *)
(* nothing comes between the write of a save and the record of it.         *)

LEMMA FileStep ==
    ASSUME SizeAsRead, "save" \notin Slow, FileInv, [Next]_vars
    PROVE  FileInv'
<1>1. CASE WatcherLook
  <2>1. CASE Modules # {}
    BY <1>1, <2>1, DocumentsKeep
  <2>2. CASE Modules = {}
    <3>1. /\ stamp # 0 /\ FileTypes /\ SetTypes /\ EntryTypes /\ DocTypes
      BY FileParts
    <3>2. entry \in [Modules -> Entries] /\ Look(entry) /\ UNCHANGED fileVars
      BY <1>1, <3>1 DEF WatcherLook, EntryTypes
    <3>3. FileTypes' /\ EntryTypes' /\ stamp' # 0
      BY <3>2, LookTypes
    <3>4. SetTypes' /\ DocTypes'
      BY <1>1, <2>2, <3>1, MovedIs DEF WatcherLook, SetTypes, DocTypes, codeVars
    <3> QED BY <2>2, <3>3, <3>4, FilePartsNext
  <2> QED BY <2>1, <2>2
<1>2. ASSUME NEW m \in Modules,
             OpenDocument(m) \/ Revert(m) \/ HearChange(m)
      PROVE  FileInv'
  BY <1>2, DocumentsKeep
<1>3. ASSUME NEW m \in Modules,
             CloseDocument(m) \/ ForgetClosed(m) \/ Edit(m) \/ Overwrite(m) \/ FailSave(m)
      PROVE  FileInv'
  BY <1>3, PlainKeeps
<1>4. ASSUME NEW m \in Modules, SaveStats(m) \/ FinishSave(m) \/ Announce(m) PROVE FileInv'
  BY <1>4, SaveStatsIs, FinishSaveKeeps, AnnounceKeeps
<1>5. ASSUME NEW m \in Modules, NEW t \in Texts,
             WriteFile(m, t) \/ AgentWrite(m, t) \/ OutsideWrite(m, t)
      PROVE  FileInv'
  BY <1>5, WriteFileKeeps, OthersKeep
<1>6. CASE UNCHANGED vars
  <2>1. UNCHANGED <<text, stamp, accounted, entry, announcing, changed, doc, save, touched>>
    BY <1>6 DEF vars, fileVars, providerVars, codeVars
  <2>2. changed' \subseteq Modules
    BY <2>1, FileParts DEF SetTypes
  <2> QED BY <2>1, <2>2, ChangedOnly
<1> QED
  BY <1>1, <1>2, <1>3, <1>4, <1>5, <1>6 DEF Next, Provider

THEOREM FileInvariant ==
    ASSUME SizeAsRead, "save" \notin Slow
    PROVE  Spec => []FileInv
<1>1. FileInv /\ [Next]_vars => FileInv'
  BY FileStep
<1> QED
  BY <1>1, FileInit, PTL DEF Spec

\* Types, and that the provider's stamp of an open document is never older
\* than what VS Code was told: a stat never goes back in time.
THEOREM FileTypesHold ==
    ASSUME SizeAsRead, "save" \notin Slow
    PROVE  Spec => []TypeOK
<1>1. FileInv => TypeOK
  BY DEF FileInv
<1> QED
  BY <1>1, FileInvariant, PTL

\* What any step makes of a save.
LEMMA SaveSteps ==
    ASSUME FileInv, [Next]_vars, NEW m \in Modules
    PROVE  /\ save[m] # "writing" /\ save'[m] = "writing" => SaveStats(m) \/ Overwrite(m)
           /\ save[m] # "conflict" /\ save'[m] = "conflict" => SaveStats(m)
<1>0. save \in [Modules -> {"none", "conflict", "writing", "recording"}]
  BY FileParts DEF DocTypes
<1>1. CASE save' = save
  BY <1>1
<1>2. ASSUME NEW n \in Modules, Revert(n) \/ FailSave(n) \/ FinishSave(n)
      PROVE  save'[m] \in {save[m], "none"}
  BY <1>0, <1>2 DEF Revert, FailSave, FinishSave
<1>3. ASSUME NEW n \in Modules, NEW t \in Texts, WriteFile(n, t)
      PROVE  save'[m] \in {save[m], "recording"}
  BY <1>0, <1>3 DEF WriteFile
<1>4. ASSUME NEW n \in Modules, n # m, SaveStats(n) \/ Overwrite(n)
      PROVE  save'[m] = save[m]
  BY <1>0, <1>4 DEF SaveStats, Overwrite
<1>5. CASE Overwrite(m)
  BY <1>0, <1>5 DEF Overwrite
<1>6. ASSUME NEW n \in Modules,
             OpenDocument(n) \/ CloseDocument(n) \/ ForgetClosed(n) \/ Edit(n) \/ Announce(n)
      PROVE  save' = save
  BY <1>6 DEF OpenDocument, CloseDocument, ForgetClosed, Edit, Announce, codeVars
<1>7. ASSUME NEW n \in Modules, HearChange(n) PROVE save' = save
  BY <1>7 DEF HearChange
<1>8. ASSUME NEW n \in Modules, NEW t \in Texts, AgentWrite(n, t) \/ OutsideWrite(n, t)
      PROVE  save' = save
  BY <1>8 DEF AgentWrite, OutsideWrite, codeVars
<1>9. WatcherLook \/ UNCHANGED vars => save' = save
  BY DEF WatcherLook, vars, codeVars
<1> QED
  BY <1>1, <1>2, <1>3, <1>4, <1>5, <1>6, <1>7, <1>8, <1>9 DEF Next, Provider

\* No save passes over a change of its module, whoever made it and whether or
\* not anything had noticed: the stat a save begins with either finds the
\* change or was moved by it.
THEOREM SavesPassOverNothing ==
    ASSUME SizeAsRead, "save" \notin Slow
    PROVE  Spec => SavesKnowTheText
<1>1. ASSUME FileInv, [Next]_vars, NEW m \in Modules, save[m] # "writing", save'[m] = "writing"
      PROVE  text[m] = doc'[m].seen \/ m \in announcing
  <2>1. CASE SaveStats(m)
    BY <1>1, <2>1, SaveStatsIs
  <2>2. CASE Overwrite(m)
    <3>1. doc[m] \in Documents /\ doc \in [Modules -> Documents]
      BY <1>1, FileParts DEF DocTypes
    <3>2. doc'[m].seen = text[m]
      BY <2>2, <3>1 DEF Overwrite, Documents
    <3> QED BY <3>2
  <2> QED BY <1>1, <2>1, <2>2, SaveSteps
<1>2. FileInv /\ [Next]_vars =>
        [\A m \in Modules : save[m] # "writing" /\ save'[m] = "writing" =>
            text[m] = doc'[m].seen \/ m \in announcing]_vars
  BY <1>1
<1> QED
  BY <1>2, FileInvariant, PTL DEF Spec, SavesKnowTheText

\* A save stops at a conflict only where its own module was written by
\* somebody else: a change of another module, a look, a save of this one or an
\* announcement that came late never stops it.
THEOREM ConflictsAreSomebodys ==
    ASSUME SizeAsRead, "save" \notin Slow
    PROVE  Spec => ConflictsAreReal
<1>1. ASSUME FileInv, [Next]_vars, NEW m \in Modules, save[m] # "conflict", save'[m] = "conflict"
      PROVE  m \in touched
  BY <1>1, SaveSteps, SaveStatsIs
<1>2. FileInv /\ [Next]_vars =>
        [\A m \in Modules : save[m] # "conflict" /\ save'[m] = "conflict" => m \in touched]_vars
  BY <1>1
<1> QED
  BY <1>2, FileInvariant, PTL DEF Spec, ConflictsAreReal

-----------------------------------------------------------------------------
(* The look at the file on its own (ProjectFileChanges): what the provider  *)
(* and the watchers tell of it, for any number of writers and writes.  What *)
(* each property rests on is an assumption of its theorem: for              *)
(* NothingHidden that the file is never read without its stamp and nobody   *)
(* else touches it while a write waits, for OwnWritesSilent only the        *)
(* latter.  The configurations files_listed and files_prompt show what      *)
(* happens without each.                                                    *)

\* The type invariant, strengthened: a save by rename leaves room to finish.
Shape == ChangesTypeOK /\ (gone => fileStamp < MaxWrites)

LEMMA ShapeInit == ChangesInit => Shape
<1> SUFFICES ASSUME ChangesInit PROVE Shape
  OBVIOUS
<1>1. fileStamp = 1 /\ accountedStamp = 0 /\ before = [w \in Writers |-> 0]
  BY DEF ChangesInit
<1>2. fileStamp \in 1..MaxWrites /\ accountedStamp \in 0..fileStamp
  BY <1>1, MaxWritesAssumption
<1>3. before \in [Writers -> 0..fileStamp]
  BY <1>1
<1> QED BY <1>2, <1>3 DEF ChangesInit, Shape, ChangesTypeOK

\* A newer stamp of the file leaves the stamps held within range.
LEMMA OlderStamps ==
    ASSUME Shape, fileStamp < MaxWrites
    PROVE  /\ fileStamp + 1 \in 1..MaxWrites
           /\ 0..fileStamp \subseteq 0..(fileStamp + 1)
           /\ accountedStamp \in 0..(fileStamp + 1)
           /\ before \in [Writers -> 0..(fileStamp + 1)]
<1>1. fileStamp \in 1..MaxWrites /\ accountedStamp \in 0..fileStamp /\ before \in [Writers -> 0..fileStamp]
  BY DEF Shape, ChangesTypeOK
<1>2. 0..fileStamp \subseteq 0..(fileStamp + 1)
  BY <1>1, MaxWritesAssumption
<1>3. before \in [Writers -> 0..(fileStamp + 1)]
  BY <1>1, <1>2
<1> QED BY <1>1, <1>2, <1>3, MaxWritesAssumption

\* A look, whatever it finds, leaves a stamp of the file's and a truth value.
LEMMA LookShape ==
    ASSUME Shape, CheckProjectFile
    PROVE  accountedStamp' \in 0..fileStamp /\ unseen' \in BOOLEAN /\ together' \in BOOLEAN
<1>1. accountedStamp' \in 0..fileStamp
  BY MaxWritesAssumption DEF Shape, ChangesTypeOK, CheckProjectFile, StampOf
<1>2. unseen' \in BOOLEAN /\ together' \in BOOLEAN
  BY Zenon DEF Shape, ChangesTypeOK, CheckProjectFile
<1> QED BY <1>1, <1>2

LEMMA ShapeStep == ASSUME Shape, [ChangesNext]_changesVars PROVE Shape'
<1>1. CASE UNCHANGED changesVars
  BY <1>1 DEF changesVars, Shape, ChangesTypeOK
<1>2. ASSUME NEW byServer \in BOOLEAN, OutsideChange(byServer) PROVE Shape'
  <2>1. fileStamp < MaxWrites /\ fileStamp' = fileStamp + 1 /\ accountedStamp' = accountedStamp /\ before' = before
    BY <1>2 DEF OutsideChange
  <2>2. unseen' \in BOOLEAN /\ noticed' \in BOOLEAN /\ reporting' \in BOOLEAN /\ gone' = FALSE
    BY <1>2 DEF OutsideChange, Known, Shape, ChangesTypeOK
  <2> QED BY <1>2, <2>1, <2>2, OlderStamps DEF OutsideChange, Shape, ChangesTypeOK
<1>3. CASE Vanish
  BY <1>3 DEF Vanish, Shape, ChangesTypeOK
<1>4. ASSUME NEW event \in {"change", "create"}, Reappear(event) PROVE Shape'
  <2>1. fileStamp < MaxWrites /\ fileStamp' = fileStamp + 1 /\ accountedStamp' = accountedStamp /\ before' = before
    BY <1>4 DEF Reappear, Shape
  <2>2. unseen' \in BOOLEAN /\ noticed' \in BOOLEAN /\ gone' = FALSE
    BY <1>4 DEF Reappear, Known, Shape, ChangesTypeOK
  <2> QED BY <1>4, <2>1, <2>2, OlderStamps DEF Reappear, Shape, ChangesTypeOK
<1>6. CASE Stat
  <2>1. CheckProjectFile
    BY <1>6 DEF Stat
  <2>2. accountedStamp' \in 0..fileStamp /\ unseen' \in BOOLEAN /\ together' \in BOOLEAN
    BY <2>1, LookShape
  <2> QED BY <1>6, <2>2 DEF Stat, Shape, ChangesTypeOK
<1>7. CASE ScheduleProjectFileCheck
  BY <1>7 DEF ScheduleProjectFileCheck, Shape, ChangesTypeOK
<1>8. CASE Settled
  <2>1. CheckProjectFile
    BY <1>8 DEF Settled
  <2>2. accountedStamp' \in 0..fileStamp /\ unseen' \in BOOLEAN /\ together' \in BOOLEAN
    BY <2>1, LookShape
  <2> QED BY <1>8, <2>2 DEF Settled, Shape, ChangesTypeOK
<1>9. CASE TakeReportedProjectFileChange
  <2>1. accountedStamp' \in 0..fileStamp /\ unseen' \in BOOLEAN /\ together' \in BOOLEAN
    <3>1. CASE StampOf = 0
      BY <1>9, <3>1 DEF TakeReportedProjectFileChange, Shape, ChangesTypeOK
    <3>2. CASE StampOf # 0
      <4>1. accountedStamp' = fileStamp /\ unseen' = FALSE /\ together' = (together /\ writing # {})
        BY <1>9, <3>2 DEF TakeReportedProjectFileChange, StampOf
      <4>2. fileStamp \in 0..fileStamp
        BY MaxWritesAssumption DEF Shape, ChangesTypeOK
      <4>3. together' \in BOOLEAN
        BY <4>1, Zenon DEF Shape, ChangesTypeOK
      <4> QED BY <4>1, <4>2, <4>3
    <3> QED BY <3>1, <3>2
  <2> QED BY <1>9, <2>1 DEF TakeReportedProjectFileChange, Shape, ChangesTypeOK
<1>10. ASSUME NEW w \in Writers, BeginWrite(w) PROVE Shape'
  <2>1. StampOf \in 0..fileStamp
    BY MaxWritesAssumption DEF StampOf, Shape, ChangesTypeOK
  <2>2. before' \in [Writers -> 0..fileStamp]
    <3>1. before \in [Writers -> 0..fileStamp] /\ before' = [before EXCEPT ![w] = StampOf]
      BY <1>10 DEF BeginWrite, Shape, ChangesTypeOK
    <3> QED BY <2>1, <3>1
  <2>3. together' \in BOOLEAN
    BY <1>10, Zenon DEF BeginWrite, Shape, ChangesTypeOK
  <2> QED BY <1>10, <2>2, <2>3 DEF BeginWrite, Shape, ChangesTypeOK
<1>11. ASSUME NEW w \in Writers, EndWrite(w) PROVE Shape'
  <2>1. fileStamp < MaxWrites /\ fileStamp' = fileStamp + 1 /\ before' = before /\ gone' = FALSE
    BY <1>11 DEF EndWrite, Shape, ChangesTypeOK
  <2>2. accountedStamp' \in 0..fileStamp'
    BY <1>11, <2>1, OlderStamps, MaxWritesAssumption DEF EndWrite, Shape, ChangesTypeOK
  <2>3. noticed' \in BOOLEAN /\ writing' \subseteq Writers
    BY <1>11 DEF EndWrite, Shape, ChangesTypeOK
  <2> QED BY <1>11, <2>1, <2>2, <2>3, OlderStamps DEF EndWrite, Shape, ChangesTypeOK
<1>12. ASSUME NEW w \in Writers, FailWrite(w) PROVE Shape'
  BY <1>12 DEF FailWrite, Shape, ChangesTypeOK
<1> QED BY <1>1, <1>2, <1>3, <1>4, <1>6, <1>7, <1>8, <1>9, <1>10, <1>11, <1>12
        DEF ChangesNext, Outside

\* Type correctness, whatever interrupts a write: no stamp the extension holds
\* is newer than the file's.
THEOREM ChangesTypeCorrect == ChangesSpec => []ChangesTypeOK
<1>1. ChangesInit => Shape
  BY ShapeInit
<1>2. Shape /\ [ChangesNext]_changesVars => Shape'
  BY ShapeStep
<1>3. Shape => ChangesTypeOK
  BY DEF Shape
<1> QED BY <1>1, <1>2, <1>3, PTL DEF ChangesSpec

-----------------------------------------------------------------------------
(* Nothing hidden *)

\* A file that was read was looked at first, a change nobody was told of shows
\* at the next look, and no write under way began by taking the stamp that is
\* accounted for now: its end will not account for the change.
HiddenInv ==
    /\ Shape
    /\ NothingHidden
    /\ read => accountedStamp # 0
    /\ unseen => \A w \in writing : accountedStamp # before[w]

\* A look leaves nothing unseen but where it found no file.
LEMMA LookHides ==
    ASSUME HiddenInv, CheckProjectFile, UNCHANGED <<fileStamp, gone, before, writing>>
    PROVE  /\ NothingHidden'
           /\ unseen' => \A w \in writing' : accountedStamp' # before'[w]
           /\ accountedStamp # 0 => accountedStamp' # 0
           /\ ~gone => accountedStamp' # 0
BY MaxWritesAssumption
   DEF HiddenInv, Shape, ChangesTypeOK, NothingHidden, CheckProjectFile, StampOf, WouldFire

LEMMA HiddenStep ==
    ASSUME ~Lists, "outside" \notin Interrupts, HiddenInv, [ChangesNext]_changesVars
    PROVE  HiddenInv'
<1>0. Shape'
  BY ShapeStep DEF HiddenInv
<1>T. Shape /\ ChangesTypeOK
  BY DEF HiddenInv, Shape
<1>1. CASE UNCHANGED changesVars
  BY <1>0, <1>1 DEF changesVars, HiddenInv, NothingHidden, WouldFire
<1>2. ASSUME NEW byServer \in BOOLEAN, OutsideChange(byServer) PROVE HiddenInv'
  <2>1. writing' = {} /\ accountedStamp' = accountedStamp /\ fileStamp' = fileStamp + 1 /\ read' = read
    BY <1>2 DEF OutsideChange, Undisturbed
  <2>2. unseen' => accountedStamp' \notin {0, fileStamp'}
    BY <1>2, <2>1, <1>T, MaxWritesAssumption DEF OutsideChange, Known, HiddenInv, ChangesTypeOK
  <2> QED BY <1>0, <2>1, <2>2 DEF HiddenInv, NothingHidden, WouldFire
<1>3. CASE Vanish
  BY <1>0, <1>3 DEF Vanish, HiddenInv, NothingHidden, WouldFire
<1>4. ASSUME NEW event \in {"change", "create"}, Reappear(event) PROVE HiddenInv'
  <2>1. writing' = {} /\ accountedStamp' = accountedStamp /\ fileStamp' = fileStamp + 1 /\ read' = read
    BY <1>4 DEF Reappear, Undisturbed
  <2>2. unseen' => accountedStamp' \notin {0, fileStamp'}
    BY <1>4, <2>1, <1>T, MaxWritesAssumption DEF Reappear, Known, HiddenInv, ChangesTypeOK
  <2> QED BY <1>0, <2>1, <2>2 DEF HiddenInv, NothingHidden, WouldFire
<1>5. CASE Stat
  <2>1. CheckProjectFile /\ UNCHANGED <<fileStamp, gone, before, writing>>
    BY <1>5 DEF Stat
  <2>2. read' = (read \/ ~gone)
    BY <1>5 DEF Stat
  <2> QED BY <1>0, <2>1, <2>2, LookHides DEF HiddenInv
<1>6. CASE ScheduleProjectFileCheck
  BY <1>0, <1>6 DEF ScheduleProjectFileCheck, HiddenInv, NothingHidden, WouldFire
<1>7. CASE Settled
  <2>1. CheckProjectFile /\ UNCHANGED <<fileStamp, gone, before, writing>> /\ read' = read
    BY <1>7 DEF Settled
  <2> QED BY <1>0, <2>1, LookHides DEF HiddenInv
<1>8. CASE TakeReportedProjectFileChange
  BY <1>0, <1>8, <1>T, MaxWritesAssumption
     DEF TakeReportedProjectFileChange, StampOf, HiddenInv, NothingHidden, WouldFire, ChangesTypeOK
<1>9. ASSUME NEW w \in Writers, BeginWrite(w) PROVE HiddenInv'
  <2>1. before'[w] = fileStamp /\ \A v \in writing : v # w /\ before'[v] = before[v]
    BY <1>9, <1>T DEF BeginWrite, StampOf, ChangesTypeOK
  <2>2. UNCHANGED <<fileStamp, accountedStamp, unseen, read>> /\ writing' = writing \cup {w}
    BY <1>9 DEF BeginWrite
  <2>3. unseen' => \A v \in writing' : accountedStamp' # before'[v]
    BY <2>1, <2>2 DEF HiddenInv, NothingHidden, WouldFire
  <2> QED BY <1>0, <2>2, <2>3 DEF HiddenInv, NothingHidden, WouldFire
<1>10. ASSUME NEW w \in Writers, EndWrite(w) PROVE HiddenInv'
  <2>1. /\ w \in writing /\ fileStamp' = fileStamp + 1 /\ before' = before
        /\ unseen' = unseen /\ read' = read /\ writing' = writing \ {w}
        /\ accountedStamp' = IF Accounts(w) THEN fileStamp + 1 ELSE accountedStamp
    BY <1>10 DEF EndWrite
  <2>2. unseen => ~Accounts(w)
    BY <2>1 DEF Accounts, HiddenInv, NothingHidden, WouldFire
  <2>3. unseen' => accountedStamp' \notin {0, fileStamp'}
    BY <2>1, <2>2, <1>T, MaxWritesAssumption DEF HiddenInv, NothingHidden, WouldFire, ChangesTypeOK
  <2>4. unseen' => \A v \in writing' : accountedStamp' # before'[v]
    BY <2>1, <2>2 DEF HiddenInv
  <2>5. read' => accountedStamp' # 0
    BY <2>1, <1>T, MaxWritesAssumption DEF HiddenInv, ChangesTypeOK
  <2> QED BY <1>0, <2>3, <2>4, <2>5 DEF HiddenInv, NothingHidden, WouldFire
<1>11. ASSUME NEW w \in Writers, FailWrite(w) PROVE HiddenInv'
  BY <1>0, <1>11 DEF FailWrite, HiddenInv, NothingHidden, WouldFire
<1> QED BY <1>1, <1>2, <1>3, <1>4, <1>5, <1>6, <1>7, <1>8, <1>9, <1>10, <1>11
        DEF ChangesNext, Outside

\* Nothing hidden: with a file never read without its stamp, and left alone by
\* others while a write of the extension's waits, no order of checks, reports
\* and overlapping writes accounts for a change nobody was told of.
THEOREM ChangesAreNotHidden ==
    ~Lists /\ "outside" \notin Interrupts => (ChangesSpec => []NothingHidden)
<1> SUFFICES ASSUME ~Lists, "outside" \notin Interrupts PROVE ChangesSpec => []NothingHidden
  OBVIOUS
<1>1. ChangesInit => HiddenInv
  BY ShapeInit DEF ChangesInit, HiddenInv, NothingHidden
<1>2. HiddenInv /\ [ChangesNext]_changesVars => HiddenInv'
  BY HiddenStep
<1>3. HiddenInv => NothingHidden
  BY DEF HiddenInv
<1> QED BY <1>1, <1>2, <1>3, PTL DEF ChangesSpec

-----------------------------------------------------------------------------
(* Own writes silent *)

\* What is accounted for is the file's stamp unless a change made outside is
\* to be reported, and a write under way that waits alone began at the stamp
\* the file has.
SilentInv ==
    /\ Shape
    /\ OwnWritesSilent
    /\ ~together => \A w \in writing : writing = {w} /\ before[w] = fileStamp

\* A look that finds the file leaves nothing to fire, and one that does not
\* leaves what there was.
LEMMA LookIsSilent ==
    ASSUME SilentInv, CheckProjectFile, UNCHANGED <<fileStamp, gone, before, writing>>
    PROVE  /\ OwnWritesSilent'
           /\ ~together' => \A w \in writing' : writing' = {w} /\ before'[w] = fileStamp'
<1>1. CASE StampOf = 0
  BY <1>1 DEF CheckProjectFile, SilentInv, OwnWritesSilent, WouldFire
<1>2. CASE StampOf # 0
  <2>1. accountedStamp' = fileStamp' /\ together' = (together /\ writing # {})
    BY <1>2 DEF CheckProjectFile, StampOf
  <2>2. OwnWritesSilent'
    BY <2>1 DEF OwnWritesSilent, WouldFire
  <2> QED BY <2>1, <2>2 DEF SilentInv
<1> QED BY <1>1, <1>2

LEMMA SilentStep ==
    ASSUME "outside" \notin Interrupts, SilentInv, [ChangesNext]_changesVars
    PROVE  SilentInv'
<1>0. Shape'
  BY ShapeStep DEF SilentInv
<1>T. Shape /\ ChangesTypeOK
  BY DEF SilentInv, Shape
<1>1. CASE UNCHANGED changesVars
  BY <1>0, <1>1 DEF changesVars, SilentInv, OwnWritesSilent, WouldFire
<1>2. ASSUME NEW byServer \in BOOLEAN, OutsideChange(byServer) PROVE SilentInv'
  BY <1>0, <1>2 DEF OutsideChange, Undisturbed, Known, SilentInv, OwnWritesSilent, WouldFire
<1>3. CASE Vanish
  BY <1>0, <1>3 DEF Vanish, SilentInv, OwnWritesSilent, WouldFire
<1>4. ASSUME NEW event \in {"change", "create"}, Reappear(event) PROVE SilentInv'
  BY <1>0, <1>4 DEF Reappear, Undisturbed, Known, SilentInv, OwnWritesSilent, WouldFire
<1>5. CASE Stat
  BY <1>0, <1>5, LookIsSilent DEF Stat, SilentInv
<1>6. CASE ScheduleProjectFileCheck
  BY <1>0, <1>6 DEF ScheduleProjectFileCheck, SilentInv, OwnWritesSilent, WouldFire
<1>7. CASE Settled
  BY <1>0, <1>7, LookIsSilent DEF Settled, SilentInv
<1>8. CASE TakeReportedProjectFileChange
  <2>1. CASE StampOf = 0
    BY <1>0, <1>8, <2>1
       DEF TakeReportedProjectFileChange, SilentInv, OwnWritesSilent, WouldFire
  <2>2. CASE StampOf # 0
    <3>1. /\ accountedStamp' = fileStamp' /\ together' = (together /\ writing # {})
          /\ UNCHANGED <<fileStamp, writing, before>>
      BY <1>8, <2>2 DEF TakeReportedProjectFileChange, StampOf
    <3>2. OwnWritesSilent'
      BY <3>1 DEF OwnWritesSilent, WouldFire
    <3> QED BY <1>0, <3>1, <3>2 DEF SilentInv
  <2> QED BY <2>1, <2>2
<1>9. ASSUME NEW w \in Writers, BeginWrite(w) PROVE SilentInv'
  <2>1. writing' = writing \cup {w} /\ before'[w] = fileStamp
    BY <1>9, <1>T DEF BeginWrite, StampOf, ChangesTypeOK
  <2>2. ~together' => ~together /\ writing = {}
    BY <1>9 DEF BeginWrite
  <2>3. OwnWritesSilent'
    BY <1>9 DEF BeginWrite, SilentInv, OwnWritesSilent, WouldFire
  <2>4. fileStamp' = fileStamp
    BY <1>9 DEF BeginWrite
  <2> QED BY <1>0, <2>1, <2>2, <2>3, <2>4 DEF SilentInv
<1>10. ASSUME NEW w \in Writers, EndWrite(w) PROVE SilentInv'
  <2>1. /\ w \in writing /\ writing' = writing \ {w} /\ fileStamp' = fileStamp + 1
        /\ UNCHANGED <<unseen, together>>
        /\ accountedStamp' = IF Accounts(w) THEN fileStamp' ELSE accountedStamp
    BY <1>10 DEF EndWrite
  <2>2. CASE together
    BY <1>0, <2>1, <2>2 DEF SilentInv, OwnWritesSilent
  <2>3. CASE ~together
    <3>1. writing = {w} /\ before[w] = fileStamp /\ writing' = {}
      BY <2>1, <2>3 DEF SilentInv
    <3>2. ~Accounts(w) => unseen
      BY <2>3, <3>1 DEF Accounts, SilentInv, OwnWritesSilent, WouldFire
    <3>3. OwnWritesSilent'
      BY <2>1, <3>2 DEF OwnWritesSilent, WouldFire
    <3> QED BY <1>0, <3>1, <3>3 DEF SilentInv
  <2> QED BY <2>2, <2>3
<1>11. ASSUME NEW w \in Writers, FailWrite(w) PROVE SilentInv'
  BY <1>0, <1>11 DEF FailWrite, SilentInv, OwnWritesSilent, WouldFire
<1> QED BY <1>1, <1>2, <1>3, <1>4, <1>5, <1>6, <1>7, <1>8, <1>9, <1>10, <1>11
        DEF ChangesNext, Outside

\* Own writes are silent: where nobody else touches the file while a write
\* waits, a look fires only where somebody else changed the file, or two
\* writes of the extension's waited together.
THEOREM OwnWritesAreSilent ==
    "outside" \notin Interrupts => (ChangesSpec => []OwnWritesSilent)
<1> SUFFICES ASSUME "outside" \notin Interrupts PROVE ChangesSpec => []OwnWritesSilent
  OBVIOUS
<1>1. ChangesInit => SilentInv
  BY ShapeInit DEF ChangesInit, SilentInv, OwnWritesSilent, WouldFire
<1>2. SilentInv /\ [ChangesNext]_changesVars => SilentInv'
  BY SilentStep
<1>3. SilentInv => OwnWritesSilent
  BY DEF SilentInv
<1> QED BY <1>1, <1>2, <1>3, PTL DEF ChangesSpec

=============================================================================
