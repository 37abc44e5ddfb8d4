---------------------- MODULE ProjectIndexLoadsProofs ----------------------
(***************************************************************************)
(* Proofs about ProjectIndexLoads.                                         *)
(***************************************************************************)
EXTENDS ProjectIndexLoads, TLAPS

ReadStates == [at : {"free", "asked"}]
              \cup [at : {"rest"}, attached : BOOLEAN, out : [Modules -> Held]]
LoadStates == [at : {"free"}] \cup [at : {"reading"}, read : Reads]
              \cup [at : {"building"}, texts : [Modules -> Held]]
Records == [at : {"none"}]
           \cup [at : {"kept"}, texts : [Modules -> Held], applied : [Modules -> 0 .. MaxVersion]]
Documents == [open : BOOLEAN, text : Held, version : 0 .. MaxVersion, dirty : BOOLEAN]

-----------------------------------------------------------------------------
(* Who runs, and who waits for whom.                                       *)

RunTypes ==
    /\ reads \in [Reads -> ReadStates] /\ loads \in [Loads -> LoadStates]
    /\ theRead \in Reads \cup {NoRead} /\ theLoad \in Loads \cup {NoLoad}

RunInv == RunTypes /\ WaitedForRuns

LEMMA RunsKept ==
    ASSUME RunInv, UNCHANGED <<theRead, reads, theLoad, loads>>
    PROVE  RunInv'
BY DEF RunInv, RunTypes, WaitedForRuns

\* What an invalidation makes of the loads and the reads: nobody waits for
\* those that run, and they run on.
LEMMA RunsForgotten ==
    ASSUME RunInv, ForgetCache, theLoad' = NoLoad, UNCHANGED loads
    PROVE  RunInv'
<1> USE NamesAssumption
<1>1. \A r \in Reads : reads'[r] \in ReadStates /\ reads'[r].at = reads[r].at
  <2> TAKE r \in Reads
  <2>1. reads[r] \in ReadStates
    BY DEF RunInv, RunTypes
  <2>2. CASE reads[r].at = "rest"
    BY <2>1, <2>2 DEF ForgetCache, ReadStates
  <2>3. CASE reads[r].at # "rest"
    BY <2>1, <2>3 DEF ForgetCache
  <2> QED
    BY <2>2, <2>3
<1>2. reads' \in [Reads -> ReadStates] /\ theRead' = NoRead
  BY <1>1 DEF ForgetCache
<1>3. RunTypes'
  BY <1>2 DEF RunInv, RunTypes
<1>4. WaitedForRuns'
  <2>1. \A l \in Loads : loads[l].at = "reading" => loads[l].read \in Reads
    BY DEF RunInv, RunTypes, LoadStates
  <2> QED
    BY <1>1, <1>2, <2>1 DEF RunInv, WaitedForRuns
<1> QED
  BY <1>3, <1>4 DEF RunInv

LEMMA RunsInvalidated ==
    ASSUME RunInv, theLoad' \in {NoLoad, theLoad}, theRead' \in {NoRead, theRead},
           UNCHANGED <<reads, loads>>
    PROVE  RunInv'
BY NamesAssumption DEF RunInv, RunTypes, WaitedForRuns

\* A load that starts joins a read that runs, begins one, or reads nothing.
LEMMA LoadStarts ==
    ASSUME RunInv, NEW l \in Loads, loads[l].at = "free", StartLoad(l),
           Complete => Listed \in [Modules -> Held]
    PROVE  RunInv'
<1> USE NamesAssumption
<1>1. CASE theRead # NoRead /\ loads' = [loads EXCEPT ![l] = [at |-> "reading", read |-> theRead]]
           /\ UNCHANGED <<theRead, reads>>
  <2>1. [at |-> "reading", read |-> theRead] \in LoadStates
    BY <1>1 DEF RunInv, RunTypes, LoadStates
  <2>2. RunTypes'
    BY <1>1, <2>1 DEF RunInv, RunTypes, StartLoad
  <2>3. WaitedForRuns'
    BY <1>1 DEF RunInv, RunTypes, WaitedForRuns, StartLoad
  <2> QED
    BY <2>2, <2>3 DEF RunInv
<1>2. CASE Complete /\ loads' = [loads EXCEPT ![l] = [at |-> "building", texts |-> Listed]]
           /\ UNCHANGED <<theRead, reads>>
  <2>1. [at |-> "building", texts |-> Listed] \in LoadStates
    BY <1>2 DEF LoadStates
  <2>2. RunTypes'
    BY <1>2, <2>1 DEF RunInv, RunTypes, StartLoad
  <2>3. WaitedForRuns'
    BY <1>2 DEF RunInv, RunTypes, WaitedForRuns, StartLoad
  <2> QED
    BY <2>2, <2>3 DEF RunInv
<1>3. CASE \E r \in Reads : /\ BeginRead(r)
                            /\ loads' = [loads EXCEPT ![l] = [at |-> "reading", read |-> r]]
  <2>1. PICK r \in Reads : /\ BeginRead(r)
                           /\ loads' = [loads EXCEPT ![l] = [at |-> "reading", read |-> r]]
    BY <1>3
  <2>2. [at |-> "reading", read |-> r] \in LoadStates /\ [at |-> "asked"] \in ReadStates
    BY DEF LoadStates, ReadStates
  <2>3. RunTypes'
    BY <2>1, <2>2 DEF RunInv, RunTypes, StartLoad, BeginRead
  <2>4. WaitedForRuns'
    BY <2>1 DEF RunInv, RunTypes, WaitedForRuns, StartLoad, BeginRead
  <2> QED
    BY <2>3, <2>4 DEF RunInv
<1> QED
  BY <1>1, <1>2, <1>3 DEF StartLoad

\* Texts taken from a read are texts.
LEMMA TakenHeld ==
    ASSUME NEW m \in Modules, NEW t \in Held, cached \in [Modules -> Texts \cup {Unknown}]
    PROVE  Taken(m, t) \in Held
BY DEF Taken, Keeps, Held

LEMMA ReadReads ==
    ASSUME RunInv, NEW r \in Reads, ReadFile(r), file \in [Modules -> Held],
           cached \in [Modules -> Texts \cup {Unknown}]
    PROVE  RunInv'
<1> DEFINE out == [m \in Modules |-> IF m \in FirstChunk THEN Taken(m, file[m]) ELSE file[m]]
<1>1. out \in [Modules -> Held]
  BY TakenHeld
<1>2. reads' = [reads EXCEPT ![r] = [at |-> "rest", attached |-> TRUE, out |-> out]]
      /\ UNCHANGED <<theRead, theLoad, loads>>
  BY DEF ReadFile, recordVars
<1> HIDE DEF out
<1>3. [at |-> "rest", attached |-> TRUE, out |-> out] \in ReadStates
  BY <1>1 DEF ReadStates
<1>4. RunTypes'
  BY <1>2, <1>3 DEF RunInv, RunTypes
<1>5. WaitedForRuns'
  BY <1>2 DEF RunInv, RunTypes, WaitedForRuns
<1> QED
  BY <1>4, <1>5 DEF RunInv

\* A read that ends, and the loads that waited for it go on with texts, or end.
LEMMA ReadEnds ==
    ASSUME RunInv, NEW r \in Reads, EndRead(r), NEW S \in LoadStates, S.at # "reading",
           loads' = [l \in Loads |-> IF loads[l].at = "reading" /\ loads[l].read = r
                                     THEN S ELSE loads[l]],
           theLoad' \in {NoLoad, theLoad},
           theLoad' # NoLoad => loads'[theLoad'].at # "free"
    PROVE  RunInv'
<1> USE NamesAssumption
<1>1. Free \in ReadStates
  BY DEF Free, ReadStates
<1>2. RunTypes'
  BY <1>1 DEF RunInv, RunTypes, EndRead
<1>3. WaitedForRuns'
  <2>1. theRead' # NoRead => reads'[theRead'].at # "free"
    BY DEF RunInv, RunTypes, WaitedForRuns, EndRead
  <2>2. ASSUME NEW l \in Loads, loads'[l].at = "reading"
        PROVE  reads'[loads'[l].read].at # "free"
    <3>1. loads'[l] = loads[l] /\ loads[l].read # r
      BY <2>2
    <3>2. loads[l].read \in Reads
      BY <2>2, <3>1 DEF RunInv, RunTypes, LoadStates
    <3> QED
      BY <2>2, <3>1, <3>2 DEF RunInv, RunTypes, WaitedForRuns, EndRead
  <2> QED
    BY <2>1, <2>2 DEF WaitedForRuns
<1> QED
  BY <1>2, <1>3 DEF RunInv

LEMMA ReadFails ==
    ASSUME RunInv, NEW r \in Reads, FailRead(r)
    PROVE  RunInv'
<1> DEFINE waited == {l \in Loads : loads[l].at = "reading" /\ loads[l].read = r}
<1>1. Free \in LoadStates /\ Free.at # "reading"
  BY DEF Free, LoadStates
<1>2. loads' = [l \in Loads |-> IF loads[l].at = "reading" /\ loads[l].read = r
                               THEN Free ELSE loads[l]]
  BY DEF FailRead
<1>3. theLoad' = IF theLoad \in waited THEN NoLoad ELSE theLoad
  BY DEF FailRead, FailedLoadGoes
<1>4. theLoad' # NoLoad => loads'[theLoad'].at # "free"
  BY <1>2, <1>3 DEF RunInv, RunTypes, WaitedForRuns
<1> QED
  BY <1>1, <1>2, <1>3, <1>4, ReadEnds DEF FailRead

\* What ReadRest delivers.
RestOut(r) ==
    IF ~reads[r].attached THEN reads[r].out
    ELSE [m \in Modules |-> IF m \in Modules \ FirstChunk THEN Taken(m, reads[r].out[m])
                            ELSE reads[r].out[m]]

LEMMA RestIsHeld ==
    ASSUME RunInv, NEW r \in Reads, reads[r].at = "rest",
           cached \in [Modules -> Texts \cup {Unknown}]
    PROVE  reads[r].out \in [Modules -> Held] /\ RestOut(r) \in [Modules -> Held]
<1>1. reads[r] \in ReadStates
  BY DEF RunInv, RunTypes
<1>2. reads[r].out \in [Modules -> Held]
  BY <1>1 DEF ReadStates
<1> QED
  BY <1>2, TakenHeld DEF RestOut

LEMMA ReadDelivers ==
    ASSUME RunInv, NEW r \in Reads, ReadRest(r),
           cached \in [Modules -> Texts \cup {Unknown}]
    PROVE  RunInv'
<1> DEFINE S == [at |-> "building", texts |-> RestOut(r)]
<1>1. RestOut(r) \in [Modules -> Held]
  BY RestIsHeld DEF ReadRest
<1>2. S \in LoadStates /\ S.at # "reading" /\ S.at # "free"
  BY <1>1 DEF LoadStates
<1>3. loads' = [l \in Loads |-> IF loads[l].at = "reading" /\ loads[l].read = r
                               THEN S ELSE loads[l]]
      /\ theLoad' = theLoad /\ EndRead(r)
  BY DEF ReadRest, Deliver, RestOut
<1> HIDE DEF S
<1>4. theLoad' # NoLoad => loads'[theLoad'].at # "free"
  BY <1>2, <1>3 DEF RunInv, RunTypes, WaitedForRuns
<1> QED
  BY <1>2, <1>3, <1>4, ReadEnds

LEMMA LoadEnds ==
    ASSUME RunInv, NEW l \in Loads, EndLoad(l)
    PROVE  RunInv'
<1> USE NamesAssumption
<1>1. Free \in LoadStates /\ Free.at # "reading"
  BY DEF Free, LoadStates
<1>2. loads' = [loads EXCEPT ![l] = Free] /\ UNCHANGED <<theRead, reads>>
      /\ theLoad' = IF theLoad = l THEN NoLoad ELSE theLoad
  BY DEF EndLoad, cacheVars
<1>3. RunTypes'
  BY <1>1, <1>2 DEF RunInv, RunTypes
<1>4. WaitedForRuns'
  BY <1>1, <1>2 DEF RunInv, RunTypes, WaitedForRuns
<1> QED
  BY <1>3, <1>4 DEF RunInv

-----------------------------------------------------------------------------
(* The file, the editors, and what the index has of them.                  *)

DocumentTypes ==
    /\ doc \in [Modules -> Documents]
    /\ \A m \in Modules : IF doc[m].open THEN doc[m].text # Absent /\ doc[m].version > 0
                          ELSE doc[m].version = 0
    /\ saving \subseteq {m \in Modules : doc[m].open}

FileTypes ==
    /\ file \in [Modules -> Held] /\ unsaid \subseteq Modules /\ writes \in 0 .. MaxWrites
    /\ announcing \in Nat /\ noticed \in BOOLEAN
    /\ lastSeen = Nothing \/ lastSeen \in [Modules -> Held]

CacheTypes ==
    /\ cached \in [Modules -> Texts \cup {Unknown}]
    /\ listed \in BOOLEAN /\ list \subseteq Modules /\ bumped \subseteq Modules

\* The version of a document that is in the record is none that is to come.
AppliedAt(m) ==
    Kept => /\ record.applied[m] <= doc[m].version
            /\ record.texts[m] = Absent => record.applied[m] = 0

RecordTypes == record \in Records /\ aged \in BOOLEAN
RecordInv == RecordTypes /\ \A m \in Modules : AppliedAt(m)

TypeInv == DocumentTypes /\ FileTypes /\ CacheTypes /\ RunInv /\ RecordInv

LEMMA TypesFollow ==
    ASSUME TypeInv
    PROVE  TypeOK /\ WaitedForRuns
<1>1. \A r \in Reads : reads[r].at = "rest" => reads[r].out \in [Modules -> Held]
  BY DEF TypeInv, RunInv, RunTypes, ReadStates
<1>2. \A l \in Loads : loads[l].at = "building" => loads[l].texts \in [Modules -> Held]
  BY DEF TypeInv, RunInv, RunTypes, LoadStates
<1>3. Kept => /\ record.texts \in [Modules -> Held]
              /\ record.applied \in [Modules -> 0 .. MaxVersion]
  BY DEF TypeInv, RecordInv, RecordTypes, Records, Kept
<1>4. doc \in [Modules -> [open : BOOLEAN, text : Held, version : 0 .. MaxVersion,
                            dirty : BOOLEAN]]
  BY DEF TypeInv, DocumentTypes, Documents
<1>5. \A m \in Modules : doc[m].open => doc[m].text # Absent /\ doc[m].version > 0
  BY DEF TypeInv, DocumentTypes
<1> QED
  BY <1>1, <1>2, <1>3, <1>4, <1>5
  DEF TypeInv, DocumentTypes, FileTypes, CacheTypes, RunInv, RunTypes, RecordInv, RecordTypes,
      TypeOK

\* A record of the project, field by field.
RecordOf(texts, applied) == [at |-> "kept", texts |-> texts, applied |-> applied]

LEMMA RecordFields ==
    ASSUME NEW rec \in Records, rec.at = "kept"
    PROVE  /\ rec = RecordOf(rec.texts, rec.applied)
           /\ rec.texts \in [Modules -> Held] /\ rec.applied \in [Modules -> 0 .. MaxVersion]
BY DEF Records, RecordOf

LEMMA RecordOfIs ==
    ASSUME NEW texts \in [Modules -> Held], NEW applied \in [Modules -> 0 .. MaxVersion]
    PROVE  RecordOf(texts, applied) \in Records
BY DEF Records, RecordOf

LEMMA RecordOfHas ==
    ASSUME NEW texts, NEW applied
    PROVE  /\ RecordOf(texts, applied).at = "kept"
           /\ RecordOf(texts, applied).texts = texts
           /\ RecordOf(texts, applied).applied = applied
BY DEF RecordOf

LEMMA NewTexts ==
    ASSUME NEW texts, NEW applied, NEW other, NEW rec,
           rec = [at |-> "kept", texts |-> texts, applied |-> applied]
    PROVE  [rec EXCEPT !.texts = other] = [at |-> "kept", texts |-> other, applied |-> applied]
OBVIOUS

LEMMA NewApplied ==
    ASSUME NEW texts, NEW applied, NEW other, NEW rec,
           rec = [at |-> "kept", texts |-> texts, applied |-> applied]
    PROVE  [rec EXCEPT !.applied = other] = [at |-> "kept", texts |-> texts, applied |-> other]
OBVIOUS

LEMMA WithTextIs ==
    ASSUME NEW rec \in Records, rec.at = "kept", NEW m \in Modules, NEW t \in Held
    PROVE  WithText(rec, m, t) = RecordOf([rec.texts EXCEPT ![m] = t], rec.applied)
<1>1. WithText(rec, m, t) = [rec EXCEPT !.texts = [rec.texts EXCEPT ![m] = t]]
  BY DEF WithText
<1>2. rec = [at |-> "kept", texts |-> rec.texts, applied |-> rec.applied]
  BY RecordFields DEF RecordOf
<1>3. [rec EXCEPT !.texts = [rec.texts EXCEPT ![m] = t]]
      = [at |-> "kept", texts |-> [rec.texts EXCEPT ![m] = t], applied |-> rec.applied]
  BY <1>2, NewTexts
<1> QED
  BY <1>1, <1>3, Zenon DEF RecordOf

LEMMA UnapplyIs ==
    ASSUME NEW rec \in Records, rec.at = "kept", NEW m \in Modules
    PROVE  Unapply(rec, m) = RecordOf(rec.texts, [rec.applied EXCEPT ![m] = 0])
<1>1. Unapply(rec, m) = [rec EXCEPT !.applied = [rec.applied EXCEPT ![m] = 0]]
  BY DEF Unapply
<1>2. rec = [at |-> "kept", texts |-> rec.texts, applied |-> rec.applied]
  BY RecordFields DEF RecordOf
<1>3. [rec EXCEPT !.applied = [rec.applied EXCEPT ![m] = 0]]
      = [at |-> "kept", texts |-> rec.texts, applied |-> [rec.applied EXCEPT ![m] = 0]]
  BY <1>2, NewApplied
<1> QED
  BY <1>1, <1>3, Zenon DEF RecordOf

LEMMA NewRecordIs ==
    ASSUME NEW texts \in [Modules -> Held]
    PROVE  /\ NewRecord(texts) \in Records /\ NewRecord(texts).at = "kept"
           /\ NewRecord(texts).texts = texts
           /\ \A m \in Modules : NewRecord(texts).applied[m] = 0
<1>1. NewRecord(texts) = RecordOf(texts, [m \in Modules |-> 0])
  BY DEF NewRecord, RecordOf
<1>2. [m \in Modules |-> 0] \in [Modules -> 0 .. MaxVersion]
  BY BoundsAssumption
<1> QED
  BY <1>1, <1>2, RecordOfIs, RecordOfHas

LEMMA NoRecordIs == NoRecord \in Records /\ NoRecord.at = "none"
BY DEF NoRecord, Records

\* What a record with the editors' texts is.
LEMMA FoldedIs ==
    ASSUME DocumentTypes, NEW rec \in Records, rec.at = "kept"
    PROVE  /\ Folded(rec) \in Records /\ Folded(rec).at = "kept"
           /\ \A m \in Modules :
                 /\ Foldable(rec, m) => /\ Folded(rec).texts[m] = doc[m].text
                                        /\ Folded(rec).applied[m] = doc[m].version
                 /\ ~Foldable(rec, m) => /\ Folded(rec).texts[m] = rec.texts[m]
                                         /\ Folded(rec).applied[m] = rec.applied[m]
<1> DEFINE texts == [m \in Modules |-> IF Foldable(rec, m) THEN doc[m].text ELSE rec.texts[m]]
           applied == [m \in Modules |-> IF Foldable(rec, m) THEN doc[m].version
                                         ELSE rec.applied[m]]
<1>1. /\ rec = RecordOf(rec.texts, rec.applied)
      /\ rec.texts \in [Modules -> Held] /\ rec.applied \in [Modules -> 0 .. MaxVersion]
  BY RecordFields
<1>2. \A m \in Modules : doc[m].text \in Held /\ doc[m].version \in 0 .. MaxVersion
  BY DEF DocumentTypes, Documents
<1>3. texts \in [Modules -> Held] /\ applied \in [Modules -> 0 .. MaxVersion]
  BY <1>1, <1>2
<1>4. Folded(rec) = RecordOf(texts, applied)
  BY DEF Folded, RecordOf
<1> HIDE DEF texts, applied
<1>5. Folded(rec) \in Records
  BY <1>3, <1>4, RecordOfIs
<1>6. Folded(rec).texts = texts /\ Folded(rec).applied = applied /\ Folded(rec).at = "kept"
  BY <1>4, RecordOfHas
<1> QED
  BY <1>5, <1>6 DEF texts, applied

\* A record that is gone, or the same, while documents only go on.
LEMMA RecordKept ==
    ASSUME RecordInv, record' \in {NoRecord, record}, aged' \in BOOLEAN,
           DocumentTypes, DocumentTypes',
           \A m \in Modules : doc[m].version <= doc'[m].version
    PROVE  RecordInv'
<1>1. RecordTypes'
  BY NoRecordIs DEF RecordInv, RecordTypes
<1>2. ASSUME NEW m \in Modules
      PROVE  AppliedAt(m)'
  <2>1. CASE record' = NoRecord
    BY <2>1, NoRecordIs DEF AppliedAt, Kept
  <2>2. CASE record' = record /\ Kept
    <3>1. record.applied[m] \in Nat
      BY <2>2 DEF RecordInv, RecordTypes, Records, Kept
    <3>2. doc[m].version \in Nat /\ doc'[m].version \in Nat
      BY DEF DocumentTypes, Documents
    <3>0. AppliedAt(m)
      BY DEF RecordInv
    <3>3. /\ record'.applied[m] <= doc[m].version
          /\ record'.texts[m] = Absent => record'.applied[m] = 0
      BY <2>2, <3>0 DEF AppliedAt
    <3>4. doc[m].version <= doc'[m].version
      OBVIOUS
    <3>5. record'.applied[m] <= doc'[m].version
      BY <2>2, <3>1, <3>2, <3>3, <3>4
    <3> QED
      BY <3>3, <3>5 DEF AppliedAt
  <2>3. CASE record' = record /\ ~Kept
    BY <2>3 DEF AppliedAt, Kept
  <2> QED
    BY <2>1, <2>2, <2>3
<1> QED
  BY <1>1, <1>2 DEF RecordInv

LEMMA RecordFolded ==
    ASSUME DocumentTypes, UNCHANGED doc, aged' \in BOOLEAN,
           NEW rec \in Records, rec.at = "kept", record' = Folded(rec),
           \A m \in Modules : /\ rec.applied[m] <= doc[m].version
                              /\ rec.texts[m] = Absent => rec.applied[m] = 0
    PROVE  RecordInv'
<1>1. RecordTypes'
  BY FoldedIs DEF RecordTypes
<1>2. ASSUME NEW m \in Modules
      PROVE  AppliedAt(m)'
  <2>1. doc[m].version \in Nat
    BY DEF DocumentTypes, Documents
  <2>2. CASE Foldable(rec, m)
    <3>1. doc[m].text # Absent
      BY <2>2 DEF Foldable, DocumentTypes
    <3> QED
      BY <2>1, <2>2, <3>1, FoldedIs DEF AppliedAt
  <2>3. CASE ~Foldable(rec, m)
    BY <2>3, FoldedIs DEF AppliedAt
  <2> QED
    BY <2>2, <2>3
<1> QED
  BY <1>1, <1>2 DEF RecordInv

LEMMA RecordStays ==
    ASSUME RecordInv, record' \in {NoRecord, record}, aged' \in BOOLEAN,
           DocumentTypes, UNCHANGED <<doc, saving>>
    PROVE  RecordInv'
<1>1. DocumentTypes'
  BY DEF DocumentTypes
<1>2. \A m \in Modules : doc[m].version <= doc'[m].version
  BY DEF DocumentTypes, Documents
<1> QED
  BY <1>1, <1>2, RecordKept

-----------------------------------------------------------------------------
(* Every step keeps the types.                                             *)

LEMMA ListedHeld ==
    ASSUME CacheTypes, Complete
    PROVE  Listed \in [Modules -> Held]
BY DEF CacheTypes, Complete, Listed, Held

LEMMA WorldKept ==
    ASSUME DocumentTypes, FileTypes, UNCHANGED <<fileVars, doc, lastSeen>>
    PROVE  DocumentTypes' /\ FileTypes'
<1>1. DocumentTypes'
  BY DEF DocumentTypes, fileVars
<1>2. FileTypes'
  BY DEF FileTypes, fileVars, Nothing
<1> QED
  BY <1>1, <1>2

LEMMA CacheKept ==
    ASSUME CacheTypes, UNCHANGED <<cached, listed, list, bumped>>
    PROVE  CacheTypes'
BY DEF CacheTypes

LEMMA TypeAsk ==
    ASSUME TypeInv, Ask
    PROVE  TypeInv'
<1>1. DocumentTypes' /\ FileTypes' /\ CacheTypes'
  BY WorldKept, CacheKept DEF TypeInv, Ask
<1>2. CASE /\ Kept /\ record' = Folded(record)
           /\ UNCHANGED <<theLoad, loads, theRead, reads>>
  <2>1. RunInv'
    BY <1>2, RunsKept DEF TypeInv
  <2>2. record \in Records /\ record.at = "kept" /\ aged' \in BOOLEAN
    BY <1>2 DEF TypeInv, RecordInv, RecordTypes, Kept, Ask
  <2>3. \A m \in Modules : /\ record.applied[m] <= doc[m].version
                           /\ record.texts[m] = Absent => record.applied[m] = 0
    BY <1>2 DEF TypeInv, RecordInv, AppliedAt
  <2>4. RecordInv'
    BY <1>2, <2>2, <2>3, RecordFolded DEF TypeInv, Ask
  <2> QED
    BY <1>1, <2>1, <2>4 DEF TypeInv
<1>3. ASSUME NEW l \in Loads, loads[l].at = "free", StartLoad(l), record' = record
      PROVE  TypeInv'
  <2>1. RunInv'
    BY <1>3, LoadStarts, ListedHeld DEF TypeInv
  <2>2. RecordInv'
    BY <1>3, RecordStays DEF TypeInv, RecordInv, RecordTypes, Ask, fileVars
  <2> QED
    BY <1>1, <2>1, <2>2 DEF TypeInv
<1> QED
  BY <1>2, <1>3 DEF Ask

\* What a step of a read caches.
LEMMA CachesTexts ==
    ASSUME CacheTypes, NEW ms, NEW out \in [Modules -> Held], Caches(ms, out)
    PROVE  cached' \in [Modules -> Texts \cup {Unknown}]
<1>1. ASSUME NEW m \in Modules, out[m] # Absent
      PROVE  Taken(m, out[m]) \in Texts \cup {Unknown}
  BY <1>1 DEF Taken, CacheTypes, Held
<1> QED
  BY <1>1 DEF Caches, CacheTypes

LEMMA TypeReadFile ==
    ASSUME TypeInv, NEW r \in Reads, ReadFile(r)
    PROVE  TypeInv'
<1>1. DocumentTypes' /\ FileTypes'
  BY WorldKept DEF TypeInv, ReadFile
<1>2. RunInv'
  BY ReadReads DEF TypeInv, FileTypes, CacheTypes
<1>3. cached' \in [Modules -> Texts \cup {Unknown}]
  BY CachesTexts DEF TypeInv, ReadFile, FileTypes
<1>4. CacheTypes'
  BY <1>3 DEF TypeInv, CacheTypes, ReadFile
<1>5. RecordInv'
  BY RecordStays DEF TypeInv, RecordInv, RecordTypes, ReadFile, recordVars, fileVars
<1> QED
  BY <1>1, <1>2, <1>4, <1>5 DEF TypeInv

LEMMA TypeReadRest ==
    ASSUME TypeInv, NEW r \in Reads, ReadRest(r)
    PROVE  TypeInv'
<1>1. DocumentTypes' /\ FileTypes'
  BY WorldKept DEF TypeInv, ReadRest
<1>2. RunInv'
  BY ReadDelivers DEF TypeInv, CacheTypes
<1>3. reads[r].out \in [Modules -> Held]
  BY RestIsHeld DEF TypeInv, ReadRest, CacheTypes
<1>4. cached' \in [Modules -> Texts \cup {Unknown}]
  <2>1. CASE reads[r].attached
    BY <1>3, <2>1, CachesTexts DEF TypeInv, ReadRest
  <2>2. CASE ~reads[r].attached
    BY <2>2 DEF TypeInv, ReadRest, CacheTypes
  <2> QED
    BY <2>1, <2>2
<1>5. CacheTypes'
  BY <1>4 DEF TypeInv, CacheTypes, ReadRest
<1>6. RecordInv'
  BY RecordStays DEF TypeInv, RecordInv, RecordTypes, ReadRest, fileVars
<1> QED
  BY <1>1, <1>2, <1>5, <1>6 DEF TypeInv

LEMMA TypeFailRead ==
    ASSUME TypeInv, NEW r \in Reads, FailRead(r)
    PROVE  TypeInv'
<1>1. DocumentTypes' /\ FileTypes' /\ CacheTypes'
  BY WorldKept, CacheKept DEF TypeInv, FailRead
<1>2. RunInv'
  BY ReadFails DEF TypeInv
<1>3. RecordInv'
  BY RecordStays DEF TypeInv, RecordInv, RecordTypes, FailRead, fileVars
<1> QED
  BY <1>1, <1>2, <1>3 DEF TypeInv

LEMMA TypeEndLoad ==
    ASSUME TypeInv, NEW l \in Loads, EndLoad(l)
    PROVE  TypeInv'
<1>1. DocumentTypes' /\ FileTypes' /\ CacheTypes'
  BY WorldKept, CacheKept DEF TypeInv, EndLoad, cacheVars
<1>2. RunInv'
  BY LoadEnds DEF TypeInv
<1>3. CASE UNCHANGED <<record, aged>>
  BY <1>1, <1>2, <1>3, RecordStays DEF TypeInv, RecordInv, RecordTypes, EndLoad, fileVars
<1>4. CASE record' = Folded(NewRecord(loads[l].texts)) /\ aged' = FALSE
  <2>1. loads[l] \in LoadStates
    BY DEF TypeInv, RunInv, RunTypes
  <2>2. loads[l].texts \in [Modules -> Held]
    BY <2>1 DEF LoadStates, EndLoad
  <2> DEFINE new == NewRecord(loads[l].texts)
  <2>3. new \in Records /\ new.at = "kept" /\ \A m \in Modules : new.applied[m] = 0
    BY <2>2, NewRecordIs
  <2>4. \A m \in Modules : new.applied[m] <= doc[m].version
    BY <2>3 DEF TypeInv, DocumentTypes, Documents
  <2> HIDE DEF new
  <2>5. RecordInv'
    BY <1>4, <2>3, <2>4, RecordFolded DEF TypeInv, EndLoad, new
  <2> QED
    BY <1>1, <1>2, <2>5 DEF TypeInv
<1> QED
  BY <1>3, <1>4 DEF EndLoad

LEMMA TypeListExpires ==
    ASSUME TypeInv, ListExpires
    PROVE  TypeInv'
<1>1. DocumentTypes' /\ FileTypes'
  BY WorldKept DEF TypeInv, ListExpires
<1>2. CacheTypes'
  BY DEF TypeInv, CacheTypes, ListExpires
<1>3. RunInv'
  BY RunsKept DEF TypeInv, ListExpires, recordVars
<1>4. RecordInv'
  BY RecordStays DEF TypeInv, RecordInv, RecordTypes, ListExpires, recordVars, fileVars
<1> QED
  BY <1>1, <1>2, <1>3, <1>4 DEF TypeInv

LEMMA TypeRecordAges ==
    ASSUME TypeInv, RecordAges
    PROVE  TypeInv'
<1>1. DocumentTypes' /\ FileTypes' /\ CacheTypes'
  BY WorldKept, CacheKept DEF TypeInv, RecordAges, cacheVars
<1>2. RunInv'
  BY RunsKept DEF TypeInv, RecordAges, cacheVars
<1>3. RecordInv'
  BY RecordStays DEF TypeInv, RecordInv, RecordTypes, RecordAges, fileVars
<1> QED
  BY <1>1, <1>2, <1>3 DEF TypeInv

\* A document that goes on leaves the record as good as it was.
LEMMA RecordThroughEdit ==
    ASSUME TypeInv, DocumentTypes', NEW m \in Modules, NEW d \in Documents,
           doc' = [doc EXCEPT ![m] = d], doc[m].version <= d.version,
           UNCHANGED recordVars
    PROVE  RecordInv'
<1>1. \A k \in Modules : doc[k].version <= doc'[k].version
  BY DEF TypeInv, DocumentTypes, Documents
<1> QED
  BY <1>1, RecordKept DEF TypeInv, RecordInv, RecordTypes, recordVars

LEMMA TypeOpen ==
    ASSUME TypeInv, NEW m \in Modules, Open(m)
    PROVE  TypeInv'
<1> DEFINE d == [open |-> TRUE, text |-> file[m], version |-> 1, dirty |-> FALSE]
<1>1. file[m] \in Held /\ file[m] # Absent /\ ~doc[m].open /\ doc[m].version = 0
  BY DEF TypeInv, FileTypes, DocumentTypes, Open
<1>2. d \in Documents /\ d.open /\ d.version = 1 /\ d.text # Absent
  BY <1>1, BoundsAssumption DEF Documents
<1>3. doc' = [doc EXCEPT ![m] = d] /\ UNCHANGED <<fileVars, lastSeen, cacheVars, recordVars>>
  BY DEF Open
<1> HIDE DEF d
<1>4. DocumentTypes'
  BY <1>2, <1>3 DEF TypeInv, DocumentTypes, fileVars
<1>5. FileTypes' /\ CacheTypes'
  BY <1>3, CacheKept DEF TypeInv, FileTypes, fileVars, cacheVars, Nothing
<1>6. RunInv'
  BY <1>3, RunsKept DEF TypeInv, cacheVars, recordVars
<1>7. RecordInv'
  <2>1. doc[m].version <= d.version /\ UNCHANGED recordVars
    BY <1>1, <1>2, <1>3 DEF recordVars
  <2> QED
    BY <1>2, <1>3, <1>4, <2>1, RecordThroughEdit
<1> QED
  BY <1>4, <1>5, <1>6, <1>7 DEF TypeInv

LEMMA TypeNewText ==
    ASSUME TypeInv, NEW m \in Modules, NEW t \in Texts, NEW b \in BOOLEAN, NewText(m, t, b),
           UNCHANGED <<fileVars, lastSeen, cacheVars, recordVars>>
    PROVE  TypeInv'
<1> DEFINE d == [open |-> TRUE, text |-> t, version |-> doc[m].version + 1, dirty |-> b]
<1>1. doc[m].version \in 0 .. MaxVersion /\ doc[m].version < MaxVersion
  BY DEF TypeInv, DocumentTypes, Documents, NewText
<1>2. d.open /\ d.version = doc[m].version + 1 /\ d.text # Absent
  BY <1>1, TextsAssumption
<1>3. d \in Documents
  BY <1>1, BoundsAssumption DEF Documents, Held
<1>4. doc' = [doc EXCEPT ![m] = d]
  BY DEF NewText
<1> HIDE DEF d
<1>5. DocumentTypes'
  BY <1>1, <1>2, <1>3, <1>4 DEF TypeInv, DocumentTypes, fileVars
<1>6. FileTypes' /\ CacheTypes'
  BY CacheKept DEF TypeInv, FileTypes, fileVars, cacheVars, Nothing
<1>7. RunInv'
  BY RunsKept DEF TypeInv, cacheVars, recordVars
<1>8. RecordInv'
  <2>1. doc[m].version <= d.version /\ UNCHANGED recordVars
    BY <1>1, <1>2 DEF recordVars
  <2> QED
    BY <1>3, <1>4, <1>5, <2>1, RecordThroughEdit
<1> QED
  BY <1>5, <1>6, <1>7, <1>8 DEF TypeInv

LEMMA TypeReload ==
    ASSUME TypeInv, NEW m \in Modules, Reload(m)
    PROVE  TypeInv'
<1>1. file[m] \in Texts
  BY DEF TypeInv, FileTypes, Held, Reload
<1> QED
  BY <1>1, TypeNewText DEF Reload

LEMMA TypeSaveWrites ==
    ASSUME TypeInv, NEW m \in Modules, SaveWrites(m)
    PROVE  TypeInv'
<1> DEFINE d == [doc[m] EXCEPT !.dirty = FALSE]
<1>0. doc[m] \in Documents
  BY DEF TypeInv, DocumentTypes
<1>1. /\ d \in Documents /\ d.open = doc[m].open /\ d.version = doc[m].version
      /\ d.text = doc[m].text
  BY <1>0 DEF Documents
<1>2. doc' = [doc EXCEPT ![m] = d] /\ saving' = saving \cup {m} /\ doc[m].open
  BY DEF SaveWrites
<1> HIDE DEF d
<1>3. DocumentTypes'
  BY <1>1, <1>2 DEF TypeInv, DocumentTypes
<1>4. doc[m].text \in Held
  BY <1>0 DEF Documents
<1>5. FileTypes'
  <2>1. file' \in [Modules -> Held]
    BY <1>4 DEF TypeInv, FileTypes, SaveWrites
  <2>2. writes' \in 0 .. MaxWrites
    BY BoundsAssumption DEF TypeInv, FileTypes, SaveWrites
  <2> QED
    BY <2>1, <2>2 DEF TypeInv, FileTypes, SaveWrites, Nothing
<1>6. CacheTypes'
  BY CacheKept DEF TypeInv, SaveWrites, cacheVars
<1>7. RunInv'
  BY RunsKept DEF TypeInv, SaveWrites, cacheVars, recordVars
<1>8. doc[m].version <= d.version
  BY <1>0, <1>1 DEF Documents
<1>9. RecordInv'
  BY <1>1, <1>2, <1>3, <1>8, RecordThroughEdit DEF SaveWrites
<1> QED
  BY <1>3, <1>5, <1>6, <1>7, <1>9 DEF TypeInv

\* A text is put into the record.
LEMMA RecordWithText ==
    ASSUME RecordInv, DocumentTypes, Kept, NEW m \in Modules, NEW t \in Texts
    PROVE  /\ WithText(record, m, t) \in Records /\ WithText(record, m, t).at = "kept"
           /\ WithText(record, m, t).texts = [record.texts EXCEPT ![m] = t]
           /\ WithText(record, m, t).applied = record.applied
<1>1. record \in Records /\ record.at = "kept" /\ t \in Held
  BY DEF RecordInv, RecordTypes, Kept, Held
<1>2. /\ [record.texts EXCEPT ![m] = t] \in [Modules -> Held]
      /\ record.applied \in [Modules -> 0 .. MaxVersion]
  BY <1>1, RecordFields
<1>3. WithText(record, m, t) = RecordOf([record.texts EXCEPT ![m] = t], record.applied)
  BY <1>1, WithTextIs
<1> QED
  BY <1>2, <1>3, RecordOfIs, RecordOfHas

LEMMA ChangedRecord ==
    ASSUME TypeInv, NEW m \in Modules, NEW t \in Texts, ModuleChanged(m, t),
           UNCHANGED <<doc, reads>>, theRead' \in {NoRead, theRead}
    PROVE  RecordInv' /\ RunInv'
<1>1. RunInv'
  BY RunsInvalidated DEF TypeInv, ModuleChanged, Invalidate
<1>2. CASE record' \in {NoRecord, record} /\ UNCHANGED aged
  <2>1. DocumentTypes /\ \A k \in Modules : doc[k].version <= doc'[k].version
    BY DEF TypeInv, DocumentTypes, Documents
  <2>2. RecordTypes'
    BY <1>2, NoRecordIs DEF TypeInv, RecordInv, RecordTypes
  <2>3. ASSUME NEW k \in Modules
        PROVE  AppliedAt(k)'
    <3>1. CASE record' = NoRecord
      BY <3>1, NoRecordIs DEF AppliedAt, Kept
    <3>2. CASE record' = record
      BY <3>2 DEF TypeInv, RecordInv, AppliedAt, Kept
    <3> QED
      BY <1>2, <3>1, <3>2
  <2> QED
    BY <1>1, <2>2, <2>3 DEF RecordInv
<1>3. CASE Kept /\ record' = WithText(record, m, t) /\ aged' = FALSE
  <2>1. /\ record' \in Records /\ record'.at = "kept"
        /\ record'.texts = [record.texts EXCEPT ![m] = t]
        /\ record'.applied = record.applied
    BY <1>3, RecordWithText DEF TypeInv
  <2>2. record.texts \in [Modules -> Held]
    BY <1>3, RecordFields DEF TypeInv, RecordInv, RecordTypes, Kept
  <2>3. \A k \in Modules : /\ record.applied[k] <= doc[k].version
                           /\ record.texts[k] = Absent => record.applied[k] = 0
    BY <1>3 DEF TypeInv, RecordInv, AppliedAt
  <2>4. ASSUME NEW k \in Modules, record'.texts[k] = Absent
        PROVE  record.texts[k] = Absent
    BY <2>1, <2>2, <2>4, TextsAssumption
  <2>5. ASSUME NEW k \in Modules
        PROVE  AppliedAt(k)'
    <3>1. record'.applied[k] <= doc'[k].version
      BY <2>1, <2>3
    <3>2. record'.texts[k] = Absent => record'.applied[k] = 0
      BY <2>1, <2>3, <2>4
    <3> QED
      BY <3>1, <3>2 DEF AppliedAt
  <2> QED
    BY <1>1, <1>3, <2>1, <2>5 DEF RecordInv, RecordTypes
<1> QED
  BY <1>2, <1>3 DEF ModuleChanged, Invalidate

LEMMA TypeSaveEnds ==
    ASSUME TypeInv, NEW m \in Modules, SaveEnds(m)
    PROVE  TypeInv'
<1>1. doc[m].text \in Texts
  BY DEF TypeInv, DocumentTypes, Documents, Held, SaveEnds
<1>2. DocumentTypes'
  BY DEF TypeInv, DocumentTypes, SaveEnds
<1>3. FileTypes'
  BY DEF TypeInv, FileTypes, SaveEnds, Nothing
<1>4. CacheTypes'
  BY <1>1 DEF TypeInv, CacheTypes, SaveEnds
<1>5. RecordInv' /\ RunInv'
  BY <1>1, ChangedRecord DEF SaveEnds
<1> QED
  BY <1>2, <1>3, <1>4, <1>5 DEF TypeInv

\* The record of a module whose editor is closed.
LEMMA RecordUnapplied ==
    ASSUME NEW rec \in Records, rec.at = "kept", NEW m \in Modules
    PROVE  /\ Unapply(rec, m) \in Records /\ Unapply(rec, m).at = "kept"
           /\ Unapply(rec, m).texts = rec.texts
           /\ Unapply(rec, m).applied = [rec.applied EXCEPT ![m] = 0]
<1>1. rec.texts \in [Modules -> Held] /\ rec.applied \in [Modules -> 0 .. MaxVersion]
  BY RecordFields
<1>2. [rec.applied EXCEPT ![m] = 0] \in [Modules -> 0 .. MaxVersion]
  BY <1>1, BoundsAssumption
<1>3. Unapply(rec, m) = RecordOf(rec.texts, [rec.applied EXCEPT ![m] = 0])
  BY UnapplyIs
<1> QED
  BY <1>1, <1>2, <1>3, RecordOfIs, RecordOfHas

LEMMA ClosedDocument ==
    ASSUME TypeInv, NEW m \in Modules, Close(m)
    PROVE  /\ DocumentTypes' /\ ~doc'[m].open /\ doc'[m].version = 0
           /\ \A k \in Modules \ {m} : doc'[k] = doc[k]
<1>1. Closed \in Documents /\ ~Closed.open /\ Closed.version = 0
  BY BoundsAssumption DEF Closed, Documents, Held
<1>2. doc' = [doc EXCEPT ![m] = Closed] /\ m \notin saving /\ saving' = saving
  BY DEF Close, fileVars
<1> QED
  BY <1>1, <1>2 DEF TypeInv, DocumentTypes

LEMMA TypeClose ==
    ASSUME TypeInv, NEW m \in Modules, Close(m)
    PROVE  TypeInv'
<1>1. FileTypes' /\ CacheTypes'
  BY CacheKept DEF TypeInv, FileTypes, Close, fileVars, cacheVars, Nothing
<1>2. RunInv'
  BY RunsInvalidated DEF TypeInv, Close, Invalidate, cacheVars, recordVars
<1>3. ASSUME NEW rec \in Records, rec.at = "kept", record' = Unapply(rec, m), aged' \in BOOLEAN,
             \A k \in Modules \ {m} : /\ rec.applied[k] <= doc[k].version
                                      /\ rec.texts[k] = Absent => rec.applied[k] = 0
      PROVE  RecordInv'
  <2>1. /\ record' \in Records /\ record'.texts = rec.texts
        /\ record'.applied = [rec.applied EXCEPT ![m] = 0]
    BY <1>3, RecordUnapplied
  <2>2. rec.applied \in [Modules -> 0 .. MaxVersion]
    BY <1>3, RecordFields
  <2>3. AppliedAt(m)'
    BY <2>1, <2>2, ClosedDocument DEF AppliedAt
  <2>4. ASSUME NEW k \in Modules \ {m}
        PROVE  AppliedAt(k)'
    BY <1>3, <2>1, <2>2, ClosedDocument DEF AppliedAt
  <2> QED
    BY <1>3, <2>1, <2>3, <2>4 DEF RecordInv, RecordTypes
<1>4. aged \in BOOLEAN /\ record \in Records
  BY DEF TypeInv, RecordInv, RecordTypes
<1>5. Kept => \A k \in Modules : /\ record.applied[k] <= doc[k].version
                                 /\ record.texts[k] = Absent => record.applied[k] = 0
  BY DEF TypeInv, RecordInv, AppliedAt
<1>6. CASE (~Kept \/ record.texts[m] = Absent) /\ UNCHANGED recordVars
  <2>1. ASSUME NEW k \in Modules
        PROVE  AppliedAt(k)'
    <3>1. CASE ~Kept
      BY <1>6, <3>1 DEF AppliedAt, Kept, recordVars
    <3>2. CASE Kept /\ k = m
      <4>1. record.applied[m] = 0 /\ record'.applied[m] = 0
        BY <1>5, <1>6, <3>2 DEF recordVars
      <4> QED
        BY <3>2, <4>1, ClosedDocument DEF AppliedAt
    <3>3. CASE Kept /\ k # m
      BY <1>5, <1>6, <3>3, ClosedDocument DEF AppliedAt, recordVars
    <3> QED
      BY <3>1, <3>2, <3>3
  <2> QED
    BY <1>1, <1>2, <1>4, <1>6, <2>1, ClosedDocument DEF TypeInv, RecordInv, RecordTypes, recordVars
<1>7. CASE Kept /\ record' = Unapply(record, m) /\ UNCHANGED aged
  <2>1. RecordInv'
    BY <1>3, <1>4, <1>5, <1>7 DEF Kept
  <2> QED
    BY <1>1, <1>2, <2>1, ClosedDocument DEF TypeInv
<1>8. CASE record' = NoRecord /\ UNCHANGED aged
  <2>1. RecordInv'
    BY <1>4, <1>8, NoRecordIs DEF RecordInv, RecordTypes, AppliedAt, Kept
  <2> QED
    BY <1>1, <1>2, <2>1, ClosedDocument DEF TypeInv
<1>9. CASE Kept /\ cached[m] # Unknown /\ record' = Unapply(WithText(record, m, cached[m]), m)
           /\ aged' = FALSE
  <2>1. cached[m] \in Texts
    BY <1>9 DEF TypeInv, CacheTypes
  <2> DEFINE rec == WithText(record, m, cached[m])
  <2>2. /\ rec \in Records /\ rec.at = "kept" /\ rec.applied = record.applied
        /\ rec.texts = [record.texts EXCEPT ![m] = cached[m]]
    BY <1>9, <2>1, RecordWithText DEF TypeInv
  <2>3. record.texts \in [Modules -> Held]
    BY <1>4, <1>9, RecordFields DEF Kept
  <2>4. \A k \in Modules \ {m} : /\ rec.applied[k] <= doc[k].version
                                 /\ rec.texts[k] = Absent => rec.applied[k] = 0
    BY <1>5, <1>9, <2>2, <2>3
  <2> HIDE DEF rec
  <2>5. RecordInv'
    BY <1>3, <1>9, <2>2, <2>4 DEF rec
  <2> QED
    BY <1>1, <1>2, <2>5, ClosedDocument DEF TypeInv
<1> QED
  BY <1>6, <1>7, <1>8, <1>9 DEF Close, Invalidate, CanApply

LEMMA WrittenTypes ==
    ASSUME TypeInv, NEW m \in Modules, NEW t \in Held, Writes(m, t),
           announcing' \in {announcing, announcing + 1}, noticed' \in BOOLEAN,
           UNCHANGED <<saving, doc, lastSeen, cacheVars, recordVars>>
    PROVE  TypeInv'
<1>1. DocumentTypes'
  BY DEF TypeInv, DocumentTypes
<1>2. FileTypes'
  <2>0. writes < MaxWrites /\ writes' = writes + 1
    BY DEF Writes
  <2>1. writes' \in 0 .. MaxWrites
    BY <2>0, BoundsAssumption DEF TypeInv, FileTypes
  <2>2. announcing' \in Nat
    BY DEF TypeInv, FileTypes
  <2> QED
    BY <2>1, <2>2 DEF TypeInv, FileTypes, Writes, Nothing
<1>3. CacheTypes' /\ RunInv'
  BY CacheKept, RunsKept DEF TypeInv, cacheVars, recordVars
<1>4. RecordInv'
  BY RecordStays DEF TypeInv, RecordInv, RecordTypes, recordVars
<1> QED
  BY <1>1, <1>2, <1>3, <1>4 DEF TypeInv

LEMMA RefreshedTypes ==
    ASSUME TypeInv, NEW seen, seen = Nothing \/ seen \in [Modules -> Held], Refresh(seen),
           announcing' \in Nat, noticed' \in BOOLEAN, UNCHANGED <<file, saving, writes, doc>>
    PROVE  TypeInv'
<1>1. DocumentTypes'
  BY DEF TypeInv, DocumentTypes
<1>2. FileTypes'
  BY DEF TypeInv, FileTypes, Refresh, Nothing
<1>3. CacheTypes'
  BY DEF TypeInv, CacheTypes, Refresh, ForgetCache, Nothing
<1>4. RunInv'
  BY RunsForgotten DEF TypeInv, Refresh, Invalidate
<1>5. RecordInv'
  BY RecordStays DEF TypeInv, RecordInv, RecordTypes, Refresh, Invalidate
<1> QED
  BY <1>1, <1>2, <1>3, <1>4, <1>5 DEF TypeInv

LEMMA TypeLook ==
    ASSUME TypeInv, Look
    PROVE  TypeInv'
<1>1. CASE Seen
  <2>1. DocumentTypes' /\ FileTypes'
    BY <1>1 DEF TypeInv, DocumentTypes, FileTypes, Look, Nothing
  <2>2. CacheTypes' /\ RunInv'
    BY <1>1, CacheKept, RunsKept DEF TypeInv, Look, cacheVars, recordVars
  <2>3. RecordInv'
    BY <1>1, RecordStays DEF TypeInv, RecordInv, RecordTypes, Look, recordVars
  <2> QED
    BY <2>1, <2>2, <2>3 DEF TypeInv
<1>2. CASE ~Seen
  BY <1>2, RefreshedTypes DEF TypeInv, FileTypes, Look
<1> QED
  BY <1>1, <1>2

LEMMA TypeNext ==
    ASSUME TypeInv, [Next]_vars
    PROVE  TypeInv'
<1>1. CASE UNCHANGED vars
  <2>1. DocumentTypes' /\ FileTypes' /\ CacheTypes' /\ RunInv'
    BY <1>1, WorldKept, CacheKept, RunsKept DEF TypeInv, vars, cacheVars, recordVars
  <2>2. RecordInv'
    BY <1>1, RecordStays DEF TypeInv, RecordInv, RecordTypes, vars, recordVars, fileVars
  <2> QED
    BY <2>1, <2>2 DEF TypeInv
<1>2. CASE OwnWriteEnds
  <2>1. announcing' \in Nat /\ noticed' \in BOOLEAN
    BY <1>2 DEF TypeInv, FileTypes, OwnWriteEnds
  <2> QED
    BY <1>2, <2>1, RefreshedTypes DEF OwnWriteEnds
<1>3. ASSUME NEW m \in Modules, NEW t \in Texts, Edit(m, t)
      PROVE  TypeInv'
  BY <1>3, TypeNewText DEF Edit
<1>4. ASSUME NEW m \in Modules, NEW t \in Texts \cup {Absent}, OwnWrite(m, t) \/ OutsideWrite(m, t)
      PROVE  TypeInv'
  <2>1. t \in Held /\ noticed \in BOOLEAN
    BY DEF Held, TypeInv, FileTypes
  <2> QED
    BY <1>4, <2>1, WrittenTypes DEF OwnWrite, OutsideWrite
<1> QED
  BY <1>1, <1>2, <1>3, <1>4, TypeAsk, TypeListExpires, TypeRecordAges, TypeLook, TypeReadFile,
     TypeReadRest, TypeFailRead, TypeEndLoad, TypeOpen, TypeReload, TypeSaveWrites, TypeSaveEnds,
     TypeClose
  DEF Next

LEMMA TypeInit ==
    ASSUME Init
    PROVE  TypeInv
<1>1. DocumentTypes
  BY BoundsAssumption DEF Init, Closed, DocumentTypes, Documents, Held
<1>2. FileTypes
  <2>1. 0 \in Nat /\ 0 \in 0 .. MaxWrites
    BY BoundsAssumption
  <2>2. noticed \in BOOLEAN
    BY Zenon DEF Init
  <2> QED
    BY <2>1, <2>2 DEF Init, FileTypes, Held
<1>3. CacheTypes
  BY DEF Init, CacheTypes, Nothing
<1>4. RunInv
  BY DEF Init, Free, RunInv, RunTypes, WaitedForRuns, ReadStates, LoadStates
<1>5. RecordInv
  BY NoRecordIs DEF Init, RecordInv, RecordTypes, AppliedAt, Kept
<1> QED
  BY <1>1, <1>2, <1>3, <1>4, <1>5 DEF TypeInv

THEOREM TypeInvariant == Spec => []TypeInv
BY TypeInit, TypeNext, PTL DEF Spec

\* The records of the cache, the index, the loads and the reads hold what their
\* types say.
THEOREM TypeCorrect == Spec => []TypeOK
BY TypeInvariant, TypesFollow, PTL

\* Nobody waits for what has ended: the load and the read that are joined run,
\* and so does the read that any load, forgotten or not, waits for.
THEOREM WaitersAreServed == Spec => []WaitedForRuns
BY TypeInvariant, TypesFollow, PTL

-----------------------------------------------------------------------------
(* What is held of a module is what it is, unless a change of it is still  *)
(* on its way.                                                             *)

SavingInv == \A m \in saving : doc[m].text = file[m]
SeenInv == lastSeen = file => unsaid = {} \/ announcing > 0

CacheAt(m) == Said(m) /\ cached[m] # Unknown => cached[m] = file[m]
ListAt(m) == listed /\ m \notin unsaid => (m \in list <=> file[m] # Absent)

\* A read that still keeps its cache has of each module what the file has, or
\* somebody has told the cache of the module since.
AttachedAt(m) ==
    \A r \in Reads : reads[r].at = "rest" /\ reads[r].attached
                     /\ Said(m) /\ reads[r].out[m] # Absent =>
        reads[r].out[m] = file[m] \/ Keeps(m)

\* The read that can be joined, or is waited for by the load that can be joined.
Joined(r) ==
    \/ theRead = r
    \/ theLoad # NoLoad /\ loads[theLoad].at = "reading" /\ loads[theLoad].read = r
JoinedAttached == \A r \in Reads : Joined(r) /\ reads[r].at = "rest" => reads[r].attached
JoinedAt(m) ==
    \A r \in Reads : Joined(r) /\ reads[r].at = "rest" /\ Said(m) => reads[r].out[m] = file[m]

LoadAt(m) ==
    theLoad # NoLoad /\ loads[theLoad].at = "building" /\ Said(m) =>
        loads[theLoad].texts[m] = file[m]

Fits(rec, m) ==
    /\ rec.texts[m] = Absent <=> file[m] = Absent
    /\ file[m] # Absent /\ ~Foldable(rec, m) =>
           rec.texts[m] = IF doc[m].open THEN doc[m].text ELSE file[m]
RecordAt(m) == Kept /\ Said(m) => Fits(record, m)

HeldAt(m) == CacheAt(m) /\ ListAt(m) /\ AttachedAt(m)
RunAt(m) == JoinedAt(m) /\ LoadAt(m)
FreshInv ==
    /\ SavingInv /\ SeenInv /\ JoinedAttached
    /\ \A m \in Modules : HeldAt(m) /\ RunAt(m) /\ RecordAt(m)

LEMMA FreshFollows ==
    ASSUME FreshInv
    PROVE  IndexIsFresh
<1>1. \A m \in Modules : CacheAt(m) /\ LoadAt(m) /\ RecordAt(m)
  BY DEF FreshInv, HeldAt, RunAt
<1>2. CacheIsFresh
  BY <1>1 DEF CacheAt, CacheIsFresh
<1>3. LoadIsFresh
  BY <1>1 DEF LoadAt, LoadIsFresh
<1>4. RecordIsFresh
  BY <1>1 DEF RecordAt, RecordIsFresh, Fits
<1> QED
  BY <1>2, <1>3, <1>4 DEF IndexIsFresh

\* Nothing of a module is new to the index.
Unmoved(m) ==
    /\ Said(m)' => Said(m) /\ file'[m] = file[m]
    /\ m \notin unsaid' => m \notin unsaid /\ (file'[m] = Absent <=> file[m] = Absent)

LEMMA HeldUnmoved ==
    ASSUME NEW m \in Modules, HeldAt(m), Unmoved(m),
           UNCHANGED <<cached, listed, list, bumped, reads>>
    PROVE  HeldAt(m)'
<1>1. CacheAt(m)'
  BY DEF HeldAt, CacheAt, Unmoved
<1>2. ListAt(m)'
  BY DEF HeldAt, ListAt, Unmoved
<1>3. AttachedAt(m)'
  BY DEF HeldAt, AttachedAt, Unmoved, Keeps
<1> QED
  BY <1>1, <1>2, <1>3 DEF HeldAt

LEMMA RunUnmoved ==
    ASSUME NEW m \in Modules, RunAt(m), Unmoved(m), UNCHANGED <<theRead, reads, theLoad, loads>>
    PROVE  RunAt(m)'
<1>1. JoinedAt(m)'
  BY DEF RunAt, JoinedAt, Joined, Unmoved
<1>2. LoadAt(m)'
  BY DEF RunAt, LoadAt, Unmoved
<1> QED
  BY <1>1, <1>2 DEF RunAt

LEMMA AttachedKept ==
    ASSUME JoinedAttached, UNCHANGED <<theRead, reads, theLoad, loads>>
    PROVE  JoinedAttached'
BY DEF JoinedAttached, Joined

\* The record of a module whose editor has not moved, ...
LEMMA RecordUnmoved ==
    ASSUME NEW m \in Modules, RecordAt(m), Unmoved(m), record' = record,
           doc'[m].open = doc[m].open, doc'[m].text = doc[m].text,
           doc'[m].version = doc[m].version
    PROVE  RecordAt(m)'
<1> SUFFICES ASSUME Kept', Said(m)'
             PROVE  Fits(record, m)'
  BY DEF RecordAt
<1>1. Fits(record, m) /\ file'[m] = file[m]
  BY DEF RecordAt, Unmoved, Kept
<1>2. Foldable(record, m)' <=> Foldable(record, m)
  BY DEF Foldable
<1> QED
  BY <1>1, <1>2 DEF Fits

\* ... or has a newer text: the record takes it at the next access.
LEMMA RecordBehind ==
    ASSUME TypeInv, NEW m \in Modules, RecordAt(m), Unmoved(m), record' = record,
           doc'[m].open, doc'[m].version \in Nat, doc[m].version < doc'[m].version
    PROVE  RecordAt(m)'
<1> SUFFICES ASSUME Kept', Said(m)'
             PROVE  Fits(record, m)'
  BY DEF RecordAt
<1>1. Fits(record, m) /\ file'[m] = file[m] /\ Kept
  BY DEF RecordAt, Unmoved, Kept
<1>2. record.applied[m] # doc'[m].version
  <2>1. record.applied[m] \in Nat /\ doc[m].version \in Nat
    BY <1>1, RecordFields DEF TypeInv, RecordInv, RecordTypes, DocumentTypes, Documents, Kept
  <2>2. record.applied[m] <= doc[m].version
    BY <1>1 DEF TypeInv, RecordInv, AppliedAt
  <2> QED
    BY <2>1, <2>2
<1>3. CASE file[m] = Absent
  BY <1>1, <1>3 DEF Fits
<1>4. CASE file[m] # Absent
  <2>1. record.texts[m] # Absent
    BY <1>1, <1>4 DEF Fits
  <2>2. Foldable(record, m)'
    BY <1>2, <2>1 DEF Foldable
  <2> QED
    BY <1>1, <1>4, <2>1, <2>2 DEF Fits
<1> QED
  BY <1>3, <1>4

LEMMA RecordGone ==
    ASSUME NEW m \in Modules, record' = NoRecord
    PROVE  RecordAt(m)'
BY NoRecordIs DEF RecordAt, Kept

LEMMA FoldedFits ==
    ASSUME DocumentTypes, NEW rec \in Records, rec.at = "kept", NEW m \in Modules,
           Fits(rec, m), record' = Folded(rec), UNCHANGED <<file, doc>>
    PROVE  Fits(record, m)'
<1>1. CASE Foldable(rec, m)
  <2>1. record'.texts[m] = doc[m].text /\ record'.applied[m] = doc[m].version
    BY <1>1, FoldedIs
  <2>2. doc[m].open /\ doc[m].text # Absent /\ rec.texts[m] # Absent
    BY <1>1 DEF Foldable, DocumentTypes
  <2>3. file[m] # Absent
    BY <2>2 DEF Fits
  <2> QED
    BY <2>1, <2>2, <2>3 DEF Fits
<1>2. CASE ~Foldable(rec, m)
  <2>1. record'.texts[m] = rec.texts[m] /\ record'.applied[m] = rec.applied[m]
    BY <1>2, FoldedIs
  <2> QED
    BY <1>2, <2>1 DEF Fits, Foldable
<1> QED
  BY <1>1, <1>2

-----------------------------------------------------------------------------
(* What editors and writers do.                                            *)

LEMMA FreshWorld ==
    ASSUME FreshInv, UNCHANGED <<cacheVars, theLoad, loads>>, SavingInv', SeenInv',
           \A m \in Modules : Unmoved(m) /\ RecordAt(m)'
    PROVE  FreshInv'
<1>1. JoinedAttached'
  BY AttachedKept DEF FreshInv, cacheVars
<1>2. ASSUME NEW m \in Modules
      PROVE  HeldAt(m)' /\ RunAt(m)' /\ RecordAt(m)'
  BY HeldUnmoved, RunUnmoved DEF FreshInv, cacheVars
<1> QED
  BY <1>1, <1>2 DEF FreshInv

LEMMA UnmovedIfSame ==
    ASSUME NEW m \in Modules, UNCHANGED <<file, saving, unsaid>>
    PROVE  Unmoved(m)
BY DEF Unmoved, Said

\* A document takes a newer text, of a module that is not being saved.
LEMMA FreshNewText ==
    ASSUME TypeInv, FreshInv, NEW m \in Modules, m \notin saving, NEW d \in Documents,
           doc' = [doc EXCEPT ![m] = d], d.open, doc[m].version < d.version,
           UNCHANGED <<fileVars, lastSeen, cacheVars, recordVars>>
    PROVE  FreshInv'
<1>1. \A k \in Modules : Unmoved(k)
  BY UnmovedIfSame DEF fileVars
<1>2. doc'[m] = d /\ \A k \in Modules \ {m} : doc'[k] = doc[k]
  BY DEF TypeInv, DocumentTypes
<1>3. SavingInv'
  BY <1>2 DEF TypeInv, DocumentTypes, FreshInv, SavingInv, fileVars
<1>4. SeenInv'
  BY DEF FreshInv, SeenInv, fileVars
<1>5. RecordAt(m)'
  <2>1. d.version \in Nat /\ record' = record /\ RecordAt(m)
    BY DEF Documents, recordVars, FreshInv
  <2> QED
    BY <1>1, <1>2, <2>1, RecordBehind
<1>6. ASSUME NEW k \in Modules \ {m}
      PROVE  RecordAt(k)'
  BY <1>1, <1>2, RecordUnmoved DEF FreshInv, recordVars
<1> QED
  BY <1>1, <1>3, <1>4, <1>5, <1>6, FreshWorld DEF recordVars

LEMMA FreshOpen ==
    ASSUME TypeInv, FreshInv, NEW m \in Modules, Open(m)
    PROVE  FreshInv'
<1> DEFINE d == [open |-> TRUE, text |-> file[m], version |-> 1, dirty |-> FALSE]
<1>1. file[m] \in Held /\ m \notin saving /\ doc[m].version = 0
  BY DEF TypeInv, FileTypes, DocumentTypes, Open
<1>2. d \in Documents /\ d.open /\ d.version = 1
  BY <1>1, BoundsAssumption DEF Documents
<1>3. doc' = [doc EXCEPT ![m] = d] /\ UNCHANGED <<fileVars, lastSeen, cacheVars, recordVars>>
  BY DEF Open
<1> HIDE DEF d
<1>4. doc[m].version < d.version
  BY <1>1, <1>2
<1> QED
  BY <1>1, <1>2, <1>3, <1>4, FreshNewText

LEMMA FreshTyped ==
    ASSUME TypeInv, FreshInv, NEW m \in Modules, m \notin saving, NEW t \in Texts,
           NEW b \in BOOLEAN, NewText(m, t, b),
           UNCHANGED <<fileVars, lastSeen, cacheVars, recordVars>>
    PROVE  FreshInv'
<1> DEFINE d == [open |-> TRUE, text |-> t, version |-> doc[m].version + 1, dirty |-> b]
<1>1. doc[m].version \in 0 .. MaxVersion /\ doc[m].version < MaxVersion
  BY DEF TypeInv, DocumentTypes, Documents, NewText
<1>2. d \in Documents
  BY <1>1, BoundsAssumption DEF Documents, Held
<1>3. d.open /\ d.version = doc[m].version + 1
  OBVIOUS
<1>4. doc' = [doc EXCEPT ![m] = d]
  BY DEF NewText
<1> HIDE DEF d
<1>5. doc[m].version < d.version
  BY <1>1, <1>3
<1> QED
  BY <1>2, <1>3, <1>4, <1>5, FreshNewText

LEMMA FreshReload ==
    ASSUME TypeInv, FreshInv, NEW m \in Modules, Reload(m)
    PROVE  FreshInv'
<1>1. file[m] \in Texts
  BY DEF TypeInv, FileTypes, Held, Reload
<1> QED
  BY <1>1, FreshTyped DEF Reload

LEMMA FreshSaveWrites ==
    ASSUME TypeInv, FreshInv, Races = {}, NEW m \in Modules, SaveWrites(m)
    PROVE  FreshInv'
<1>1. doc[m] \in Documents /\ file \in [Modules -> Held] /\ doc[m].text # Absent
      /\ file[m] # Absent
  BY DEF TypeInv, FileTypes, DocumentTypes, SaveWrites
<1>2. /\ file' = [file EXCEPT ![m] = doc[m].text] /\ saving' = saving \cup {m}
      /\ UNCHANGED <<announcing, unsaid, lastSeen, cacheVars, recordVars>>
  BY DEF SaveWrites
<1>3. \A k \in Modules : /\ doc'[k].open = doc[k].open /\ doc'[k].text = doc[k].text
                         /\ doc'[k].version = doc[k].version
  <2>1. \A k \in Modules : doc[k] \in Documents
    BY DEF TypeInv, DocumentTypes
  <2>2. doc' = [doc EXCEPT ![m] = [doc[m] EXCEPT !.dirty = FALSE]]
    BY DEF SaveWrites
  <2>3. LET d == [doc[m] EXCEPT !.dirty = FALSE]
        IN  d.open = doc[m].open /\ d.text = doc[m].text /\ d.version = doc[m].version
    BY <1>1 DEF Documents
  <2> QED
    BY <2>2, <2>3 DEF TypeInv, DocumentTypes
<1>4. \A k \in Modules : Unmoved(k)
  BY <1>1, <1>2 DEF Unmoved, Said
<1>5. SavingInv'
  <2>1. \A k \in saving' : k \in Modules
    BY <1>2 DEF TypeInv, DocumentTypes
  <2> QED
    BY <1>1, <1>2, <1>3, <2>1 DEF FreshInv, SavingInv
<1>6. SeenInv'
  BY <1>2 DEF SeenInv, SaveWrites, NotBack
<1>7. \A k \in Modules : RecordAt(k)'
  BY <1>2, <1>3, <1>4, RecordUnmoved DEF FreshInv, recordVars
<1> QED
  BY <1>2, <1>4, <1>5, <1>6, <1>7, FreshWorld DEF recordVars

LEMMA FreshWritten ==
    ASSUME TypeInv, FreshInv, Races = {}, NEW m \in Modules, NEW t \in Held, Writes(m, t),
           UNCHANGED <<saving, doc, lastSeen, cacheVars, recordVars>>, SeenInv'
    PROVE  FreshInv'
<1>1. /\ file' = [file EXCEPT ![m] = t] /\ unsaid' = unsaid \cup {m} /\ m \notin saving
      /\ file \in [Modules -> Held]
  BY DEF Writes, TypeInv, FileTypes
<1>2. \A k \in Modules : Unmoved(k)
  BY <1>1 DEF Unmoved, Said
<1>3. SavingInv'
  BY <1>1 DEF TypeInv, DocumentTypes, FreshInv, SavingInv
<1>4. \A k \in Modules : RecordAt(k)'
  BY <1>2, RecordUnmoved DEF FreshInv, recordVars
<1> QED
  BY <1>2, <1>3, <1>4, FreshWorld DEF recordVars

LEMMA FreshOwnWrite ==
    ASSUME TypeInv, FreshInv, Races = {}, NEW m \in Modules, NEW t \in Held, OwnWrite(m, t)
    PROVE  FreshInv'
<1>1. announcing' > 0
  BY DEF TypeInv, FileTypes, OwnWrite
<1>2. SeenInv'
  BY <1>1 DEF SeenInv
<1> QED
  BY <1>2, FreshWritten DEF OwnWrite

LEMMA FreshOutsideWrite ==
    ASSUME TypeInv, FreshInv, Races = {}, NEW m \in Modules, NEW t \in Held, OutsideWrite(m, t)
    PROVE  FreshInv'
<1>1. SeenInv'
  BY DEF SeenInv, OutsideWrite, NotBack, Writes
<1> QED
  BY <1>1, FreshWritten DEF OutsideWrite

-----------------------------------------------------------------------------
(* What an invalidation and a save's end do.                               *)

LEMMA FreshRefresh ==
    ASSUME TypeInv, FreshInv, NEW seen, Refresh(seen), UNCHANGED <<file, saving, doc>>,
           lastSeen' = file' => unsaid' = {}
    PROVE  FreshInv'
<1> USE NamesAssumption
<1>1. SavingInv' /\ SeenInv'
  BY DEF FreshInv, SavingInv, SeenInv
<1>2. /\ theRead' = NoRead /\ theLoad' = NoLoad /\ record' = NoRecord
      /\ cached' = Nothing /\ listed' = FALSE
  BY DEF Refresh, ForgetCache, Invalidate
<1>3. \A r \in Reads : ~Joined(r)'
  BY <1>2 DEF Joined
<1>4. JoinedAttached'
  BY <1>3 DEF JoinedAttached
<1>5. \A r \in Reads : ~(reads'[r].at = "rest" /\ reads'[r].attached)
  <2> TAKE r \in Reads
  <2>1. reads[r] \in ReadStates
    BY DEF TypeInv, RunInv, RunTypes
  <2>2. CASE reads[r].at = "rest"
    <3>1. reads'[r] = [reads[r] EXCEPT !.attached = FALSE]
      BY <2>2 DEF Refresh, ForgetCache
    <3> QED
      BY <2>1, <2>2, <3>1 DEF ReadStates
  <2>3. CASE reads[r].at # "rest"
    BY <2>3 DEF Refresh, ForgetCache
  <2> QED
    BY <2>2, <2>3
<1>6. ASSUME NEW m \in Modules
      PROVE  HeldAt(m)' /\ RunAt(m)' /\ RecordAt(m)'
  <2>1. CacheAt(m)'
    BY <1>2 DEF CacheAt, Nothing
  <2>2. ListAt(m)'
    BY <1>2 DEF ListAt
  <2>3. AttachedAt(m)'
    BY <1>5 DEF AttachedAt
  <2>4. JoinedAt(m)'
    BY <1>3 DEF JoinedAt
  <2>5. LoadAt(m)'
    BY <1>2 DEF LoadAt
  <2>6. RecordAt(m)'
    BY <1>2, RecordGone
  <2> QED
    BY <2>1, <2>2, <2>3, <2>4, <2>5, <2>6 DEF HeldAt, RunAt
<1> QED
  BY <1>1, <1>4, <1>6 DEF FreshInv

LEMMA FreshOwnWriteEnds ==
    ASSUME TypeInv, FreshInv, OwnWriteEnds
    PROVE  FreshInv'
<1>1. unsaid' = {}
  BY DEF OwnWriteEnds, Refresh
<1> QED
  BY <1>1, FreshRefresh DEF OwnWriteEnds

LEMMA FreshLook ==
    ASSUME TypeInv, FreshInv, Look
    PROVE  FreshInv'
<1>1. CASE Seen
  <2>1. unsaid' = unsaid
    BY <1>1 DEF Look, Seen, FreshInv, SeenInv, TypeInv, FileTypes
  <2>2. \A m \in Modules : Unmoved(m)
    BY <2>1, UnmovedIfSame DEF Look
  <2>3. SavingInv' /\ SeenInv'
    BY <1>1, <2>1 DEF Look, FreshInv, SavingInv, SeenInv
  <2>4. \A m \in Modules : RecordAt(m)'
    BY <1>1, <2>2, RecordUnmoved DEF Look, FreshInv, recordVars
  <2> QED
    BY <1>1, <2>2, <2>3, <2>4, FreshWorld DEF Look, recordVars
<1>2. CASE ~Seen
  <2>1. unsaid' = {} /\ Refresh(file)
    BY <1>2 DEF Look, Refresh
  <2> QED
    BY <2>1, FreshRefresh DEF Look
<1> QED
  BY <1>1, <1>2

\* The record has of a module what it had.
LEMMA RecordSameText ==
    ASSUME NEW k \in Modules, RecordAt(k), Kept' => Kept, Said(k)' => Said(k),
           record'.texts[k] = record.texts[k], record'.applied[k] = record.applied[k],
           doc'[k] = doc[k], file'[k] = file[k]
    PROVE  RecordAt(k)'
<1> SUFFICES ASSUME Kept', Said(k)'
             PROVE  Fits(record, k)'
  BY DEF RecordAt
<1>1. Fits(record, k)
  BY DEF RecordAt
<1> QED
  BY <1>1 DEF Fits, Foldable

LEMMA FreshSaveEnds ==
    ASSUME TypeInv, FreshInv, NEW m \in Modules, SaveEnds(m)
    PROVE  FreshInv'
<1> USE NamesAssumption, TextsAssumption
<1> DEFINE t == doc[m].text
<1>1. t \in Texts /\ t = file[m] /\ t # Unknown /\ t # Absent
  BY DEF TypeInv, DocumentTypes, Documents, Held, SaveEnds, FreshInv, SavingInv
<1>2. /\ saving' = saving \ {m} /\ cached' = [cached EXCEPT ![m] = t]
      /\ bumped' = bumped \cup {m} /\ theRead' = NoRead /\ ModuleChanged(m, t)
      /\ lastSeen' = Nothing /\ UNCHANGED <<file, unsaid, doc, listed, list, reads, announcing>>
  BY DEF SaveEnds
<1> HIDE DEF t
<1>3. cached \in [Modules -> Texts \cup {Unknown}] /\ file \in [Modules -> Held]
  BY DEF TypeInv, CacheTypes, FileTypes
<1>4. SavingInv'
  BY <1>2 DEF FreshInv, SavingInv
<1>5. SeenInv'
  <2>1. lastSeen'[m] = Unknown /\ file'[m] \in Held
    BY <1>2, <1>3 DEF Nothing
  <2>2. lastSeen' # file'
    BY <2>1 DEF Held
  <2> QED
    BY <2>2 DEF SeenInv
<1>6. theLoad' = NoLoad
  BY <1>2 DEF ModuleChanged, CanApply, Invalidate
<1>7. \A r \in Reads : ~Joined(r)'
  BY <1>2, <1>6 DEF Joined
<1>8. JoinedAttached' /\ \A k \in Modules : RunAt(k)'
  BY <1>6, <1>7 DEF JoinedAttached, RunAt, JoinedAt, LoadAt
<1>9. HeldAt(m)'
  <2>1. cached'[m] = t /\ Keeps(m)'
    BY <1>1, <1>2, <1>3 DEF Keeps
  <2>2. CacheAt(m)'
    BY <1>1, <1>2, <2>1 DEF CacheAt
  <2>3. ListAt(m)'
    BY <1>2 DEF FreshInv, HeldAt, ListAt
  <2>4. AttachedAt(m)'
    BY <2>1 DEF AttachedAt
  <2> QED
    BY <2>2, <2>3, <2>4 DEF HeldAt
<1>10. ASSUME NEW k \in Modules \ {m}
       PROVE  HeldAt(k)'
  <2>1. cached'[k] = cached[k] /\ (Said(k)' <=> Said(k)) /\ (Keeps(k)' <=> Keeps(k))
    BY <1>2, <1>3 DEF Said, Keeps
  <2>2. CacheAt(k)'
    BY <1>2, <2>1 DEF FreshInv, HeldAt, CacheAt
  <2>3. ListAt(k)'
    BY <1>2 DEF FreshInv, HeldAt, ListAt
  <2>4. AttachedAt(k)'
    BY <1>2, <2>1 DEF FreshInv, HeldAt, AttachedAt
  <2> QED
    BY <2>2, <2>3, <2>4 DEF HeldAt
<1>11. ASSUME NEW k \in Modules
       PROVE  RecordAt(k)'
  <2>1. CASE record' = NoRecord
    BY <2>1, RecordGone
  <2>2. CASE ~Kept /\ record' = record
    BY <2>2 DEF RecordAt, Kept
  <2>3. CASE Kept /\ record' = WithText(record, m, t)
    <3>1. /\ record'.texts = [record.texts EXCEPT ![m] = t]
          /\ record'.applied = record.applied
      BY <1>1, <2>3, RecordWithText DEF TypeInv
    <3>2. record.texts \in [Modules -> Held]
      BY <2>3, RecordFields DEF TypeInv, RecordInv, RecordTypes, Kept
    <3>3. CASE k = m
      <4>1. record'.texts[m] = t /\ doc'[m].text = t /\ file'[m] = t
        BY <1>1, <1>2, <3>1, <3>2 DEF t
      <4> QED
        BY <1>1, <3>3, <4>1 DEF RecordAt, Fits
    <3>4. CASE k # m
      <4>1. record'.texts[k] = record.texts[k] /\ record'.applied[k] = record.applied[k]
        BY <3>1, <3>2, <3>4
      <4>2. Said(k)' => Said(k)
        BY <1>2, <3>4 DEF Said
      <4> QED
        BY <1>2, <2>3, <4>1, <4>2, RecordSameText DEF FreshInv
    <3> QED
      BY <3>3, <3>4
  <2> QED
    BY <1>2, <2>1, <2>2, <2>3 DEF ModuleChanged, Invalidate
<1> QED
  BY <1>4, <1>5, <1>8, <1>9, <1>10, <1>11 DEF FreshInv

\* Fewer are joined.
LEMMA RunInvalidated ==
    ASSUME JoinedAttached, \A m \in Modules : RunAt(m),
           UNCHANGED <<theRead, reads, loads, file, saving, unsaid>>, theLoad' \in {NoLoad, theLoad}
    PROVE  JoinedAttached' /\ \A m \in Modules : RunAt(m)'
<1>1. \A r \in Reads : Joined(r)' => Joined(r)
  BY DEF Joined
<1>2. JoinedAttached'
  BY <1>1 DEF JoinedAttached
<1>3. ASSUME NEW m \in Modules
      PROVE  RunAt(m)'
  <2>1. Said(m)' <=> Said(m)
    BY DEF Said
  <2>2. JoinedAt(m)'
    BY <1>1, <2>1 DEF RunAt, JoinedAt
  <2>3. LoadAt(m)'
    BY <2>1 DEF RunAt, LoadAt
  <2> QED
    BY <2>2, <2>3 DEF RunAt
<1> QED
  BY <1>2, <1>3

LEMMA FreshClose ==
    ASSUME TypeInv, FreshInv, NEW m \in Modules, Close(m)
    PROVE  FreshInv'
<1>1. /\ m \notin saving /\ UNCHANGED <<fileVars, lastSeen, cacheVars, loads>>
      /\ theLoad' \in {NoLoad, theLoad}
  BY DEF Close, recordVars, Invalidate
<1>2. /\ ~doc'[m].open /\ \A k \in Modules \ {m} : doc'[k] = doc[k]
  BY ClosedDocument
<1>3. SavingInv' /\ SeenInv'
  <2>1. \A k \in saving : k \in Modules \ {m}
    BY <1>1 DEF TypeInv, DocumentTypes
  <2> QED
    BY <1>1, <1>2, <2>1 DEF FreshInv, SavingInv, SeenInv, fileVars
<1>4. JoinedAttached' /\ \A k \in Modules : RunAt(k)'
  BY <1>1, RunInvalidated DEF FreshInv, fileVars, cacheVars
<1>5. ASSUME NEW k \in Modules
      PROVE  HeldAt(k)'
  BY <1>1, HeldUnmoved, UnmovedIfSame DEF FreshInv, fileVars, cacheVars
<1>6. ASSUME NEW rec \in Records, rec.at = "kept", Kept, record' = Unapply(rec, m),
             \A k \in Modules \ {m} : rec.texts[k] = record.texts[k],
             rec.applied = record.applied, rec.texts[m] = cached[m]
      PROVE  \A k \in Modules : RecordAt(k)'
  <2>1. /\ record'.texts = rec.texts /\ record'.applied = [rec.applied EXCEPT ![m] = 0]
        /\ rec.applied \in [Modules -> 0 .. MaxVersion] /\ rec.texts \in [Modules -> Held]
    BY <1>6, RecordUnapplied, RecordFields
  <2>2. RecordAt(m)'
    <3>1. Said(m)' => cached[m] = file[m]
      <4>1. cached[m] # Unknown
        BY <1>6, <2>1, TextsAssumption DEF Held
      <4> QED
        BY <1>1, <4>1 DEF FreshInv, HeldAt, CacheAt, Said, fileVars
    <3>2. record'.texts[m] = cached[m] /\ file'[m] = file[m]
      BY <1>1, <1>6, <2>1 DEF fileVars
    <3> QED
      BY <1>2, <3>1, <3>2 DEF RecordAt, Fits
  <2>3. ASSUME NEW k \in Modules \ {m}
        PROVE  RecordAt(k)'
    <3>1. record'.texts[k] = record.texts[k] /\ record'.applied[k] = record.applied[k]
      BY <1>6, <2>1
    <3> QED
      BY <1>1, <1>2, <1>6, <3>1, RecordSameText DEF FreshInv, fileVars, Said
  <2> QED
    BY <2>2, <2>3
<1>7. ASSUME NEW k \in Modules
      PROVE  RecordAt(k)'
  <2>1. CASE ~Kept /\ record' = record
    BY <2>1 DEF RecordAt, Kept
  <2>2. CASE Kept /\ record.texts[m] = Absent /\ record' = record
    <3>1. CASE k = m
      <4>1. Said(m)' => Said(m) /\ file'[m] = file[m]
        BY <1>1 DEF Said, fileVars
      <4> QED
        BY <2>2, <3>1, <4>1 DEF FreshInv, RecordAt, Fits
    <3>2. CASE k # m
      BY <1>1, <1>2, <2>2, <3>2, RecordSameText DEF FreshInv, fileVars, Said
    <3> QED
      BY <3>1, <3>2
  <2>3. CASE record' = NoRecord
    BY <2>3, RecordGone
  <2>4. CASE Kept /\ cached[m] = record.texts[m] /\ record' = Unapply(record, m)
    <3>1. record \in Records /\ record.at = "kept"
      BY <2>4 DEF TypeInv, RecordInv, RecordTypes, Kept
    <3> QED
      BY <1>6, <2>4, <3>1
  <2>5. CASE Kept /\ cached[m] # Unknown /\ record' = Unapply(WithText(record, m, cached[m]), m)
    <3>1. cached[m] \in Texts
      BY <2>5 DEF TypeInv, CacheTypes
    <3> DEFINE rec == WithText(record, m, cached[m])
    <3>2. /\ rec \in Records /\ rec.at = "kept" /\ rec.applied = record.applied
          /\ rec.texts = [record.texts EXCEPT ![m] = cached[m]]
      BY <2>5, <3>1, RecordWithText DEF TypeInv
    <3>3. record.texts \in [Modules -> Held]
      BY <2>5, RecordFields DEF TypeInv, RecordInv, RecordTypes, Kept
    <3>4. rec.texts[m] = cached[m] /\ \A j \in Modules \ {m} : rec.texts[j] = record.texts[j]
      BY <3>2, <3>3
    <3> HIDE DEF rec
    <3> QED
      BY <1>6, <2>5, <3>2, <3>4 DEF rec
  <2> QED
    BY <2>1, <2>2, <2>3, <2>4, <2>5 DEF Close, Invalidate, CanApply, recordVars
<1> QED
  BY <1>3, <1>4, <1>5, <1>7 DEF FreshInv

-----------------------------------------------------------------------------
(* What loads and reads do: the file and the editors stand.                *)

LEMMA StandingInv ==
    ASSUME FreshInv, UNCHANGED <<fileVars, doc, lastSeen>>
    PROVE  SavingInv' /\ SeenInv' /\ \A m \in Modules : Unmoved(m)
BY UnmovedIfSame DEF FreshInv, SavingInv, SeenInv, fileVars

LEMMA RecordStanding ==
    ASSUME FreshInv, UNCHANGED <<fileVars, doc, record>>, NEW m \in Modules
    PROVE  RecordAt(m)'
<1>1. Unmoved(m)
  BY UnmovedIfSame DEF fileVars
<1> QED
  BY <1>1, RecordUnmoved DEF FreshInv

\* A record of texts that fit is one of texts that fit when they are folded in.
LEMMA RecordOfFolded ==
    ASSUME DocumentTypes, NEW rec \in Records, rec.at = "kept", record' = Folded(rec),
           UNCHANGED <<fileVars, doc>>, NEW m \in Modules, Said(m) => Fits(rec, m)
    PROVE  RecordAt(m)'
<1>1. Said(m)' => Said(m)
  BY DEF Said, fileVars
<1>2. Said(m) => Fits(record, m)'
  BY FoldedFits DEF fileVars
<1> QED
  BY <1>1, <1>2 DEF RecordAt

LEMMA FreshAskKept ==
    ASSUME TypeInv, FreshInv, Kept, record' = Folded(record),
           UNCHANGED <<fileVars, doc, lastSeen, cached, listed, list, bumped,
                       theLoad, loads, theRead, reads>>
    PROVE  FreshInv'
<1>1. SavingInv' /\ SeenInv' /\ \A m \in Modules : Unmoved(m)
  BY StandingInv
<1>2. record \in Records /\ record.at = "kept"
  BY DEF TypeInv, RecordInv, RecordTypes, Kept
<1>3. JoinedAttached'
  BY AttachedKept DEF FreshInv
<1>4. ASSUME NEW m \in Modules
      PROVE  HeldAt(m)' /\ RunAt(m)' /\ RecordAt(m)'
  <2>1. HeldAt(m)' /\ RunAt(m)'
    BY <1>1, HeldUnmoved, RunUnmoved DEF FreshInv
  <2>2. Said(m) => Fits(record, m)
    BY DEF FreshInv, RecordAt
  <2> QED
    BY <1>2, <2>1, <2>2, RecordOfFolded DEF TypeInv
<1> QED
  BY <1>1, <1>3, <1>4 DEF FreshInv

\* What the cache answers with.
LEMMA ListedFresh ==
    ASSUME FreshInv, Complete, NEW m \in Modules, Said(m)
    PROVE  Listed[m] = file[m]
<1>1. CacheAt(m) /\ ListAt(m) /\ m \notin unsaid
  BY DEF FreshInv, HeldAt, Said
<1>2. CASE m \in list
  BY <1>1, <1>2 DEF CacheAt, Complete, Listed
<1>3. CASE m \notin list
  BY <1>1, <1>3 DEF ListAt, Complete, Listed
<1> QED
  BY <1>2, <1>3

LEMMA FreshStartLoad ==
    ASSUME TypeInv, FreshInv, NEW l \in Loads, StartLoad(l), theLoad = NoLoad,
           UNCHANGED <<fileVars, doc, lastSeen, cached, listed, list, bumped, record>>
    PROVE  FreshInv'
<1> USE NamesAssumption
<1>1. SavingInv' /\ SeenInv' /\ \A m \in Modules : Unmoved(m)
  BY StandingInv
<1>2. \A m \in Modules : RecordAt(m)' /\ (Said(m)' <=> Said(m)) /\ file'[m] = file[m]
  BY RecordStanding DEF Said, fileVars
<1>3. theLoad' = l /\ l # NoLoad
  BY DEF StartLoad
<1>4. loads \in [Loads -> LoadStates] /\ reads \in [Reads -> ReadStates]
  BY DEF TypeInv, RunInv, RunTypes
<1>5. CASE theRead # NoRead /\ loads' = [loads EXCEPT ![l] = [at |-> "reading", read |-> theRead]]
           /\ UNCHANGED <<theRead, reads>>
  <2>1. loads'[l].at = "reading" /\ loads'[l].read = theRead
    BY <1>4, <1>5
  <2>2. \A r \in Reads : Joined(r)' => Joined(r)
    BY <1>3, <1>5, <2>1 DEF Joined
  <2>3. JoinedAttached'
    BY <1>5, <2>2 DEF FreshInv, JoinedAttached
  <2>4. ASSUME NEW m \in Modules
        PROVE  HeldAt(m)' /\ RunAt(m)'
    <3>1. JoinedAt(m)'
      BY <1>2, <1>5, <2>2 DEF FreshInv, RunAt, JoinedAt
    <3>2. LoadAt(m)'
      BY <1>3, <2>1 DEF LoadAt
    <3> QED
      BY <1>1, <1>5, <3>1, <3>2, HeldUnmoved DEF FreshInv, RunAt
  <2> QED
    BY <1>1, <1>2, <2>3, <2>4 DEF FreshInv
<1>6. CASE Complete /\ loads' = [loads EXCEPT ![l] = [at |-> "building", texts |-> Listed]]
           /\ UNCHANGED <<theRead, reads>>
  <2>1. loads'[l].at = "building" /\ loads'[l].texts = Listed
    BY <1>4, <1>6
  <2>2. \A r \in Reads : Joined(r)' => Joined(r)
    BY <1>3, <1>6, <2>1 DEF Joined
  <2>3. JoinedAttached'
    BY <1>6, <2>2 DEF FreshInv, JoinedAttached
  <2>4. ASSUME NEW m \in Modules
        PROVE  HeldAt(m)' /\ RunAt(m)'
    <3>1. JoinedAt(m)'
      BY <1>2, <1>6, <2>2 DEF FreshInv, RunAt, JoinedAt
    <3>2. LoadAt(m)'
      BY <1>2, <1>3, <1>6, <2>1, ListedFresh DEF LoadAt
    <3> QED
      BY <1>1, <1>6, <3>1, <3>2, HeldUnmoved DEF FreshInv, RunAt
  <2> QED
    BY <1>1, <1>2, <2>3, <2>4 DEF FreshInv
<1>7. ASSUME NEW r \in Reads, BeginRead(r),
             loads' = [loads EXCEPT ![l] = [at |-> "reading", read |-> r]]
      PROVE  FreshInv'
  <2>1. /\ reads' = [reads EXCEPT ![r] = [at |-> "asked"]] /\ theRead' = r
        /\ loads'[l].at = "reading" /\ loads'[l].read = r
    BY <1>4, <1>7 DEF BeginRead
  <2>2. \A q \in Reads : reads'[q].at = "rest" => q # r /\ reads'[q] = reads[q]
    BY <1>4, <2>1
  <2>3. \A q \in Reads : Joined(q)' => q = r
    BY <1>3, <2>1 DEF Joined
  <2>4. JoinedAttached'
    BY <2>2, <2>3 DEF JoinedAttached
  <2>5. ASSUME NEW m \in Modules
        PROVE  HeldAt(m)' /\ RunAt(m)'
    <3>1. JoinedAt(m)'
      BY <2>2, <2>3 DEF JoinedAt
    <3>2. LoadAt(m)'
      BY <1>3, <2>1 DEF LoadAt
    <3>3. CacheAt(m)' /\ ListAt(m)'
      BY <1>1 DEF FreshInv, HeldAt, CacheAt, ListAt, Unmoved
    <3>4. AttachedAt(m)'
      BY <1>2, <2>2 DEF FreshInv, HeldAt, AttachedAt, Keeps
    <3> QED
      BY <3>1, <3>2, <3>3, <3>4 DEF HeldAt, RunAt
  <2> QED
    BY <1>1, <1>2, <2>4, <2>5 DEF FreshInv
<1> QED
  BY <1>5, <1>6, <1>7 DEF StartLoad

LEMMA FreshAsk ==
    ASSUME TypeInv, FreshInv, Ask
    PROVE  FreshInv'
<1>1. CASE /\ Kept /\ record' = Folded(record)
           /\ UNCHANGED <<theLoad, loads, theRead, reads>>
  BY <1>1, FreshAskKept DEF Ask
<1>2. ASSUME NEW l \in Loads, StartLoad(l), theLoad = NoLoad, record' = record
      PROVE  FreshInv'
  BY <1>2, FreshStartLoad DEF Ask
<1> QED
  BY <1>1, <1>2 DEF Ask

\* What a read takes of a module is what the file has.
LEMMA TakenFresh ==
    ASSUME NEW m \in Modules, CacheAt(m), Said(m), NEW t, t = file[m]
    PROVE  Taken(m, t) = file[m]
BY DEF Taken, Keeps, CacheAt

LEMMA CachesMore ==
    ASSUME CacheTypes, NEW ms, NEW out \in [Modules -> Held], Caches(ms, out),
           NEW m \in Modules
    PROVE  /\ cached'[m] = IF m \in ms /\ out[m] # Absent THEN Taken(m, out[m]) ELSE cached[m]
           /\ cached[m] # Unknown => cached'[m] # Unknown
<1>1. cached'[m] = IF m \in ms /\ out[m] # Absent THEN Taken(m, out[m]) ELSE cached[m]
  BY DEF Caches
<1>2. out[m] # Absent /\ cached[m] # Unknown => Taken(m, out[m]) # Unknown
  BY TextsAssumption DEF Taken, Held
<1> QED
  BY <1>1, <1>2

LEMMA FreshReadFile ==
    ASSUME TypeInv, FreshInv, NEW r \in Reads, ReadFile(r)
    PROVE  FreshInv'
<1> DEFINE out == [m \in Modules |-> IF m \in FirstChunk THEN Taken(m, file[m]) ELSE file[m]]
<1>1. SavingInv' /\ SeenInv' /\ \A m \in Modules : Unmoved(m)
  BY StandingInv DEF ReadFile
<1>2. \A m \in Modules : RecordAt(m)' /\ (Said(m)' <=> Said(m)) /\ file'[m] = file[m]
  BY RecordStanding DEF Said, fileVars, recordVars, ReadFile
<1>3. \A m \in Modules : Said(m) => out[m] = file[m]
  BY TakenFresh DEF FreshInv, HeldAt
<1>4. /\ reads' = [reads EXCEPT ![r] = [at |-> "rest", attached |-> TRUE, out |-> out]]
      /\ UNCHANGED <<theRead, theLoad, loads, bumped>>
      /\ listed' = TRUE /\ list' = {m \in Modules : file[m] # Absent}
      /\ Caches(FirstChunk, file) /\ file \in [Modules -> Held] /\ CacheTypes
      /\ reads \in [Reads -> ReadStates]
  BY DEF ReadFile, recordVars, TypeInv, FileTypes, RunInv, RunTypes
<1> HIDE DEF out
<1>5. /\ reads'[r].at = "rest" /\ reads'[r].attached /\ reads'[r].out = out
      /\ \A q \in Reads \ {r} : reads'[q] = reads[q]
  BY <1>4
<1>6. \A q \in Reads : Joined(q)' <=> Joined(q)
  BY <1>4 DEF Joined
<1>7. JoinedAttached'
  BY <1>5, <1>6 DEF FreshInv, JoinedAttached
<1>8. ASSUME NEW m \in Modules
      PROVE  HeldAt(m)' /\ RunAt(m)'
  <2>1. /\ cached'[m] = IF m \in FirstChunk /\ file[m] # Absent THEN Taken(m, file[m])
                        ELSE cached[m]
        /\ cached[m] # Unknown => cached'[m] # Unknown
    BY <1>4, CachesMore
  <2>2. CacheAt(m)'
    <3> SUFFICES ASSUME Said(m), cached'[m] # Unknown
                 PROVE  cached'[m] = file[m]
      BY <1>2 DEF CacheAt
    <3>1. CacheAt(m)
      BY DEF FreshInv, HeldAt
    <3>2. CASE cached'[m] = Taken(m, file[m])
      BY <3>1, <3>2, TakenFresh
    <3>3. CASE cached'[m] = cached[m]
      BY <3>1, <3>3 DEF CacheAt
    <3> QED
      BY <2>1, <3>2, <3>3
  <2>3. ListAt(m)'
    BY <1>2, <1>4 DEF ListAt
  <2>4. Keeps(m) => Keeps(m)'
    BY <1>4, <2>1 DEF Keeps
  <2>5. AttachedAt(m)'
    <3> SUFFICES ASSUME NEW q \in Reads, reads'[q].at = "rest", reads'[q].attached, Said(m),
                        reads'[q].out[m] # Absent
                 PROVE  reads'[q].out[m] = file[m] \/ Keeps(m)'
      BY <1>2 DEF AttachedAt
    <3>1. CASE q = r
      BY <1>3, <1>5, <3>1
    <3>2. CASE q # r
      BY <1>5, <2>4, <3>2 DEF FreshInv, HeldAt, AttachedAt
    <3> QED
      BY <3>1, <3>2
  <2>6. JoinedAt(m)'
    <3> SUFFICES ASSUME NEW q \in Reads, Joined(q), reads'[q].at = "rest", Said(m)
                 PROVE  reads'[q].out[m] = file[m]
      BY <1>2, <1>6 DEF JoinedAt
    <3>1. CASE q = r
      BY <1>3, <1>5, <3>1
    <3>2. CASE q # r
      BY <1>5, <3>2 DEF FreshInv, RunAt, JoinedAt
    <3> QED
      BY <3>1, <3>2
  <2>7. LoadAt(m)'
    BY <1>2, <1>4 DEF FreshInv, RunAt, LoadAt
  <2> QED
    BY <2>2, <2>3, <2>5, <2>6, <2>7 DEF HeldAt, RunAt
<1> QED
  BY <1>1, <1>2, <1>7, <1>8 DEF FreshInv

\* A read that has ended is joined by nobody.
LEMMA ReadGone ==
    ASSUME RunTypes, NEW r \in Reads, EndRead(r), theLoad' \in {NoLoad, theLoad},
           \A l \in Loads : loads'[l].at = "reading" => loads'[l] = loads[l] /\ loads[l].read # r
    PROVE  /\ reads'[r].at = "free" /\ \A q \in Reads \ {r} : reads'[q] = reads[q]
           /\ \A q \in Reads : Joined(q)' => Joined(q) /\ q # r
<1> USE NamesAssumption
<1>1. /\ reads' = [reads EXCEPT ![r] = Free] /\ theRead' \in {NoRead, theRead} /\ theRead' # r
      /\ reads \in [Reads -> ReadStates]
  BY DEF EndRead, RunTypes
<1>2. reads'[r].at = "free" /\ \A q \in Reads \ {r} : reads'[q] = reads[q]
  BY <1>1 DEF Free
<1>3. ASSUME NEW q \in Reads, Joined(q)'
      PROVE  Joined(q) /\ q # r
  <2>1. CASE theRead' = q
    BY <1>1, <2>1 DEF Joined
  <2>2. CASE theLoad' # NoLoad /\ loads'[theLoad'].at = "reading" /\ loads'[theLoad'].read = q
    <3>1. theLoad' = theLoad /\ theLoad \in Loads
      BY <2>2 DEF RunTypes
    <3> QED
      BY <2>2, <3>1 DEF Joined
  <2> QED
    BY <1>3, <2>1, <2>2 DEF Joined
<1> QED
  BY <1>2, <1>3

\* What remains true of the reads that go on.
LEMMA JoinedStay ==
    ASSUME FreshInv, NEW r \in Reads, \A q \in Reads \ {r} : reads'[q] = reads[q],
           reads'[r].at = "free", \A q \in Reads : Joined(q)' => Joined(q) /\ q # r,
           UNCHANGED fileVars
    PROVE  JoinedAttached' /\ \A m \in Modules : JoinedAt(m)'
<1>1. JoinedAttached'
  BY DEF FreshInv, JoinedAttached
<1>2. ASSUME NEW m \in Modules
      PROVE  JoinedAt(m)'
  BY DEF FreshInv, RunAt, JoinedAt, fileVars, Said
<1> QED
  BY <1>1, <1>2

LEMMA FreshFailRead ==
    ASSUME TypeInv, FreshInv, NEW r \in Reads, FailRead(r)
    PROVE  FreshInv'
<1> USE NamesAssumption
<1> DEFINE waited == {l \in Loads : loads[l].at = "reading" /\ loads[l].read = r}
<1>1. SavingInv' /\ SeenInv' /\ \A m \in Modules : Unmoved(m)
  BY StandingInv DEF FailRead
<1>2. \A m \in Modules : RecordAt(m)'
  BY RecordStanding DEF FailRead
<1>3. /\ loads' = [l \in Loads |-> IF l \in waited THEN Free ELSE loads[l]]
      /\ theLoad' = IF theLoad \in waited THEN NoLoad ELSE theLoad
      /\ theLoad \in Loads \cup {NoLoad}
  BY DEF FailRead, FailedLoadGoes, TypeInv, RunInv, RunTypes
<1>4. \A l \in Loads : loads'[l].at = "reading" => loads'[l] = loads[l] /\ loads[l].read # r
  BY <1>3 DEF Free
<1>5. /\ reads'[r].at = "free" /\ \A q \in Reads \ {r} : reads'[q] = reads[q]
      /\ \A q \in Reads : Joined(q)' => Joined(q) /\ q # r
  BY <1>3, <1>4, ReadGone DEF FailRead, TypeInv, RunInv
<1>6. JoinedAttached' /\ \A m \in Modules : JoinedAt(m)'
  BY <1>5, JoinedStay DEF FailRead
<1>7. ASSUME NEW m \in Modules
      PROVE  HeldAt(m)' /\ LoadAt(m)'
  <2>1. CacheAt(m)' /\ ListAt(m)'
    BY <1>1 DEF FreshInv, HeldAt, CacheAt, ListAt, Unmoved, FailRead
  <2>2. AttachedAt(m)'
    BY <1>5 DEF FreshInv, HeldAt, AttachedAt, FailRead, Keeps, Said, fileVars
  <2>3. LoadAt(m)'
    <3>1. Said(m)' => Said(m) /\ file'[m] = file[m]
      BY <1>1 DEF Unmoved
    <3>2. theLoad' # NoLoad => theLoad' = theLoad /\ theLoad # NoLoad /\ loads'[theLoad] = loads[theLoad]
      BY <1>3
    <3> QED
      BY <3>1, <3>2 DEF FreshInv, RunAt, LoadAt
  <2> QED
    BY <2>1, <2>2, <2>3 DEF HeldAt
<1> QED
  BY <1>1, <1>2, <1>6, <1>7 DEF FreshInv, RunAt

LEMMA FreshReadRest ==
    ASSUME TypeInv, FreshInv, NEW r \in Reads, ReadRest(r)
    PROVE  FreshInv'
<1> USE NamesAssumption
<1>1. SavingInv' /\ SeenInv' /\ \A m \in Modules : Unmoved(m)
  BY StandingInv DEF ReadRest
<1>2. \A m \in Modules : RecordAt(m)' /\ (Said(m)' <=> Said(m)) /\ file'[m] = file[m]
  BY RecordStanding DEF ReadRest, Said, fileVars
<1>3. /\ loads' = [l \in Loads |-> IF loads[l].at = "reading" /\ loads[l].read = r
                                  THEN [at |-> "building", texts |-> RestOut(r)] ELSE loads[l]]
      /\ UNCHANGED <<listed, list, bumped, theLoad>> /\ EndRead(r) /\ reads[r].at = "rest"
      /\ theLoad \in Loads \cup {NoLoad} /\ CacheTypes
  BY DEF ReadRest, Deliver, RestOut, TypeInv, RunInv, RunTypes
<1>4. \A l \in Loads : loads'[l].at = "reading" => loads'[l] = loads[l] /\ loads[l].read # r
  BY <1>3
<1>5. /\ reads'[r].at = "free" /\ \A q \in Reads \ {r} : reads'[q] = reads[q]
      /\ \A q \in Reads : Joined(q)' => Joined(q) /\ q # r
  BY <1>3, <1>4, ReadGone DEF TypeInv, RunInv
<1>6. JoinedAttached' /\ \A m \in Modules : JoinedAt(m)'
  BY <1>5, JoinedStay DEF ReadRest
<1>7. reads[r].out \in [Modules -> Held]
  BY RestIsHeld DEF TypeInv, ReadRest, CacheTypes
<1>8. ASSUME NEW m \in Modules
      PROVE  /\ cached[m] # Unknown => cached'[m] # Unknown
             /\ CacheAt(m)'
  <2>1. CASE ~reads[r].attached
    <3>1. cached' = cached
      BY <2>1 DEF ReadRest
    <3> QED
      BY <1>2, <3>1 DEF FreshInv, HeldAt, CacheAt
  <2>2. CASE reads[r].attached
    <3>1. /\ cached'[m] = IF m \in Modules \ FirstChunk /\ reads[r].out[m] # Absent
                          THEN Taken(m, reads[r].out[m]) ELSE cached[m]
          /\ cached[m] # Unknown => cached'[m] # Unknown
      BY <1>3, <1>7, <2>2, CachesMore DEF ReadRest
    <3>2. ASSUME Said(m), reads[r].out[m] # Absent
          PROVE  Taken(m, reads[r].out[m]) = file[m]
      <4>1. CacheAt(m) /\ (reads[r].out[m] = file[m] \/ Keeps(m))
        BY <1>3, <2>2, <3>2 DEF FreshInv, HeldAt, AttachedAt
      <4>2. CASE Keeps(m)
        BY <3>2, <4>1, <4>2 DEF Taken, CacheAt, Keeps
      <4>3. CASE reads[r].out[m] = file[m]
        BY <3>2, <4>1, <4>3, TakenFresh
      <4> QED
        BY <4>1, <4>2, <4>3
    <3>3. CacheAt(m)
      BY DEF FreshInv, HeldAt
    <3>4. CacheAt(m)'
      BY <1>2, <3>1, <3>2, <3>3 DEF CacheAt
    <3> QED
      BY <3>1, <3>4
  <2> QED
    BY <2>1, <2>2
<1>9. ASSUME NEW m \in Modules
      PROVE  HeldAt(m)'
  <2>1. ListAt(m)'
    BY <1>1, <1>3 DEF FreshInv, HeldAt, ListAt, Unmoved
  <2>2. Keeps(m) => Keeps(m)'
    BY <1>3, <1>8 DEF Keeps
  <2>3. AttachedAt(m)'
    BY <1>2, <1>5, <2>2 DEF FreshInv, HeldAt, AttachedAt
  <2> QED
    BY <1>8, <2>1, <2>3 DEF HeldAt
<1>10. ASSUME NEW m \in Modules
       PROVE  LoadAt(m)'
  <2> SUFFICES ASSUME theLoad # NoLoad, loads'[theLoad].at = "building", Said(m)
               PROVE  loads'[theLoad].texts[m] = file[m]
    BY <1>2, <1>3 DEF LoadAt
  <2>1. theLoad \in Loads
    BY <1>3
  <2>2. CASE loads[theLoad].at = "reading" /\ loads[theLoad].read = r
    <3>1. Joined(r)
      BY <2>2 DEF Joined
    <3>2. reads[r].attached /\ reads[r].out[m] = file[m]
      BY <1>3, <3>1 DEF FreshInv, JoinedAttached, RunAt, JoinedAt
    <3>3. Taken(m, reads[r].out[m]) = file[m]
      BY <3>2, TakenFresh DEF FreshInv, HeldAt
    <3>4. RestOut(r)[m] = file[m]
      BY <3>2, <3>3 DEF RestOut
    <3> QED
      BY <1>3, <2>1, <2>2, <3>4
  <2>3. CASE ~(loads[theLoad].at = "reading" /\ loads[theLoad].read = r)
    <3>1. loads'[theLoad] = loads[theLoad]
      BY <1>3, <2>1, <2>3
    <3> QED
      BY <3>1 DEF FreshInv, RunAt, LoadAt
  <2> QED
    BY <2>2, <2>3
<1> QED
  BY <1>1, <1>2, <1>6, <1>9, <1>10 DEF FreshInv, RunAt

LEMMA FreshEndLoad ==
    ASSUME TypeInv, FreshInv, NEW l \in Loads, EndLoad(l)
    PROVE  FreshInv'
<1> USE NamesAssumption
<1>1. SavingInv' /\ SeenInv' /\ \A m \in Modules : Unmoved(m)
  BY StandingInv DEF EndLoad
<1>2. /\ loads' = [loads EXCEPT ![l] = Free] /\ UNCHANGED <<fileVars, doc, cacheVars>>
      /\ theLoad' = IF theLoad = l THEN NoLoad ELSE theLoad
      /\ theLoad \in Loads \cup {NoLoad} /\ loads \in [Loads -> LoadStates]
  BY DEF EndLoad, TypeInv, RunInv, RunTypes
<1>3. theLoad' # NoLoad => theLoad' = theLoad /\ theLoad # NoLoad /\ loads'[theLoad] = loads[theLoad]
  BY <1>2
<1>4. \A q \in Reads : (Joined(q)' => Joined(q)) /\ reads'[q] = reads[q]
  BY <1>2, <1>3 DEF Joined, cacheVars
<1>5. JoinedAttached'
  BY <1>4 DEF FreshInv, JoinedAttached
<1>6. ASSUME NEW m \in Modules
      PROVE  HeldAt(m)' /\ RunAt(m)'
  <2>1. HeldAt(m)'
    BY <1>1, <1>2, HeldUnmoved DEF FreshInv, cacheVars
  <2>2. JoinedAt(m)'
    BY <1>1, <1>4 DEF FreshInv, RunAt, JoinedAt, Unmoved
  <2>3. LoadAt(m)'
    BY <1>1, <1>3 DEF FreshInv, RunAt, LoadAt, Unmoved
  <2> QED
    BY <2>1, <2>2, <2>3 DEF RunAt
<1>7. ASSUME NEW m \in Modules
      PROVE  RecordAt(m)'
  <2>1. CASE record' = record
    BY <1>2, <2>1, RecordStanding
  <2>2. CASE Installs(l) /\ record' = Folded(NewRecord(loads[l].texts))
    <3> DEFINE rec == NewRecord(loads[l].texts)
    <3>1. loads[l].at = "building" /\ loads[l].texts \in [Modules -> Held] /\ theLoad = l
          /\ l # NoLoad
      BY <1>2, <2>2 DEF EndLoad, LoadStates, Installs
    <3>2. /\ rec \in Records /\ rec.at = "kept" /\ rec.texts = loads[l].texts
          /\ rec.applied[m] = 0
      BY <3>1, NewRecordIs
    <3> HIDE DEF rec
    <3>3. Said(m) => rec.texts[m] = file[m]
      BY <3>1, <3>2 DEF FreshInv, RunAt, LoadAt
    <3>4. Said(m) => Fits(rec, m)
      <4>1. doc[m].open => doc[m].version # 0
        BY DEF TypeInv, DocumentTypes, Documents
      <4> QED
        BY <3>2, <3>3, <4>1 DEF Fits, Foldable
    <3> QED
      BY <1>2, <2>2, <3>2, <3>4, RecordOfFolded DEF TypeInv, rec
  <2> QED
    BY <2>1, <2>2 DEF EndLoad
<1> QED
  BY <1>1, <1>5, <1>6, <1>7 DEF FreshInv

LEMMA FreshListExpires ==
    ASSUME FreshInv, ListExpires
    PROVE  FreshInv'
<1>1. SavingInv' /\ SeenInv' /\ \A m \in Modules : Unmoved(m)
  BY StandingInv DEF ListExpires
<1>2. \A m \in Modules : RecordAt(m)'
  BY RecordStanding DEF ListExpires, recordVars
<1>3. JoinedAttached'
  BY AttachedKept DEF FreshInv, ListExpires, recordVars
<1>4. ASSUME NEW m \in Modules
      PROVE  HeldAt(m)' /\ RunAt(m)'
  <2>1. RunAt(m)'
    BY <1>1, RunUnmoved DEF FreshInv, ListExpires, recordVars
  <2>2. CacheAt(m)' /\ AttachedAt(m)'
    BY <1>1 DEF FreshInv, HeldAt, CacheAt, AttachedAt, Keeps, Unmoved, ListExpires
  <2>3. ListAt(m)'
    BY DEF ListAt, ListExpires
  <2> QED
    BY <2>1, <2>2, <2>3 DEF HeldAt
<1> QED
  BY <1>1, <1>2, <1>3, <1>4 DEF FreshInv

LEMMA FreshIdle ==
    ASSUME FreshInv, UNCHANGED <<fileVars, doc, lastSeen, cacheVars, record, theLoad, loads>>
    PROVE  FreshInv'
<1>1. SavingInv' /\ SeenInv' /\ \A m \in Modules : Unmoved(m) /\ RecordAt(m)'
  BY StandingInv, RecordStanding
<1> QED
  BY <1>1, FreshWorld

LEMMA FreshNext ==
    ASSUME TypeInv, FreshInv, Races = {}, [Next]_vars
    PROVE  FreshInv'
<1>1. CASE UNCHANGED vars \/ RecordAges
  BY <1>1, FreshIdle DEF vars, recordVars, RecordAges
<1>2. ASSUME NEW m \in Modules, NEW t \in Texts, Edit(m, t)
      PROVE  FreshInv'
  BY <1>2, FreshTyped DEF Edit
<1>3. ASSUME NEW m \in Modules, NEW t \in Texts \cup {Absent}, OwnWrite(m, t) \/ OutsideWrite(m, t)
      PROVE  FreshInv'
  BY <1>3, FreshOwnWrite, FreshOutsideWrite DEF Held
<1> QED
  BY <1>1, <1>2, <1>3, FreshAsk, FreshListExpires, FreshOwnWriteEnds, FreshLook, FreshReadFile,
     FreshReadRest, FreshFailRead, FreshEndLoad, FreshOpen, FreshReload, FreshSaveWrites,
     FreshSaveEnds, FreshClose
  DEF Next

LEMMA FreshInit ==
    ASSUME Init
    PROVE  FreshInv
<1>1. SavingInv /\ SeenInv
  BY DEF Init, SavingInv, SeenInv
<1>2. /\ \A r \in Reads : reads[r].at = "free"
      /\ theLoad = NoLoad /\ ~Kept /\ ~listed /\ \A m \in Modules : cached[m] = Unknown
  BY DEF Init, Free, Kept, NoRecord, Nothing
<1>3. JoinedAttached
  BY <1>2 DEF JoinedAttached
<1>4. ASSUME NEW m \in Modules
      PROVE  HeldAt(m) /\ RunAt(m) /\ RecordAt(m)
  BY <1>2 DEF HeldAt, CacheAt, ListAt, AttachedAt, RunAt, JoinedAt, LoadAt, RecordAt
<1> QED
  BY <1>1, <1>3, <1>4 DEF FreshInv

\* What of a project is shared among those who ask for it is about its modules as
\* they are: the cache, what the load that can be joined will give, and the
\* record, of every module no change of which is still on its way; for any
\* number of modules, loads, reads, writes and versions, where nothing of Races
\* happens.
THEOREM SharedIndexIsFresh ==
    ASSUME Races = {}
    PROVE  Spec => []IndexIsFresh
<1>1. Init => TypeInv /\ FreshInv
  BY TypeInit, FreshInit
<1>2. TypeInv /\ FreshInv /\ [Next]_vars => (TypeInv /\ FreshInv)'
  BY TypeNext, FreshNext
<1>3. TypeInv /\ FreshInv => IndexIsFresh
  BY FreshFollows
<1> QED
  BY <1>1, <1>2, <1>3, PTL DEF Spec

=============================================================================
