---------------------- MODULE DirtyModuleBackupsProofs ----------------------
(***************************************************************************)
(* The safety of DirtyModuleBackups for any number of edits, saves, closes *)
(* and crashes.  That edits are mirrored and that a clean document has no  *)
(* backup, and that no backup is deleted before its text is settled, is    *)
(* proved where the author does not type while a save or a restore is      *)
(* under way; the configurations backups_save and backups_restore show     *)
(* what happens otherwise, and backups_shutdown what the queue that        *)
(* dispose leaves running does to a backup it has flushed.                 *)
(***************************************************************************)
EXTENDS DirtyModuleBackups, SequenceTheorems, TLAPS

-----------------------------------------------------------------------------
(* The shape of the state *)

Writes == [kind : {"write"}, text : Texts, gen : Nat]
Queued == Writes \cup {DeleteOp}

DocShape ==
    /\ host \in {"up", "ending", "down"}
    /\ doc \in [open : BOOLEAN, text : Texts \cup {NoText}, dirty : BOOLEAN]
    /\ doc.open => doc.text \in Texts
    /\ doc.dirty => doc.open
    /\ host = "down" => ~doc.open
    /\ project \in Texts /\ settled \in Texts /\ typed \in Texts
    /\ saving \in Texts \cup {NoText}
    /\ saving # NoText => doc.open

QueueShape ==
    /\ pending \in Nat /\ gen \in Nat /\ pending <= gen
    /\ pending # 0 => doc.open /\ Up
    /\ ops \in Seq(Queued)
    /\ busy \in BOOLEAN
    /\ busy => ops # <<>> /\ (Head(ops) \in Writes => file = Torn \/ host = "ending")

FileShape ==
    /\ file \in AnyText /\ crashes \in Nat
    /\ host = "ending" => crashes > 0
    /\ file = Torn => busy \/ crashes > 0

RestoreShape ==
    /\ restore \in [at : {"none", "reading", "applying"}, text : Texts \cup {NoText}]
    /\ restore.at = "applying" => restore.text \in Texts
    /\ restore.at # "none" => doc.open

Shape == DocShape /\ QueueShape /\ FileShape /\ RestoreShape

-----------------------------------------------------------------------------
(* Lemmas about the operators *)

LEMMA Numbers == Texts \subseteq Nat /\ NoText \notin Texts /\ Torn \notin Texts /\ Torn # NoText
                 /\ 0 \in Texts
BY BoundsAssumption DEF Texts, NoText, Torn

LEMMA QueueOps ==
    /\ DeleteOp \in Queued /\ DeleteOp \notin Writes
    /\ \A t \in Texts, g \in Nat : WriteOp(t, g) \in Queued /\ WriteOp(t, g) \in Writes
    /\ \A op \in Queued : op.kind = "write" => op \in Writes
    /\ \A op \in Writes : op.kind = "write" /\ op.text \in Texts
    /\ DeleteOp.kind = "delete"
BY DEF Queued, Writes, WriteOp, DeleteOp

\* A new operation goes to the end, and the first one stays first.
LEMMA Appended ==
    ASSUME ops \in Seq(Queued), NEW op \in Queued
    PROVE  /\ Append(ops, op) \in Seq(Queued) /\ Append(ops, op) # <<>>
           /\ Append(ops, op)[Len(Append(ops, op))] = op
           /\ ops # <<>> => Head(Append(ops, op)) = Head(ops)
<1>1. /\ Append(ops, op) \in Seq(Queued) /\ Append(ops, op) # <<>>
      /\ Len(Append(ops, op)) = Len(ops) + 1
      /\ \A i \in 1..Len(ops) : Append(ops, op)[i] = ops[i]
      /\ Append(ops, op)[Len(ops) + 1] = op
  BY AppendProperties
<1>2. ASSUME ops # <<>> PROVE Head(Append(ops, op)) = Head(ops)
  <2>1. 1 \in 1..Len(ops)
    BY <1>2, EmptySeq, LenProperties
  <2>2. Append(ops, op)[1] = ops[1]
    BY <1>1, <2>1
  <2> QED BY <1>1, <1>2, <2>2
<1> QED BY <1>1, <1>2

\* Taking the first operation leaves the last one last.
LEMMA Taken ==
    ASSUME ops \in Seq(Queued), ops # <<>>
    PROVE  /\ Head(ops) \in Queued /\ Tail(ops) \in Seq(Queued)
           /\ Tail(ops) = <<>> => Head(ops) = ops[Len(ops)]
           /\ Tail(ops) # <<>> => Tail(ops)[Len(Tail(ops))] = ops[Len(ops)]
<1>1. /\ Head(ops) \in Queued /\ Tail(ops) \in Seq(Queued)
      /\ Len(Tail(ops)) = Len(ops) - 1
      /\ \A i \in 1..Len(Tail(ops)) : Tail(ops)[i] = ops[i + 1]
  BY HeadTailProperties
<1>2. Len(ops) \in Nat \ {0}
  BY EmptySeq
<1>3. ASSUME Tail(ops) = <<>> PROVE Head(ops) = ops[Len(ops)]
  <2>0. Len(<<>>) = 0
    OBVIOUS
  <2>1. Len(Tail(ops)) = 0
    BY <1>3, <2>0, Zenon
  <2>2. Len(ops) - 1 = 0
    BY <1>1, <2>1, Zenon
  <2>3. Len(ops) = 1
    BY <1>2, <2>2
  <2> QED BY <2>3
<1>4. ASSUME Tail(ops) # <<>> PROVE Tail(ops)[Len(Tail(ops))] = ops[Len(ops)]
  <2>1. Len(Tail(ops)) \in Nat \ {0}
    BY <1>1, <1>4, EmptySeq
  <2> QED BY <1>1, <1>2, <2>1
<1> QED BY <1>1, <1>3, <1>4

-----------------------------------------------------------------------------
(* Type correctness *)

LEMMA ShapeInit == Init => Shape
<1> SUFFICES ASSUME Init PROVE Shape
  OBVIOUS
<1>1. DocShape
  BY Numbers DEF Init, DocShape, Closed
<1>2. QueueShape
  <2>1. pending = 0 /\ gen = 0 /\ busy = FALSE /\ ops = <<>>
    BY DEF Init
  <2>2. ops \in Seq(Queued)
    BY <2>1
  <2>3. busy \in BOOLEAN /\ (busy => ops # <<>> /\ (Head(ops) \in Writes => file = Torn \/ host = "ending"))
    BY <2>1
  <2> QED BY <2>1, <2>2, <2>3 DEF QueueShape
<1>3. FileShape
  <2>1. file = NoText /\ crashes = 0 /\ host = "up"
    BY DEF Init
  <2>2. file # Torn /\ file \in AnyText
    BY <2>1, Numbers DEF AnyText
  <2> QED BY <2>1, <2>2 DEF FileShape
<1>4. RestoreShape
  BY DEF Init, RestoreShape, NoRestore
<1> QED BY <1>1, <1>2, <1>3, <1>4 DEF Shape

\* The generation moves on, the queue stays.
LEMMA ScheduleShape ==
    ASSUME QueueShape, ScheduleWrite, UNCHANGED <<busy, file, host>>, doc'.open, Up
    PROVE  QueueShape'
BY DEF QueueShape, ScheduleWrite, Up

\* A delete is queued.
LEMMA DropShape ==
    ASSUME QueueShape, ops' = Append(ops, DeleteOp), gen' \in Nat, gen' >= gen,
           pending' \in {0, pending}, UNCHANGED <<busy, file, host>>, doc'.open = doc.open
    PROVE  QueueShape'
<1>1. /\ ops' \in Seq(Queued) /\ ops' # <<>> /\ (ops # <<>> => Head(ops') = Head(ops))
  BY Appended, QueueOps DEF QueueShape
<1>2. pending' \in Nat /\ pending' <= gen' /\ (pending' # 0 => doc'.open /\ Up')
  BY DEF QueueShape, Up
<1>3. busy' => ops' # <<>> /\ (Head(ops') \in Writes => file' = Torn \/ host' = "ending")
  BY <1>1 DEF QueueShape
<1> QED BY <1>1, <1>2, <1>3 DEF QueueShape

LEMMA DocStep ==
    ASSUME Shape, Type \/ Debounced \/ SaveStart \/ SaveEnd \/ Revert \/ Close \/ Open
                  \/ RestoreRead \/ RestoreApply
    PROVE  DocShape'
<1>T. DocShape /\ RestoreShape /\ MaxTyped \in Nat
  BY BoundsAssumption DEF Shape
<1>1. CASE Type
  <2>1. typed + 1 \in Texts /\ typed' = typed + 1
    BY <1>1, <1>T DEF Type, DocShape, Texts
  <2> QED BY <1>1, <1>T, <2>1 DEF Type, DocShape
<1>2. CASE Debounced
  BY <1>2, <1>T DEF Debounced, bounds, DocShape
<1>3. CASE SaveStart
  BY <1>3, <1>T DEF SaveStart, Counted, DocShape
<1>4. CASE SaveEnd
  <2>1. CASE project' = saving /\ settled' = saving
             /\ doc' = [doc EXCEPT !.dirty = (doc.text # saving)]
    <3>1. (doc.text # saving) \in BOOLEAN
      BY Zenon
    <3>2. saving \in Texts /\ doc.open
      BY <1>4, <1>T DEF SaveEnd, DocShape
    <3>3. doc' \in [open : BOOLEAN, text : Texts \cup {NoText}, dirty : BOOLEAN]
          /\ doc'.open = doc.open /\ doc'.text = doc.text
      BY <1>T, <2>1, <3>1 DEF DocShape
    <3> QED BY <1>4, <1>T, <2>1, <3>2, <3>3 DEF SaveEnd, bounds, DocShape
  <2>2. CASE UNCHANGED <<project, settled, doc>>
    BY <1>4, <1>T, <2>2 DEF SaveEnd, bounds, DocShape
  <2> QED BY <1>4, <2>1, <2>2 DEF SaveEnd
<1>5. CASE Revert
  BY <1>5, <1>T DEF Revert, Counted, DocShape
<1>6. CASE Close
  BY <1>6, <1>T DEF Close, Counted, DocShape, Closed
<1>7. CASE Open
  BY <1>7, <1>T DEF Open, Counted, DocShape, Up
<1>8. CASE RestoreRead
  BY <1>8, <1>T DEF RestoreRead, bounds, DocShape
<1>9. CASE RestoreApply
  BY <1>9, <1>T DEF RestoreApply, bounds, DocShape, RestoreShape
<1> QED BY <1>1, <1>2, <1>3, <1>4, <1>5, <1>6, <1>7, <1>8, <1>9

LEMMA QueueStep ==
    ASSUME Shape, Type \/ Debounced \/ SaveStart \/ SaveEnd \/ Revert \/ Close \/ Open
                  \/ RestoreRead \/ RestoreApply
    PROVE  QueueShape' /\ FileShape'
<1>T. /\ DocShape /\ QueueShape /\ FileShape /\ RestoreShape
      /\ pending \in Nat /\ gen \in Nat /\ pending <= gen
  BY DEF Shape, QueueShape, Up
<1>F. ASSUME UNCHANGED <<file, crashes, busy, host>> PROVE FileShape'
  BY <1>F, <1>T DEF FileShape
<1>B. ASSUME DropBackup, UNCHANGED <<busy, file, host>>, doc'.open = doc.open PROVE QueueShape'
  BY <1>B, <1>T, DropShape DEF DropBackup
<1>1. CASE Type
  <2>1. doc'.open = TRUE
    BY <1>1, <1>T DEF Type, DocShape
  <2>2. ScheduleWrite /\ UNCHANGED <<file, crashes, busy, host>> /\ Up
    BY <1>1 DEF Type
  <2> QED BY <1>T, <1>F, <2>1, <2>2, ScheduleShape
<1>2. CASE Debounced
  <2>1. doc.text \in Texts /\ WriteOp(doc.text, pending) \in Queued
    BY <1>2, <1>T, QueueOps DEF Debounced, QueueShape, Up, DocShape
  <2>2. ops' = Append(ops, WriteOp(doc.text, pending)) /\ pending' = 0
        /\ UNCHANGED <<gen, doc, busy, file, crashes, host>>
    BY <1>2 DEF Debounced, bounds
  <2>3. ops' \in Seq(Queued) /\ ops' # <<>> /\ (ops # <<>> => Head(ops') = Head(ops))
    BY <1>T, <2>1, <2>2, Appended DEF QueueShape, Up
  <2>4. busy' => ops' # <<>> /\ (Head(ops') \in Writes => file' = Torn \/ host' = "ending")
    BY <1>T, <2>2, <2>3 DEF QueueShape, Up
  <2> QED BY <1>T, <1>F, <2>2, <2>3, <2>4 DEF QueueShape, Up
<1>3. CASE SaveStart
  BY <1>3, <1>T, <1>F DEF SaveStart, Counted, QueueShape, Up
<1>4. CASE SaveEnd
  <2>1. doc'.open = doc.open
    BY <1>4, <1>T DEF SaveEnd, DocShape
  <2>2. UNCHANGED <<file, crashes, busy, host>>
    BY <1>4 DEF SaveEnd, bounds
  <2>3. CASE DropBackup
    BY <1>B, <1>F, <2>1, <2>2, <2>3
  <2>4. CASE UNCHANGED <<pending, gen, ops>>
    BY <1>T, <1>F, <2>1, <2>2, <2>4 DEF QueueShape, Up
  <2> QED BY <1>4, <2>3, <2>4 DEF SaveEnd
<1>5. CASE Revert
  <2>1. doc'.open = doc.open /\ DropBackup /\ UNCHANGED <<file, crashes, busy, host>>
    BY <1>5, <1>T DEF Revert, Counted, DocShape
  <2> QED BY <1>B, <1>F, <2>1
<1>6. CASE Close
  <2>0. UNCHANGED <<file, crashes, busy, gen, host>> /\ pending' = 0
    BY <1>6 DEF Close, Counted
  <2>1. CASE pending = 0
    <3>1. ops' = ops
      BY <1>6, <2>1 DEF Close
    <3> QED BY <1>T, <1>F, <2>0, <3>1 DEF QueueShape, Up
  <2>2. CASE pending # 0
    <3>1. ops' = Append(ops, WriteOp(doc.text, pending)) /\ WriteOp(doc.text, pending) \in Queued
      BY <1>6, <1>T, <2>2, QueueOps DEF Close, DocShape
    <3>2. ops' \in Seq(Queued) /\ ops' # <<>> /\ (ops # <<>> => Head(ops') = Head(ops))
      BY <1>T, <3>1, Appended DEF QueueShape, Up
    <3>3. busy' => ops' # <<>> /\ (Head(ops') \in Writes => file' = Torn \/ host' = "ending")
      BY <1>T, <2>0, <3>2 DEF QueueShape, Up
    <3> QED BY <1>T, <1>F, <2>0, <3>2, <3>3 DEF QueueShape, Up
  <2> QED BY <2>1, <2>2
<1>7. CASE Open
  <2>1. doc'.open = TRUE /\ UNCHANGED <<pending, gen, ops, busy, file, crashes, host>>
    BY <1>7 DEF Open, Counted
  <2> QED BY <1>T, <1>F, <2>1 DEF QueueShape, Up
<1>8. CASE RestoreRead
  <2>1. UNCHANGED <<doc, pending, busy, file, crashes, host>>
    BY <1>8 DEF RestoreRead, bounds
  <2>2. CASE UNCHANGED <<gen, ops>>
    BY <1>T, <1>F, <2>1, <2>2 DEF QueueShape, Up
  <2>3. CASE gen' = gen + 1 /\ ops' = Append(ops, DeleteOp)
    <3>1. gen' \in Nat /\ gen' >= gen
      BY <1>T, <2>3
    <3> QED BY <1>T, <1>F, <2>1, <2>3, <3>1, DropShape
  <2> QED BY <1>8, <2>2, <2>3 DEF RestoreRead
<1>9. CASE RestoreApply
  <2>1. doc'.open /\ ScheduleWrite /\ UNCHANGED <<file, crashes, busy, host>> /\ Up
    BY <1>9, <1>T DEF RestoreApply, bounds, DocShape, RestoreShape
  <2> QED BY <1>T, <1>F, <2>1, ScheduleShape
<1> QED BY <1>1, <1>2, <1>3, <1>4, <1>5, <1>6, <1>7, <1>8, <1>9

LEMMA RestoreStep ==
    ASSUME Shape, Type \/ Debounced \/ SaveStart \/ SaveEnd \/ Revert \/ Close \/ Open
                  \/ RestoreRead \/ RestoreApply
    PROVE  RestoreShape'
<1>T. DocShape /\ RestoreShape /\ file \in AnyText
  BY DEF Shape, FileShape
<1>1. CASE Type
  BY <1>1, <1>T DEF Type, DocShape, RestoreShape
<1>2. CASE Debounced
  BY <1>2, <1>T DEF Debounced, RestoreShape
<1>3. CASE SaveStart
  BY <1>3, <1>T DEF SaveStart, RestoreShape
<1>4. CASE SaveEnd
  BY <1>4, <1>T DEF SaveEnd, DocShape, RestoreShape
<1>5. CASE Revert
  BY <1>5, <1>T DEF Revert, DocShape, RestoreShape
<1>6. CASE Close
  BY <1>6, <1>T DEF Close, RestoreShape
<1>7. CASE Open
  BY <1>7, <1>T DEF Open, RestoreShape, NoRestore
<1>8. CASE RestoreRead
  <2>1. file \in Texts \/ file \in {NoText, Torn}
    BY <1>T DEF AnyText
  <2>2. doc' = doc
    BY <1>8 DEF RestoreRead
  <2>3. restore' = NoRestore \/ (restore' = [at |-> "applying", text |-> file] /\ file \in Texts)
    BY <1>8, <2>1 DEF RestoreRead
  <2> QED BY <1>8, <1>T, <2>2, <2>3 DEF RestoreRead, RestoreShape, NoRestore
<1>9. CASE RestoreApply
  BY <1>9, <1>T DEF RestoreApply, RestoreShape, NoRestore
<1> QED BY <1>1, <1>2, <1>3, <1>4, <1>5, <1>6, <1>7, <1>8, <1>9

\* The first operation begins, is done, or is passed over.
LEMMA OpShape == ASSUME Shape, OpStep \/ OpDone PROVE Shape'
<1>T. /\ DocShape /\ QueueShape /\ FileShape /\ RestoreShape /\ ops \in Seq(Queued)
      /\ crashes \in Nat
  BY DEF Shape, QueueShape, Up, FileShape
<1>0. ops # <<>>
  BY <1>T DEF OpStep, OpDone, QueueShape, Up
<1>1. Head(ops) \in Queued /\ Tail(ops) \in Seq(Queued)
  BY <1>T, <1>0, Taken
<1>2. UNCHANGED <<host, doc, project, saving, pending, gen, restore, typed, crashes, settled>>
  BY DEF OpStep, OpDone, bounds
<1>3. DocShape'
  BY <1>T, <1>2 DEF DocShape
<1>4. RestoreShape'
  BY <1>T, <1>2 DEF RestoreShape
<1>5. CASE OpStep
  <2>1. CASE busy' = TRUE /\ file' = Torn /\ ops' = ops
    <3>1. QueueShape'
      BY <1>T, <1>0, <1>2, <2>1 DEF QueueShape, Up
    <3>2. FileShape'
      BY <1>T, <1>2, <2>1 DEF FileShape, AnyText
    <3> QED BY <1>3, <1>4, <3>1, <3>2 DEF Shape
  <2>2. CASE busy' = TRUE /\ file' = file /\ ops' = ops /\ Head(ops).kind # "write"
    <3>1. Head(ops) \notin Writes
      BY <2>2, QueueOps
    <3>2. QueueShape'
      BY <1>T, <1>0, <1>2, <2>2, <3>1 DEF QueueShape, Up
    <3>3. FileShape'
      BY <1>T, <1>2, <2>2 DEF FileShape
    <3> QED BY <1>3, <1>4, <3>2, <3>3 DEF Shape
  <2>3. CASE ops' = Tail(ops) /\ file' = file /\ busy' = busy
    <3>1. ~busy
      BY <1>5 DEF OpStep
    <3>2. QueueShape'
      BY <1>T, <1>1, <1>2, <2>3, <3>1 DEF QueueShape, Up
    <3>3. FileShape'
      BY <1>T, <1>2, <2>3 DEF FileShape
    <3> QED BY <1>3, <1>4, <3>2, <3>3 DEF Shape
  <2> QED BY <1>5, <2>1, <2>2, <2>3 DEF OpStep
<1>6. CASE OpDone
  <2>1. busy' = FALSE /\ ops' = Tail(ops) /\ busy
    BY <1>6 DEF OpDone
  <2>2. QueueShape'
    BY <1>T, <1>1, <1>2, <2>1 DEF QueueShape, Up
  <2>3. file' \in AnyText /\ (file' = Torn => crashes > 0)
    <3>1. CASE file' = NoText
      BY <3>1, Numbers DEF AnyText
    <3>2. CASE Head(ops).kind # "delete" /\ file' = Head(ops).text
      <4>1. Head(ops) \in Writes
        BY <1>1, <3>2, QueueOps DEF Queued
      <4> QED BY <3>2, <4>1, QueueOps, Numbers DEF AnyText
    <3>3. CASE Head(ops).kind # "delete" /\ file # Torn /\ file' = Torn
      <4>1. Head(ops) \in Writes
        BY <1>1, <3>3, QueueOps DEF Queued
      <4>2. host = "ending"
        BY <1>T, <2>1, <3>3, <4>1 DEF QueueShape, Up
      <4> QED BY <1>T, <3>3, <4>2 DEF FileShape, AnyText
    <3> QED BY <1>6, <3>1, <3>2, <3>3 DEF OpDone
  <2>4. FileShape'
    BY <1>T, <1>2, <2>3 DEF FileShape
  <2> QED BY <1>3, <1>4, <2>2, <2>4 DEF Shape
<1> QED BY <1>5, <1>6

\* The host is disposed of, the process ends, and another one starts.
LEMMA HostShape == ASSUME Shape, Dispose \/ Crash \/ Exit \/ Restart PROVE Shape'
<1>T. /\ DocShape /\ QueueShape /\ FileShape /\ RestoreShape /\ crashes \in Nat
      /\ file \in AnyText
  BY DEF Shape, FileShape
<1>1. CASE Restart
  <2>1. UNCHANGED <<doc, project, saving, pending, gen, ops, busy, file, restore, typed, crashes, settled>>
        /\ host = "down" /\ host' = "up"
    BY <1>1 DEF Restart, bounds
  <2>2. DocShape' /\ RestoreShape' /\ QueueShape' /\ FileShape'
    BY <1>T, <2>1 DEF DocShape, QueueShape, Up, FileShape, RestoreShape
  <2> QED BY <2>2 DEF Shape
<1>2. CASE Dispose
  <2>1. /\ UNCHANGED <<doc, project, saving, gen, ops, busy, restore, typed, settled>>
        /\ host' = "ending" /\ pending' = 0 /\ crashes' = crashes + 1
        /\ file' = IF pending # 0 THEN doc.text ELSE file
    BY <1>2 DEF Dispose
  <2>2. DocShape' /\ RestoreShape' /\ QueueShape'
    BY <1>T, <2>1 DEF DocShape, QueueShape, Up, RestoreShape
  <2>3. FileShape'
    <3>1. doc.text \in AnyText
      BY <1>T DEF DocShape, AnyText
    <3> QED BY <1>T, <2>1, <3>1 DEF FileShape
  <2> QED BY <2>2, <2>3 DEF Shape
<1>3. CASE Crash \/ Exit
  <2>1. ProcessEnds /\ crashes' \in Nat /\ crashes' > 0
    BY <1>3, <1>T DEF Crash, Exit, FileShape
  <2>2. DocShape'
    BY <2>1, <1>T DEF ProcessEnds, DocShape, Closed
  <2>3. QueueShape'
    <3>1. pending' = 0 /\ gen' = 0 /\ busy' = FALSE /\ ops' = <<>>
      BY <2>1 DEF ProcessEnds
    <3>2. ops' \in Seq(Queued)
      BY <3>1
    <3>3. busy' \in BOOLEAN
      BY <3>1
    <3> QED BY <3>1, <3>2, <3>3 DEF QueueShape, Up
  <2>4. RestoreShape'
    BY <2>1 DEF ProcessEnds, RestoreShape, NoRestore
  <2>5. FileShape'
    <3>1. file' = file
      BY <2>1 DEF ProcessEnds
    <3> QED BY <1>T, <2>1, <3>1 DEF FileShape
  <2> QED BY <2>2, <2>3, <2>4, <2>5 DEF Shape
<1> QED BY <1>1, <1>2, <1>3

LEMMA ShapeStep == ASSUME Shape, [Next]_vars PROVE Shape'
<1>1. CASE Type \/ Debounced \/ SaveStart \/ SaveEnd \/ Revert \/ Close \/ Open
           \/ RestoreRead \/ RestoreApply
  BY <1>1, DocStep, QueueStep, RestoreStep DEF Shape
<1>2. CASE UNCHANGED vars
  <2>1. DocShape' /\ RestoreShape'
    BY <1>2 DEF vars, Shape, DocShape, RestoreShape
  <2>2. QueueShape' /\ FileShape'
    BY <1>2 DEF vars, Shape, QueueShape, Up, FileShape
  <2> QED BY <2>1, <2>2 DEF Shape
<1> QED BY <1>1, <1>2, OpShape, HostShape DEF Next

LEMMA ShapeTypes == Shape => TypeOK
<1> SUFFICES ASSUME Shape PROVE TypeOK
  OBVIOUS
<1>1. /\ doc \in [open : BOOLEAN, text : AnyText, dirty : BOOLEAN]
      /\ host \in {"up", "ending", "down"}
      /\ project \in Texts /\ saving \in AnyText /\ typed \in Texts /\ settled \in Texts
  BY DEF Shape, DocShape, AnyText
<1>2. ops \in Seq(Ops)
  <2>1. Queued \subseteq Ops
    BY DEF Queued, Writes, DeleteOp, Ops, AnyText
  <2> QED BY <2>1 DEF Shape, QueueShape
<1>3. restore \in [at : {"none", "reading", "applying"}, text : AnyText]
  BY DEF Shape, RestoreShape, AnyText
<1>4. /\ pending \in Nat /\ gen \in Nat /\ pending <= gen /\ busy \in BOOLEAN
      /\ busy => ops # <<>>
      /\ busy /\ Head(ops).kind = "write" => file = Torn \/ host = "ending"
  <2>1. busy => Head(ops) \in Queued
    BY Taken DEF Shape, QueueShape
  <2> QED BY <2>1, QueueOps DEF Shape, QueueShape
<1>5. file \in AnyText /\ (file = Torn => busy \/ crashes > 0)
  BY DEF Shape, FileShape
<1> QED BY <1>1, <1>2, <1>3, <1>4, <1>5 DEF TypeOK

\* The types; and that only a write under way, or one that an end of the host cut
\* short or wrote into, leaves the backup torn.
THEOREM TypeCorrect == Spec => []TypeOK
<1>1. Init => Shape
  BY ShapeInit
<1>2. Shape /\ [Next]_vars => Shape'
  BY ShapeStep
<1>3. Shape => TypeOK
  BY ShapeTypes
<1> QED BY <1>1, <1>2, <1>3, PTL DEF Spec

-----------------------------------------------------------------------------
(* Edits are mirrored, and nothing else is *)

LastOp == ops[Len(ops)]

\* What is restored goes into a clean document, and a save writes what it shows.
EditInv ==
    /\ doc.dirty => restore.at = "none"
    /\ saving # NoText => doc.dirty /\ saving = doc.text

\* While the host is up, the unsaved text is debounced, or the last write queued, or the backup; and
\* the write that carries it is of the generation that OpStep still wants.
MirrorInv ==
    Up /\ doc.dirty =>
        \/ pending # 0 /\ pending = gen
        \/ pending = 0 /\ ops # <<>> /\ LastOp = WriteOp(doc.text, gen)
        \/ pending = 0 /\ ops = <<>> /\ file = doc.text

\* Whatever is queued for a clean document ends with a delete.
CleanInv ==
    ~doc.dirty =>
        /\ pending = 0
        /\ ops # <<>> => LastOp = DeleteOp
        /\ doc.open /\ restore.at = "none" /\ ops = <<>> => file \in {NoText, Torn}

BackupInv == EditInv /\ MirrorInv /\ CleanInv

LEMMA BackupInit == Init => BackupInv
<1> SUFFICES ASSUME Init PROVE BackupInv
  OBVIOUS
<1>1. /\ doc.dirty = FALSE /\ doc.open = FALSE /\ saving = NoText
      /\ pending = 0 /\ ops = <<>>
  BY DEF Init, Closed
<1> QED BY <1>1 DEF BackupInv, EditInv, MirrorInv, CleanInv

\* A document that is dirty with its text debounced is as it should be.
LEMMA Debouncing ==
    ASSUME doc'.dirty, restore'.at = "none", saving' = NoText, gen \in Nat, ScheduleWrite
    PROVE  BackupInv'
<1>1. pending' # 0 /\ pending' = gen'
  BY DEF ScheduleWrite
<1> QED BY <1>1 DEF BackupInv, EditInv, MirrorInv, CleanInv

\* And so is one that is clean with a delete queued.
LEMMA Deleting ==
    ASSUME ~doc'.dirty, saving' = NoText, ops \in Seq(Queued),
           pending' = 0, ops' = Append(ops, DeleteOp)
    PROVE  BackupInv'
<1>1. ops' # <<>> /\ LastOp' = DeleteOp
  BY Appended, QueueOps DEF LastOp
<1> QED BY <1>1 DEF BackupInv, EditInv, MirrorInv, CleanInv

LEMMA BackupDoc ==
    ASSUME Types = {}, Shape, BackupInv,
           Type \/ Debounced \/ SaveStart \/ SaveEnd \/ Revert \/ Close
    PROVE  BackupInv'
<1>T. /\ DocShape /\ gen \in Nat /\ pending \in Nat /\ ops \in Seq(Queued)
      /\ doc \in [open : BOOLEAN, text : Texts \cup {NoText}, dirty : BOOLEAN]
  BY DEF Shape, DocShape, QueueShape
<1>I. EditInv /\ MirrorInv /\ CleanInv
  BY DEF BackupInv
<1>1. CASE Type
  <2>1. saving' = NoText /\ restore'.at = "none" /\ ScheduleWrite
    BY <1>1 DEF Type
  <2>2. doc'.dirty
    BY <1>1, <1>T DEF Type
  <2> QED BY <1>T, <2>1, <2>2, Debouncing
<1>2. CASE Debounced
  <2>1. /\ pending # 0 /\ pending' = 0 /\ ops' = Append(ops, WriteOp(doc.text, pending))
        /\ UNCHANGED <<doc, saving, restore, gen>> /\ Up
    BY <1>2 DEF Debounced, Shape, QueueShape
  <2>2. doc.dirty /\ pending = gen
    BY <1>I, <2>1 DEF MirrorInv, CleanInv
  <2>3. WriteOp(doc.text, gen) \in Queued
    BY <1>T, <2>2, QueueOps DEF DocShape
  <2>4. ops' # <<>> /\ LastOp' = WriteOp(doc'.text, gen')
    BY <1>T, <2>1, <2>2, <2>3, Appended DEF LastOp
  <2>5. EditInv'
    BY <1>I, <2>1 DEF EditInv
  <2> QED BY <2>1, <2>2, <2>4, <2>5 DEF BackupInv, MirrorInv, CleanInv
<1>3. CASE SaveStart
  <2>1. doc.dirty /\ saving' = doc.text /\ UNCHANGED <<host, doc, pending, gen, ops, file, restore>>
    BY <1>3 DEF SaveStart
  <2> QED BY <1>I, <2>1 DEF BackupInv, EditInv, MirrorInv, CleanInv, LastOp, Up
<1>4. CASE SaveEnd
  <2>1. saving # NoText /\ saving' = NoText /\ UNCHANGED <<file, restore, host>>
    BY <1>4 DEF SaveEnd
  <2>2. CASE UNCHANGED <<doc, pending, gen, ops>>
    BY <1>I, <2>1, <2>2 DEF BackupInv, EditInv, MirrorInv, CleanInv, LastOp, Up
  <2>3. CASE doc' = [doc EXCEPT !.dirty = (doc.text # saving)] /\ DropBackup
    <3>1. doc.text = saving
      BY <1>I, <2>1 DEF EditInv
    <3>2. doc'.dirty = (doc.text # saving)
      BY <1>T, <2>3
    <3>3. ~doc'.dirty
      BY <3>1, <3>2, Zenon
    <3> QED BY <1>T, <2>1, <2>3, <3>3, Deleting DEF DropBackup
  <2> QED BY <1>4, <2>2, <2>3 DEF SaveEnd
<1>5. CASE Revert
  <2>1. saving' = NoText /\ DropBackup
    BY <1>5 DEF Revert
  <2>2. ~doc'.dirty
    BY <1>5, <1>T DEF Revert
  <2> QED BY <1>T, <2>1, <2>2, Deleting DEF DropBackup
<1>6. CASE Close
  <2>1. /\ saving' = NoText /\ pending' = 0 /\ ~doc.dirty
        /\ doc'.dirty = FALSE /\ doc'.open = FALSE
    BY <1>6 DEF Close, Closed
  <2>2. pending = 0
    BY <1>I, <2>1 DEF CleanInv
  <2>3. ops' = ops
    BY <1>6, <2>2 DEF Close
  <2> QED BY <1>I, <2>1, <2>3 DEF BackupInv, EditInv, MirrorInv, CleanInv, LastOp
<1> QED BY <1>1, <1>2, <1>3, <1>4, <1>5, <1>6

LEMMA BackupRestore ==
    ASSUME Shape, BackupInv, Open \/ RestoreRead \/ RestoreApply
    PROVE  BackupInv'
<1>T. /\ DocShape /\ RestoreShape /\ gen \in Nat /\ ops \in Seq(Queued) /\ doc.dirty \in BOOLEAN
      /\ doc \in [open : BOOLEAN, text : Texts \cup {NoText}, dirty : BOOLEAN]
      /\ restore \in [at : {"none", "reading", "applying"}, text : Texts \cup {NoText}]
  BY DEF Shape, DocShape, QueueShape, RestoreShape
<1>I. EditInv /\ MirrorInv /\ CleanInv
  BY DEF BackupInv
<1>1. CASE Open
  <2>1. ~doc.dirty /\ doc'.dirty = FALSE /\ UNCHANGED <<saving, pending, gen, ops, file>>
    BY <1>1, <1>T DEF Open, DocShape
  <2>2. restore'.at = "reading"
    BY <1>1 DEF Open, NoRestore
  <2> QED BY <1>I, <2>1, <2>2 DEF BackupInv, EditInv, MirrorInv, CleanInv, LastOp
<1>2. CASE RestoreRead
  <2>1. restore.at = "reading" /\ UNCHANGED <<doc, saving, pending, file>>
    BY <1>2 DEF RestoreRead
  <2>2. ~doc.dirty /\ saving = NoText /\ pending = 0
    BY <1>I, <2>1 DEF EditInv, CleanInv
  <2>3. CASE ops' = Append(ops, DeleteOp)
    BY <1>T, <2>1, <2>2, <2>3, Deleting
  <2>4. CASE file \in {NoText, Torn} /\ ops' = ops
    BY <1>I, <2>1, <2>2, <2>4 DEF BackupInv, EditInv, MirrorInv, CleanInv, LastOp
  <2>5. CASE restore' = [at |-> "applying", text |-> file] /\ ops' = ops
    BY <1>I, <2>1, <2>2, <2>5 DEF BackupInv, EditInv, MirrorInv, CleanInv, LastOp
  <2> QED BY <1>2, <2>3, <2>4, <2>5 DEF RestoreRead
<1>3. CASE RestoreApply
  <2>1. restore.at = "applying" /\ restore' = NoRestore /\ ScheduleWrite /\ saving' = saving
    BY <1>3 DEF RestoreApply
  <2>2. saving = NoText
    BY <1>I, <2>1 DEF EditInv
  <2>3. doc'.dirty
    BY <1>3, <1>T DEF RestoreApply
  <2>4. restore'.at = "none"
    BY <2>1 DEF NoRestore
  <2> QED BY <1>T, <2>1, <2>2, <2>3, <2>4, Debouncing
<1> QED BY <1>1, <1>2, <1>3

LEMMA BackupOps == ASSUME Shape, BackupInv, OpStep \/ OpDone PROVE BackupInv'
<1>T. /\ QueueShape /\ gen \in Nat /\ ops \in Seq(Queued)
  BY DEF Shape, QueueShape
<1>I. EditInv /\ MirrorInv /\ CleanInv
  BY DEF BackupInv
<1>0. ops # <<>> /\ UNCHANGED <<host, doc, saving, pending, gen, restore>> /\ Up' = Up
  BY <1>T DEF OpStep, OpDone, QueueShape, Up
<1>E. EditInv'
  BY <1>0, <1>I DEF EditInv
<1>L. /\ Head(ops) \in Queued
      /\ Tail(ops) = <<>> => Head(ops) = LastOp
      /\ Tail(ops) # <<>> => Tail(ops)[Len(Tail(ops))] = LastOp
  BY <1>T, <1>0, Taken DEF LastOp
<1>1. CASE ops' = ops
  BY <1>0, <1>E, <1>I, <1>1 DEF BackupInv, MirrorInv, CleanInv, LastOp
<1>2. CASE ops' = Tail(ops) /\ Tail(ops) # <<>>
  <2>1. LastOp' = LastOp /\ ops' # <<>>
    BY <1>L, <1>2 DEF LastOp
  <2> QED BY <1>0, <1>E, <1>I, <2>1 DEF BackupInv, MirrorInv, CleanInv
<1>3. CASE ops' = Tail(ops) /\ Tail(ops) = <<>>
  <2>1. Head(ops) = LastOp /\ ops' = <<>>
    BY <1>L, <1>3
  <2>2. MirrorInv'
    <3> SUFFICES ASSUME Up, doc'.dirty, pending = 0 PROVE ops' = <<>> /\ file' = doc'.text
      BY <1>0, <1>I, <2>1 DEF MirrorInv
    <3>1. Head(ops) = WriteOp(doc.text, gen)
      BY <1>0, <1>I, <2>1 DEF MirrorInv
    <3>2. Head(ops).kind = "write" /\ Head(ops).gen = gen /\ Head(ops).text = doc.text
      BY <3>1 DEF WriteOp
    <3>3. ~OpStep
      BY <1>0, <2>1, <3>2 DEF OpStep, StillWanted
    <3>4. file = Torn
      <4>1. Head(ops) \in Writes
        BY <1>L, <3>2, QueueOps
      <4> QED BY <1>T, <3>3, <4>1 DEF OpDone, QueueShape, Up
    <3>5. file' = Head(ops).text
      BY <3>2, <3>3, <3>4 DEF OpDone
    <3> QED BY <1>0, <2>1, <3>2, <3>5
  <2>3. CleanInv'
    <3> SUFFICES ASSUME ~doc.dirty PROVE pending' = 0 /\ ops' = <<>> /\ file' = NoText
      BY <1>0 DEF CleanInv
    <3>1. Head(ops) = DeleteOp /\ pending = 0
      BY <1>0, <1>I, <2>1 DEF CleanInv
    <3>2. Head(ops).kind = "delete"
      BY <3>1, QueueOps
    <3>3. ~OpStep
      BY <1>0, <2>1, <3>2 DEF OpStep
    <3>4. file' = NoText
      BY <3>2, <3>3 DEF OpDone
    <3> QED BY <1>0, <2>1, <3>1, <3>4
  <2> QED BY <1>E, <2>2, <2>3 DEF BackupInv
<1> QED BY <1>1, <1>2, <1>3 DEF OpStep, OpDone

LEMMA BackupHost ==
    ASSUME Shape, BackupInv, Dispose \/ Crash \/ Exit \/ Restart PROVE BackupInv'
<1>I. EditInv /\ MirrorInv /\ CleanInv
  BY DEF BackupInv
<1>1. CASE Restart
  <2>1. /\ UNCHANGED <<doc, saving, pending, gen, ops, file, restore>> /\ ~doc.dirty
    BY <1>1 DEF Restart, Shape, DocShape
  <2> QED BY <1>I, <2>1 DEF BackupInv, EditInv, MirrorInv, CleanInv, LastOp
<1>2. CASE Dispose
  <2>1. /\ UNCHANGED <<doc, saving, ops, restore>> /\ pending' = 0 /\ ~Up'
        /\ pending = 0 => file' = file
    BY <1>2 DEF Dispose, Up
  <2> QED BY <1>I, <2>1 DEF BackupInv, EditInv, MirrorInv, CleanInv, LastOp
<1>3. CASE Crash \/ Exit
  <2>1. /\ doc'.dirty = FALSE /\ doc'.open = FALSE /\ saving' = NoText
        /\ pending' = 0 /\ ops' = <<>>
    BY <1>3 DEF Crash, Exit, ProcessEnds, Closed
  <2> QED BY <2>1 DEF BackupInv, EditInv, MirrorInv, CleanInv
<1> QED BY <1>1, <1>2, <1>3

LEMMA BackupStep == ASSUME Types = {}, Shape, BackupInv, [Next]_vars PROVE BackupInv'
<1>1. CASE UNCHANGED vars
  BY <1>1 DEF vars, BackupInv, EditInv, MirrorInv, CleanInv, LastOp, Up
<1> QED BY <1>1, BackupDoc, BackupRestore, BackupOps, BackupHost DEF Next

\* Unsaved edits are in the backup whenever the timer and the queue have run,
\* whatever was edited, saved, reverted, closed or restored before.
THEOREM EditsAreMirrored == ASSUME Types = {} PROVE Spec => []MirroredWhenQuiet
<1>1. Init => Shape /\ BackupInv
  BY ShapeInit, BackupInit
<1>2. Shape /\ BackupInv /\ [Next]_vars => (Shape /\ BackupInv)'
  BY ShapeStep, BackupStep
<1>3. BackupInv => MirroredWhenQuiet
  BY DEF BackupInv, MirrorInv, MirroredWhenQuiet, Quiet
<1> QED BY <1>1, <1>2, <1>3, PTL DEF Spec

\* And a clean document has no backup then: what was saved or thrown away is not
\* waiting to come back.
THEOREM CleanHasNoBackup == ASSUME Types = {} PROVE Spec => []CleanHasNone
<1>1. Init => Shape /\ BackupInv
  BY ShapeInit, BackupInit
<1>2. Shape /\ BackupInv /\ [Next]_vars => (Shape /\ BackupInv)'
  BY ShapeStep, BackupStep
<1>3. BackupInv => CleanHasNone
  BY DEF BackupInv, CleanInv, CleanHasNone, Quiet
<1> QED BY <1>1, <1>2, <1>3, PTL DEF Spec

-----------------------------------------------------------------------------
(* A backup is deleted only when its text is settled *)

\* No text is later than the last edit; what is settled is as late as the project.
TextsInv ==
    /\ project <= settled /\ settled <= typed
    /\ doc.text <= typed /\ saving <= typed /\ file <= typed /\ restore.text <= typed
    /\ doc.open /\ ~doc.dirty => doc.text = project

Deletes == \E j \in 1..Len(ops) : ops[j] = DeleteOp

\* A queued write before a delete is passed over, and one that is still wanted is
\* not later than the unsaved text.
OpAt(i) ==
    /\ ops[i].text <= typed /\ ops[i].gen <= gen
    /\ doc.dirty /\ ops[i].gen = gen => ops[i].text <= doc.text
    /\ \A j \in 1..Len(ops) : i < j /\ ops[j] = DeleteOp => ops[i].gen < gen

\* While a delete is queued, what it will find (the backup, or the write under way
\* that becomes it) is settled, or has been flushed.  The other conjuncts carry
\* this over the next save, which settles the document's text, whatever that is.
FileInv ==
    /\ Deletes => (file <= settled \/ Flushed) /\ (busy => Head(ops).text <= settled)
    /\ doc.dirty => file <= doc.text /\ (busy => Head(ops).text <= doc.text)
    /\ restore.at = "applying" => file <= restore.text /\ (busy => Head(ops).text <= restore.text)
    /\ host = "ending" /\ busy /\ Head(ops) \in Writes => file = Torn \/ doc.dirty

OutliveInv == TextsInv /\ FileInv /\ \A i \in 1..Len(ops) : OpAt(i)

LEMMA OutliveInit == Init => OutliveInv
<1> SUFFICES ASSUME Init PROVE OutliveInv
  OBVIOUS
<1>1. /\ project = 0 /\ settled = 0 /\ typed = 0 /\ saving = -1 /\ file = -1 /\ busy = FALSE
      /\ doc.text = -1 /\ doc.open = FALSE /\ doc.dirty = FALSE /\ ops = <<>>
      /\ restore.text = -1 /\ restore.at = "none"
  BY DEF Init, Closed, NoRestore, NoText
<1>2. 1..Len(ops) = {}
  BY <1>1
<1>3. TextsInv
  BY <1>1 DEF TextsInv
<1>4. FileInv
  BY <1>1, <1>2 DEF FileInv, Deletes
<1> QED BY <1>2, <1>3, <1>4 DEF OutliveInv

\* What a queued operation is made of.
LEMMA QueuedAt ==
    ASSUME ops \in Seq(Queued), NEW i \in 1..Len(ops)
    PROVE  ops[i] \in Queued /\ ops[i].gen \in Nat /\ ops[i].text \in Int
<1>1. ops[i] \in Queued
  BY ElementOfSeq
<1>2. Texts \subseteq Int /\ NoText \in Int /\ 0 \in Nat
  BY DEF Texts, NoText
<1>3. CASE ops[i] \in Writes
  BY <1>1, <1>2, <1>3 DEF Writes
<1>4. CASE ops[i] = DeleteOp
  BY <1>1, <1>2, <1>4 DEF DeleteOp
<1> QED BY <1>1, <1>3, <1>4 DEF Queued

\* The numbers the invariants compare.
LEMMA Measures ==
    ASSUME Shape
    PROVE  /\ doc.text \in Int /\ restore.text \in Int /\ file \in Int /\ saving \in Int
           /\ project \in Nat /\ settled \in Nat /\ typed \in Nat /\ gen \in Nat
           /\ ops \in Seq(Queued) /\ Len(ops) \in Nat
           /\ busy => 1 \in 1..Len(ops) /\ Head(ops) = ops[1] /\ Head(ops).text \in Int
<1>1. Texts \subseteq Nat /\ Texts \subseteq Int /\ NoText \in Int /\ Torn \in Int
  BY BoundsAssumption DEF Texts, NoText, Torn
<1>2. doc.text \in Int /\ saving \in Int /\ project \in Nat /\ settled \in Nat /\ typed \in Nat
  BY <1>1 DEF Shape, DocShape
<1>3. restore.text \in Int
  BY <1>1 DEF Shape, RestoreShape
<1>4. file \in Int
  BY <1>1 DEF Shape, FileShape, AnyText
<1>5. gen \in Nat /\ ops \in Seq(Queued) /\ Len(ops) \in Nat
  BY LenProperties DEF Shape, QueueShape
<1>6. ASSUME busy PROVE 1 \in 1..Len(ops) /\ Head(ops) = ops[1] /\ Head(ops).text \in Int
  <2>1. ops # <<>>
    BY <1>6 DEF Shape, QueueShape
  <2>2. 1 \in 1..Len(ops)
    BY <1>5, <2>1, EmptySeq, LenProperties
  <2>3. Head(ops) = ops[1] /\ Head(ops) \in Queued
    BY <1>5, <2>1, HeadTailProperties
  <2>4. CASE Head(ops) \in Writes
    BY <1>1, <2>2, <2>3, <2>4, QueueOps
  <2>5. CASE Head(ops) = DeleteOp
    BY <1>1, <2>2, <2>3, <2>5 DEF DeleteOp
  <2> QED BY <2>3, <2>4, <2>5 DEF Queued
<1> QED BY <1>2, <1>3, <1>4, <1>5, <1>6

\* The queue as it was, with a generation that makes every write of it stale ...
LEMMA Staled ==
    ASSUME Shape, OutliveInv, ops' = ops, gen' \in Nat, gen < gen', typed' \in Nat, typed <= typed'
    PROVE  \A i \in 1..Len(ops') : OpAt(i)'
<1> SUFFICES ASSUME NEW i \in 1..Len(ops) PROVE OpAt(i)'
  BY Zenon
<1>1. /\ ops[i].text \in Int /\ ops[i].gen \in Nat /\ gen \in Nat /\ typed \in Nat
      /\ ops[i].text <= typed /\ ops[i].gen <= gen
  BY Measures, QueuedAt DEF OutliveInv, OpAt
<1>2. ops'[i].text <= typed' /\ ops'[i].gen < gen' /\ ops'[i].gen <= gen' /\ ops'[i].gen # gen'
  BY <1>1
<1> QED BY <1>2 DEF OpAt

\* ... with a delete behind it ...
LEMMA StaledBefore ==
    ASSUME Shape, OutliveInv, ops' = Append(ops, DeleteOp), gen' \in Nat, gen < gen', typed' = typed
    PROVE  \A i \in 1..Len(ops') : OpAt(i)'
<1>1. /\ Len(ops') = Len(ops) + 1 /\ Len(ops) \in Nat
      /\ \A i \in 1..Len(ops) : ops'[i] = ops[i]
      /\ ops'[Len(ops) + 1] = DeleteOp
  BY Measures, QueueOps, AppendProperties
<1>2. ASSUME NEW i \in 1..Len(ops') PROVE OpAt(i)'
  <2>1. ops'[i].text <= typed' /\ ops'[i].gen < gen' /\ ops'[i].gen \in Nat
    <3>1. CASE i \in 1..Len(ops)
      <4>1. /\ ops[i].text \in Int /\ ops[i].gen \in Nat /\ gen \in Nat /\ typed \in Nat
            /\ ops[i].text <= typed /\ ops[i].gen <= gen
        BY <3>1, Measures, QueuedAt DEF OutliveInv, OpAt
      <4> QED BY <1>1, <3>1, <4>1
    <3>2. CASE i = Len(ops) + 1
      <4>1. DeleteOp.text = -1 /\ DeleteOp.gen = 0
        BY DEF DeleteOp, NoText
      <4> QED BY <1>1, <3>2, <4>1, Measures
    <3> QED BY <1>1, <1>2, <3>1, <3>2
  <2>2. ops'[i].gen <= gen' /\ ops'[i].gen # gen'
    BY <2>1
  <2> QED BY <2>1, <2>2 DEF OpAt
<1> QED BY <1>2

\* ... and where nothing it is compared with has changed.
LEMMA Unstirred ==
    ASSUME OutliveInv, UNCHANGED <<ops, gen, typed>>,
           doc'.dirty => doc.dirty /\ doc'.text = doc.text
    PROVE  \A i \in 1..Len(ops') : OpAt(i)'
BY DEF OutliveInv, OpAt

\* Taking the first operation.
LEMMA AtTail ==
    ASSUME Shape, OutliveInv, ops # <<>>, ops' = Tail(ops), UNCHANGED <<gen, typed, doc>>
    PROVE  /\ \A i \in 1..Len(ops') : OpAt(i)'
           /\ Deletes' => Deletes
<1>1. /\ Len(ops') = Len(ops) - 1 /\ Len(ops) \in Nat
      /\ \A i \in 1..Len(ops') : ops'[i] = ops[i + 1]
  BY Measures, HeadTailProperties
<1>2. \A i \in 1..Len(ops') : i + 1 \in 1..Len(ops)
  BY <1>1
<1>3. ASSUME NEW i \in 1..Len(ops') PROVE OpAt(i)'
  <2>1. OpAt(i + 1)
    BY <1>2 DEF OutliveInv
  <2>2. ops'[i] = ops[i + 1]
    BY <1>1
  <2>3. ASSUME NEW j \in 1..Len(ops'), i < j, ops'[j] = DeleteOp PROVE ops'[i].gen < gen'
    <3>1. j + 1 \in 1..Len(ops) /\ i + 1 < j + 1 /\ ops[j + 1] = DeleteOp
      BY <1>1, <1>2, <2>3
    <3> QED BY <2>1, <2>2, <3>1 DEF OpAt
  <2> QED BY <2>1, <2>2, <2>3 DEF OpAt
<1>4. ASSUME Deletes' PROVE Deletes
  BY <1>1, <1>2, <1>4 DEF Deletes
<1> QED BY <1>3, <1>4

\* With a delete last, no write is wanted any more.
LEMMA NoneWanted ==
    ASSUME Shape, CleanInv, OutliveInv, ~doc.dirty, ops # <<>>, Head(ops).kind = "write"
    PROVE  ~StillWanted(Head(ops))
<1>1. LastOp = DeleteOp
  BY DEF CleanInv
<1>2. ops \in Seq(Queued) /\ Len(ops) \in Nat
  BY Measures
<1>3. Len(ops) # 0 /\ Head(ops) = ops[1]
  BY <1>2, EmptySeq, HeadTailProperties
<1>4. ASSUME Len(ops) = 1 PROVE FALSE
  <2>1. Head(ops) = DeleteOp
    BY <1>1, <1>3, <1>4 DEF LastOp
  <2> QED BY <2>1 DEF DeleteOp
<1>5. 1 \in 1..Len(ops) /\ Len(ops) \in 1..Len(ops) /\ 1 < Len(ops)
  <2>1. \A n \in Nat : n # 0 /\ n # 1 => 1 \in 1..n /\ n \in 1..n /\ 1 < n
    OBVIOUS
  <2>2. Len(ops) \in Nat /\ Len(ops) # 0 /\ Len(ops) # 1
    BY <1>2, <1>3, <1>4, Zenon
  <2> QED BY <2>1, <2>2, Zenon
<1>6. ops[1].gen < gen
  <2>1. OpAt(1)
    BY <1>5 DEF OutliveInv
  <2>2. ops[Len(ops)] = DeleteOp
    BY <1>1 DEF LastOp
  <2> QED BY <1>5, <2>1, <2>2 DEF OpAt
<1>7. ops[1].gen \in Nat /\ gen \in Nat
  BY <1>5, <1>2, QueuedAt, Measures
<1> QED BY <1>3, <1>6, <1>7 DEF StillWanted

LEMMA OutliveDoc ==
    ASSUME Types = {}, Shape, BackupInv, OutliveInv,
           Type \/ Debounced \/ SaveStart \/ SaveEnd \/ Revert \/ Close
    PROVE  OutliveInv'
<1>M. /\ doc.text \in Int /\ restore.text \in Int /\ file \in Int /\ saving \in Int
      /\ project \in Nat /\ settled \in Nat /\ typed \in Nat /\ gen \in Nat
      /\ ops \in Seq(Queued) /\ Len(ops) \in Nat
      /\ busy => 1 \in 1..Len(ops) /\ Head(ops) = ops[1] /\ Head(ops).text \in Int
      /\ doc \in [open : BOOLEAN, text : Texts \cup {NoText}, dirty : BOOLEAN]
  <2>1. Texts \subseteq Int
    BY DEF Texts
  <2> QED BY <2>1, Measures DEF Shape, DocShape
<1>U. Up' /\ Up /\ host' # "ending"
  BY DEF Type, Debounced, SaveStart, SaveEnd, Revert, Close, Up, Shape, QueueShape
<1>I. EditInv /\ MirrorInv /\ CleanInv /\ TextsInv /\ FileInv
  BY DEF BackupInv, OutliveInv
<1>F. Deletes => file <= settled
  BY <1>I, <1>U DEF FileInv, Flushed, Up
<1>B. busy => Head(ops).text <= typed
  BY <1>M DEF OutliveInv, OpAt
<1>1. CASE Type
  <2>1. /\ typed' = typed + 1 /\ gen' = gen + 1 /\ restore.at = "none"
        /\ UNCHANGED <<ops, project, settled, saving, busy, file, restore>>
        /\ doc' = [doc EXCEPT !.text = typed + 1, !.dirty = TRUE] /\ saving = NoText
    BY <1>1 DEF Type, ScheduleWrite
  <2>2. doc'.text = typed + 1 /\ doc'.dirty = TRUE
    BY <1>M, <2>1
  <2>3. \A i \in 1..Len(ops') : OpAt(i)'
    BY <1>M, <2>1, Staled
  <2>4. TextsInv'
    BY <1>M, <1>I, <2>1, <2>2 DEF TextsInv
  <2>5. FileInv'
    <3>1. Deletes' = Deletes
      BY <2>1 DEF Deletes
    <3>2. busy => Head(ops).text <= typed + 1
      BY <1>M, <1>B
    <3>3. file <= typed + 1
      BY <1>M, <1>I DEF TextsInv
    <3> QED BY <1>U, <1>F, <1>I, <2>1, <2>2, <3>1, <3>2, <3>3 DEF FileInv
  <2> QED BY <2>3, <2>4, <2>5 DEF OutliveInv
<1>2. CASE Debounced
  <2>1. /\ pending # 0 /\ ops' = Append(ops, WriteOp(doc.text, pending))
        /\ UNCHANGED <<doc, project, settled, saving, busy, file, restore, gen, typed>>
    BY <1>2 DEF Debounced, bounds
  <2>2. doc.dirty /\ pending = gen
    BY <1>U, <1>I, <2>1 DEF MirrorInv, CleanInv
  <2>3. WriteOp(doc.text, gen) \in Queued
    BY <2>2, <1>M, QueueOps DEF Shape, DocShape
  <2>4. /\ Len(ops') = Len(ops) + 1
        /\ \A i \in 1..Len(ops) : ops'[i] = ops[i]
        /\ ops'[Len(ops) + 1] = WriteOp(doc.text, gen)
    BY <1>M, <2>1, <2>2, <2>3, AppendProperties
  <2>5. WriteOp(doc.text, gen) # DeleteOp /\ WriteOp(doc.text, gen).text = doc.text
        /\ WriteOp(doc.text, gen).gen = gen
    BY DEF WriteOp, DeleteOp
  <2>6. \A j \in 1..Len(ops') : ops'[j] = DeleteOp => j \in 1..Len(ops) /\ ops[j] = DeleteOp
    BY <1>M, <2>4, <2>5
  <2>7. ASSUME NEW i \in 1..Len(ops') PROVE OpAt(i)'
    <3>1. CASE i \in 1..Len(ops)
      <4>1. OpAt(i) /\ ops'[i] = ops[i]
        BY <3>1, <2>4 DEF OutliveInv
      <4> QED BY <2>1, <2>6, <4>1 DEF OpAt
    <3>2. CASE i = Len(ops) + 1
      <4>1. ops'[i].text = doc.text /\ ops'[i].gen = gen
        BY <2>4, <2>5, <3>2
      <4>2. \A j \in 1..Len(ops') : ~(i < j)
        BY <1>M, <2>4, <3>2
      <4>3. ops'[i].text <= typed' /\ ops'[i].gen <= gen' /\ ops'[i].text <= doc'.text
        BY <1>M, <1>I, <2>1, <4>1 DEF TextsInv
      <4> QED BY <4>2, <4>3 DEF OpAt
    <3> QED BY <1>M, <2>4, <2>7, <3>1, <3>2
  <2>8. TextsInv'
    BY <1>I, <2>1 DEF TextsInv
  <2>9. FileInv'
    <3>1. Deletes' => Deletes
      BY <2>6 DEF Deletes
    <3>2. busy => Head(ops') = Head(ops)
      <4>1. busy => ops # <<>>
        BY DEF Shape, QueueShape
      <4> QED BY <1>M, <2>1, <2>2, <2>3, <4>1, Appended
    <3> QED BY <1>U, <1>F, <1>I, <2>1, <3>1, <3>2 DEF FileInv
  <2> QED BY <2>7, <2>8, <2>9 DEF OutliveInv
<1>3. CASE SaveStart
  <2>1. /\ UNCHANGED <<ops, gen, typed, doc, project, settled, busy, file, restore>>
        /\ saving' = doc.text
    BY <1>3 DEF SaveStart, Counted
  <2>2. TextsInv' /\ FileInv'
    BY <1>U, <1>F, <1>I, <2>1 DEF TextsInv, FileInv, Deletes
  <2> QED BY <2>1, <2>2, Unstirred DEF OutliveInv
<1>4. CASE SaveEnd
  <2>1. saving # NoText /\ saving' = NoText /\ UNCHANGED <<typed, busy, file, restore>>
    BY <1>4 DEF SaveEnd, bounds
  <2>2. doc.dirty /\ doc.text = saving /\ restore.at = "none"
    BY <1>I, <2>1 DEF EditInv
  <2>3. NoText <= typed /\ NoText \in Int
    BY <1>M DEF NoText
  <2>4. CASE UNCHANGED <<project, settled, doc, pending, gen, ops>>
    <3>1. TextsInv' /\ FileInv'
      BY <1>U, <1>F, <1>I, <2>1, <2>3, <2>4 DEF TextsInv, FileInv, Deletes
    <3> QED BY <2>1, <2>4, <3>1, Unstirred DEF OutliveInv
  <2>5. CASE /\ project' = saving /\ settled' = saving
             /\ doc' = [doc EXCEPT !.dirty = (doc.text # saving)] /\ DropBackup
    <3>1. ops' = Append(ops, DeleteOp) /\ gen' = gen + 2
      BY <2>5 DEF DropBackup
    <3>2. doc'.text = saving /\ doc'.dirty = (doc.text # saving)
      BY <1>M, <2>2, <2>5
    <3>3. ~doc'.dirty
      BY <2>2, <3>2, Zenon
    <3>4. \A i \in 1..Len(ops') : OpAt(i)'
      BY <1>M, <2>1, <3>1, StaledBefore
    <3>5. TextsInv'
      BY <1>M, <1>I, <2>1, <2>3, <2>5, <3>2 DEF TextsInv
    <3>6. FileInv'
      <4>1. file <= saving /\ (busy => Head(ops).text <= saving)
        BY <1>U, <1>F, <1>I, <2>2 DEF FileInv
      <4>2. busy => Head(ops') = Head(ops)
        <5>1. busy => ops # <<>>
          BY DEF Shape, QueueShape
        <5> QED BY <1>M, <3>1, <5>1, Appended, QueueOps
      <4> QED BY <1>U, <1>F, <2>1, <2>2, <2>5, <3>3, <4>1, <4>2 DEF FileInv
    <3> QED BY <3>4, <3>5, <3>6 DEF OutliveInv
  <2> QED BY <1>4, <2>4, <2>5 DEF SaveEnd
<1>5. CASE Revert
  <2>1. /\ ops' = Append(ops, DeleteOp) /\ gen' = gen + 2 /\ settled' = typed
        /\ restore.at = "none" /\ UNCHANGED <<project, saving, typed, busy, file, restore>>
        /\ doc' = [doc EXCEPT !.text = project, !.dirty = FALSE]
    BY <1>5 DEF Revert, DropBackup, Counted
  <2>2. doc'.text = project /\ doc'.dirty = FALSE
    BY <1>M, <2>1
  <2>3. \A i \in 1..Len(ops') : OpAt(i)'
    BY <1>M, <2>1, StaledBefore
  <2>4. TextsInv'
    BY <1>M, <1>I, <2>1, <2>2 DEF TextsInv
  <2>5. FileInv'
    <3>1. file <= typed
      BY <1>I DEF TextsInv
    <3>2. busy => Head(ops') = Head(ops)
      <4>1. busy => ops # <<>>
        BY DEF Shape, QueueShape
      <4> QED BY <1>M, <2>1, <4>1, Appended, QueueOps
    <3> QED BY <1>U, <1>F, <1>B, <2>1, <2>2, <3>1, <3>2 DEF FileInv
  <2> QED BY <2>3, <2>4, <2>5 DEF OutliveInv
<1>6. CASE Close
  <2>1. /\ ~doc.dirty /\ doc' = Closed
        /\ UNCHANGED <<project, settled, typed, saving, gen, busy, file, restore>>
    BY <1>6 DEF Close, Counted
  <2>2. ops' = ops
    BY <1>6, <1>I, <2>1 DEF Close, CleanInv
  <2>3. doc'.text = -1 /\ doc'.open = FALSE /\ doc'.dirty = FALSE
    BY <2>1 DEF Closed, NoText
  <2>4. TextsInv'
    BY <1>M, <1>I, <2>1, <2>3 DEF TextsInv
  <2>5. FileInv'
    BY <1>U, <1>F, <1>I, <2>1, <2>2, <2>3 DEF FileInv, Deletes
  <2> QED BY <2>1, <2>2, <2>3, <2>4, <2>5, Unstirred DEF OutliveInv
<1> QED BY <1>1, <1>2, <1>3, <1>4, <1>5, <1>6

\* Where there is a backup to be read and nothing unsaved, what is under way is a
\* delete; and what is queued behind it leaves it under way.
LEMMA BegunWhenClean ==
    ASSUME Shape, FileInv, ~doc.dirty, file # Torn, busy
    PROVE  Head(ops) = DeleteOp /\ Head(ops).text = -1
           /\ Append(ops, DeleteOp) \in Seq(Queued) /\ Head(Append(ops, DeleteOp)) = Head(ops)
<1>1. ops # <<>> /\ ops \in Seq(Queued)
  BY DEF Shape, QueueShape
<1>2. Head(ops) \in Queued
  BY <1>1, HeadTailProperties
<1>3. Head(ops) \notin Writes
  BY DEF Shape, QueueShape, FileInv
<1>4. Head(ops) = DeleteOp
  BY <1>2, <1>3 DEF Queued
<1>5. Head(ops).text = -1
  BY <1>4 DEF DeleteOp, NoText
<1> QED BY <1>1, <1>4, <1>5, Appended, QueueOps

LEMMA OutliveRestore ==
    ASSUME Shape, BackupInv, OutliveInv, Open \/ RestoreRead \/ RestoreApply
    PROVE  OutliveInv'
<1>M. /\ doc.text \in Int /\ restore.text \in Int /\ file \in Int /\ saving \in Int
      /\ project \in Nat /\ settled \in Nat /\ typed \in Nat /\ gen \in Nat
      /\ ops \in Seq(Queued) /\ Len(ops) \in Nat
      /\ doc \in [open : BOOLEAN, text : Texts \cup {NoText}, dirty : BOOLEAN]
      /\ busy => Head(ops).text \in Int
  BY Measures DEF Shape, DocShape
<1>I. EditInv /\ MirrorInv /\ CleanInv /\ TextsInv /\ FileInv
  BY DEF BackupInv, OutliveInv
<1>N. NoRestore.at = "none" /\ NoRestore.text = -1
  BY DEF NoRestore, NoText
<1>1. CASE Open
  <2>1. /\ doc' = [open |-> TRUE, text |-> project, dirty |-> FALSE]
        /\ restore' = [NoRestore EXCEPT !.at = "reading"]
        /\ UNCHANGED <<project, settled, typed, saving, gen, ops, busy, file, host>>
        /\ host # "ending"
    BY <1>1 DEF Open, Counted, Up
  <2>2. restore'.at = "reading" /\ restore'.text = -1
    BY <2>1 DEF NoRestore, NoText
  <2>3. doc'.text = project /\ doc'.dirty = FALSE
    BY <2>1
  <2>4. TextsInv'
    BY <1>M, <1>I, <2>1, <2>2, <2>3 DEF TextsInv
  <2>5. FileInv'
    <3>1. Deletes' = Deletes
      BY <2>1 DEF Deletes
    <3>2. Deletes => file <= settled /\ (busy => Head(ops).text <= settled)
      BY <1>I, <2>1 DEF FileInv, Flushed
    <3> QED BY <2>1, <2>2, <2>3, <3>1, <3>2 DEF FileInv
  <2> QED BY <2>1, <2>3, <2>4, <2>5, Unstirred DEF OutliveInv
<1>2. CASE RestoreRead
  <2>1. /\ restore.at = "reading"
        /\ UNCHANGED <<host, doc, project, settled, typed, saving, pending, busy, file>>
    BY <1>2 DEF RestoreRead, bounds
  <2>2. ~doc.dirty /\ doc.open
    BY <1>I, <2>1 DEF EditInv, Shape, RestoreShape
  <2>3. doc.text = project
    BY <1>I, <2>2 DEF TextsInv
  <2>F. Flushed' = Flushed
    BY <2>1 DEF Flushed
  <2>4. CASE restore' = NoRestore /\ ops' = ops /\ gen' = gen
    <3>1. TextsInv'
      BY <1>M, <1>I, <1>N, <2>1, <2>4 DEF TextsInv
    <3>2. FileInv'
      <4>1. Deletes' = Deletes
        BY <2>4 DEF Deletes
      <4> QED BY <1>I, <1>N, <2>1, <2>F, <2>4, <4>1 DEF FileInv
    <3> QED BY <2>1, <2>4, <3>1, <3>2, Unstirred DEF OutliveInv
  <2>5. CASE /\ file = doc.text /\ file \notin {NoText, Torn}
             /\ restore' = NoRestore /\ gen' = gen + 1 /\ ops' = Append(ops, DeleteOp)
    <3>1. busy => Head(ops') = DeleteOp /\ Head(ops').text = -1
      BY <1>I, <2>2, <2>5, BegunWhenClean
    <3>2. file <= settled /\ -1 <= settled
      BY <1>M, <1>I, <2>3, <2>5 DEF TextsInv
    <3>3. FileInv'
      <4>1. busy' => Head(ops') \notin Writes
        BY <2>1, <3>1, QueueOps
      <4>2. busy' => Head(ops').text <= settled'
        BY <2>1, <3>1, <3>2
      <4>3. file' <= settled'
        BY <2>1, <3>2
      <4>4. ~doc'.dirty /\ restore'.at = "none"
        BY <1>N, <2>1, <2>2, <2>5
      <4> QED BY <4>1, <4>2, <4>3, <4>4 DEF FileInv
    <3>4. TextsInv'
      BY <1>M, <1>I, <1>N, <2>1, <2>5 DEF TextsInv
    <3>5. \A i \in 1..Len(ops') : OpAt(i)'
      BY <1>M, <2>1, <2>5, StaledBefore
    <3> QED BY <3>3, <3>4, <3>5 DEF OutliveInv
  <2>6. CASE /\ file \notin {NoText, Torn}
             /\ restore' = [at |-> "applying", text |-> file] /\ ops' = ops /\ gen' = gen
    <3>1. busy => Head(ops).text <= file
      <4>1. file \in Nat
        BY <2>6, Numbers DEF Shape, FileShape, AnyText
      <4>2. busy => Head(ops).text = -1
        BY <1>I, <2>2, <2>6, BegunWhenClean
      <4> QED BY <4>1, <4>2
    <3>2. restore'.at = "applying" /\ restore'.text = file
      BY <2>6
    <3>3. FileInv'
      <4>1. Deletes' = Deletes
        BY <2>6 DEF Deletes
      <4>2. file <= file
        BY <1>M
      <4>3. (restore.at = "applying" => file <= restore.text /\ (busy => Head(ops).text <= restore.text))'
        BY <2>1, <2>6, <3>1, <3>2, <4>2
      <4>4. ~doc'.dirty
        BY <2>1, <2>2
      <4> QED BY <1>I, <2>1, <2>F, <2>6, <4>1, <4>3, <4>4 DEF FileInv
    <3>4. TextsInv'
      BY <1>M, <1>I, <2>1, <3>2 DEF TextsInv
    <3> QED BY <2>1, <2>6, <3>3, <3>4, Unstirred DEF OutliveInv
  <2> QED BY <1>2, <2>4, <2>5, <2>6 DEF RestoreRead
<1>3. CASE RestoreApply
  <2>1. /\ restore.at = "applying" /\ restore' = NoRestore /\ gen' = gen + 1
        /\ UNCHANGED <<host, ops, project, settled, typed, saving, busy, file>>
        /\ doc' = [doc EXCEPT !.text = restore.text, !.dirty = TRUE]
        /\ host # "ending"
    BY <1>3 DEF RestoreApply, ScheduleWrite, bounds, Up
  <2>2. doc'.text = restore.text /\ doc'.dirty = TRUE
    BY <1>M, <2>1
  <2>3. file <= restore.text /\ (busy => Head(ops).text <= restore.text)
    BY <1>I, <2>1 DEF FileInv
  <2>4. FileInv'
    <3>1. Deletes' = Deletes
      BY <2>1 DEF Deletes
    <3>2. Deletes => file <= settled /\ (busy => Head(ops).text <= settled)
      BY <1>I, <2>1 DEF FileInv, Flushed
    <3> QED BY <1>N, <2>1, <2>2, <2>3, <3>1, <3>2 DEF FileInv
  <2>5. TextsInv'
    BY <1>M, <1>I, <1>N, <2>1, <2>2 DEF TextsInv
  <2>6. \A i \in 1..Len(ops') : OpAt(i)'
    BY <1>M, <2>1, Staled
  <2> QED BY <2>4, <2>5, <2>6 DEF OutliveInv
<1> QED BY <1>1, <1>2, <1>3

LEMMA OutliveOps ==
    ASSUME Shape, BackupInv, OutliveInv, OpStep \/ OpDone
    PROVE  OutliveInv'
<1>M. /\ doc.text \in Int /\ restore.text \in Int /\ file \in Int /\ typed \in Nat /\ gen \in Nat
      /\ settled \in Nat /\ ops \in Seq(Queued) /\ Len(ops) \in Nat /\ busy \in BOOLEAN
  BY Measures DEF Shape, QueueShape
<1>I. EditInv /\ CleanInv /\ TextsInv /\ FileInv
  BY DEF BackupInv, OutliveInv
<1>0. /\ UNCHANGED <<host, doc, project, settled, typed, saving, gen, restore>> /\ ops # <<>>
  BY DEF OpStep, OpDone, bounds, Shape, QueueShape
<1>H. /\ Head(ops) = ops[1] /\ 1 \in 1..Len(ops) /\ OpAt(1) /\ ops[1].text \in Int
      /\ ops[1].gen \in Nat /\ ops[1] \in Queued
  <2>1. Head(ops) = ops[1] /\ Len(ops) # 0
    BY <1>M, <1>0, EmptySeq, HeadTailProperties
  <2>2. 1 \in 1..Len(ops)
    BY <1>M, <2>1
  <2>3. OpAt(1)
    BY <2>2 DEF OutliveInv
  <2> QED BY <1>M, <2>1, <2>2, <2>3, QueuedAt
<1>D. doc.dirty => NoText <= doc.text /\ Torn <= doc.text
  <2>1. doc.dirty => doc.text \in Nat
    BY Numbers DEF Shape, DocShape
  <2> QED BY <2>1 DEF NoText, Torn
<1>R. restore.at = "applying" => NoText <= restore.text /\ Torn <= restore.text
  <2>1. restore.at = "applying" => restore.text \in Nat
    BY Numbers DEF Shape, RestoreShape
  <2> QED BY <2>1 DEF NoText, Torn
<1>S. /\ NoText <= typed /\ NoText <= settled /\ Torn <= typed /\ Torn <= settled
      /\ NoText \in Int /\ Torn \in Int
  BY <1>M DEF NoText, Torn
<1>1. CASE OpStep /\ Head(ops).kind = "write" /\ StillWanted(Head(ops))
  <2>1. busy' = TRUE /\ file' = Torn /\ ops' = ops
    BY <1>1 DEF OpStep
  <2>2. doc.dirty
    BY <1>0, <1>1, <1>I, NoneWanted
  <2>3. restore.at # "applying"
    BY <1>I, <2>2 DEF EditInv
  <2>6. ~Deletes
    <3> SUFFICES ASSUME NEW j \in 1..Len(ops), ops[j] = DeleteOp PROVE FALSE
      BY DEF Deletes
    <3>1. ops[1].gen = gen /\ ops[1].kind = "write"
      BY <1>1, <1>H DEF StillWanted
    <3>2. j # 1
      BY <3>1 DEF DeleteOp
    <3>3. 1 < j
      BY <1>M, <3>2
    <3> QED BY <1>M, <1>H, <3>1, <3>3 DEF OpAt
  <2>7. Head(ops).text <= doc.text
    BY <1>1, <1>H, <2>2 DEF OpAt, StillWanted
  <2>8. TextsInv'
    BY <1>I, <1>0, <2>1, <1>S DEF TextsInv
  <2>9. FileInv'
    <3>1. ~Deletes'
      BY <2>1, <2>6 DEF Deletes
    <3>2. file' <= doc'.text /\ Head(ops').text <= doc'.text
      BY <1>0, <1>D, <2>1, <2>2, <2>7
    <3>3. restore'.at # "applying" /\ file' = Torn
      BY <1>0, <2>1, <2>3
    <3> QED BY <3>1, <3>2, <3>3 DEF FileInv
  <2> QED BY <1>0, <2>1, <2>8, <2>9, Unstirred DEF OutliveInv
<1>2. CASE OpStep /\ Head(ops).kind = "write" /\ ~StillWanted(Head(ops))
  <2>1. ops' = Tail(ops) /\ file' = file /\ busy' = busy /\ busy = FALSE
    BY <1>M, <1>2 DEF OpStep
  <2>2. (\A i \in 1..Len(ops') : OpAt(i)') /\ (Deletes' => Deletes)
    BY <1>0, <2>1, AtTail
  <2>3. TextsInv'
    BY <1>I, <1>0, <2>1 DEF TextsInv
  <2>4. FileInv'
    <3>1. Flushed' = Flushed
      BY <1>0, <2>1 DEF Flushed
    <3> QED BY <1>I, <1>0, <2>1, <2>2, <3>1 DEF FileInv
  <2> QED BY <2>2, <2>3, <2>4 DEF OutliveInv
<1>3. CASE OpStep /\ Head(ops).kind # "write"
  <2>1. busy' = TRUE /\ file' = file /\ ops' = ops
    BY <1>3 DEF OpStep
  <2>2. Head(ops) = DeleteOp
    BY <1>3, <1>H, QueueOps DEF Queued
  <2>3. Head(ops').text = NoText /\ Head(ops') \notin Writes
    BY <2>1, <2>2, QueueOps DEF DeleteOp
  <2>4. TextsInv'
    BY <1>I, <1>0, <2>1 DEF TextsInv
  <2>5. FileInv'
    <3>1. Flushed' = Flushed /\ Deletes' = Deletes
      BY <1>0, <2>1 DEF Flushed, Deletes
    <3>2. Head(ops').text <= settled'
      BY <1>0, <1>S, <2>3
    <3>3. doc'.dirty => Head(ops').text <= doc'.text
      BY <1>0, <1>D, <2>3
    <3>4. restore'.at = "applying" => Head(ops').text <= restore'.text
      BY <1>0, <1>R, <2>3
    <3> QED BY <1>I, <1>0, <2>1, <2>3, <3>1, <3>2, <3>3, <3>4 DEF FileInv
  <2> QED BY <1>0, <2>1, <2>4, <2>5, Unstirred DEF OutliveInv
<1>4. CASE OpDone
  <2>1. busy /\ busy' = FALSE /\ ops' = Tail(ops)
    BY <1>4 DEF OpDone
  <2>2. (\A i \in 1..Len(ops') : OpAt(i)') /\ (Deletes' => Deletes)
    BY <1>0, <2>1, AtTail
  <2>3. file' \in {NoText, Torn} \/ file' = Head(ops).text
    BY <1>4 DEF OpDone
  <2>4. Head(ops).text <= typed
    BY <1>H DEF OpAt
  <2>5. TextsInv'
    <3>1. file' <= typed
      BY <1>S, <2>3, <2>4
    <3> QED BY <1>I, <1>0, <3>1 DEF TextsInv
  <2>6. FileInv'
    <3>1. Deletes => file' <= settled
      BY <1>I, <1>S, <2>1, <2>3 DEF FileInv
    <3>2. doc.dirty => file' <= doc.text
      BY <1>I, <1>D, <2>1, <2>3 DEF FileInv
    <3>3. restore.at = "applying" => file' <= restore.text
      BY <1>I, <1>R, <2>1, <2>3 DEF FileInv
    <3> QED BY <1>0, <2>1, <2>2, <3>1, <3>2, <3>3 DEF FileInv
  <2> QED BY <2>2, <2>5, <2>6 DEF OutliveInv
<1> QED BY <1>1, <1>2, <1>3, <1>4

LEMMA OutliveHost ==
    ASSUME Shape, BackupInv, OutliveInv, Dispose \/ Crash \/ Exit \/ Restart PROVE OutliveInv'
<1>M. /\ doc.text \in Int /\ file \in Int /\ saving \in Int /\ typed \in Nat
      /\ project \in Nat /\ settled \in Nat
      /\ busy => 1 \in 1..Len(ops) /\ Head(ops) = ops[1]
  BY Measures
<1>I. TextsInv /\ FileInv
  BY DEF OutliveInv
<1>1. CASE Restart
  <2>1. UNCHANGED <<doc, project, settled, typed, saving, gen, ops, busy, file, restore>>
        /\ host = "down" /\ host' = "up"
    BY <1>1 DEF Restart, bounds
  <2>2. TextsInv'
    BY <1>I, <2>1 DEF TextsInv
  <2>3. FileInv'
    <3>1. Deletes' = Deletes /\ ~Flushed
      BY <2>1 DEF Deletes, Flushed
    <3> QED BY <1>I, <2>1, <3>1 DEF FileInv
  <2> QED BY <2>1, <2>2, <2>3, Unstirred DEF OutliveInv
<1>2. CASE Dispose
  <2>1. /\ UNCHANGED <<doc, project, settled, typed, saving, gen, ops, busy, restore>>
        /\ host = "up" /\ host' = "ending"
        /\ file' = IF pending # 0 THEN doc.text ELSE file
    BY <1>2 DEF Dispose, Up
  <2>2. Deletes' = Deletes /\ ~Flushed
    BY <2>1 DEF Deletes, Flushed
  <2>3. CASE pending # 0
    <3>1. doc.dirty
      BY <2>3 DEF BackupInv, CleanInv
    <3>2. restore.at = "none"
      BY <3>1 DEF BackupInv, EditInv
    <3>3. file' = doc.text /\ doc.text <= doc.text
      BY <1>M, <2>1, <2>3
    <3>4. Flushed'
      BY <2>1, <3>3 DEF Flushed
    <3>5. TextsInv'
      BY <1>I, <2>1, <3>3 DEF TextsInv
    <3>6. FileInv'
      BY <1>I, <2>1, <2>2, <3>1, <3>2, <3>3, <3>4 DEF FileInv
    <3> QED BY <2>1, <3>5, <3>6, Unstirred DEF OutliveInv
  <2>4. CASE pending = 0
    <3>1. file' = file
      BY <2>1, <2>4
    <3>2. busy /\ Head(ops) \in Writes => file = Torn
      BY <2>1 DEF Shape, QueueShape
    <3>3. TextsInv'
      BY <1>I, <2>1, <3>1 DEF TextsInv
    <3>4. FileInv'
      BY <1>I, <2>1, <2>2, <3>1, <3>2 DEF FileInv
    <3> QED BY <2>1, <3>3, <3>4, Unstirred DEF OutliveInv
  <2> QED BY <2>3, <2>4
<1>3. CASE Crash \/ Exit
  <2>1. ProcessEnds
    BY <1>3 DEF Crash, Exit
  <2>2. /\ doc'.text = -1 /\ doc'.open = FALSE /\ doc'.dirty = FALSE /\ saving' = -1
        /\ restore'.text = -1 /\ restore'.at = "none" /\ ops' = <<>> /\ typed' = typed
        /\ file' = file /\ busy' = FALSE
    BY <2>1 DEF ProcessEnds, Closed, NoRestore, NoText
  <2>3. 1..Len(ops') = {}
    BY <2>2
  <2>4. \/ project' = project /\ settled' = settled
        \/ saving # NoText /\ project' = saving /\ settled' = saving
    BY <2>1 DEF ProcessEnds
  <2>5. TextsInv'
    <3>1. project' <= settled' /\ settled' <= typed
      BY <1>M, <1>I, <2>4 DEF TextsInv
    <3> QED BY <1>M, <1>I, <2>2, <3>1 DEF TextsInv
  <2>6. FileInv'
    BY <2>2, <2>3 DEF FileInv, Deletes
  <2> QED BY <2>3, <2>5, <2>6 DEF OutliveInv
<1> QED BY <1>1, <1>2, <1>3

LEMMA OutliveStep ==
    ASSUME Types = {}, Shape, BackupInv, OutliveInv, [Next]_vars PROVE OutliveInv'
<1>1. CASE UNCHANGED vars
  <2>1. UNCHANGED <<host, doc, project, settled, typed, saving, gen, ops, busy, file, restore>>
    BY <1>1 DEF vars
  <2>2. TextsInv' /\ FileInv'
    BY <2>1 DEF OutliveInv, TextsInv, FileInv, Deletes, Flushed
  <2> QED BY <2>1, <2>2, Unstirred DEF OutliveInv
<1> QED BY <1>1, OutliveDoc, OutliveRestore, OutliveOps, OutliveHost DEF Next

\* Only a delete that was queued removes the backup, and what it finds then is
\* settled, or was flushed by dispose.
LEMMA OnlyDeletesRemove ==
    ASSUME Shape, OutliveInv, [Next]_vars, file \in Texts, file' = NoText
    PROVE  file <= settled \/ Flushed
<1>1. CASE OpDone
  <2>1. busy /\ ops # <<>> /\ ops \in Seq(Queued)
    BY <1>1 DEF OpDone, Shape, QueueShape
  <2>2. /\ Head(ops) = ops[1] /\ 1 \in 1..Len(ops) /\ ops[1] \in Queued
    BY <2>1, Measures, HeadTailProperties
  <2>3. ops[1] \notin Writes
    <3>1. ASSUME ops[1] \in Writes PROVE FALSE
      <4>1. Head(ops).kind = "write" /\ Head(ops).text \in Texts
        BY <2>2, <3>1, QueueOps
      <4>2. file' = Head(ops).text \/ file' = Torn
        BY <1>1, <4>1 DEF OpDone
      <4> QED BY <4>1, <4>2, Numbers
    <3> QED BY <3>1
  <2>4. Deletes
    BY <2>2, <2>3 DEF Deletes, Queued
  <2> QED BY <2>4 DEF OutliveInv, FileInv
<1>2. CASE OpStep
  BY <1>2, Numbers DEF OpStep
<1>3. CASE Dispose
  <2>1. pending # 0 => doc.text \in Texts
    BY DEF Shape, DocShape, QueueShape
  <2>2. file' = IF pending # 0 THEN doc.text ELSE file
    BY <1>3 DEF Dispose
  <2> QED BY <2>1, <2>2, Numbers
<1>4. CASE UNCHANGED file
  BY <1>4, Numbers
<1>5. OpStep \/ OpDone \/ Dispose \/ UNCHANGED file
  BY DEF Next, vars, Type, Debounced, SaveStart, SaveEnd, Revert, Close, Open, RestoreRead,
         RestoreApply, Crash, Exit, ProcessEnds, Restart
<1> QED BY <1>1, <1>2, <1>3, <1>4, <1>5

\* A backup is deleted only when its text was saved or thrown away: what is queued
\* to be deleted never finds the unsaved text of a later edit, however edits,
\* saves, reverts, restores and ends of the host follow each other - but what
\* dispose flushed, which the queue it leaves running may still delete.
THEOREM BackupsAreKept == ASSUME Types = {} PROVE Spec => BackupsOutlive
<1> DEFINE Kept == file \in Texts /\ file' = NoText => file <= settled \/ Flushed
<1>1. Init => Shape /\ BackupInv /\ OutliveInv
  BY ShapeInit, BackupInit, OutliveInit
<1>2. Shape /\ BackupInv /\ OutliveInv /\ [Next]_vars => (Shape /\ BackupInv /\ OutliveInv)'
  BY ShapeStep, BackupStep, OutliveStep
<1>3. Shape /\ OutliveInv /\ [Next]_vars => [Kept]_vars
  BY OnlyDeletesRemove
<1> QED BY <1>1, <1>2, <1>3, PTL DEF Spec, BackupsOutlive

=============================================================================
