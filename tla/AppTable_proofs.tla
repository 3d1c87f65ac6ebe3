-------------------------- MODULE AppTable_proofs ---------------------------
(***************************************************************************)
(* The app table and its stored copy agree, and its two banks implement    *)
(* SlotStore: for any number of apps, slots, values, failures, restarts.   *)
(***************************************************************************)
EXTENDS BackupProperties, SequenceTheorems, TLAPS

(* What CleanRowsAreStored needs to be inductive: marks are on used rows    *)
(* only, and no row is ahead of the counter.                                *)
DirtyRowsAreUsed == \A i \in Slots : dirty[i] => Used(rows[i])
RowsAreCounted == \A i \in Slots : Used(rows[i]) => rows[i].sequence <= appSequence

IInv == TableTypeOK /\ CleanRowsAreStored /\ DirtyRowsAreUsed /\ RowsAreCounted

(* A used row is a row with an app; the empty one has none.                 *)
LEMMA UsedRow ==
  ASSUME NEW row \in Row \cup {NoRow}
  PROVE  Used(row) <=> row \in Row
BY TableAssumption DEF Used, Row, NoRow

(* A backup of the endpoints is no longer than the table.                   *)
LEMMA BackupLength ==
  ASSUME NEW apps \in Backups
  PROVE  /\ Len(apps) \in 0..NumSlots
         /\ \A i \in Slots : i < Len(apps) => apps[i + 1] \in Entry
<1>1. PICK n \in 0..NumSlots : apps \in [1..n -> Entry]
  BY DEF Backups
<1>2. Len(apps) = n
  BY <1>1, LenProperties, TableAssumption
<1> QED BY <1>1, <1>2, TableAssumption DEF Slots

(* The numbers a restore gives are numbers.                                 *)
LEMMA BaseFits ==
  ASSUME TableTypeOK, NEW apps \in Backups
  PROVE  /\ Base(apps) \in Sequences
         /\ Base(apps) + Len(apps) \in Sequences
BY BackupLength, TableAssumption DEF Base, TableTypeOK, Sequences

(* The rows a restore writes are rows, numbered up to its revision.         *)
LEMMA NewRowsAreRows ==
  ASSUME TableTypeOK, NEW apps \in Backups
  PROVE  /\ NewRows(apps) \in Rows
         /\ \A i \in Slots : Used(NewRows(apps)[i]) =>
                               NewRows(apps)[i].sequence <= Base(apps) + Len(apps)
<1> SUFFICES ASSUME NEW i \in Slots
             PROVE  /\ NewRows(apps)[i] \in Row \cup {NoRow}
                    /\ Used(NewRows(apps)[i]) =>
                         NewRows(apps)[i].sequence <= Base(apps) + Len(apps)
  BY DEF Rows, NewRows
<1>1. CASE i < Len(apps)
  <2>1. apps[i + 1] \in Entry /\ Base(apps) + i + 1 \in Sequences
    BY <1>1, BackupLength, BaseFits, TableAssumption DEF Slots, Sequences
  <2>2. NewRows(apps)[i] = [app |-> apps[i + 1].app, value |-> apps[i + 1].value,
                            sequence |-> Base(apps) + i + 1]
    BY <1>1 DEF NewRows
  <2>3. Base(apps) + i + 1 <= Base(apps) + Len(apps)
    BY <1>1, BackupLength, BaseFits, TableAssumption DEF Slots, Sequences
  <2> QED BY <2>1, <2>2, <2>3 DEF Entry, Row
<1>2. CASE ~(i < Len(apps))
  <2>1. NewRows(apps)[i] = NoRow
    BY <1>2 DEF NewRows
  <2> QED BY <2>1 DEF Used, NoRow
<1> QED BY <1>1, <1>2

(* A half-written restore leaves the bank in use alone.                     *)
LEMMA PartlyWrittenType ==
  ASSUME TableTypeOK, NEW apps \in Backups, NEW done \in Int
  PROVE  /\ PartlyWritten(apps, done) \in [bank : Banks, rows : [Banks -> Rows],
                                           seq : [Banks -> Sequences]]
         /\ PartlyWritten(apps, done).bank = nv.bank
         /\ PartlyWritten(apps, done).rows[activeAppBank] = nv.rows[activeAppBank]
         /\ PartlyWritten(apps, done).rows[TargetBank] =
              [i \in Slots |-> IF i < done THEN NewRows(apps)[i] ELSE nv.rows[TargetBank][i]]
<1>1. TargetBank \in Banks /\ TargetBank # activeAppBank
  BY DEF TargetBank, TableTypeOK, Banks
<1>2. [i \in Slots |-> IF i < done THEN NewRows(apps)[i] ELSE nv.rows[TargetBank][i]] \in Rows
  BY <1>1, NewRowsAreRows DEF TableTypeOK, Rows
<1>3. Base(apps) + Len(apps) \in Sequences
  BY BaseFits
<1> QED BY <1>1, <1>2, <1>3 DEF PartlyWritten, TableTypeOK

(* A save changes one row of the bank in use.                               *)
LEMMA SavedType ==
  ASSUME TableTypeOK, nv.bank = activeAppBank, NEW i \in Slots, NEW row \in Row,
         NEW sequence \in Sequences, NEW outcome \in Outcome
  PROVE  /\ Saved(i, row, sequence, outcome) \in
              [bank : Banks, rows : [Banks -> Rows], seq : [Banks -> Sequences]]
         /\ Saved(i, row, sequence, outcome).bank = nv.bank
         /\ Saved(i, row, sequence, outcome).rows[activeAppBank] =
              IF outcome = "failed" THEN nv.rows[activeAppBank]
              ELSE [nv.rows[activeAppBank] EXCEPT ![i] = row]
<1>1. nv.rows[activeAppBank] \in Rows
  BY DEF TableTypeOK
<1>2. [nv.rows[activeAppBank] EXCEPT ![i] = row] \in Rows
  BY <1>1 DEF Rows
<1>3. [nv.rows[activeAppBank] EXCEPT ![i] = nv.rows[activeAppBank][i]] = nv.rows[activeAppBank]
  BY <1>1 DEF Rows
<1> QED BY <1>1, <1>2, <1>3 DEF Saved, TableTypeOK

(* Whatever well-typed NVS a restart finds, what it loads is stored.        *)
LEMMA RestartKeepsIInv ==
  ASSUME NEW n \in [bank : Banks, rows : [Banks -> Rows], seq : [Banks -> Sequences]],
         RestartsWith(n)
  PROVE  IInv'
<1> USE DEF RestartsWith, Loads
<1>1. TableTypeOK'
  BY DEF TableTypeOK, Clean
<1>2. CleanRowsAreStored' /\ DirtyRowsAreUsed'
  BY DEF CleanRowsAreStored, DirtyRowsAreUsed, Clean
<1>3. RowsAreCounted'
  BY DEF RowsAreCounted, IsLargest
<1> QED BY <1>1, <1>2, <1>3 DEF IInv

-----------------------------------------------------------------------------
LEMMA InitIInv == Init => IInv
<1> SUFFICES ASSUME Init PROVE IInv
  OBVIOUS
<1> USE DEF Init, TableInit, EmptyNv
<1>1. TableTypeOK
  BY TableAssumption DEF TableTypeOK, Rows, Banks, Sequences, Clean
<1>2. CleanRowsAreStored /\ DirtyRowsAreUsed /\ RowsAreCounted
  BY DEF CleanRowsAreStored, DirtyRowsAreUsed, RowsAreCounted, Clean, Banks, Used, NoRow
<1> QED BY <1>1, <1>2 DEF IInv

(* A learned level, saved at once or marked.                                *)
LEMMA RememberKeepsIInv ==
  ASSUME IInv, NEW v \in Values, NEW immediate \in BOOLEAN, NEW outcome \in Outcome,
         owner # NoApp, Remember(owner, v, immediate, outcome)
  PROVE  IInv'
<1>0. owner \in AppIds /\ nv.bank = activeAppBank /\ TableTypeOK
  BY DEF IInv, TableTypeOK, CleanRowsAreStored
<1> DEFINE seqOf(i) == NextSequence(i, owner, v)
           rowOf(i) == IF Holds(i, owner, v) THEN rows[i]
                       ELSE [app |-> owner, value |-> v, sequence |-> seqOf(i)]
           due(i) == dirty[i] \/ ~Holds(i, owner, v)
           saves(i) == immediate /\ due(i)
<1>1. PICK i \in Slots :
        /\ rows' = [rows EXCEPT ![i] = rowOf(i)]
        /\ appSequence' = seqOf(i)
        /\ nv' = IF saves(i) THEN Saved(i, rowOf(i), seqOf(i), outcome) ELSE nv
        /\ dirty' = [dirty EXCEPT ![i] = IF saves(i) THEN StillDirty(outcome) ELSE due(i)]
  BY DEF Remember
<1>2. activeAppBank' = activeAppBank /\ owner' = owner /\ appSequence < MaxSequence
  BY DEF Remember
<1>3. seqOf(i) \in Sequences /\ appSequence <= seqOf(i)
  BY <1>0, <1>2, TableAssumption DEF NextSequence, TableTypeOK, Sequences
<1>4. rowOf(i) \in Row /\ rowOf(i).sequence <= seqOf(i)
  <2>1. CASE Holds(i, owner, v)
    <3>1. rows[i] \in Row
      BY <2>1, <1>0, UsedRow DEF Holds, TableTypeOK, Rows
    <3> QED BY <2>1, <3>1, <1>0, UsedRow DEF IInv, RowsAreCounted, NextSequence
  <2>2. CASE ~Holds(i, owner, v)
    BY <2>2, <1>0, <1>3 DEF Row, Sequences
  <2> QED BY <2>1, <2>2
<1> HIDE DEF seqOf, rowOf
<1>5. saves(i) \in BOOLEAN /\ due(i) \in BOOLEAN /\ StillDirty(outcome) \in BOOLEAN
  BY <1>0 DEF TableTypeOK, Holds, StillDirty
<1> DEFINE saved == Saved(i, rowOf(i), seqOf(i), outcome)
<1>6. /\ saved \in [bank : Banks, rows : [Banks -> Rows], seq : [Banks -> Sequences]]
      /\ saved.bank = nv.bank
      /\ saved.rows[activeAppBank] = IF outcome = "failed" THEN nv.rows[activeAppBank]
                                     ELSE [nv.rows[activeAppBank] EXCEPT ![i] = rowOf(i)]
  BY <1>0, <1>3, <1>4, SavedType
<1> HIDE DEF saved
<1>7. nv' = IF saves(i) THEN saved ELSE nv
  BY <1>1 DEF saved
<1>8. TableTypeOK'
  BY <1>0, <1>1, <1>2, <1>3, <1>4, <1>5, <1>6, <1>7 DEF TableTypeOK, Rows
<1>9. CleanRowsAreStored'
  <2>1. nv'.bank = activeAppBank'
    BY <1>0, <1>2, <1>6, <1>7
  <2>2. ASSUME NEW j \in Slots, ~dirty'[j]
        PROVE  rows'[j] = nv'.rows[nv'.bank][j]
    <3>0. nv.rows[activeAppBank] \in Rows /\ rows \in Rows /\ dirty \in [Slots -> BOOLEAN]
      BY <1>0 DEF TableTypeOK
    <3>1. CASE j # i
      <4>1. rows'[j] = rows[j] /\ dirty'[j] = dirty[j]
        BY <3>0, <3>1, <1>1 DEF Rows
      <4>2. nv'.rows[nv'.bank][j] = nv.rows[nv.bank][j]
        BY <3>0, <3>1, <1>0, <1>6, <1>7 DEF Rows
      <4> QED BY <2>2, <4>1, <4>2 DEF IInv, CleanRowsAreStored
    <3>2. CASE j = i /\ saves(i)
      <4>1. outcome # "failed"
        BY <2>2, <3>0, <3>2, <1>1 DEF StillDirty
      <4> QED BY <4>1, <3>0, <3>2, <1>0, <1>1, <1>6, <1>7 DEF Rows
    <3>3. CASE j = i /\ ~saves(i)
      <4>1. ~dirty[i] /\ Holds(i, owner, v)
        BY <2>2, <3>0, <3>3, <1>1
      <4> QED BY <4>1, <3>0, <3>3, <1>0, <1>1, <1>7 DEF Rows, rowOf, IInv, CleanRowsAreStored
    <3> QED BY <3>1, <3>2, <3>3
  <2> QED BY <2>1, <2>2 DEF CleanRowsAreStored
<1>10. DirtyRowsAreUsed'
  <2>1. Used(rowOf(i))
    BY <1>4, UsedRow
  <2> QED BY <2>1, <1>0, <1>1 DEF IInv, DirtyRowsAreUsed, TableTypeOK, Rows
<1>11. RowsAreCounted'
  <2> SUFFICES ASSUME NEW j \in Slots, Used(rows'[j])
               PROVE  rows'[j].sequence <= appSequence'
    BY DEF RowsAreCounted
  <2>1. CASE j = i
    BY <2>1, <1>0, <1>1, <1>4 DEF TableTypeOK, Rows
  <2>2. CASE j # i
    <3>1. rows'[j] = rows[j] /\ rows[j] \in Row
      BY <2>2, <1>0, <1>1, UsedRow DEF TableTypeOK, Rows
    <3>2. rows[j].sequence <= appSequence /\ rows[j].sequence \in Nat /\ appSequence \in Nat
      BY <3>1, <1>0, UsedRow, TableAssumption DEF IInv, RowsAreCounted, Row, Sequences, TableTypeOK
    <3> QED BY <3>1, <3>2, <1>1, <1>3, TableAssumption DEF Sequences
  <2> QED BY <2>1, <2>2
<1> QED BY <1>8, <1>9, <1>10, <1>11 DEF IInv

(* A delayed save.                                                          *)
LEMMA PersistKeepsIInv ==
  ASSUME IInv, NEW i \in Slots, NEW outcome \in Outcome, Persist(i, outcome)
  PROVE  IInv'
<1>0. TableTypeOK /\ nv.bank = activeAppBank
  BY DEF IInv, CleanRowsAreStored
<1>1. rows[i] \in Row /\ appSequence \in Sequences
  BY <1>0, UsedRow DEF Persist, TableTypeOK, Rows
<1> DEFINE saved == Saved(i, rows[i], appSequence, outcome)
<1>2. /\ saved \in [bank : Banks, rows : [Banks -> Rows], seq : [Banks -> Sequences]]
      /\ saved.bank = nv.bank
      /\ saved.rows[activeAppBank] = IF outcome = "failed" THEN nv.rows[activeAppBank]
                                     ELSE [nv.rows[activeAppBank] EXCEPT ![i] = rows[i]]
  BY <1>0, <1>1, SavedType
<1>3. /\ nv' = saved /\ dirty' = [dirty EXCEPT ![i] = StillDirty(outcome)]
      /\ UNCHANGED <<rows, appSequence, activeAppBank, owner>>
      /\ Used(rows[i]) /\ dirty[i]
  BY DEF Persist
<1> HIDE DEF saved
<1>4. TableTypeOK'
  BY <1>0, <1>2, <1>3 DEF TableTypeOK, StillDirty
<1>5. CleanRowsAreStored'
  BY <1>0, <1>2, <1>3 DEF IInv, CleanRowsAreStored, TableTypeOK, Rows, StillDirty
<1>6. DirtyRowsAreUsed' /\ RowsAreCounted'
  BY <1>0, <1>3 DEF IInv, DirtyRowsAreUsed, RowsAreCounted, TableTypeOK
<1> QED BY <1>4, <1>5, <1>6 DEF IInv

(* A power loss, also one in the middle of a save, and an erased flash.     *)
LEMMA RestartPreservesIInv ==
  ASSUME IInv, Restart
  PROVE  IInv'
<1>0. TableTypeOK /\ nv.bank = activeAppBank
  BY DEF IInv, CleanRowsAreStored
<1>1. CASE RestartsWith(nv)
  BY <1>0, <1>1, RestartKeepsIInv DEF TableTypeOK
<1>2. ASSUME NEW i \in Slots, dirty[i], Used(rows[i]),
             RestartsWith(Saved(i, rows[i], appSequence, "unnumbered"))
      PROVE  IInv'
  <2>1. rows[i] \in Row /\ appSequence \in Sequences /\ "unnumbered" \in Outcome
    BY <1>0, <1>2, UsedRow DEF TableTypeOK, Rows, Outcome
  <2> QED BY <1>0, <1>2, <2>1, SavedType, RestartKeepsIInv
<1> QED BY <1>1, <1>2 DEF Restart

LEMMA EraseKeepsIInv ==
  ASSUME Erase
  PROVE  IInv'
<1>1. EmptyNv \in [bank : Banks, rows : [Banks -> Rows], seq : [Banks -> Sequences]]
  BY TableAssumption DEF EmptyNv, Banks, Rows, Sequences
<1> QED BY <1>1, RestartKeepsIInv DEF Erase

(* A restore that is refused, that fails, that is cut off, that succeeds.   *)
LEMMA RestoreKeepsIInv ==
  ASSUME IInv, NEW apps, NEW etag, NEW done \in 0..(NumSlots + 1),
         \/ Refuses(apps, etag) \/ RestoreFails(apps, etag, done)
         \/ RestoreIsInterrupted(apps, etag, done) \/ Restores(apps, etag)
  PROVE  IInv'
<1>0. /\ TableTypeOK /\ nv.bank = activeAppBank
      /\ done \in Int /\ NumSlots + 1 \in Int
  BY TableAssumption DEF IInv, CleanRowsAreStored
<1>1. CASE Refuses(apps, etag)
  BY <1>1 DEF Refuses, table, IInv, TableTypeOK, CleanRowsAreStored, DirtyRowsAreUsed,
              RowsAreCounted
<1>2. CASE RestoreFails(apps, etag, done)
  <2>1. apps \in Backups
    BY <1>2 DEF RestoreFails, Accepts, ValidBackup
  <2>2. /\ nv' \in [bank : Banks, rows : [Banks -> Rows], seq : [Banks -> Sequences]]
        /\ nv'.bank = nv.bank /\ nv'.rows[activeAppBank] = nv.rows[activeAppBank]
        /\ UNCHANGED <<rows, dirty, appSequence, activeAppBank, owner>>
    BY <1>0, <1>2, <2>1, PartlyWrittenType DEF RestoreFails
  <2> QED BY <1>0, <2>2 DEF IInv, TableTypeOK, CleanRowsAreStored, DirtyRowsAreUsed,
                            RowsAreCounted
<1>3. CASE RestoreIsInterrupted(apps, etag, done)
  <2>1. apps \in Backups
    BY <1>3 DEF RestoreIsInterrupted, Accepts, ValidBackup
  <2> QED BY <1>0, <1>3, <2>1, PartlyWrittenType, RestartKeepsIInv DEF RestoreIsInterrupted
<1>4. CASE Restores(apps, etag)
  <2>1. apps \in Backups
    BY <1>4 DEF Restores, Accepts, ValidBackup
  <2> DEFINE written == PartlyWritten(apps, NumSlots + 1)
  <2>2. /\ written \in [bank : Banks, rows : [Banks -> Rows], seq : [Banks -> Sequences]]
        /\ written.rows[TargetBank] =
             [i \in Slots |-> IF i < NumSlots + 1 THEN NewRows(apps)[i]
                                                   ELSE nv.rows[TargetBank][i]]
    BY <1>0, <2>1, PartlyWrittenType
  <2>3. /\ NewRows(apps) \in Rows
        /\ \A i \in Slots : Used(NewRows(apps)[i]) =>
                              NewRows(apps)[i].sequence <= Base(apps) + Len(apps)
        /\ Base(apps) + Len(apps) \in Sequences
    BY <1>0, <2>1, NewRowsAreRows, BaseFits
  <2>4. \A i \in Slots : written.rows[TargetBank][i] = NewRows(apps)[i]
    BY <2>2, TableAssumption DEF Slots
  <2>5. TargetBank \in Banks
    BY <1>0 DEF TargetBank, TableTypeOK, Banks
  <2>6. /\ nv' = [written EXCEPT !.bank = TargetBank]
        /\ rows' = NewRows(apps) /\ dirty' = Clean /\ activeAppBank' = TargetBank
        /\ appSequence' = Base(apps) + Len(apps) /\ owner' = owner
    BY <1>4 DEF Restores
  <2> HIDE DEF written
  <2>7. TableTypeOK'
    BY <1>0, <2>2, <2>3, <2>5, <2>6 DEF TableTypeOK, Clean
  <2>8. nv'.bank = TargetBank /\ nv'.rows[TargetBank] = written.rows[TargetBank]
    BY <2>2, <2>6
  <2>9. CleanRowsAreStored' /\ DirtyRowsAreUsed' /\ RowsAreCounted'
    BY <2>3, <2>4, <2>6, <2>8 DEF CleanRowsAreStored, DirtyRowsAreUsed, RowsAreCounted, Clean
  <2> QED BY <2>7, <2>9 DEF IInv
<1> QED BY <1>1, <1>2, <1>3, <1>4

(* No step of the device or of Home Assistant breaks it.                    *)
LEMMA NextKeepsIInv == IInv /\ [Next]_vars => IInv'
<1> SUFFICES ASSUME IInv, [Next]_vars PROVE IInv'
  OBVIOUS
<1>0. ASSUME UNCHANGED table PROVE IInv'
  BY <1>0 DEF table, IInv, TableTypeOK, CleanRowsAreStored, DirtyRowsAreUsed, RowsAreCounted
<1>1. CASE UNCHANGED vars
  BY <1>0, <1>1 DEF vars
<1>2. ASSUME NEW v \in Values, NEW immediate \in BOOLEAN, NEW outcome \in Outcome,
             Learns(v, immediate, outcome)
      PROVE  IInv'
  BY <1>2, RememberKeepsIInv DEF Learns
<1>3. ASSUME NEW i \in Slots, NEW outcome \in Outcome, Saves(i, outcome)
      PROVE  IInv'
  BY <1>3, PersistKeepsIInv DEF Saves
<1>4. CASE LosesPower
  BY <1>4, RestartPreservesIInv DEF LosesPower
<1>5. CASE IsReplaced
  BY <1>5, EraseKeepsIInv DEF IsReplaced
<1>6. CASE GetBackup \/ RequestFails \/ SaveStore \/ Stops
  BY <1>0, <1>6 DEF GetBackup, RequestFails, SaveStore, Stops
<1>7. CASE PutBackup
  <2>1. NumSlots + 1 \in Nat
    BY TableAssumption
  <2>2. 0 \in 0..(NumSlots + 1)
    BY <2>1
  <2> QED BY <1>7, <2>2, RestoreKeepsIInv DEF PutBackup
<1>8. ASSUME NEW a \in AppIds, SendApp(a)
      PROVE  IInv'
  BY <1>8 DEF SendApp, Owns, IInv, TableTypeOK, CleanRowsAreStored, DirtyRowsAreUsed,
              RowsAreCounted
<1> QED BY <1>1, <1>2, <1>3, <1>4, <1>5, <1>6, <1>7, <1>8 DEF Next, Device, HomeAssistant

(* What the firmware believes to be saved is saved: a slot without its      *)
(* dirty mark reads back from NVS as it is in RAM, after any sequence of    *)
(* learned levels, evictions, failed writes, restores and power losses.     *)
THEOREM SavedIsSaved == Spec => []CleanRowsAreStored
<1>1. IInv => CleanRowsAreStored
  BY DEF IInv
<1> QED BY <1>1, InitIInv, NextKeepsIInv, PTL DEF Spec

-----------------------------------------------------------------------------
(* The refinement: the rows in RAM, and those the next restart loads.       *)
StoredRows == nv.rows[nv.bank]

LEMMA StoredType ==
  ASSUME IInv
  PROVE  StoredRows \in Rows /\ rows \in Rows /\ StoredRows = nv.rows[activeAppBank]
BY DEF IInv, TableTypeOK, CleanRowsAreStored, StoredRows

LEMMA SlotStoreInit == Init => Stored!Init
BY DEF Init, TableInit, EmptyNv, Stored!Init, Stored!Empty, Banks

(* A learned level changes one slot, saved or not; one that is known        *)
(* already can still save its slot.                                         *)
LEMMA RememberMaps ==
  ASSUME IInv, NEW v \in Values, NEW immediate \in BOOLEAN, NEW outcome \in Outcome,
         owner # NoApp, Remember(owner, v, immediate, outcome)
  PROVE  Stored!Next \/ UNCHANGED Stored!vars
<1>0. /\ owner \in AppIds /\ nv.bank = activeAppBank /\ TableTypeOK
      /\ StoredRows \in Rows /\ rows \in Rows /\ StoredRows = nv.rows[activeAppBank]
  BY StoredType DEF IInv, TableTypeOK, CleanRowsAreStored
<1> DEFINE seqOf(i) == NextSequence(i, owner, v)
           rowOf(i) == IF Holds(i, owner, v) THEN rows[i]
                       ELSE [app |-> owner, value |-> v, sequence |-> seqOf(i)]
           saves(i) == immediate /\ (dirty[i] \/ ~Holds(i, owner, v))
<1>1. PICK i \in Slots :
        /\ rows' = [rows EXCEPT ![i] = rowOf(i)]
        /\ nv' = IF saves(i) THEN Saved(i, rowOf(i), seqOf(i), outcome) ELSE nv
        /\ appSequence < MaxSequence
  BY DEF Remember
<1>2. seqOf(i) \in Sequences /\ (~Holds(i, owner, v) => seqOf(i) = appSequence + 1)
  BY <1>0, <1>1, TableAssumption DEF NextSequence, TableTypeOK, Sequences
<1>3. rowOf(i) \in Row
  <2>1. CASE Holds(i, owner, v)
    BY <2>1, <1>0, UsedRow DEF Holds, Rows
  <2>2. CASE ~Holds(i, owner, v)
    BY <2>2, <1>0, <1>2 DEF Row
  <2> QED BY <2>1, <2>2
<1>4. StoredRows' \in {StoredRows, [StoredRows EXCEPT ![i] = rowOf(i)]}
  <2>1. CASE saves(i)
    <3> DEFINE saved == Saved(i, rowOf(i), seqOf(i), outcome)
    <3>1. /\ saved.bank = nv.bank
          /\ saved.rows[activeAppBank] = IF outcome = "failed" THEN nv.rows[activeAppBank]
                                         ELSE [nv.rows[activeAppBank] EXCEPT ![i] = rowOf(i)]
      BY <1>0, <1>2, <1>3, SavedType
    <3>2. nv' = saved
      BY <1>1, <2>1
    <3> HIDE DEF saved
    <3> QED BY <1>0, <3>1, <3>2 DEF StoredRows
  <2>2. CASE ~saves(i)
    BY <1>1, <2>2 DEF StoredRows
  <2> QED BY <2>1, <2>2
<1>5. rows'[i] = rowOf(i)
  BY <1>0, <1>1 DEF Rows
<1>6. CASE Holds(i, owner, v)
  <2>1. rows' = rows
    BY <1>0, <1>1, <1>6 DEF Rows
  <2>2. rows[i] # NoRow
    BY <1>6 DEF Holds, Used, NoRow
  <2> QED BY <1>4, <1>5, <2>1, <2>2
          DEF Stored!Next, Stored!Save, Stored!SavedSlot, Stored!vars, StoredRows
<1>7. CASE ~Holds(i, owner, v)
  <2>1. rowOf(i).sequence = appSequence + 1
    BY <1>2, <1>7
  <2>2. rows[i] # NoRow => rows[i].sequence < rowOf(i).sequence
    <3> SUFFICES ASSUME rows[i] # NoRow
                 PROVE  rows[i].sequence < appSequence + 1
      BY <2>1
    <3>1. rows[i] \in Row
      BY <1>0 DEF Rows
    <3> QED BY <3>1, <1>0, UsedRow, TableAssumption
            DEF IInv, RowsAreCounted, Row, Sequences, TableTypeOK
  <2> HIDE DEF rowOf
  <2>3. Stored!Change(i)
    BY <1>1, <1>3, <1>4, <1>5, <2>2 DEF Stored!Change, Stored!SavedSlot, StoredRows
  <2> QED BY <2>3 DEF Stored!Next
<1> QED BY <1>6, <1>7

LEMMA PersistMaps ==
  ASSUME IInv, NEW i \in Slots, NEW outcome \in Outcome, Persist(i, outcome)
  PROVE  Stored!Next \/ UNCHANGED Stored!vars
<1>0. /\ nv.bank = activeAppBank /\ TableTypeOK
      /\ StoredRows \in Rows /\ rows \in Rows /\ StoredRows = nv.rows[activeAppBank]
  BY StoredType DEF IInv, CleanRowsAreStored
<1>1. rows[i] \in Row /\ appSequence \in Sequences /\ rows' = rows
  BY <1>0, UsedRow DEF Persist, TableTypeOK, Rows
<1> DEFINE saved == Saved(i, rows[i], appSequence, outcome)
<1>2. /\ saved.bank = nv.bank
      /\ saved.rows[activeAppBank] = IF outcome = "failed" THEN nv.rows[activeAppBank]
                                     ELSE [nv.rows[activeAppBank] EXCEPT ![i] = rows[i]]
  BY <1>0, <1>1, SavedType
<1>3. nv' = saved
  BY DEF Persist
<1> HIDE DEF saved
<1>4. StoredRows' \in {StoredRows, [StoredRows EXCEPT ![i] = rows[i]]}
  BY <1>0, <1>2, <1>3 DEF StoredRows
<1>5. rows[i] # NoRow
  BY <1>1, UsedRow DEF Used, NoRow, Persist
<1> QED BY <1>1, <1>4, <1>5
        DEF Stored!Next, Stored!Save, Stored!SavedSlot, Stored!vars, StoredRows

LEMMA RestartsWithMaps ==
  ASSUME NEW i \in Slots, NEW n, RestartsWith(n),
         n.rows[n.bank] \in {StoredRows, [StoredRows EXCEPT ![i] = rows[i]]}
  PROVE  Stored!Next
BY DEF RestartsWith, Loads, Stored!Next, Stored!Restart, StoredRows

LEMMA RestartMaps ==
  ASSUME IInv, Restart
  PROVE  Stored!Next
<1>0. /\ nv.bank = activeAppBank /\ TableTypeOK /\ rows \in Rows
      /\ StoredRows = nv.rows[activeAppBank]
  BY StoredType DEF IInv, CleanRowsAreStored
<1>1. CASE RestartsWith(nv)
  <2>1. 0 \in Slots
    BY TableAssumption DEF Slots
  <2> QED BY <1>1, <2>1, RestartsWithMaps DEF StoredRows
<1>2. ASSUME NEW i \in Slots, dirty[i], Used(rows[i]),
             RestartsWith(Saved(i, rows[i], appSequence, "unnumbered"))
      PROVE  Stored!Next
  <2>1. rows[i] \in Row /\ appSequence \in Sequences /\ "unnumbered" \in Outcome
    BY <1>0, <1>2, UsedRow DEF TableTypeOK, Rows, Outcome
  <2> DEFINE saved == Saved(i, rows[i], appSequence, "unnumbered")
  <2>2. saved.bank = nv.bank
        /\ saved.rows[activeAppBank] = [nv.rows[activeAppBank] EXCEPT ![i] = rows[i]]
    BY <1>0, <2>1, SavedType
  <2>3. RestartsWith(saved)
    BY <1>2
  <2> HIDE DEF saved
  <2> QED BY <1>0, <2>2, <2>3, RestartsWithMaps
<1> QED BY <1>1, <1>2 DEF Restart

LEMMA EraseMaps ==
  ASSUME Erase
  PROVE  Stored!Next
BY DEF Erase, RestartsWith, Loads, EmptyNv, Stored!Next, Stored!Erase, Stored!Empty, Banks

(* A restore: all of it, or nothing that a restart would load.              *)
LEMMA RestoreMaps ==
  ASSUME IInv, NEW apps, NEW etag, NEW done \in 0..(NumSlots + 1),
         \/ Refuses(apps, etag) \/ RestoreFails(apps, etag, done)
         \/ RestoreIsInterrupted(apps, etag, done) \/ Restores(apps, etag)
  PROVE  Stored!Next \/ UNCHANGED Stored!vars
<1>0. /\ TableTypeOK /\ nv.bank = activeAppBank
      /\ StoredRows \in Rows /\ rows \in Rows /\ StoredRows = nv.rows[activeAppBank]
      /\ done \in Int /\ NumSlots + 1 \in Int
  BY StoredType, TableAssumption DEF IInv, CleanRowsAreStored
<1>1. CASE Refuses(apps, etag)
  BY <1>1 DEF Refuses, table, Stored!vars
<1>2. ASSUME Accepts(apps, etag) PROVE apps \in Backups
  BY <1>2 DEF Accepts, ValidBackup
<1>3. CASE RestoreFails(apps, etag, done)
  <2>1. nv'.bank = nv.bank /\ nv'.rows[activeAppBank] = nv.rows[activeAppBank] /\ rows' = rows
    BY <1>0, <1>2, <1>3, PartlyWrittenType DEF RestoreFails
  <2> QED BY <1>0, <2>1 DEF Stored!vars
<1>4. CASE RestoreIsInterrupted(apps, etag, done)
  <2> DEFINE written == PartlyWritten(apps, done)
  <2>1. written.bank = nv.bank /\ written.rows[activeAppBank] = nv.rows[activeAppBank]
    BY <1>0, <1>2, <1>4, PartlyWrittenType DEF RestoreIsInterrupted
  <2>2. RestartsWith(written)
    BY <1>4 DEF RestoreIsInterrupted
  <2>3. 0 \in Slots
    BY TableAssumption DEF Slots
  <2> HIDE DEF written
  <2> QED BY <1>0, <2>1, <2>2, <2>3, RestartsWithMaps
<1>5. CASE Restores(apps, etag)
  <2>1. apps \in Backups /\ apps # <<>> /\ appTableEmpty
    BY <1>2, <1>5 DEF Restores, Accepts
  <2>2. rows = Stored!Empty
    <3>1. \A i \in Slots : rows[i] = NoRow
      BY <2>1, <1>0, UsedRow DEF appTableEmpty, UsedSlots, Rows
    <3> QED BY <3>1, <1>0 DEF Stored!Empty, Rows
  <2>3. StoredRows = Stored!Empty
    <3>1. \A i \in Slots : StoredRows[i] = NoRow
      <4> TAKE i \in Slots
      <4>1. rows[i] = NoRow
        BY <2>2 DEF Stored!Empty
      <4>2. ~dirty[i]
        BY <4>1 DEF IInv, DirtyRowsAreUsed, Used, NoRow
      <4> QED BY <4>1, <4>2 DEF IInv, CleanRowsAreStored, StoredRows
    <3> QED BY <3>1, <1>0 DEF Stored!Empty, Rows
  <2>4. rows' = NewRows(apps) /\ StoredRows' = NewRows(apps)
    <3> DEFINE written == PartlyWritten(apps, NumSlots + 1)
    <3>1. /\ written \in [bank : Banks, rows : [Banks -> Rows], seq : [Banks -> Sequences]]
          /\ written.rows[TargetBank] =
               [i \in Slots |-> IF i < NumSlots + 1 THEN NewRows(apps)[i]
                                                     ELSE nv.rows[TargetBank][i]]
      BY <1>0, <2>1, PartlyWrittenType
    <3>2. nv' = [written EXCEPT !.bank = TargetBank] /\ rows' = NewRows(apps)
      BY <1>5 DEF Restores
    <3>3. \A i \in Slots : i < NumSlots + 1
      BY TableAssumption DEF Slots
    <3> HIDE DEF written
    <3>4. StoredRows' = written.rows[TargetBank]
      BY <3>1, <3>2 DEF StoredRows
    <3>5. written.rows[TargetBank] = NewRows(apps)
      BY <3>1, <3>3 DEF NewRows
    <3> QED BY <3>2, <3>4, <3>5
  <2>5. Len(apps) \in 1..NumSlots
    <3>1. PICK n \in 0..NumSlots : apps \in [1..n -> Entry]
      BY <2>1 DEF Backups
    <3>2. apps \in Seq(Entry)
      BY <3>1, SeqDef
    <3>3. Len(apps) # 0
      BY <2>1, <3>2, EmptySeq
    <3> QED BY <2>1, <3>3, BackupLength, TableAssumption
  <2>6. Len(apps) - 1 \in Slots
    BY <2>5, TableAssumption DEF Slots
  <2>7. Base(apps) \in 0..MaxSequence
    BY <1>0, <2>1, BaseFits DEF Sequences
  <2>8. \A i \in Slots :
          IF i <= Len(apps) - 1
          THEN NewRows(apps)[i] \in Row /\ NewRows(apps)[i].sequence = Base(apps) + i + 1
          ELSE NewRows(apps)[i] = NoRow
    <3> TAKE i \in Slots
    <3>1. i \in Nat /\ (i < Len(apps) <=> i <= Len(apps) - 1)
      BY <2>5, TableAssumption DEF Slots
    <3>2. NewRows(apps)[i] \in Row \cup {NoRow}
      BY <1>0, <2>1, NewRowsAreRows DEF Rows
    <3>3. CASE i < Len(apps)
      <4>1. NewRows(apps)[i] = [app |-> apps[i + 1].app, value |-> apps[i + 1].value,
                                sequence |-> Base(apps) + i + 1]
        BY <3>3 DEF NewRows
      <4>2. apps[i + 1] \in Entry
        BY <3>3, <2>1, BackupLength
      <4>3. NewRows(apps)[i] \in Row
        BY <4>1, <4>2, <3>2, UsedRow, TableAssumption DEF Used, Entry
      <4> QED BY <3>1, <3>3, <4>1, <4>3
    <3>4. CASE ~(i < Len(apps))
      BY <3>1, <3>4 DEF NewRows
    <3> QED BY <3>3, <3>4
  <2>9. Stored!RestoreAll
    BY <2>2, <2>3, <2>4, <2>6, <2>7, <2>8 DEF Stored!RestoreAll, StoredRows
  <2> QED BY <2>9 DEF Stored!Next
<1> QED BY <1>1, <1>3, <1>4, <1>5

(* Every step of the device or of Home Assistant is a step of SlotStore, or *)
(* none.                                                                    *)
LEMMA NextMaps == IInv /\ [Next]_vars => [Stored!Next]_(Stored!vars)
<1> SUFFICES ASSUME IInv, [Next]_vars
             PROVE  Stored!Next \/ UNCHANGED Stored!vars
  OBVIOUS
<1>0. ASSUME UNCHANGED table PROVE UNCHANGED Stored!vars
  BY <1>0 DEF table, Stored!vars
<1>1. CASE UNCHANGED vars
  BY <1>0, <1>1 DEF vars
<1>2. ASSUME NEW v \in Values, NEW immediate \in BOOLEAN, NEW outcome \in Outcome,
             Learns(v, immediate, outcome)
      PROVE  Stored!Next \/ UNCHANGED Stored!vars
  BY <1>2, RememberMaps DEF Learns
<1>3. ASSUME NEW i \in Slots, NEW outcome \in Outcome, Saves(i, outcome)
      PROVE  Stored!Next \/ UNCHANGED Stored!vars
  BY <1>3, PersistMaps DEF Saves
<1>4. CASE LosesPower
  BY <1>4, RestartMaps DEF LosesPower
<1>5. CASE IsReplaced
  BY <1>5, EraseMaps DEF IsReplaced
<1>6. CASE GetBackup \/ RequestFails \/ SaveStore \/ Stops
  BY <1>0, <1>6 DEF GetBackup, RequestFails, SaveStore, Stops
<1>7. CASE PutBackup
  <2>1. NumSlots + 1 \in Nat
    BY TableAssumption
  <2>2. 0 \in 0..(NumSlots + 1)
    BY <2>1
  <2> QED BY <1>7, <2>2, RestoreMaps DEF PutBackup
<1>8. ASSUME NEW a \in AppIds, SendApp(a)
      PROVE  Stored!Next \/ UNCHANGED Stored!vars
  BY <1>8 DEF SendApp, Owns, Stored!vars
<1> QED BY <1>1, <1>2, <1>3, <1>4, <1>5, <1>6, <1>7, <1>8 DEF Next, Device, HomeAssistant

(* The table in its two banks behaves as one table that is saved slot by    *)
(* slot and restored at once: no failed write and no power loss in the      *)
(* middle of a restore leaves anything of the backup behind.                *)
THEOREM TableIsSlotStore == Spec => RestoreIsAtomic
BY InitIInv, NextKeepsIInv, SlotStoreInit, NextMaps, PTL DEF Spec, RestoreIsAtomic, Stored!Spec
-----------------------------------------------------------------------------
(* The relay in Home Assistant: a save that is due writes what the relay    *)
(* holds, and none is due before the backup was loaded.                     *)
PendingIsStored ==
  /\ ha \in Relay
  /\ ha.pending # <<>> => ha.loaded /\ ha.pending = ha.stored

RelayInv == PendingIsStored /\ UnsavedIsPending

(* A relay that begins has nothing to save.                                 *)
LEMMA NewRelayKeeps ==
  ASSUME NEW disk \in Backups, ha' = NewRelay(disk)
  PROVE  RelayInv'
<1>1. <<>> \in Backups
  <2>1. <<>> \in [1..0 -> Entry] /\ 0 \in 0..NumSlots
    BY TableAssumption
  <2> QED BY <2>1 DEF Backups
<1> QED BY <1>1 DEF NewRelay, Relay, RelayInv, PendingIsStored, UnsavedIsPending

LEMMA InitRelay == Init => RelayInv
<1>1. ASSUME NEW disk \in InitBackups, ha = NewRelay(disk)
      PROVE  RelayInv
  <2>1. disk \in Backups /\ <<>> \in Backups
    <3>1. <<>> \in [1..0 -> Entry] /\ 0 \in 0..NumSlots
      BY TableAssumption
    <3> QED BY <3>1, SyncAssumption DEF Backups
  <2> QED BY <1>1, <2>1 DEF NewRelay, Relay, RelayInv, PendingIsStored, UnsavedIsPending
<1> QED BY <1>1 DEF Init

(* What was read is stored at once; what was stored before is never saved   *)
(* over it.                                                                 *)
LEMMA GetKeepsRelay ==
  ASSUME RelayInv, TableTypeOK, GetBackup
  PROVE  RelayInv'
<1>0. ha \in Relay /\ Backup \in Backups /\ backupEtag \in Nat
  BY TableAssumption
     DEF RelayInv, PendingIsStored, Relay, Backup, backupEtag, TableTypeOK, Sequences
<1>1. ASSUME ValidBackup(Snapshot), Snapshot # <<>>, ha' = Mirror(Snapshot)
      PROVE  RelayInv'
  <2> DEFINE apps == Snapshot
  <2>1. apps \in Backups /\ apps # <<>>
    BY <1>1 DEF ValidBackup
  <2> HIDE DEF apps
  <2>2. ha' = [ha EXCEPT !.next = "send", !.loaded = TRUE, !.stored = apps,
                         !.pending = IF apps # Backup THEN apps ELSE ha.pending]
    BY <1>1 DEF Mirror, DelaySave, apps
  <2>3. /\ ha' \in Relay /\ ha'.loaded /\ ha'.stored = apps /\ ha'.disk = ha.disk
        /\ ha'.pending = IF apps # Backup THEN apps ELSE ha.pending
    BY <1>0, <2>1, <2>2 DEF Relay
  <2>4. CASE apps # Backup
    BY <2>1, <2>3, <2>4 DEF RelayInv, PendingIsStored, UnsavedIsPending
  <2>5. CASE apps = Backup
    BY <2>1, <2>3, <2>5 DEF RelayInv, PendingIsStored, UnsavedIsPending, Backup
  <2> QED BY <2>4, <2>5
<1>2. ASSUME NEW next \in {"put", "send"}, NEW etag \in Nat,
             ha' = [ha EXCEPT !.next = next, !.loaded = TRUE, !.stored = Backup, !.etag = etag]
      PROVE  RelayInv'
  <2>1. /\ ha' \in Relay /\ ha'.loaded /\ ha'.stored = Backup /\ ha'.disk = ha.disk
        /\ ha'.pending = ha.pending
    BY <1>0, <1>2 DEF Relay
  <2> QED BY <2>1 DEF RelayInv, PendingIsStored, UnsavedIsPending, Backup
<1>3. CASE Snapshot = <<>> /\ Backup # <<>> /\
           ha' = [ha EXCEPT !.next = "put", !.loaded = TRUE, !.stored = Backup,
                            !.etag = backupEtag]
  BY <1>0, <1>2, <1>3
<1>4. CASE ha' = [ha EXCEPT !.next = "send", !.loaded = TRUE, !.stored = Backup]
  <2>1. /\ ha' \in Relay /\ ha'.loaded /\ ha'.stored = Backup /\ ha'.disk = ha.disk
        /\ ha'.pending = ha.pending
    BY <1>0, <1>4 DEF Relay
  <2> QED BY <2>1 DEF RelayInv, PendingIsStored, UnsavedIsPending, Backup
<1> QED BY <1>1, <1>3, <1>4 DEF GetBackup, ReadsBackup

(* Requests that fail, that are answered, and the claim that follows.       *)
LEMMA RequestsKeepRelay ==
  ASSUME RelayInv,
         PutBackup \/ RequestFails \/ (\E a \in AppIds : SendApp(a))
  PROVE  RelayInv'
<1>0. ha \in Relay /\ Backup \in Backups
  BY DEF RelayInv, PendingIsStored, Relay, Backup
<1>1. CASE PutBackup
  <2>1. ha' = [ha EXCEPT !.next = "send", !.etag = 0]
    BY <1>1 DEF PutBackup
  <2>2. /\ ha' \in Relay /\ ha'.loaded = ha.loaded /\ ha'.stored = ha.stored
        /\ ha'.disk = ha.disk /\ ha'.pending = ha.pending
    BY <1>0, <2>1 DEF Relay
  <2> QED BY <2>2 DEF RelayInv, PendingIsStored, UnsavedIsPending
<1>2. CASE RequestFails
  <2>1. ha' = [ha EXCEPT !.next = "send", !.loaded = TRUE, !.stored = Backup, !.etag = 0]
    BY <1>2 DEF RequestFails
  <2>2. /\ ha' \in Relay /\ ha'.loaded /\ ha'.stored = Backup /\ ha'.disk = ha.disk
        /\ ha'.pending = ha.pending
    BY <1>0, <2>1 DEF Relay
  <2> QED BY <2>2 DEF RelayInv, PendingIsStored, UnsavedIsPending, Backup
<1>3. ASSUME NEW a \in AppIds, SendApp(a) PROVE RelayInv'
  <2>1. PICK next \in {"get", "send"} : ha' = [ha EXCEPT !.next = next]
    BY <1>3 DEF SendApp
  <2>2. /\ ha' \in Relay /\ ha'.loaded = ha.loaded /\ ha'.stored = ha.stored
        /\ ha'.disk = ha.disk /\ ha'.pending = ha.pending
    BY <1>0, <2>1 DEF Relay
  <2> QED BY <2>2 DEF RelayInv, PendingIsStored, UnsavedIsPending
<1> QED BY <1>1, <1>2, <1>3

(* The delayed save, and a relay that begins anew.                          *)
LEMMA StoreKeepsRelay ==
  ASSUME RelayInv, SaveStore \/ Stops \/ IsReplaced
  PROVE  RelayInv'
<1>0. ha \in Relay /\ ha.disk \in Backups /\ ha.pending \in Backups
  BY DEF RelayInv, PendingIsStored, Relay
<1>1. CASE SaveStore
  <2>1. ha' = [ha EXCEPT !.disk = ha.pending, !.pending = <<>>] /\ ha.pending # <<>>
    BY <1>1 DEF SaveStore
  <2>2. <<>> \in Backups
    <3>1. <<>> \in [1..0 -> Entry] /\ 0 \in 0..NumSlots
      BY TableAssumption
    <3> QED BY <3>1 DEF Backups
  <2>3. /\ ha' \in Relay /\ ha'.loaded = ha.loaded /\ ha'.stored = ha.stored
        /\ ha'.disk = ha.pending /\ ha'.pending = <<>>
    BY <1>0, <2>1, <2>2 DEF Relay
  <2> QED BY <2>1, <2>3 DEF RelayInv, PendingIsStored, UnsavedIsPending
<1>2. CASE Stops
  BY <1>0, <1>2, NewRelayKeeps DEF Stops
<1>3. CASE IsReplaced
  BY <1>0, <1>3, NewRelayKeeps DEF IsReplaced
<1> QED BY <1>1, <1>2, <1>3

LEMMA NextKeepsRelay == IInv /\ RelayInv /\ [Next]_vars => RelayInv'
<1> SUFFICES ASSUME IInv, RelayInv, [Next]_vars PROVE RelayInv'
  OBVIOUS
<1>0. ASSUME UNCHANGED ha PROVE RelayInv'
  BY <1>0 DEF RelayInv, PendingIsStored, UnsavedIsPending
<1>1. CASE UNCHANGED vars
  BY <1>0, <1>1 DEF vars
<1>2. CASE Device
  <2>1. UNCHANGED ha \/ IsReplaced
    BY <1>2 DEF Device, Learns, Saves, LosesPower
  <2> QED BY <1>0, <2>1, StoreKeepsRelay
<1>3. CASE HomeAssistant
  BY <1>3, GetKeepsRelay, RequestsKeepRelay, StoreKeepsRelay DEF HomeAssistant, IInv
<1> QED BY <1>1, <1>2, <1>3 DEF Next

(* What the relay holds of the table is on disk or will be saved, however   *)
(* snapshots, requests that fail, restores and restarts interleave with the *)
(* delayed save.                                                            *)
THEOREM UnsavedIsSavedLater == Spec => []UnsavedIsPending
<1>1. RelayInv => UnsavedIsPending
  BY DEF RelayInv
<1> QED BY <1>1, InitIInv, NextKeepsIInv, InitRelay, NextKeepsRelay, PTL DEF Spec

-----------------------------------------------------------------------------
(* The revision.  A restore starts from an empty table, and that one is at  *)
(* revision 0: a bank without a row was never numbered.                     *)
StoredIsNumbered(n) == (\A i \in Slots : ~Used(n.rows[n.bank][i])) => n.seq[n.bank] = 0
EmptyIsUnnumbered == (appTableEmpty => appSequence = 0) /\ StoredIsNumbered(nv)

(* What GET /api/backup answers follows from the rows.                      *)
LEMMA SnapshotIsOfRows ==
  ASSUME rows' = rows
  PROVE  Snapshot' = Snapshot /\ (appTableEmpty' <=> appTableEmpty)
BY DEF Snapshot, Position, UsedSlots, Used, appTableEmpty

LEMMA InitNumbered == Init => EmptyIsUnnumbered
BY DEF Init, TableInit, EmptyNv, EmptyIsUnnumbered, StoredIsNumbered, Banks

LEMMA RestartKeepsNumbered ==
  ASSUME NEW n, StoredIsNumbered(n), RestartsWith(n)
  PROVE  EmptyIsUnnumbered'
<1>1. nv' = n /\ rows' = n.rows[n.bank] /\ IsLargest(appSequence', n)
  BY DEF RestartsWith, Loads
<1>2. ASSUME appTableEmpty' PROVE appSequence' = 0
  <2>1. \A i \in Slots : ~Used(n.rows[n.bank][i])
    BY <1>1, <1>2 DEF appTableEmpty, UsedSlots, Used
  <2>2. appSequence' = n.seq[n.bank]
    BY <1>1, <2>1 DEF IsLargest
  <2> QED BY <2>1, <2>2 DEF StoredIsNumbered
<1>3. StoredIsNumbered(nv)'
  BY <1>1 DEF StoredIsNumbered, Used
<1> QED BY <1>2, <1>3 DEF EmptyIsUnnumbered

(* A number is written after the row it counts.                             *)
LEMMA SavedIsNumbered ==
  ASSUME TableTypeOK, nv.bank = activeAppBank, StoredIsNumbered(nv), NEW i \in Slots,
         NEW row \in Row, NEW sequence \in Sequences, NEW outcome \in Outcome
  PROVE  StoredIsNumbered(Saved(i, row, sequence, outcome))
<1> DEFINE saved == Saved(i, row, sequence, outcome)
<1>1. /\ saved.bank = nv.bank
      /\ saved.rows[activeAppBank] = IF outcome = "failed" THEN nv.rows[activeAppBank]
                                     ELSE [nv.rows[activeAppBank] EXCEPT ![i] = row]
  BY SavedType
<1>2. CASE outcome = "failed"
  <2>1. saved.seq[activeAppBank] = nv.seq[activeAppBank]
    BY <1>2 DEF Saved, TableTypeOK
  <2> HIDE DEF saved
  <2>2. StoredIsNumbered(saved)
    BY <1>1, <1>2, <2>1 DEF StoredIsNumbered
  <2> QED BY <2>2 DEF saved
<1>3. CASE outcome # "failed"
  <2>1. nv.rows[activeAppBank] \in [Slots -> Row \cup {NoRow}]
    BY DEF TableTypeOK, Rows
  <2> HIDE DEF saved
  <2>2. saved.rows[saved.bank][i] = row
    BY <1>1, <1>3, <2>1
  <2>3. StoredIsNumbered(saved)
    BY <2>2, UsedRow DEF StoredIsNumbered
  <2> QED BY <2>3 DEF saved
<1> QED BY <1>2, <1>3

(* A half-written restore numbers the bank that is not in use.              *)
LEMMA PartlyWrittenIsNumbered ==
  ASSUME TableTypeOK, nv.bank = activeAppBank, StoredIsNumbered(nv),
         NEW apps \in Backups, NEW done \in Int
  PROVE  StoredIsNumbered(PartlyWritten(apps, done))
<1> DEFINE written == PartlyWritten(apps, done)
<1>1. written.bank = nv.bank /\ written.rows[activeAppBank] = nv.rows[activeAppBank]
  BY PartlyWrittenType
<1>2. TargetBank # activeAppBank /\ activeAppBank \in Banks
  BY DEF TargetBank, TableTypeOK, Banks
<1>3. written.seq[activeAppBank] = nv.seq[activeAppBank]
  BY <1>2 DEF PartlyWritten, TableTypeOK
<1> HIDE DEF written
<1>4. StoredIsNumbered(written)
  BY <1>1, <1>3 DEF StoredIsNumbered
<1> QED BY <1>4 DEF written

(* A level that is learned is counted or changes nothing.                   *)
LEMMA RememberIsCounted ==
  ASSUME IInv, EmptyIsUnnumbered, NEW v \in Values, NEW immediate \in BOOLEAN,
         NEW outcome \in Outcome, owner # NoApp, Remember(owner, v, immediate, outcome)
  PROVE  EmptyIsUnnumbered' /\ (rows' = rows \/ appSequence' # appSequence)
<1>0. owner \in AppIds /\ nv.bank = activeAppBank /\ TableTypeOK /\ rows \in Rows
  BY DEF IInv, TableTypeOK, CleanRowsAreStored
<1> DEFINE seqOf(i) == NextSequence(i, owner, v)
           rowOf(i) == IF Holds(i, owner, v) THEN rows[i]
                       ELSE [app |-> owner, value |-> v, sequence |-> seqOf(i)]
           saves(i) == immediate /\ (dirty[i] \/ ~Holds(i, owner, v))
<1>1. PICK i \in Slots :
        /\ rows' = [rows EXCEPT ![i] = rowOf(i)]
        /\ appSequence' = seqOf(i)
        /\ nv' = IF saves(i) THEN Saved(i, rowOf(i), seqOf(i), outcome) ELSE nv
        /\ appSequence < MaxSequence
  BY DEF Remember
<1>2. seqOf(i) \in Sequences /\ (~Holds(i, owner, v) => seqOf(i) = appSequence + 1)
  BY <1>0, <1>1, TableAssumption DEF NextSequence, TableTypeOK, Sequences
<1>3. rowOf(i) \in Row
  <2>1. CASE Holds(i, owner, v)
    BY <2>1, <1>0, UsedRow DEF Holds, Rows
  <2>2. CASE ~Holds(i, owner, v)
    BY <2>2, <1>0, <1>2 DEF Row
  <2> QED BY <2>1, <2>2
<1>4. StoredIsNumbered(nv')
  <2>1. StoredIsNumbered(Saved(i, rowOf(i), seqOf(i), outcome))
    BY <1>0, <1>2, <1>3, SavedIsNumbered DEF EmptyIsUnnumbered
  <2> QED BY <1>1, <2>1 DEF EmptyIsUnnumbered
<1>5. ~appTableEmpty'
  <2>1. rows'[i] = rowOf(i)
    BY <1>0, <1>1 DEF Rows
  <2>2. Used(rows'[i])
    BY <1>3, <2>1, UsedRow
  <2> QED BY <2>2 DEF appTableEmpty, UsedSlots, Used
<1>6. EmptyIsUnnumbered'
  BY <1>4, <1>5 DEF EmptyIsUnnumbered, StoredIsNumbered, Used
<1>7. CASE Holds(i, owner, v)
  BY <1>0, <1>1, <1>6, <1>7 DEF Rows
<1>8. CASE ~Holds(i, owner, v)
  <2>1. appSequence \in Nat /\ appSequence' = appSequence + 1
    BY <1>0, <1>1, <1>2, <1>8, TableAssumption DEF TableTypeOK, Sequences
  <2> QED BY <1>6, <2>1
<1> QED BY <1>7, <1>8

(* A restore gives the empty table as many numbers as the backup has rows.  *)
LEMMA RestoreIsCounted ==
  ASSUME IInv, EmptyIsUnnumbered, NEW apps, NEW etag, NEW done \in 0..(NumSlots + 1),
         \/ Refuses(apps, etag) \/ RestoreFails(apps, etag, done)
         \/ RestoreIsInterrupted(apps, etag, done) \/ Restores(apps, etag)
  PROVE  /\ EmptyIsUnnumbered'
         /\ rows' = rows \/ appSequence' # appSequence \/ owner' = NoApp
<1>0. /\ TableTypeOK /\ nv.bank = activeAppBank /\ StoredIsNumbered(nv)
      /\ done \in Int /\ NumSlots + 1 \in Int
  BY TableAssumption DEF IInv, CleanRowsAreStored, EmptyIsUnnumbered
<1>1. CASE Refuses(apps, etag)
  BY <1>1 DEF Refuses, table, EmptyIsUnnumbered, StoredIsNumbered, appTableEmpty, UsedSlots, Used
<1>2. ASSUME Accepts(apps, etag) PROVE apps \in Backups
  BY <1>2 DEF Accepts, ValidBackup
<1>3. CASE RestoreFails(apps, etag, done)
  <2>1. StoredIsNumbered(nv') /\ rows' = rows /\ appSequence' = appSequence
    BY <1>0, <1>2, <1>3, PartlyWrittenIsNumbered DEF RestoreFails
  <2> QED BY <2>1, SnapshotIsOfRows DEF EmptyIsUnnumbered, StoredIsNumbered, Used
<1>4. CASE RestoreIsInterrupted(apps, etag, done)
  <2>1. StoredIsNumbered(PartlyWritten(apps, done))
    BY <1>0, <1>2, <1>4, PartlyWrittenIsNumbered DEF RestoreIsInterrupted
  <2>2. RestartsWith(PartlyWritten(apps, done)) /\ owner' = NoApp
    BY <1>4 DEF RestoreIsInterrupted, RestartsWith, Loads
  <2> QED BY <2>1, <2>2, RestartKeepsNumbered
<1>5. CASE Restores(apps, etag)
  <2>1. apps \in Backups /\ apps # <<>> /\ appSequence = 0
    BY <1>2, <1>5 DEF Restores, Accepts, EmptyIsUnnumbered
  <2>2. Len(apps) \in 1..NumSlots
    <3>1. PICK n \in 0..NumSlots : apps \in [1..n -> Entry]
      BY <2>1 DEF Backups
    <3>2. apps \in Seq(Entry)
      BY <3>1, SeqDef
    <3>3. Len(apps) # 0
      BY <2>1, <3>2, EmptySeq
    <3> QED BY <2>1, <3>3, BackupLength, TableAssumption
  <2>3. appSequence' # appSequence
    <3>1. Base(apps) = 0
      BY <2>1, <2>2, TableAssumption DEF Base
    <3>2. appSequence' = 0 + Len(apps)
      BY <1>5, <3>1 DEF Restores
    <3> QED BY <2>1, <2>2, <3>2, TableAssumption
  <2>4. 0 \in Slots /\ Used(NewRows(apps)[0])
    <3>1. 0 \in Slots /\ 0 < Len(apps) /\ apps[0 + 1] \in Entry
      BY <2>1, <2>2, BackupLength, TableAssumption DEF Slots
    <3>2. NewRows(apps)[0].app = apps[0 + 1].app
      BY <3>1 DEF NewRows
    <3> QED BY <3>1, <3>2, TableAssumption DEF Used, Entry
  <2>5. ~appTableEmpty'
    BY <1>5, <2>4 DEF Restores, appTableEmpty, UsedSlots, Used
  <2>6. StoredIsNumbered(nv')
    <3> DEFINE written == PartlyWritten(apps, NumSlots + 1)
    <3>1. /\ written \in [bank : Banks, rows : [Banks -> Rows], seq : [Banks -> Sequences]]
          /\ written.rows[TargetBank] =
               [i \in Slots |-> IF i < NumSlots + 1 THEN NewRows(apps)[i]
                                                     ELSE nv.rows[TargetBank][i]]
      BY <1>0, <2>1, PartlyWrittenType
    <3>2. nv' = [written EXCEPT !.bank = TargetBank]
      BY <1>5 DEF Restores
    <3>3. 0 < NumSlots + 1
      BY TableAssumption
    <3> HIDE DEF written
    <3>4. nv'.rows[nv'.bank][0] = NewRows(apps)[0]
      BY <2>4, <3>1, <3>2, <3>3
    <3> QED BY <2>4, <3>4 DEF StoredIsNumbered
  <2> QED BY <2>3, <2>5, <2>6 DEF EmptyIsUnnumbered, StoredIsNumbered, Used
<1> QED BY <1>1, <1>3, <1>4, <1>5

(* A step leaves the rows alone, counts, or starts the device anew.         *)
LEMMA StepIsCounted ==
  ASSUME IInv, EmptyIsUnnumbered, [Next]_vars
  PROVE  /\ EmptyIsUnnumbered'
         /\ rows' = rows \/ appSequence' # appSequence \/ owner' = NoApp
<1> DEFINE Goal == /\ EmptyIsUnnumbered'
                   /\ rows' = rows \/ appSequence' # appSequence \/ owner' = NoApp
<1> SUFFICES Goal
  OBVIOUS
<1>0. ASSUME rows' = rows, appSequence' = appSequence, StoredIsNumbered(nv')
      PROVE  Goal
  BY <1>0, SnapshotIsOfRows DEF EmptyIsUnnumbered, StoredIsNumbered, Used
<1>1. /\ TableTypeOK /\ nv.bank = activeAppBank /\ StoredIsNumbered(nv)
      /\ rows \in Rows /\ appSequence \in Sequences
  BY DEF IInv, CleanRowsAreStored, EmptyIsUnnumbered, TableTypeOK
<1>2. ASSUME UNCHANGED table PROVE Goal
  BY <1>0, <1>1, <1>2 DEF table
<1>3. CASE UNCHANGED vars
  BY <1>2, <1>3 DEF vars
<1>4. ASSUME NEW v \in Values, NEW immediate \in BOOLEAN, NEW outcome \in Outcome,
             Learns(v, immediate, outcome)
      PROVE  Goal
  BY <1>4, RememberIsCounted DEF Learns
<1>5. ASSUME NEW i \in Slots, NEW outcome \in Outcome, Saves(i, outcome)
      PROVE  Goal
  <2>1. rows[i] \in Row /\ Persist(i, outcome)
    BY <1>1, <1>5, UsedRow DEF Saves, Persist, Rows
  <2>2. /\ StoredIsNumbered(Saved(i, rows[i], appSequence, outcome))
        /\ nv' = Saved(i, rows[i], appSequence, outcome)
        /\ rows' = rows /\ appSequence' = appSequence
    BY <1>1, <2>1, SavedIsNumbered DEF Persist
  <2> HIDE DEF Goal
  <2> QED BY <1>0, <2>2
<1>6. ASSUME NEW n, StoredIsNumbered(n), RestartsWith(n) PROVE Goal
  BY <1>6, RestartKeepsNumbered DEF RestartsWith, Loads
<1>7. CASE LosesPower
  <2>1. CASE RestartsWith(nv)
    BY <1>1, <1>6, <2>1
  <2>2. ASSUME NEW i \in Slots, dirty[i], Used(rows[i]),
               RestartsWith(Saved(i, rows[i], appSequence, "unnumbered"))
        PROVE  Goal
    <3>1. rows[i] \in Row /\ "unnumbered" \in Outcome
      BY <1>1, <2>2, UsedRow DEF Rows, Outcome
    <3>2. StoredIsNumbered(Saved(i, rows[i], appSequence, "unnumbered"))
      BY <1>1, <3>1, SavedIsNumbered
    <3> QED BY <1>6, <2>2, <3>2
  <2> HIDE DEF Goal
  <2> QED BY <1>7, <2>1, <2>2 DEF LosesPower, Restart
<1>8. CASE IsReplaced
  <2>1. StoredIsNumbered(EmptyNv)
    BY DEF StoredIsNumbered, EmptyNv, Banks
  <2> HIDE DEF Goal
  <2> QED BY <1>6, <1>8, <2>1 DEF IsReplaced, Erase
<1>9. CASE GetBackup \/ RequestFails \/ SaveStore \/ Stops
  <2> HIDE DEF Goal
  <2> QED BY <1>2, <1>9 DEF GetBackup, RequestFails, SaveStore, Stops
<1>10. CASE PutBackup
  <2>1. NumSlots + 1 \in Nat
    BY TableAssumption
  <2>2. 0 \in 0..(NumSlots + 1)
    BY <2>1
  <2> QED BY <1>10, <2>2, RestoreIsCounted DEF PutBackup
<1>11. ASSUME NEW a \in AppIds, SendApp(a) PROVE Goal
  <2> HIDE DEF Goal
  <2> QED BY <1>0, <1>1, <1>11 DEF SendApp, Owns
<1> HIDE DEF Goal
<1> QED BY <1>3, <1>4, <1>5, <1>7, <1>8, <1>9, <1>10, <1>11 DEF Next, Device, HomeAssistant

LEMMA StepKeepsNumbered == IInv /\ EmptyIsUnnumbered /\ [Next]_vars => EmptyIsUnnumbered'
BY StepIsCounted

LEMMA StepTellsTables ==
  IInv /\ EmptyIsUnnumbered /\ [Next]_vars
    => [Snapshot' = Snapshot \/ appSequence' # appSequence \/ owner' = NoApp]_vars
BY StepIsCounted, SnapshotIsOfRows

(* A revision names one table: what GET /api/backup answers changes only    *)
(* together with the revision, or when the device starts anew, through      *)
(* evictions, failed writes, half-written restores and power losses.        *)
THEOREM RevisionsTell == Spec => RevisionTellsTables
BY InitIInv, NextKeepsIInv, InitNumbered, StepKeepsNumbered, StepTellsTables, PTL
   DEF Spec, RevisionTellsTables
=============================================================================
