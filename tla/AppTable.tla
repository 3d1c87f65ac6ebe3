------------------------------ MODULE AppTable ------------------------------
(***************************************************************************)
(* The table of app volumes of the ESP32 (src/src/main.cpp): its slots in  *)
(* RAM, their delayed saves to NVS, the two banks of NVS rows and the      *)
(* restore of a backup into the bank that is not in use.                   *)
(*                                                                         *)
(* A value is what a row remembers of an app, its name and its level: a    *)
(* rename and a new level do the same to the table.  Which of them comes   *)
(* when is left open; Firmware and Controller decide it.                   *)
(***************************************************************************)
EXTENDS Integers, Sequences, FiniteSets

CONSTANTS
  AppIds, NoApp,  \* well-formed application identities; the empty identity
  Values,         \* what a row remembers of an app
  NumSlots,       \* kMaxApps, 16 in the code
  MaxSequence     \* UINT32_MAX in the code; no change is made beyond it

ASSUME TableAssumption ==
  /\ NoApp \notin AppIds
  /\ NumSlots \in Nat \ {0}
  /\ MaxSequence \in Nat \ {0}
  /\ NumSlots <= MaxSequence

Slots == 0..(NumSlots - 1)
Banks == {0, 1}
Sequences == 0..MaxSequence

Row == [app : AppIds, value : Values, sequence : Sequences]
NoRow == [app |-> NoApp]
Rows == [Slots -> Row \cup {NoRow}]
Used(row) == row.app # NoApp

(* A backup is a list of entries without slots or sequence numbers.         *)
Entry == [app : AppIds, value : Values]
Backups == UNION {[1..n -> Entry] : n \in 0..NumSlots}
ValidBackup(apps) ==
  /\ apps \in Backups
  /\ \A p, q \in DOMAIN apps : apps[p].app = apps[q].app => p = q

VARIABLES
  rows, dirty,   \* appVolumes, appDirty
  appSequence,
  activeAppBank,
  nv,            \* the keys app_bank; appNN, bakNN; app_seq, bak_seq
  owner          \* currentAppId

table == <<rows, dirty, appSequence, activeAppBank, nv, owner>>

EmptyNv == [bank |-> 0, rows |-> [b \in Banks |-> [i \in Slots |-> NoRow]],
            seq |-> [b \in Banks |-> 0]]

Clean == [i \in Slots |-> FALSE]

(* What loadAppVolumes() makes of NVS: the sequence goes on from the        *)
(* largest number found, as app_seq is written after the row, unchecked.    *)
IsLargest(s, n) ==
  LET found == {n.seq[n.bank]} \cup
               {n.rows[n.bank][i].sequence : i \in {j \in Slots : Used(n.rows[n.bank][j])}}
  IN s \in found /\ \A x \in found : x <= s

Loads(n) ==
  /\ rows' = n.rows[n.bank]
  /\ dirty' = Clean
  /\ \E s \in Sequences : IsLargest(s, n) /\ appSequence' = s
  /\ activeAppBank' = n.bank
  /\ owner' = NoApp

TableInit ==
  /\ rows = [i \in Slots |-> NoRow] /\ dirty = Clean
  /\ appSequence = 0 /\ activeAppBank = 0 /\ nv = EmptyNv /\ owner = NoApp

-----------------------------------------------------------------------------
(* persistApp() of slot i with what it holds then.  The row is written or   *)
(* not; the sequence is written after it, and its result is not looked at.  *)
Outcome == {"saved", "unnumbered", "failed"}

Saved(i, row, sequence, outcome) ==
  [nv EXCEPT !.rows[activeAppBank][i] = IF outcome = "failed" THEN @ ELSE row,
             !.seq[activeAppBank] = IF outcome = "saved" THEN sequence ELSE @]

(* A faulty variant: the mark goes although the row was not written.        *)
NeverDirty(outcome) == FALSE
StillDirty(outcome) == outcome = "failed"

(* findApp(): the first slot that names the app.                            *)
Finds(a, i) == rows[i].app = a /\ \A j \in 0..(i - 1) : rows[j].app # a

(* allocateApp(): the first empty slot, or the one that changed longest ago *)
(* when none is empty.                                                      *)
Allocates(i) ==
  \/ ~Used(rows[i]) /\ \A j \in 0..(i - 1) : Used(rows[j])
  \/ /\ \A j \in Slots : Used(rows[j])
     /\ \A j \in Slots : rows[i].sequence <= rows[j].sequence
     /\ \A j \in 0..(i - 1) : rows[i].sequence < rows[j].sequence

IsSlotFor(a, i) ==
  \/ Finds(a, i)
  \/ (\A j \in Slots : rows[j].app # a) /\ Allocates(i)

Holds(i, a, v) == Used(rows[i]) /\ rows[i].app = a /\ rows[i].value = v

(* A faulty variant: only a new row is counted.                             *)
OnlyNewCounted(i, a, v) == IF rows[i].app = a THEN appSequence ELSE appSequence + 1

NextSequence(i, a, v) == IF Holds(i, a, v) THEN appSequence ELSE appSequence + 1
(* rememberAppVolume(): the row of a becomes v.  A row that says so already *)
(* keeps its number, but is saved if that is due and asked for.             *)
Remember(a, v, immediate, outcome) ==
  /\ a = owner
  /\ appSequence < MaxSequence
  /\ \E i \in Slots :
       LET sequence == NextSequence(i, a, v)
           row == IF Holds(i, a, v) THEN rows[i]
                  ELSE [app |-> a, value |-> v, sequence |-> sequence]
           due == dirty[i] \/ ~Holds(i, a, v)
           saves == immediate /\ due
       IN /\ IsSlotFor(a, i)
          /\ rows' = [rows EXCEPT ![i] = row]
          /\ appSequence' = sequence
          /\ nv' = IF saves THEN Saved(i, row, sequence, outcome) ELSE nv
          /\ dirty' = [dirty EXCEPT ![i] = IF saves THEN StillDirty(outcome) ELSE due]
  /\ UNCHANGED <<activeAppBank, owner>>

(* maintainAppStorage(): the delay of a changed slot is over.               *)
Persist(i, outcome) ==
  /\ dirty[i] /\ Used(rows[i])
  /\ nv' = Saved(i, rows[i], appSequence, outcome)
  /\ dirty' = [dirty EXCEPT ![i] = StillDirty(outcome)]
  /\ UNCHANGED <<rows, appSequence, activeAppBank, owner>>

(* receiveApp() and activatePendingApp(): the app in front changes.         *)
Owns(a) ==
  /\ owner' = a
  /\ UNCHANGED <<rows, dirty, appSequence, activeAppBank, nv>>

(* RAM goes, what is in NVS then is loaded.                                 *)
RestartsWith(n) == Loads(n) /\ nv' = n

(* Power loss, maybe between the two writes of persistApp().                *)
Restart ==
  \/ RestartsWith(nv)
  \/ \E i \in Slots : /\ dirty[i] /\ Used(rows[i])
                     /\ RestartsWith(Saved(i, rows[i], appSequence, "unnumbered"))

(* Another ESP32, or this one with its flash erased.                        *)
Erase == RestartsWith(EmptyNv)

-----------------------------------------------------------------------------
(* The backup endpoints.                                                    *)

backupEtag == appSequence
UsedSlots == {i \in Slots : Used(rows[i])}
appTableEmpty == UsedSlots = {}

(* orderedAppIndices(): where the row of slot i stands in GET /api/backup.  *)
Position(i) ==
  Cardinality({j \in UsedSlots : \/ rows[j].sequence < rows[i].sequence
                                 \/ rows[j].sequence = rows[i].sequence /\ j <= i})
Snapshot ==
  [p \in 1..Cardinality(UsedSlots) |->
     LET i == CHOOSE j \in UsedSlots : Position(j) = p
     IN [app |-> rows[i].app, value |-> rows[i].value]]

(* A faulty variant: the backup goes into the bank that is in use.          *)
SameBank == activeAppBank
TargetBank == 1 - activeAppBank

Base(apps) == IF appSequence > MaxSequence - Len(apps) THEN 0 ELSE appSequence

NewRows(apps) ==
  [i \in Slots |-> IF i < Len(apps)
                   THEN [app |-> apps[i + 1].app, value |-> apps[i + 1].value,
                         sequence |-> Base(apps) + i + 1]
                   ELSE NoRow]

(* writeBackupBank() up to a failed write or a loss of power: done rows are *)
(* written or removed in the order of their slots, and then the sequence.   *)
PartlyWritten(apps, done) ==
  [nv EXCEPT !.rows[TargetBank] = [i \in Slots |-> IF i < done THEN NewRows(apps)[i] ELSE @[i]],
             !.seq[TargetBank] = IF done > NumSlots THEN Base(apps) + Len(apps) ELSE @]

(* PUT /api/backup with a valid body and the revision of an earlier GET.    *)
Refuses(apps, etag) ==
  /\ ~ValidBackup(apps) \/ etag # backupEtag \/ ~appTableEmpty
  /\ UNCHANGED table

Accepts(apps, etag) ==
  ValidBackup(apps) /\ etag = backupEtag /\ appTableEmpty /\ apps # <<>>

RestoreFails(apps, etag, done) ==
  /\ Accepts(apps, etag)
  /\ nv' = PartlyWritten(apps, done)
  /\ UNCHANGED <<rows, dirty, appSequence, activeAppBank, owner>>

RestoreIsInterrupted(apps, etag, done) ==
  /\ Accepts(apps, etag)
  /\ RestartsWith(PartlyWritten(apps, done))

(* commitBackupApps(); the restore it then starts for the app in front is   *)
(* startRestoreForCurrentApp of Firmware and touches no row.                *)
Restores(apps, etag) ==
  /\ Accepts(apps, etag)
  /\ nv' = [PartlyWritten(apps, NumSlots + 1) EXCEPT !.bank = TargetBank]
  /\ rows' = NewRows(apps)
  /\ dirty' = Clean
  /\ activeAppBank' = TargetBank
  /\ appSequence' = Base(apps) + Len(apps)
  /\ UNCHANGED owner
=============================================================================
