-------------------------- MODULE BackupProperties --------------------------
(***************************************************************************)
(* What the app table and its mirror promise (src/README.md, "The ESP32    *)
(* keeps up to 16 app entries in NVS" and the text after it).              *)
(***************************************************************************)
EXTENDS BackupSync

(* Every variable of the table has its type.                                *)
TableTypeOK ==
  /\ rows \in Rows /\ dirty \in [Slots -> BOOLEAN]
  /\ appSequence \in Sequences /\ activeAppBank \in Banks
  /\ nv \in [bank : Banks, rows : [Banks -> Rows], seq : [Banks -> Sequences]]
  /\ owner \in AppIds \cup {NoApp}

(* A slot without the dirty mark says what NVS says, in the bank that the   *)
(* next restart will load, after every failed write, half-done restore and  *)
(* restart: what the firmware believes to be saved is saved.                *)
CleanRowsAreStored ==
  /\ nv.bank = activeAppBank
  /\ \A i \in Slots : ~dirty[i] => rows[i] = nv.rows[nv.bank][i]

(* What the relay holds of the table is on disk or will be saved, however   *)
(* many snapshots come in while a save is due.                              *)
UnsavedIsPending == ha.loaded /\ ha.stored # ha.disk => ha.pending = ha.stored

(* A step that changes what GET /api/backup answers changes the revision,   *)
(* unless the device starts anew: a revision of If-Match names one table.   *)
RevisionTellsTables ==
  [][Snapshot' = Snapshot \/ appSequence' # appSequence \/ owner' = NoApp]_vars

(* The two banks with their half-written rows are one table of slots that   *)
(* are saved one by one and restored all at once, whatever write fails and      *)
(* wherever the power goes.                                                 *)
Stored == INSTANCE SlotStore WITH table <- rows, stored <- nv.rows[nv.bank]
RestoreIsAtomic == Stored!Spec

-----------------------------------------------------------------------------
(* What the documentation says and the code does not keep.                  *)

LevelOf(table1, a) ==
  {table1[i].value : i \in {j \in Slots : /\ table1[j].app = a
                                          /\ \A k \in 0..(j - 1) : table1[k].app # a}}

(* A row that was saved is what the app gets after a power loss.            *)
SavedRowSurvives ==
  [][LosesPower => \A i \in UsedSlots :
                     ~dirty[i] => LevelOf(rows', rows[i].app) = {rows[i].value}]_vars

AppsOf(apps) == {apps[p].app : p \in DOMAIN apps}

(* An empty table that Home Assistant has a backup of becomes that backup,  *)
(* and not the first thing the device learns.                               *)
EmptyTableGetsBackup ==
  [][appTableEmpty /\ ~appTableEmpty' => AppsOf(ha.disk) \subseteq {rows'[i].app : i \in UsedSlots'}]_vars
=============================================================================
