----------------------------- MODULE BackupSync -----------------------------
(***************************************************************************)
(* The app table of the ESP32 together with its mirror in Home Assistant   *)
(* (src/custom_components/denon_app_volume/__init__.py and api.py): every  *)
(* turn of AppRelay.async_run() after a heartbeat reads the table and      *)
(* stores it, or restores the stored one into an empty table, and then     *)
(* tells the device which app is in front.  Between any two requests the   *)
(* device learns levels, saves rows, loses its power or is replaced.       *)
(***************************************************************************)
EXTENDS AppTable

CONSTANTS
  InitBackups,  \* what Home Assistant may have on disk when the device is new
  MaxMishaps    \* how many things go wrong, of any kind

VARIABLES
  ha,      \* the relay and its Store
  mishaps  \* how many things have gone wrong

vars == <<table, ha, mishaps>>

ASSUME SyncAssumption == InitBackups \subseteq Backups /\ MaxMishaps \in Nat

(* next: what async_run() does next; etag: of the snapshot it has read;     *)
(* pending: what a delayed save will write to disk, <<>> if none is due.    *)
Relay == [next : {"get", "put", "send"}, loaded : BOOLEAN, etag : Nat,
          stored : Backups, disk : Backups, pending : Backups]
NewRelay(disk) == [next |-> "get", loaded |-> FALSE, etag |-> 0,
                   stored |-> <<>>, disk |-> disk, pending |-> <<>>]

Mishap == mishaps < MaxMishaps /\ mishaps' = mishaps + 1

Allowed(outcome) ==
  \/ outcome = "saved" /\ UNCHANGED mishaps
  \/ outcome # "saved" /\ Mishap

Init ==
  /\ TableInit
  /\ \E disk \in InitBackups : ha = NewRelay(disk)
  /\ mishaps = 0

-----------------------------------------------------------------------------
(* The device.                                                              *)

Learns(v, immediate, outcome) ==
  /\ owner # NoApp
  /\ Allowed(outcome)
  /\ Remember(owner, v, immediate, outcome)
  /\ UNCHANGED ha

Saves(i, outcome) ==
  /\ Allowed(outcome)
  /\ Persist(i, outcome)
  /\ UNCHANGED ha

LosesPower == Mishap /\ Restart /\ UNCHANGED ha

(* The device is replaced or erased: it has to be paired again, the entry   *)
(* is set up again and its relay begins anew.  That takes longer than a     *)
(* delayed save.                                                            *)
IsReplaced ==
  /\ Mishap
  /\ ha.pending = <<>>
  /\ Erase
  /\ ha' = NewRelay(ha.disk)

-----------------------------------------------------------------------------
(* Home Assistant.                                                          *)

(* _async_load_backup(), once.                                              *)
Backup == IF ha.loaded THEN ha.stored ELSE ha.disk

(* A faulty variant: a save that is due already is left as it is.           *)
SaveOnce(pending, apps) == IF pending = <<>> THEN apps ELSE pending
(* async_delay_save(): a later call replaces what an earlier one would save. *)
DelaySave(pending, apps) == apps

(* The snapshot is not empty: it replaces the backup.  parse_backup_apps()  *)
(* refuses one that names an app twice.                                     *)
Mirror(apps) ==
  [ha EXCEPT !.next = "send", !.loaded = TRUE, !.stored = apps,
             !.pending = IF apps # Backup THEN DelaySave(@, apps) ELSE @]

ReadsBackup ==
  \/ /\ ValidBackup(Snapshot) /\ Snapshot # <<>>
     /\ ha' = Mirror(Snapshot)
  \/ /\ Snapshot = <<>> /\ Backup # <<>>
     /\ ha' = [ha EXCEPT !.next = "put", !.loaded = TRUE, !.stored = Backup,
                         !.etag = backupEtag]
  \/ /\ ~ValidBackup(Snapshot) \/ (Snapshot = <<>> /\ Backup = <<>>)
     /\ ha' = [ha EXCEPT !.next = "send", !.loaded = TRUE, !.stored = Backup]

GetBackup ==
  /\ ha.next = "get"
  /\ ReadsBackup
  /\ UNCHANGED <<table, mishaps>>

(* async_put_backup().  The readback after it decides only what is logged.  *)
PutBackup ==
  /\ ha.next = "put"
  /\ ha' = [ha EXCEPT !.next = "send", !.etag = 0]
  /\ \/ Refuses(ha.stored, ha.etag) /\ UNCHANGED mishaps
     \/ Restores(ha.stored, ha.etag) /\ UNCHANGED mishaps
     \/ /\ Mishap
        /\ \E done \in 0..(NumSlots + 1) :
             \/ RestoreFails(ha.stored, ha.etag, done)
             \/ RestoreIsInterrupted(ha.stored, ha.etag, done)

(* The request does not reach the device, or times out.                     *)
RequestFails ==
  /\ ha.next \in {"get", "put"}
  /\ Mishap
  /\ ha' = [ha EXCEPT !.next = "send", !.loaded = TRUE, !.stored = Backup, !.etag = 0]
  /\ UNCHANGED table

(* _async_send_pending().  After a heartbeat the next turn begins with the  *)
(* backup, after a change of the foreground app it does not.                *)
SendApp(a) ==
  /\ ha.next = "send"
  /\ Owns(a)
  /\ \E next \in {"get", "send"} : ha' = [ha EXCEPT !.next = next]
  /\ UNCHANGED mishaps

SaveStore ==
  /\ ha.pending # <<>>
  /\ ha' = [ha EXCEPT !.disk = ha.pending, !.pending = <<>>]
  /\ UNCHANGED <<table, mishaps>>

(* Home Assistant crashes before it makes a pending save, and starts.       *)
Stops ==
  /\ Mishap
  /\ ha' = NewRelay(ha.disk)
  /\ UNCHANGED table

-----------------------------------------------------------------------------
Device ==
  \/ \E v \in Values, immediate \in BOOLEAN, outcome \in Outcome :
       Learns(v, immediate, outcome)
  \/ \E i \in Slots, outcome \in Outcome : Saves(i, outcome)
  \/ LosesPower \/ IsReplaced

HomeAssistant ==
  \/ GetBackup \/ PutBackup \/ RequestFails \/ SaveStore \/ Stops
  \/ \E a \in AppIds : SendApp(a)

Next == Device \/ HomeAssistant

Spec == Init /\ [][Next]_vars
=============================================================================
