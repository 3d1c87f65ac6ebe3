--------------------------- MODULE WatchProperties ---------------------------
(***************************************************************************)
(* What src/README.md promises of tunneld's recovery: "after a continuous  *)
(* absence", with growing pauses, and again and again until it helps.      *)
(***************************************************************************)
EXTENDS TunneldWatch

WatchTypeOK ==
  /\ tunnel \in Tunnel /\ recovery \in Recovery
  /\ attempted \in BOOLEAN /\ since \in WatchHistory

(* tunneld is never restarted unless every attempt for the whole of Absence *)
(* has found no tunnel - a snapshot, an unreachable tunneld, another listed *)
(* device or a failed session in between starts the count anew - and unless *)
(* a pause that doubles with each restart has passed since the last one,    *)
(* whatever interrupted the absence meanwhile.                              *)
RestartsAreDue ==
  [][RestartRequested =>
       /\ since.trouble >= Absence
       /\ since.restarts = 0 \/ since.restart >= Backoff(since.restarts)]_watchVars
=============================================================================
