--------------------------- MODULE LinkProperties ---------------------------
(***************************************************************************)
(* What the link to the receiver promises (src/README.md, "Pair the        *)
(* receiver" and the API, and the comments of main.cpp).                   *)
(***************************************************************************)
EXTENDS DenonLink

(* Every variable has its type, and the task runs exactly while             *)
(* connectInProgress says so.                                               *)
LinkTypeOK ==
  /\ fw \in LinkState /\ task \in Task /\ http \in Http /\ bt \in Stack
  /\ savedMac \in MaybeReceiver /\ linkMishaps \in 0..MaxLinkMishaps
  /\ fw.connectInProgress <=> task.pc # "none"

(* The receiver is controlled only over a link its bond authenticates: no   *)
(* attempt that was under way outlives the removal of the bond.             *)
LinkIsBonded == bt.serial # NoReceiver => bt.serial \in bt.bonds

(* A receiver that the 202 of DELETE /api/denon reports as forgotten has no *)
(* bond, no link and no audio, and nobody is connecting to it, whatever     *)
(* calls came in while the handler waited.                                  *)
ForgetIsFinal ==
  http.pc = "restart" =>
    /\ http.receiver \notin bt.bonds /\ bt.serial = NoReceiver
    /\ bt.audio[http.receiver] # "open" /\ task = NoTask

Saved(r) == fw.ready /\ fw.mac = r /\ fw.known
Pursued(r) ==
  bt.serial = r \/ task.pc \in {"connecting", "opened"} \/ bt.audio[r] = "opening"

(* A saved receiver is tried again and again until it is linked: no failed  *)
(* call, lost link, half-done forgetting or overflow of the clock ends it.  *)
RetriesGoOn == \A r \in Receivers : Saved(r) ~> (Pursued(r) \/ ~Saved(r))
=============================================================================
