-------------------------- MODULE PairingProperties --------------------------
(***************************************************************************)
(* What pairing with Home Assistant promises (src/README.md, "Add the      *)
(* discovered device" and "Reset and re-pair").                            *)
(***************************************************************************)
EXTENDS Pairing

(* Every variable has its type, and the token the device goes by is the one *)
(* that a restart loads.                                                    *)
PairTypeOK ==
  /\ lock \in Lock /\ hub \in [Hubs -> Hub] /\ pairMishaps \in 0..MaxPairMishaps
  /\ lock.token = lock.saved

IsAccepted(h) == hub[h].token # 0 /\ hub[h].token = lock.token

KeepsOwner(h) ==
  IsAccepted(h) => \/ IsAccepted(h)'
                   \/ hub'[h].token = 0
                   \/ lock'.button = "armed"

(* A Home Assistant that is paired stays paired until it hands the token    *)
(* back or somebody holds the button: not through another one that found    *)
(* the device free before, a reconnection, or a restart of either.          *)
OwnerIsKept == [][\A h \in Hubs : KeepsOwner(h)]_pairVars

(* An entry whose token the device does not take any more asks its user to  *)
(* pair again, also the second time.                                        *)
Rejected(h) == hub[h].token \notin {0, lock.token}
RejectionIsNoticed == \A h \in Hubs : Rejected(h) ~> (hub[h].reauth \/ ~Rejected(h))

-----------------------------------------------------------------------------
(* What the documentation says and the code does not keep.                  *)

(* "The ESP32 already has another token ... release it, wait for the        *)
(* restart, then try again": the form says so only while it has one.        *)
RefusedIsPaired ==
  [][\A h \in Hubs : ~hub[h].refused /\ hub'[h].refused => lock.token # 0]_pairVars
=============================================================================
