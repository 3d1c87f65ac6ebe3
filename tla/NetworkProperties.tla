-------------------------- MODULE NetworkProperties --------------------------
(***************************************************************************)
(* What the network settings promise (src/README.md, "Set up Wi-Fi" and    *)
(* the text on network-setting writes).                                    *)
(***************************************************************************)
EXTENDS Network

NetTypeOK ==
  /\ nv \in Store /\ wifi \in WifiState /\ ap \in BOOLEAN /\ home \in Home
  /\ netMishaps \in 0..MaxNetMishaps

(* A fixed address that is applied comes from one save as a whole: neither  *)
(* a cut nor a failed write combines the keys of two of them, as long as    *)
(* the rollback of that one fault gets through.                             *)
FixedIsWhole ==
  wifi.static # Unset /\ netMishaps < 2 => \A k \in StaticKeys : nv[k] \in {wifi.static, Unset}

(* Nobody is locked out by what the firmware has seen: again and again the  *)
(* device can be reached over the home network, or offers the access point  *)
(* to set it right - with a wrong password, half-written settings, or a     *)
(* fixed address after the network was lost and came back with others.      *)
(* A change that no pass of loop() sees (home.unseen) strands a fixed       *)
(* address until the power-cycle that src/README.md 82-84 asks for, or a    *)
(* drop that is seen; a device with a lease is not harmed by it.            *)
Reachable == []<>(ap \/ Usable \/ home.unseen)
=============================================================================
