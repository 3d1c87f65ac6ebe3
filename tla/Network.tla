------------------------------- MODULE Network -------------------------------
(***************************************************************************)
(* Wi-Fi of the ESP32 (src/src/main.cpp): the seven settings in NVS, which *)
(* are written one key after the other and rolled back when one fails, the *)
(* restart that applies them, and the setup access point that stays up     *)
(* until somebody has reached the device over the home network.  A write   *)
(* fails, the power goes between two keys, the network comes and goes and  *)
(* changes its addresses.                                                  *)
(***************************************************************************)
EXTENDS Integers, FiniteSets

CONSTANTS
  Networks,       \* names of wireless networks
  Subnets,        \* address ranges
  Unset,          \* the key is not in NVS
  MaxNetMishaps   \* how many writes fail, and how often the power goes

ASSUME NetworkAssumption ==
  /\ Unset \notin Networks \cup Subnets
  /\ MaxNetMishaps \in Nat

VARIABLES
  nv,          \* what NVS holds under each key
  wifi,        \* the firmware's variables
  ap,          \* the setup access point is up
  home,        \* the home network, and what of it the firmware has not seen
  netMishaps   \* how many things have gone wrong

netVars == <<nv, wifi, ap, home, netMishaps>>

(* NetworkStorageKey.                                                       *)
Key == 1..7
Ssid == 1
Password == 2
StaticIp == 3
StaticGateway == 4
StaticSubnet == 5
StaticDns == 6
PendingIp == 7
StaticKeys == StaticIp..StaticDns

(* A password is the one of a network, an address is one of a subnet.       *)
Store == [Key -> Networks \cup Subnets \cup {Unset}]

(* ssid, password: what WiFi.begin() was given; static: the subnet of the   *)
(* fixed address in use; claimed: stationHttpClaimed; timer: of             *)
(* wifiStartedAt and kWifiTimeoutMs.                                        *)
WifiState == [ssid : Networks \cup {Unset}, password : Networks \cup {Unset},
              static : Subnets \cup {Unset}, wasConnected : BOOLEAN,
              claimed : BOOLEAN, timer : {"running", "elapsed"}]

(* joined: the station is associated; subnet: the addresses each network    *)
(* gives out; unseen, which only the properties read: with a fixed address, *)
(* the network dropped the device or changed its addresses, and no pass of  *)
(* loop() has found the device without its network since it was connected.  *)
Home == [joined : BOOLEAN, subnet : [Networks -> Subnets], unseen : BOOLEAN]

(* validStaticNetwork() of the four keys: one network, a mask, a server.    *)
ValidStatic(s) ==
  s[StaticIp] # Unset /\ s[StaticIp] = s[StaticGateway]
    /\ s[StaticSubnet] # Unset /\ s[StaticDns] # Unset

(* loadStaticNetwork() and startWifi().                                     *)
Started(s) ==
  [ssid |-> s[Ssid], password |-> IF s[Ssid] = Unset THEN Unset ELSE s[Password],
   static |-> IF s[Ssid] # Unset /\ ValidStatic(s) THEN s[StaticIp] ELSE Unset,
   wasConnected |-> FALSE, claimed |-> FALSE, timer |-> "running"]

startWifi(s) ==
  /\ wifi' = Started(s)
  /\ ap' = (s[Ssid] = Unset \/ Started(s).static # Unset)
  /\ home' = [home EXCEPT !.joined = FALSE, !.unseen = FALSE]

NetInit ==
  /\ nv = [k \in Key |-> Unset]
  /\ wifi = Started(nv)
  /\ ap = TRUE
  /\ \E subnet \in [Networks -> Subnets] :
       home = [joined |-> FALSE, subnet |-> subnet, unseen |-> FALSE]
  /\ netMishaps = 0

Left == MaxNetMishaps - netMishaps
Mishaps(n) == n <= Left /\ netMishaps' = netMishaps + n

-----------------------------------------------------------------------------
(* The settings in NVS.                                                     *)

(* writeNetworkStorage() first writes the keys that are set, then removes   *)
(* the others, both in the order of the keys: the place of each key.        *)
Place == [set \in SUBSET Key |->
  [k \in Key |-> IF k \in set THEN Cardinality({j \in set : j <= k})
                 ELSE Cardinality(set) + Cardinality({j \in Key \ set : j <= k})]]

(* What it may leave of old when it stops before the end.                   *)
Parts(old, s) ==
  LET place == Place[{k \in Key : s[k] # Unset}]
  IN {[k \in Key |-> IF place[k] < n THEN s[k] ELSE old[k]] : n \in Key}

(* commitNetworkStorage(): a write of s fails and is rolled back, and that  *)
(* may fail too; the power may go in either.  left: how much may go wrong.  *)
Outcome(store, cost, done) == [store |-> store, cost |-> cost, done |-> done]
Spoilt(old, s) ==
  {Outcome(old, 1, "no")} \cup {Outcome(part, 1, "cut") : part \in Parts(old, s)}
SpoiltTwice(old, s) ==
  {Outcome(rest, 2, done) : rest \in UNION {Parts(part, old) : part \in Parts(old, s)},
                            done \in {"no", "cut"}}
Commit(old, s, left) ==
  {Outcome(s, 0, "yes")} \cup (IF left > 0 THEN Spoilt(old, s) ELSE {})
                         \cup (IF left > 1 THEN SpoiltTwice(old, s) ELSE {})

WithoutStatic(s) == [k \in Key |-> IF k \in StaticKeys \cup {PendingIp} THEN Unset ELSE s[k]]

(* persistStaticNetwork() with an address of a subnet.                      *)
WithStatic(s, subnet) ==
  [k \in Key |-> IF k \in StaticKeys THEN subnet
                 ELSE IF k = PendingIp THEN Unset ELSE s[k]]

-----------------------------------------------------------------------------
(* The home network.                                                        *)

(* The subnet of the lease, and that of the address in use.                 *)
Leased == home.subnet[wifi.ssid]
(* A faulty variant: the lease is what counts.                              *)
OwnSubnetLeased == Leased
OwnSubnet == IF wifi.static = Unset THEN Leased ELSE wifi.static

(* The device can be reached over the home network.                         *)
Usable == home.joined /\ OwnSubnet = Leased

(* The network is in reach and the password is the right one.               *)
Joins ==
  /\ ~home.joined
  /\ wifi.ssid # Unset /\ wifi.ssid = wifi.password
  /\ home' = [home EXCEPT !.joined = TRUE]
  /\ UNCHANGED <<nv, wifi, ap, netMishaps>>

Unseen(change) == home.unseen \/ (wifi.static # Unset /\ change)

(* Also before a pass of loop() has noticed that it was joined.             *)
Drops ==
  /\ home.joined
  /\ home' = [home EXCEPT !.joined = FALSE, !.unseen = Unseen(~wifi.wasConnected)]
  /\ UNCHANGED <<nv, wifi, ap, netMishaps>>

(* Another router or another range of addresses, also without a drop or     *)
(* with one that is over before the next pass of loop().  A lease follows.  *)
Moves ==
  /\ \E n \in Networks : \E s \in Subnets \ {home.subnet[n]} :
       home' = [home EXCEPT
         !.subnet[n] = s,
         !.unseen = Unseen(n = wifi.ssid /\ (home.joined \/ wifi.wasConnected))]
  /\ UNCHANGED <<nv, wifi, ap, netMishaps>>

-----------------------------------------------------------------------------
(* maintainWifi().                                                          *)

shouldStopSetupAp(static, claimed) == static = Unset \/ claimed

StaysUp ==
  /\ wifi' = [wifi EXCEPT !.wasConnected = TRUE]
  /\ ap' = ~shouldStopSetupAp(wifi.static, wifi.claimed)
  /\ UNCHANGED home

(* finishPendingStaticNetwork() makes the preferred address a fixed one     *)
(* with what it has learned from the lease, or gives it up.                 *)
Preferred == IF nv[PendingIp] = Leased THEN Commit(nv, WithStatic(nv, Leased), Left)
             ELSE {Outcome(nv, 0, "no")}

FinishesPending ==
  \E first \in Preferred :
    IF first.done # "no"
    THEN Mishaps(first.cost) /\ nv' = first.store /\ startWifi(nv')
    ELSE \E last \in Commit(first.store, WithoutStatic(first.store), Left - first.cost) :
           /\ Mishaps(first.cost + last.cost)
           /\ nv' = last.store
           /\ IF last.done = "cut" THEN startWifi(nv') ELSE StaysUp

ConnectEdge ==
  /\ home.joined /\ ~wifi.wasConnected
  /\ IF wifi.static = Unset /\ nv[PendingIp] # Unset
     THEN FinishesPending
     ELSE StaysUp /\ UNCHANGED <<nv, netMishaps>>

MaintainsAp ==
  /\ home.joined /\ wifi.wasConnected
  /\ ap = shouldStopSetupAp(wifi.static, wifi.claimed)
  /\ StaysUp
  /\ UNCHANGED <<nv, netMishaps>>

(* A faulty variant: an address that was reached once is trusted for good.  *)
ClaimStays == wifi.claimed
LossClaim == wifi.claimed /\ wifi.static = Unset
LossEdge ==
  /\ ~home.joined /\ wifi.wasConnected
  /\ wifi' = [wifi EXCEPT !.wasConnected = FALSE, !.claimed = LossClaim,
                         !.timer = "running"]
  /\ home' = [home EXCEPT !.unseen = FALSE]
  /\ UNCHANGED <<nv, ap, netMishaps>>

StartsAp ==
  /\ ~home.joined /\ ~wifi.wasConnected /\ ~ap
  /\ wifi.timer = "elapsed"
  /\ ap' = TRUE
  /\ UNCHANGED <<nv, wifi, home, netMishaps>>

maintainWifi == ConnectEdge \/ MaintainsAp \/ LossEdge \/ StartsAp

TimerElapses ==
  /\ wifi.timer = "running"
  /\ wifi' = [wifi EXCEPT !.timer = "elapsed"]
  /\ UNCHANGED <<nv, ap, home, netMishaps>>

-----------------------------------------------------------------------------
(* The web handlers.                                                        *)

Ingress(via) == (via = "ap" /\ ap) \/ (via = "station" /\ Usable)

(* A response has been written to the station interface.                    *)
MarkStation(via) == wifi' = [wifi EXCEPT !.claimed = @ \/ via = "station"]

Page ==
  /\ Ingress("station")
  /\ MarkStation("station")
  /\ UNCHANGED <<nv, ap, home, netMishaps>>

(* 202 and a restart, or 500; or the power goes.                            *)
Handles(via, s) ==
  \E end \in Commit(nv, s, Left) :
    /\ Mishaps(end.cost)
    /\ nv' = end.store
    /\ IF end.done = "no" THEN MarkStation(via) /\ UNCHANGED <<ap, home>>
       ELSE startWifi(nv')

WifiSettings(ssid, password, preferred) ==
  [WithoutStatic(nv) EXCEPT ![Ssid] = ssid, ![Password] = password,
                            ![PendingIp] = preferred]

saveWifi(ssid, password, preferred) ==
  ap /\ Handles("ap", WifiSettings(ssid, password, preferred))

(* The address has to fit the gateway in use.                               *)
saveNetwork(via) ==
  /\ Ingress(via)
  /\ home.joined
  /\ Handles(via, WithStatic(nv, OwnSubnet))

clearNetwork(via) == Ingress(via) /\ Handles(via, WithoutStatic(nv))

PowerFails ==
  /\ Mishaps(1)
  /\ startWifi(nv)
  /\ UNCHANGED nv

-----------------------------------------------------------------------------
NetRequests ==
  \/ Page
  \/ \E n, p \in Networks, preferred \in Subnets \cup {Unset} : saveWifi(n, p, preferred)
  \/ \E via \in {"ap", "station"} : saveNetwork(via) \/ clearNetwork(via)

NetNext ==
  \/ Joins \/ Drops \/ Moves
  \/ maintainWifi \/ TimerElapses
  \/ NetRequests \/ PowerFails

(* loop() runs on and time passes; nothing makes the network come.          *)
NetFairness == WF_netVars(maintainWifi) /\ WF_netVars(TimerElapses)

NetSpec == NetInit /\ [][NetNext]_netVars /\ NetFairness
=============================================================================
