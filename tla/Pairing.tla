------------------------------- MODULE Pairing -------------------------------
(***************************************************************************)
(* Who may command the ESP32: the token that it makes up when it is        *)
(* claimed (src/src/main.cpp), and the Home Assistants that claim it, keep *)
(* the token in a config entry and hand it back                            *)
(* (src/custom_components/denon_app_volume/config_flow.py, __init__.py).   *)
(* A probe and the claim after it are two requests, answers are lost, both *)
(* ends restart, and the BOOT button takes the token away.                 *)
(***************************************************************************)
EXTENDS Naturals

CONSTANTS
  Hubs,            \* the Home Assistants
  MaxToken,        \* how many tokens are made up
  MaxPairMishaps   \* how many requests, answers and writes fail, and how often power does

ASSUME PairingAssumption == MaxToken \in Nat /\ MaxPairMishaps \in Nat

VARIABLES
  lock,         \* the device
  hub,          \* of each Home Assistant, its entry and its flows
  pairMishaps   \* how many things have gone wrong

pairVars == <<lock, hub, pairMishaps>>

Token == 0..MaxToken  \* 0: none

(* saved: "api_token" in NVS; window: of apiClaimUntil, "unset" is 0;       *)
(* button: up, down without a timer, since when, or tokenResetArmed.        *)
Lock == [token : Token, saved : Token, issued : Token,
         window : {"unset", "open", "over"}, joined : BOOLEAN,
         button : {"up", "down", "timing", "held", "armed"}]

(* token: of the entry; device: what the zeroconf flow has found; asking:   *)
(* async_pair() is awaited; refused: the form says token_reset_required;    *)
(* reauth: a reauth flow is open; started: _reauth_started.                 *)
Hub == [token : Token, device : {"none", "unpaired", "paired"}, asking : BOOLEAN,
        refused : BOOLEAN, reauth : BOOLEAN, started : BOOLEAN]

(* A hub with an entry and a relay that has just been set up.               *)
NewHub(token) == [token |-> token, device |-> "none", asking |-> FALSE,
                  refused |-> FALSE, reauth |-> FALSE, started |-> FALSE]

PairInit ==
  /\ lock = [token |-> 0, saved |-> 0, issued |-> 0, window |-> "unset",
             joined |-> FALSE, button |-> "up"]
  /\ hub = [h \in Hubs |-> NewHub(0)]
  /\ pairMishaps = 0

PairMishap == pairMishaps < MaxPairMishaps /\ pairMishaps' = pairMishaps + 1
Succeeds(ok) == IF ok THEN UNCHANGED pairMishaps ELSE PairMishap

-----------------------------------------------------------------------------
(* The device.                                                              *)

(* loadDeviceIdentity() in setup().                                         *)
Reboots ==
  lock' = [lock EXCEPT !.token = lock.saved, !.window = "unset", !.joined = FALSE,
                       !.button = "up"]

LockLosesPower == PairMishap /\ Reboots /\ UNCHANGED hub

(* The connect edge of maintainWifi().                                      *)
LockJoins ==
  /\ ~lock.joined
  /\ lock' = [lock EXCEPT !.joined = TRUE, !.window = IF lock.token = 0 THEN "open" ELSE @]
  /\ UNCHANGED <<hub, pairMishaps>>

LockLeaves ==
  /\ lock.joined
  /\ lock' = [lock EXCEPT !.joined = FALSE]
  /\ UNCHANGED <<hub, pairMishaps>>

(* Ten minutes pass; the signed comparison finds the end ahead again after  *)
(* twenty-five days.                                                        *)
WindowTurns ==
  /\ lock.window # "unset"
  /\ lock' = [lock EXCEPT !.window = IF @ = "open" THEN "over" ELSE "open"]
  /\ UNCHANGED <<hub, pairMishaps>>

(* A faulty variant: who asks in time is paired.                            *)
ClaimableAnew == lock.window = "open"
Claimable == lock.token = 0 /\ lock.window = "open"

Claimed == [lock EXCEPT !.token = lock.issued + 1, !.saved = lock.issued + 1,
                        !.issued = @ + 1]

(* Somebody pairs over the setup network, at any time.                      *)
SetupClaims ==
  /\ lock.token = 0 /\ lock.issued < MaxToken
  /\ lock' = Claimed
  /\ UNCHANGED <<hub, pairMishaps>>

Released == [lock EXCEPT !.token = 0, !.saved = 0]

(* maintainTokenResetButton().                                              *)
ButtonGoesDown ==
  /\ lock.button = "up"
  /\ lock' = [lock EXCEPT !.button = "down"]
  /\ UNCHANGED <<hub, pairMishaps>>

ButtonIsTimed ==
  /\ lock.button = "down" /\ lock.token # 0
  /\ lock' = [lock EXCEPT !.button = "timing"]
  /\ UNCHANGED <<hub, pairMishaps>>

TenSecondsPass ==
  /\ lock.button = "timing"
  /\ lock' = [lock EXCEPT !.button = "held"]
  /\ UNCHANGED <<hub, pairMishaps>>

ButtonResets(removed) ==
  /\ lock.button = "held" /\ lock.token # 0
  /\ Succeeds(removed)
  /\ lock' = IF removed THEN [Released EXCEPT !.button = "armed"]
             ELSE [lock EXCEPT !.button = "timing"]
  /\ UNCHANGED hub

ButtonGoesUp ==
  /\ lock.button # "up"
  /\ IF lock.button = "armed" THEN Reboots ELSE lock' = [lock EXCEPT !.button = "up"]
  /\ UNCHANGED <<hub, pairMishaps>>

-----------------------------------------------------------------------------
(* Home Assistant.                                                          *)

Probe == IF lock.token = 0 THEN "unpaired" ELSE "paired"

(* async_step_zeroconf(): the probe is kept with the flow.                  *)
Discovers(h) ==
  /\ hub[h].token = 0 /\ hub[h].device = "none" /\ ~hub[h].asking
  /\ lock.joined
  /\ hub' = [hub EXCEPT ![h].device = Probe]
  /\ UNCHANGED <<lock, pairMishaps>>

(* The flow is closed by the user.                                          *)
Dismisses(h) ==
  /\ hub[h].device # "none" /\ ~hub[h].asking
  /\ hub' = [hub EXCEPT ![h].device = "none", ![h].refused = FALSE]
  /\ UNCHANGED <<lock, pairMishaps>>

Answered(h, found) ==
  /\ hub' = [hub EXCEPT ![h].asking = (found = "unpaired"), ![h].refused = (found = "paired")]
  /\ UNCHANGED <<lock, pairMishaps>>

(* async_step_zeroconf_confirm() goes by what was found.                    *)
SubmitsDiscovered(h) ==
  /\ hub[h].token = 0 /\ hub[h].device # "none" /\ ~hub[h].asking
  /\ Answered(h, hub[h].device)

(* async_step_user() and async_step_reauth_confirm() ask the device first.  *)
SubmitsProbing(h) ==
  /\ hub[h].reauth \/ (hub[h].token = 0 /\ hub[h].device = "none")
  /\ ~hub[h].asking /\ lock.joined
  /\ Answered(h, Probe)

(* A faulty variant: the relay goes on as it is with the new token.         *)
PairedRunning(h, token) == [hub[h] EXCEPT !.token = token, !.asking = FALSE, !.reauth = FALSE]
(* The entry is created, or updated and reloaded.                           *)
Paired(h, token) == NewHub(token)

(* pairApi(): 409, 403, 500 or a token; the request or its answer may be    *)
(* lost.                                                                    *)
Claims(h, well) ==
  /\ hub[h].asking
  /\ \/ /\ lock.joined /\ Claimable /\ lock.issued < MaxToken
        /\ Succeeds(well)
        /\ lock' = Claimed
        /\ hub' = [hub EXCEPT ![h] = IF well THEN Paired(h, lock'.token)
                                     ELSE [@ EXCEPT !.asking = FALSE]]
     \/ /\ IF lock.joined /\ Claimable THEN ~well ELSE well
        /\ Succeeds(well)
        /\ hub' = [hub EXCEPT ![h].asking = FALSE]
        /\ UNCHANGED lock

(* async_remove_entry(): unpairApi() for the token of the entry; a request  *)
(* that fails is logged.                                                    *)
Removes(h, well) ==
  /\ hub[h].token # 0 /\ ~hub[h].asking
  /\ hub' = [hub EXCEPT ![h] = NewHub(0)]
  /\ IF lock.joined /\ lock.token = hub[h].token
     THEN Succeeds(well) /\ lock' = IF well THEN [Released EXCEPT !.window = "open"] ELSE lock
     ELSE well /\ UNCHANGED <<lock, pairMishaps>>

(* The relay's request is answered with 401.                                *)
IsRejected(h) ==
  /\ hub[h].token \notin {0, lock.token} /\ ~hub[h].started
  /\ lock.joined
  /\ hub' = [hub EXCEPT ![h].started = TRUE, ![h].reauth = TRUE]
  /\ UNCHANGED <<lock, pairMishaps>>

HubRestarts(h) ==
  /\ PairMishap
  /\ hub' = [hub EXCEPT ![h] = NewHub(hub[h].token)]
  /\ UNCHANGED lock

-----------------------------------------------------------------------------
ButtonSteps ==
  \/ ButtonGoesDown \/ ButtonIsTimed \/ TenSecondsPass \/ ButtonGoesUp
  \/ \E removed \in BOOLEAN : ButtonResets(removed)

HubSteps(h) ==
  \/ Discovers(h) \/ Dismisses(h) \/ SubmitsDiscovered(h) \/ SubmitsProbing(h)
  \/ IsRejected(h) \/ HubRestarts(h)
  \/ \E well \in BOOLEAN : Claims(h, well) \/ Removes(h, well)

PairNext ==
  \/ LockLosesPower \/ LockJoins \/ LockLeaves \/ WindowTurns \/ SetupClaims
  \/ ButtonSteps
  \/ \E h \in Hubs : HubSteps(h)

(* Wi-Fi comes back, and the heartbeat of a relay gets through again and    *)
(* again while it is there.                                                 *)
PairFairness ==
  WF_pairVars(LockJoins) /\ \A h \in Hubs : SF_pairVars(IsRejected(h))

PairSpec == PairInit /\ [][PairNext]_pairVars /\ PairFairness
=============================================================================
