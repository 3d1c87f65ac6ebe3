----------------------------- MODULE TunneldWatch -----------------------------
(***************************************************************************)
(* When the collector asks tunneld to exit (TunneldRecovery, _dvt_loop()   *)
(* and _recover_empty_tunneld() of                                         *)
(* src/tools/appletv_foreground/collector.py): only after the tunnel of    *)
(* the Apple TV has been missing without interruption, and less and less   *)
(* often while that does not help.                                         *)
(***************************************************************************)
EXTENDS Naturals

CONSTANTS
  Absence,      \* _TUNNELD_RECOVERY_SECONDS, both in ticks
  MaxBackoff,   \* _TUNNELD_RECOVERY_MAX_SECONDS
  MaxAttempts,  \* attempts that are told apart
  NotAbsent     \* absent_since is None

ASSUME WatchAssumption ==
  /\ {Absence, MaxBackoff, MaxAttempts} \subseteq Nat
  /\ Absence > 0 /\ MaxBackoff >= Absence
  /\ Absence * 2^MaxAttempts >= MaxBackoff
  /\ NotAbsent \notin Nat

(* True of any MaxAttempts, but the provers know nothing of powers.         *)
ASSUME PowerAssumption == \A n \in 0..MaxAttempts : 2^n \in Nat

VARIABLES
  tunnel,    \* what is there: the tunnel, no tunnel at all, or another trouble
  recovery,  \* TunneldRecovery
  attempted, \* an attempt has been made since the last tick
  since      \* history: ticks since an attempt found anything but no tunnel, since
             \* the last restart, and the restarts since the last success

watchVars == <<tunnel, recovery, attempted, since>>

Tunnel == {"up", "none", "trouble"}

(* absent: the age of absent_since; wait: until next_at.                    *)
Recovery == [absent : (0..Absence) \cup {NotAbsent}, wait : 0..MaxBackoff,
             attempts : 0..MaxAttempts]
WatchHistory == [trouble : 0..Absence, restart : 0..MaxBackoff, restarts : 0..MaxAttempts]

WatchInit ==
  /\ tunnel \in Tunnel
  /\ recovery = [absent |-> NotAbsent, wait |-> 0, attempts |-> 0]
  /\ attempted = FALSE
  /\ since = [trouble |-> 0, restart |-> MaxBackoff, restarts |-> 0]

UpTo(n, limit) == IF n = limit THEN n ELSE n + 1
DownBy1(n) == IF n = 0 THEN n ELSE n - 1
Smaller(m, n) == IF m < n THEN m ELSE n

(* The loop makes an attempt in every tick.                                 *)
WatchTick ==
  /\ attempted
  /\ attempted' = FALSE
  /\ recovery' = [recovery EXCEPT !.absent = IF @ = NotAbsent THEN @ ELSE UpTo(@, Absence),
                                  !.wait = DownBy1(@)]
  /\ since' = [since EXCEPT !.trouble = UpTo(@, Absence), !.restart = UpTo(@, MaxBackoff)]
  /\ UNCHANGED tunnel

TunnelChanges ==
  /\ tunnel' \in Tunnel \ {tunnel}
  /\ UNCHANGED <<recovery, attempted, since>>

-----------------------------------------------------------------------------
(* TunneldRecovery.                                                         *)

(* A faulty variant: other trouble counts as absence.                       *)
interruptNever == recovery
interrupt == [recovery EXCEPT !.absent = NotAbsent]

present == [absent |-> NotAbsent, wait |-> 0, attempts |-> 0]

StillMissing == [recovery EXCEPT !.absent = IF @ = NotAbsent THEN 0 ELSE @]
due == StillMissing.absent >= Absence /\ recovery.wait = 0

Backoff(attempts) == Smaller(Absence * 2^attempts, MaxBackoff)

(* absent_since stays: the count goes on while tunneld starts.              *)
requested ==
  LET attempts == UpTo(recovery.attempts, MaxAttempts)
  IN [StillMissing EXCEPT !.attempts = attempts, !.wait = Backoff(attempts)]

-----------------------------------------------------------------------------
(* _dvt_loop().                                                             *)

Attempts == ~attempted /\ attempted' = TRUE /\ UNCHANGED tunnel

(* A snapshot was taken; the session may fail later, as trouble.            *)
Snapshot ==
  /\ Attempts /\ tunnel = "up"
  /\ recovery' = present
  /\ since' = [since EXCEPT !.trouble = 0, !.restarts = 0]

(* tunneld cannot be reached, or the session fails.                         *)
FailsOtherwise ==
  /\ Attempts /\ tunnel # "none"
  /\ recovery' = interrupt
  /\ since' = [since EXCEPT !.trouble = 0]

(* TunnelUnavailable, too early for anything to be done.                    *)
IsMissing ==
  /\ Attempts /\ tunnel = "none" /\ ~due
  /\ recovery' = StillMissing
  /\ UNCHANGED since

(* recover(): tunnels of other devices are listed, or it fails.             *)
RestartRefused ==
  /\ Attempts /\ tunnel = "none" /\ due
  /\ recovery' = interrupt
  /\ since' = [since EXCEPT !.trouble = 0]

RestartRequested ==
  /\ Attempts /\ tunnel = "none" /\ due
  /\ recovery' = requested
  /\ since' = [since EXCEPT !.restart = 0, !.restarts = UpTo(@, MaxAttempts)]

-----------------------------------------------------------------------------
WatchNext ==
  \/ WatchTick \/ TunnelChanges
  \/ Snapshot \/ FailsOtherwise \/ IsMissing \/ RestartRefused \/ RestartRequested

(* The loop goes on, and asking tunneld to exit succeeds again and again.   *)
WatchFairness ==
  /\ WF_watchVars(WatchTick) /\ SF_watchVars(RestartRequested)
  /\ WF_watchVars(Snapshot \/ FailsOtherwise \/ IsMissing \/ RestartRefused)

WatchSpec == WatchInit /\ [][WatchNext]_watchVars /\ WatchFairness
=============================================================================
