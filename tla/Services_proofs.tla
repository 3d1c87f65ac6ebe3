--------------------------- MODULE Services_proofs ---------------------------
(***************************************************************************)
(* Of the services beside Home Assistant: tunneld is restarted only when   *)
(* that is due; the sensor of the foreground app implements                *)
(* ForegroundSource and shows no app before it has settled; and the        *)
(* archive of the log loses nothing silently.                              *)
(***************************************************************************)
EXTENDS Services, SequenceTheorems, WellFoundedInduction, TLAPS

-----------------------------------------------------------------------------
(* TunneldWatch.                                                            *)

(* The count of restarts is the one the next pause is made from; an absence *)
(* is no older than the last other trouble; what is left of a pause and     *)
(* what has passed of it make a whole one.                                  *)
CountsAgree == recovery.attempts = since.restarts
AbsenceIsWhole == recovery.absent # NotAbsent => recovery.absent <= since.trouble
PauseIsWhole ==
  since.restarts = 0 \/ Backoff(since.restarts) <= since.restart + recovery.wait

WatchInv == WatchTypeOK /\ CountsAgree /\ AbsenceIsWhole /\ PauseIsWhole

(* A pause is a number of ticks, and no longer than the longest one.        *)
LEMMA BackoffType ==
  ASSUME NEW n \in 0..MaxAttempts
  PROVE  Backoff(n) \in 0..MaxBackoff
<1> DEFINE power == 2^n
<1>1. power \in Nat
  BY PowerAssumption
<1>2. Backoff(n) = Smaller(Absence * power, MaxBackoff)
  BY DEF Backoff
<1> HIDE DEF power
<1>3. Absence * power \in Nat /\ MaxBackoff \in Nat
  BY <1>1, WatchAssumption
<1> QED BY <1>2, <1>3 DEF Smaller

(* The fields of what the watch keeps.                                      *)
LEMMA WatchFields ==
  ASSUME WatchTypeOK
  PROVE  /\ recovery.absent \in (0..Absence) \cup {NotAbsent}
         /\ recovery.wait \in 0..MaxBackoff /\ recovery.attempts \in 0..MaxAttempts
         /\ since.trouble \in 0..Absence /\ since.restart \in 0..MaxBackoff
         /\ since.restarts \in 0..MaxAttempts
         /\ Absence \in Nat \ {0} /\ MaxBackoff \in Nat /\ MaxAttempts \in Nat
         /\ NotAbsent \notin 0..Absence
BY WatchAssumption DEF WatchTypeOK, Recovery, WatchHistory

LEMMA WatchTickKeepsInv ==
  ASSUME WatchInv, WatchTick
  PROVE  WatchInv'
<1> DEFINE absent == IF recovery.absent = NotAbsent THEN recovery.absent
                     ELSE UpTo(recovery.absent, Absence)
           wait == DownBy1(recovery.wait)
           trouble == UpTo(since.trouble, Absence)
           restart == UpTo(since.restart, MaxBackoff)
<1>0. WatchTypeOK /\ recovery \in Recovery /\ since \in WatchHistory
  BY DEF WatchInv, WatchTypeOK
<1>1. /\ absent \in (0..Absence) \cup {NotAbsent} /\ wait \in 0..MaxBackoff
      /\ trouble \in 0..Absence /\ restart \in 0..MaxBackoff
  BY <1>0, WatchFields DEF UpTo, DownBy1
<1>2. absent # NotAbsent => absent <= trouble
  BY <1>0, WatchFields DEF WatchInv, AbsenceIsWhole, UpTo
<1>3. since.restarts = 0 \/ Backoff(since.restarts) <= restart + wait
  <2>1. Backoff(since.restarts) \in 0..MaxBackoff
    BY <1>0, WatchFields, BackoffType
  <2> QED BY <1>0, <2>1, WatchFields DEF WatchInv, PauseIsWhole, UpTo, DownBy1
<1>4. /\ recovery' = [recovery EXCEPT !.absent = absent, !.wait = wait]
      /\ since' = [since EXCEPT !.trouble = trouble, !.restart = restart]
      /\ attempted' = FALSE /\ tunnel' = tunnel
  BY DEF WatchTick
<1> HIDE DEF absent, wait, trouble, restart
<1>5. /\ recovery' \in Recovery /\ since' \in WatchHistory
      /\ recovery'.absent = absent /\ recovery'.wait = wait
      /\ recovery'.attempts = recovery.attempts
      /\ since'.trouble = trouble /\ since'.restart = restart /\ since'.restarts = since.restarts
  BY <1>0, <1>1, <1>4 DEF Recovery, WatchHistory
<1>6. WatchTypeOK'
  BY <1>0, <1>4, <1>5 DEF WatchTypeOK
<1> QED BY <1>2, <1>3, <1>5, <1>6 DEF WatchInv, CountsAgree, AbsenceIsWhole, PauseIsWhole

(* An attempt of the loop that finds no tunnel; what it finds otherwise.    *)
LEMMA StillMissingType ==
  ASSUME WatchInv
  PROVE  /\ StillMissing \in Recovery /\ StillMissing.absent \in 0..Absence
         /\ StillMissing.absent <= since.trouble
         /\ StillMissing.wait = recovery.wait /\ StillMissing.attempts = recovery.attempts
<1> DEFINE absent == IF recovery.absent = NotAbsent THEN 0 ELSE recovery.absent
<1>0. WatchTypeOK /\ recovery \in Recovery
  BY DEF WatchInv, WatchTypeOK
<1>1. absent \in 0..Absence /\ absent <= since.trouble
  BY <1>0, WatchFields DEF WatchInv, AbsenceIsWhole
<1>2. StillMissing = [recovery EXCEPT !.absent = absent]
  BY DEF StillMissing
<1> HIDE DEF absent
<1> QED BY <1>0, <1>1, <1>2 DEF Recovery

(* What RestartsAreDue says of a step.                                      *)
RestartIsDue ==
  RestartRequested =>
    /\ since.trouble >= Absence
    /\ since.restarts = 0 \/ since.restart >= Backoff(since.restarts)

LEMMA RestartRequestedIsDue ==
  ASSUME WatchInv, RestartRequested
  PROVE  WatchInv' /\ RestartIsDue
<1> DEFINE attempts == UpTo(recovery.attempts, MaxAttempts)
           wait == Backoff(attempts)
           restarts == UpTo(since.restarts, MaxAttempts)
<1>0. WatchTypeOK /\ since \in WatchHistory
  BY DEF WatchInv, WatchTypeOK
<1>1. attempts \in 0..MaxAttempts /\ restarts = attempts
  BY <1>0, WatchFields DEF WatchInv, CountsAgree, UpTo
<1>2. wait \in 0..MaxBackoff
  BY <1>1, BackoffType
<1>3. /\ recovery' = [StillMissing EXCEPT !.attempts = attempts, !.wait = wait]
      /\ since' = [since EXCEPT !.restart = 0, !.restarts = restarts]
      /\ attempted' = TRUE /\ tunnel' = tunnel
      /\ StillMissing.absent >= Absence /\ recovery.wait = 0
  BY DEF RestartRequested, Attempts, requested, due
<1>4. RestartIsDue
  BY <1>0, <1>3, StillMissingType, WatchFields, BackoffType
     DEF RestartIsDue, WatchInv, PauseIsWhole
<1> HIDE DEF attempts, wait, restarts
<1>5. /\ recovery' \in Recovery /\ since' \in WatchHistory
      /\ recovery'.absent = StillMissing.absent /\ recovery'.wait = wait
      /\ recovery'.attempts = attempts
      /\ since'.trouble = since.trouble /\ since'.restart = 0 /\ since'.restarts = restarts
  <2>1. 0 \in 0..MaxBackoff
    BY WatchAssumption
  <2> QED BY <1>0, <1>1, <1>2, <1>3, <2>1, StillMissingType DEF Recovery, WatchHistory
<1>6. WatchTypeOK' /\ CountsAgree' /\ AbsenceIsWhole'
  BY <1>0, <1>1, <1>3, <1>5, StillMissingType DEF WatchTypeOK, CountsAgree, AbsenceIsWhole
<1>7. PauseIsWhole'
  <2>1. Backoff(restarts) = wait
    BY <1>1 DEF wait
  <2> QED BY <1>2, <1>5, <2>1 DEF PauseIsWhole
<1> QED BY <1>4, <1>6, <1>7 DEF WatchInv

(* The steps of the watch keep its invariant.                               *)
LEMMA WatchStepIsDue ==
  ASSUME WatchInv, [WatchNext]_watchVars
  PROVE  WatchInv' /\ [RestartIsDue]_watchVars
<1>0. /\ WatchTypeOK /\ recovery \in Recovery /\ since \in WatchHistory
      /\ 0 \in 0..MaxBackoff /\ 0 \in 0..MaxAttempts /\ 0 \in 0..Absence
  BY WatchAssumption DEF WatchInv, WatchTypeOK
<1>1. CASE UNCHANGED watchVars
  BY <1>1 DEF watchVars, WatchInv, WatchTypeOK, CountsAgree, AbsenceIsWhole, PauseIsWhole
<1>2. CASE WatchTick
  <2>1. ~RestartRequested
    BY <1>2 DEF WatchTick, RestartRequested, Attempts
  <2> QED BY <1>2, <2>1, WatchTickKeepsInv DEF RestartIsDue
<1>3. CASE TunnelChanges
  <2>1. ~RestartRequested
    BY <1>3 DEF TunnelChanges, RestartRequested, Attempts
  <2> QED BY <1>3, <2>1 DEF TunnelChanges, RestartIsDue, WatchInv, WatchTypeOK, CountsAgree,
                            AbsenceIsWhole, PauseIsWhole
<1>4. CASE RestartRequested
  BY <1>4, RestartRequestedIsDue
<1>5. CASE ~RestartRequested /\ Snapshot
  <2>1. present \in Recovery /\ present.absent = NotAbsent /\ present.attempts = 0
    BY <1>0 DEF present, Recovery
  <2>2. /\ since' = [since EXCEPT !.trouble = 0, !.restarts = 0]
        /\ recovery' = present /\ attempted' = TRUE /\ tunnel' = tunnel
    BY <1>5 DEF Snapshot, Attempts
  <2>3. since' \in WatchHistory /\ since'.restarts = 0
    BY <1>0, <2>2 DEF WatchHistory
  <2> QED BY <1>0, <1>5, <2>1, <2>2, <2>3 DEF RestartIsDue, WatchInv, WatchTypeOK, CountsAgree,
                                              AbsenceIsWhole, PauseIsWhole
<1>6. CASE ~RestartRequested /\ (FailsOtherwise \/ RestartRefused)
  <2>1. /\ since' = [since EXCEPT !.trouble = 0]
        /\ recovery' = [recovery EXCEPT !.absent = NotAbsent]
        /\ attempted' = TRUE /\ tunnel' = tunnel
    BY <1>6 DEF FailsOtherwise, RestartRefused, Attempts, interrupt
  <2>2. /\ since' \in WatchHistory /\ recovery' \in Recovery
        /\ since'.restarts = since.restarts /\ since'.restart = since.restart
        /\ recovery'.absent = NotAbsent /\ recovery'.wait = recovery.wait
        /\ recovery'.attempts = recovery.attempts
    BY <1>0, <2>1 DEF WatchHistory, Recovery
  <2> QED BY <1>0, <1>6, <2>1, <2>2 DEF RestartIsDue, WatchInv, WatchTypeOK, CountsAgree,
                                        AbsenceIsWhole, PauseIsWhole
<1>7. CASE ~RestartRequested /\ IsMissing
  <2>1. recovery' = StillMissing /\ since' = since /\ attempted' = TRUE /\ tunnel' = tunnel
    BY <1>7 DEF IsMissing, Attempts
  <2> QED BY <1>0, <1>7, <2>1, StillMissingType DEF RestartIsDue, WatchInv, WatchTypeOK,
                 CountsAgree, AbsenceIsWhole, PauseIsWhole
<1> QED BY <1>1, <1>2, <1>3, <1>4, <1>5, <1>6, <1>7 DEF WatchNext

LEMMA InitWatchInv == WatchInit => WatchInv
<1> SUFFICES ASSUME WatchInit PROVE WatchInv
  OBVIOUS
<1>1. /\ MaxBackoff \in 0..MaxBackoff /\ 0 \in 0..MaxBackoff /\ 0 \in 0..MaxAttempts
      /\ 0 \in 0..Absence
  BY WatchAssumption
<1> QED BY <1>1 DEF WatchInit, WatchInv, WatchTypeOK, CountsAgree, AbsenceIsWhole,
                    PauseIsWhole, Recovery, WatchHistory

-----------------------------------------------------------------------------
(* Collector: the messages under way.                                       *)

IsState(m) == m.topic = "state"
IsAvailability(m) == m.topic = "availability"
IsOn(m) == IsAvailability(m) /\ m.online
States(p) == {i \in DOMAIN p : IsState(p[i])}

(* Of the sensor f, the tracker t and the messages p from one to the other: *)
(* events do not go back,                                                   *)
PipeInOrder(f, t, p) ==
  /\ \A j \in States(p) : f.event <= p[j].event /\ p[j].event <= t.event
  /\ \A i, j \in States(p) : i < j => p[i].event <= p[j].event

(* the same event is of the same app,                                       *)
EventsNameApps(f, t, p) ==
  /\ \A i, j \in States(p) : p[i].event = p[j].event => p[i].app = p[j].app
  /\ \A j \in States(p) : p[j].event = f.event => p[j].app = f.app
  /\ \A j \in States(p) : p[j].event = t.event => p[j].app = t.app
  /\ t.event > 0 /\ f.event = t.event => f.app = t.app

(* the next event is of another one,                                        *)
NeighboursDiffer(p) ==
  \A i, j \in States(p) : i < j /\ p[j].event = p[i].event + 1 => p[i].app # p[j].app

(* and from the first message on no event is left out.                      *)
NoneIsSkipped(t, p) ==
  /\ \A i, j \in States(p) : i < j /\ p[i].event < p[j].event =>
       \E k \in States(p) : i <= k /\ k < j /\ p[k].event = p[j].event - 1
  /\ \A i \in States(p) : \E k \in States(p) : i <= k /\ p[k].event = t.event

(* The sensor has nothing of this run of the collector: it is down, and an  *)
(* app comes before it is up.                                               *)
Foreign(f, p) ==
  ~f.online /\ \A i \in DOMAIN p : IsOn(p[i]) => \E k \in States(p) : k < i

(* Or the first message goes on from where the sensor is.                   *)
Chained(f, t, p) ==
  /\ f.event <= t.event /\ t.event > 0
  /\ \A j \in States(p) : p[j].event = f.event + 1 => p[j].app # f.app
  /\ \A j \in States(p) : p[j].event > f.event + 1 =>
       \E k \in States(p) : k < j /\ p[k].event = p[j].event - 1
  /\ f.event < t.event => \E k \in States(p) : p[k].event = t.event

(* No sensor is up that has shown nothing.                                  *)
OnFollowsState(f, p) ==
  \A i \in DOMAIN p : IsOn(p[i]) => f.event > 0 \/ \E k \in States(p) : k < i

Chain(f, t, p) ==
  /\ t.event \in {0, t.issued} /\ f.event <= t.issued
  /\ PipeInOrder(f, t, p) /\ EventsNameApps(f, t, p) /\ NeighboursDiffer(p)
  /\ NoneIsSkipped(t, p) /\ OnFollowsState(f, p)
  /\ Foreign(f, p) \/ Chained(f, t, p)

(* The last message on availability says what the tracker has.              *)
AvailabilityArrives(f, t, p) ==
  /\ (\A i \in DOMAIN p : ~IsAvailability(p[i])) => f.online = t.online
  /\ \A i \in DOMAIN p :
       IsAvailability(p[i]) /\ (\A j \in DOMAIN p : j > i => ~IsAvailability(p[j])) =>
         p[i].online = t.online

(* What the fields of messages, of the sensor and of the tracker are.       *)
LEMMA StateFields ==
  ASSUME NEW p \in Seq(MessageType), NEW i \in States(p)
  PROVE  /\ i \in DOMAIN p /\ i \in Nat /\ IsState(p[i]) /\ p[i] \in MessageType
         /\ p[i].event \in 1..MaxEvent /\ p[i].event \in Nat /\ p[i].event > 0
         /\ p[i].app \in MaybeApp /\ ~IsAvailability(p[i])
<1>1. i \in 1..Len(p) /\ Len(p) \in Nat /\ IsState(p[i])
  BY LenProperties DEF States
<1>2. p[i] \in MessageType
  BY <1>1, ElementOfSeq
<1>3. p[i] \in [topic : {"state"}, app : MaybeApp, event : 1..MaxEvent]
  BY <1>1, <1>2 DEF MessageType, IsState
<1> QED BY <1>1, <1>2, <1>3, SourceAssumption DEF States, IsAvailability

LEMMA SensorFields ==
  ASSUME NEW f \in Source
  PROVE  f.event \in 0..MaxEvent /\ f.event \in Nat /\ f.online \in BOOLEAN /\ f.app \in MaybeApp
BY SourceAssumption DEF Source

LEMMA TrackerFields ==
  ASSUME NEW t \in Tracker
  PROVE  /\ t.event \in 0..MaxEvent /\ t.event \in Nat /\ t.issued \in 0..MaxEvent
         /\ t.issued \in Nat /\ t.online \in BOOLEAN /\ t.app \in MaybeApp
BY SourceAssumption DEF Tracker

(* The two kinds of messages.                                               *)
LEMMA MessageKinds ==
  /\ \A t \in Tracker : t.event > 0 =>
       /\ StateMessage(t) \in MessageType /\ IsState(StateMessage(t))
       /\ ~IsAvailability(StateMessage(t)) /\ ~IsOn(StateMessage(t))
       /\ StateMessage(t).app = t.app /\ StateMessage(t).event = t.event
  /\ \A online \in BOOLEAN :
       /\ Availability(online) \in MessageType /\ ~IsState(Availability(online))
       /\ IsAvailability(Availability(online)) /\ Availability(online).online = online
  /\ \A m \in MessageType : IsState(m) \/ (IsAvailability(m) /\ m.online \in BOOLEAN)
<1>1. ASSUME NEW t \in Tracker, t.event > 0
      PROVE  StateMessage(t) \in MessageType
  <2>1. t.event \in 1..MaxEvent /\ t.app \in MaybeApp
    BY <1>1, TrackerFields, SourceAssumption
  <2> QED BY <2>1 DEF StateMessage, MessageType
<1>2. \A m \in MessageType : IsState(m) \/ (IsAvailability(m) /\ m.online \in BOOLEAN)
  BY DEF MessageType, IsState, IsAvailability
<1> QED BY <1>1, <1>2 DEF StateMessage, Availability, MessageType, IsState, IsAvailability, IsOn

(* One more message at the end: where the old ones and the new one are.     *)
LEMMA OneMore ==
  ASSUME NEW p \in Seq(MessageType), NEW m \in MessageType
  PROVE  /\ Append(p, m) \in Seq(MessageType)
         /\ Len(p) + 1 \in Nat /\ Append(p, m)[Len(p) + 1] = m
         /\ DOMAIN Append(p, m) = DOMAIN p \cup {Len(p) + 1}
         /\ \A i \in DOMAIN p : i \in Nat /\ i < Len(p) + 1 /\ Append(p, m)[i] = p[i]
         /\ IsState(m) => States(Append(p, m)) = States(p) \cup {Len(p) + 1}
         /\ ~IsState(m) => States(Append(p, m)) = States(p)
<1>1. /\ Append(p, m) \in Seq(MessageType) /\ Len(p) \in Nat
      /\ Append(p, m)[Len(p) + 1] = m /\ Len(Append(p, m)) = Len(p) + 1
      /\ \A i \in 1..Len(p) : Append(p, m)[i] = p[i]
  BY AppendProperties, LenProperties
<1>2. DOMAIN Append(p, m) = 1..(Len(p) + 1) /\ DOMAIN p = 1..Len(p)
  BY <1>1, LenProperties
<1>3. DOMAIN Append(p, m) = DOMAIN p \cup {Len(p) + 1} /\ Len(p) + 1 \notin DOMAIN p
  BY <1>1, <1>2
<1> QED BY <1>1, <1>2, <1>3 DEF States

(* The app of the tracker is stated again.                                  *)
LEMMA StatedAgain ==
  ASSUME NEW f \in Source, NEW t \in Tracker, NEW p \in Seq(MessageType),
         Chain(f, t, p), t.event > 0
  PROVE  Chain(f, t, Append(p, StateMessage(t)))
<1> DEFINE m == StateMessage(t)
           q == Append(p, m)
           n == Len(p) + 1
<1>1. /\ m \in MessageType /\ IsState(m) /\ ~IsOn(m) /\ m.app = t.app /\ m.event = t.event
  BY MessageKinds
<1>2. /\ n \in Nat /\ q[n] = m /\ DOMAIN q = DOMAIN p \cup {n} /\ States(q) = States(p) \cup {n}
      /\ \A i \in DOMAIN p : i \in Nat /\ i < n /\ q[i] = p[i]
  BY <1>1, OneMore
<1>3. \A i \in States(p) : /\ i \in DOMAIN p /\ i \in Nat /\ i < n /\ q[i] = p[i]
                           /\ p[i].event \in Nat
  BY <1>2, StateFields
<1>4. f.event \in Nat /\ t.event \in Nat /\ t.issued \in Nat
  BY SensorFields, TrackerFields
<1>5. f.event <= t.event
  <2>1. t.event = t.issued
    BY DEF Chain
  <2> QED BY <2>1 DEF Chain
<1> HIDE DEF m, q, n
<1>6. PipeInOrder(f, t, q)
  BY <1>1, <1>2, <1>3, <1>4, <1>5 DEF Chain, PipeInOrder
<1>7. EventsNameApps(f, t, q)
  BY <1>1, <1>2, <1>3, <1>4 DEF Chain, EventsNameApps
<1>8. NeighboursDiffer(q)
  <2> SUFFICES ASSUME NEW i \in States(q), NEW j \in States(q),
                      i < j, q[j].event = q[i].event + 1
               PROVE  q[i].app # q[j].app
    BY DEF NeighboursDiffer
  <2>1. i \in States(p)
    BY <1>2, <1>3
  <2>2. CASE j \in States(p)
    BY <1>3, <2>1, <2>2 DEF Chain, NeighboursDiffer
  <2>3. CASE j = n
    <3>1. PICK k \in States(p) : i <= k /\ p[k].event = t.event
      BY <2>1 DEF Chain, NoneIsSkipped
    <3>2. p[k].event = p[i].event + 1
      BY <1>1, <1>2, <1>3, <2>1, <2>3, <3>1
    <3>4. i # k
      BY <1>3, <2>1, <3>2
    <3>5. i < k
      BY <1>3, <2>1, <3>1, <3>4
    <3>3. p[i].app # p[k].app /\ p[k].app = t.app
      BY <1>3, <2>1, <3>1, <3>2, <3>5 DEF Chain, NeighboursDiffer, EventsNameApps
    <3> QED BY <1>1, <1>2, <1>3, <2>1, <2>3, <3>3
  <2> QED BY <1>2, <2>2, <2>3
<1>9. NoneIsSkipped(t, q)
  <2>1. ASSUME NEW i \in States(q), NEW j \in States(q), i < j, q[i].event < q[j].event
        PROVE  \E k \in States(q) : i <= k /\ k < j /\ q[k].event = q[j].event - 1
    <3>1. i \in States(p)
      BY <1>2, <1>3, <2>1
    <3>2. CASE j \in States(p)
      <4>1. PICK k \in States(p) : i <= k /\ k < j /\ p[k].event = p[j].event - 1
        BY <1>3, <2>1, <3>1, <3>2 DEF Chain, NoneIsSkipped
      <4> QED BY <1>2, <1>3, <3>2, <4>1
    <3>3. CASE j = n
      <4>1. PICK l \in States(p) : i <= l /\ p[l].event = t.event
        BY <3>1 DEF Chain, NoneIsSkipped
      <4>2. p[i].event < p[l].event
        BY <1>1, <1>2, <1>3, <2>1, <3>1, <3>3, <4>1
      <4>4. i < l
        BY <1>3, <3>1, <4>1, <4>2
      <4>3. PICK k \in States(p) : i <= k /\ k < l /\ p[k].event = p[l].event - 1
        BY <3>1, <4>2, <4>4 DEF Chain, NoneIsSkipped
      <4> QED BY <1>1, <1>2, <1>3, <3>3, <4>1, <4>3
    <3> QED BY <1>2, <3>2, <3>3, <2>1
  <2>2. ASSUME NEW i \in States(q)
        PROVE  \E k \in States(q) : i <= k /\ q[k].event = t.event
    BY <1>1, <1>2, <1>3
  <2> QED BY <2>1, <2>2 DEF NoneIsSkipped
<1>10. OnFollowsState(f, q)
  BY <1>1, <1>2, <1>3 DEF Chain, OnFollowsState
<1>11. Foreign(f, q) \/ Chained(f, t, q)
  <2>1. CASE Foreign(f, p)
    BY <1>1, <1>2, <1>3, <2>1 DEF Foreign
  <2>2. CASE Chained(f, t, p)
    <3>1. ASSUME NEW j \in States(q), q[j].event = f.event + 1 PROVE q[j].app # f.app
      <4>1. CASE j \in States(p)
        BY <1>3, <2>2, <3>1, <4>1 DEF Chained
      <4>2. CASE j = n
        <5>1. PICK k \in States(p) : p[k].event = t.event
          BY <1>1, <1>2, <1>4, <2>2, <3>1, <4>2 DEF Chained
        <5>2. p[k].app = t.app /\ p[k].app # f.app
          BY <1>1, <1>2, <2>2, <3>1, <4>2, <5>1 DEF Chain, EventsNameApps, Chained
        <5> QED BY <1>1, <1>2, <4>2, <5>2
      <4> QED BY <1>2, <3>1, <4>1, <4>2
    <3>2. ASSUME NEW j \in States(q), q[j].event > f.event + 1
          PROVE  \E k \in States(q) : k < j /\ q[k].event = q[j].event - 1
      <4>1. CASE j \in States(p)
        <5>1. PICK k \in States(p) : k < j /\ p[k].event = p[j].event - 1
          BY <1>3, <2>2, <3>2, <4>1 DEF Chained
        <5> QED BY <1>2, <1>3, <4>1, <5>1
      <4>2. CASE j = n
        <5>1. PICK l \in States(p) : p[l].event = t.event
          BY <1>1, <1>2, <1>4, <2>2, <3>2, <4>2 DEF Chained
        <5>2. PICK k \in States(p) : k < l /\ p[k].event = p[l].event - 1
          BY <1>1, <1>2, <2>2, <3>2, <4>2, <5>1 DEF Chained
        <5> QED BY <1>1, <1>2, <1>3, <4>2, <5>1, <5>2
      <4> QED BY <1>2, <3>2, <4>1, <4>2
    <3>3. \E k \in States(q) : q[k].event = t.event
      BY <1>1, <1>2
    <3> QED BY <2>2, <3>1, <3>2, <3>3 DEF Chained
  <2> QED BY <2>1, <2>2 DEF Chain
<1> QED BY <1>6, <1>7, <1>8, <1>9, <1>10, <1>11 DEF Chain, q, m

(* The tracker has another app, or its first one.                           *)
LEMMA StatedAnew ==
  ASSUME NEW f \in Source, NEW t \in Tracker, NEW u \in Tracker, NEW p \in Seq(MessageType),
         Chain(f, t, p), u.event = t.issued + 1, u.issued = u.event,
         t.event > 0 => u.app # t.app
  PROVE  Chain(f, u, Append(p, StateMessage(u)))
<1> DEFINE m == StateMessage(u)
           q == Append(p, m)
           n == Len(p) + 1
<1>4. /\ f.event \in Nat /\ t.event \in Nat /\ t.issued \in Nat /\ u.event \in Nat
      /\ u.event > 0 /\ f.event < u.event /\ t.event < u.event
      /\ t.event > 0 => u.event = t.event + 1
  BY SensorFields, TrackerFields DEF Chain
<1>1. /\ m \in MessageType /\ IsState(m) /\ ~IsOn(m) /\ m.app = u.app /\ m.event = u.event
  BY <1>4, MessageKinds
<1>2. /\ n \in Nat /\ q[n] = m /\ DOMAIN q = DOMAIN p \cup {n} /\ States(q) = States(p) \cup {n}
      /\ \A i \in DOMAIN p : i \in Nat /\ i < n /\ q[i] = p[i]
  BY <1>1, OneMore
<1>3. \A i \in States(p) : /\ i \in DOMAIN p /\ i \in Nat /\ i < n /\ q[i] = p[i]
                           /\ p[i].event \in Nat /\ p[i].event > 0
  BY <1>2, StateFields
<1>5. \A i \in States(p) : p[i].event <= t.event /\ p[i].event < u.event /\ t.event > 0
  BY <1>3, <1>4 DEF Chain, PipeInOrder
<1> HIDE DEF m, q, n
<1>6. PipeInOrder(f, u, q)
  BY <1>1, <1>2, <1>3, <1>4, <1>5 DEF Chain, PipeInOrder
<1>7. EventsNameApps(f, u, q)
  BY <1>1, <1>2, <1>3, <1>4, <1>5 DEF Chain, EventsNameApps
<1>8. NeighboursDiffer(q)
  <2> SUFFICES ASSUME NEW i \in States(q), NEW j \in States(q),
                      i < j, q[j].event = q[i].event + 1
               PROVE  q[i].app # q[j].app
    BY DEF NeighboursDiffer
  <2>1. i \in States(p)
    BY <1>2, <1>3
  <2>2. CASE j \in States(p)
    BY <1>3, <2>1, <2>2 DEF Chain, NeighboursDiffer
  <2>3. CASE j = n
    <3>0. u.event = p[i].event + 1 /\ u.event = t.event + 1
      BY <1>1, <1>2, <1>3, <1>4, <1>5, <2>1, <2>3
    <3>1. p[i].event = t.event
      BY <1>3, <1>4, <2>1, <3>0
    <3>2. p[i].app = t.app
      BY <2>1, <3>1 DEF Chain, EventsNameApps
    <3> QED BY <1>1, <1>2, <1>3, <1>5, <2>1, <2>3, <3>2
  <2> QED BY <1>2, <2>2, <2>3
<1>9. NoneIsSkipped(u, q)
  <2>1. ASSUME NEW i \in States(q), NEW j \in States(q), i < j, q[i].event < q[j].event
        PROVE  \E k \in States(q) : i <= k /\ k < j /\ q[k].event = q[j].event - 1
    <3>1. i \in States(p)
      BY <1>2, <1>3, <2>1
    <3>2. CASE j \in States(p)
      <4>1. PICK k \in States(p) : i <= k /\ k < j /\ p[k].event = p[j].event - 1
        BY <1>3, <2>1, <3>1, <3>2 DEF Chain, NoneIsSkipped
      <4> QED BY <1>2, <1>3, <3>2, <4>1
    <3>3. CASE j = n
      <4>1. PICK k \in States(p) : i <= k /\ p[k].event = t.event
        BY <3>1 DEF Chain, NoneIsSkipped
      <4>2. q[j].event = t.event + 1
        BY <1>1, <1>2, <1>4, <1>5, <3>3, <4>1
      <4> QED BY <1>2, <1>3, <1>4, <3>3, <4>1, <4>2
    <3> QED BY <1>2, <3>2, <3>3, <2>1
  <2>2. ASSUME NEW i \in States(q)
        PROVE  \E k \in States(q) : i <= k /\ q[k].event = u.event
    BY <1>1, <1>2, <1>3
  <2> QED BY <2>1, <2>2 DEF NoneIsSkipped
<1>10. OnFollowsState(f, q)
  BY <1>1, <1>2, <1>3 DEF Chain, OnFollowsState
<1>11. Foreign(f, q) \/ Chained(f, u, q)
  <2>1. CASE Foreign(f, p)
    BY <1>1, <1>2, <1>3, <2>1 DEF Foreign
  <2>2. CASE Chained(f, t, p)
    <3>0. u.event = t.event + 1 /\ f.event <= t.event
      BY <1>4, <2>2 DEF Chained
    <3>1. ASSUME NEW j \in States(q), q[j].event = f.event + 1 PROVE q[j].app # f.app
      <4>1. CASE j \in States(p)
        BY <1>3, <2>2, <3>1, <4>1 DEF Chained
      <4>2. CASE j = n
        <5>1. f.event = t.event /\ t.event > 0
          BY <1>1, <1>2, <1>4, <2>2, <3>0, <3>1, <4>2 DEF Chained
        <5>2. f.app = t.app
          BY <5>1 DEF Chain, EventsNameApps
        <5> QED BY <1>1, <1>2, <4>2, <5>1, <5>2
      <4> QED BY <1>2, <3>1, <4>1, <4>2
    <3>2. ASSUME NEW j \in States(q), q[j].event > f.event + 1
          PROVE  \E k \in States(q) : k < j /\ q[k].event = q[j].event - 1
      <4>1. CASE j \in States(p)
        <5>1. PICK k \in States(p) : k < j /\ p[k].event = p[j].event - 1
          BY <1>3, <2>2, <3>2, <4>1 DEF Chained
        <5> QED BY <1>2, <1>3, <4>1, <5>1
      <4>2. CASE j = n
        <5>1. PICK k \in States(p) : p[k].event = t.event
          BY <1>1, <1>2, <1>4, <2>2, <3>0, <3>2, <4>2 DEF Chained
        <5>2. q[j].event = t.event + 1
          BY <1>1, <1>2, <3>0, <4>2
        <5> QED BY <1>2, <1>3, <1>4, <4>2, <5>1, <5>2
      <4> QED BY <1>2, <3>2, <4>1, <4>2
    <3>3. \E k \in States(q) : q[k].event = u.event
      BY <1>1, <1>2
    <3> QED BY <1>4, <3>1, <3>2, <3>3 DEF Chained
  <2> QED BY <2>1, <2>2 DEF Chain
<1>12. u.event \in {0, u.issued} /\ f.event <= u.issued
  BY <1>4
<1> QED BY <1>6, <1>7, <1>8, <1>9, <1>10, <1>11, <1>12 DEF Chain, q, m

(* A message on availability; that the sensor is up follows an app.         *)
LEMMA AvailabilityStated ==
  ASSUME NEW f \in Source, NEW t \in Tracker, NEW p \in Seq(MessageType),
         NEW online \in BOOLEAN,
         Chain(f, t, p), online => States(p) # {}
  PROVE  Chain(f, t, Append(p, Availability(online)))
<1> DEFINE m == Availability(online)
           q == Append(p, m)
           n == Len(p) + 1
<1>1. /\ m \in MessageType /\ ~IsState(m)
      /\ IsOn(m) => online
  BY MessageKinds DEF IsOn
<1>2. /\ n \in Nat /\ q[n] = m /\ DOMAIN q = DOMAIN p \cup {n} /\ States(q) = States(p)
      /\ \A i \in DOMAIN p : i \in Nat /\ i < n /\ q[i] = p[i]
  BY <1>1, OneMore
<1>3. \A i \in States(p) : i \in DOMAIN p /\ i < n /\ q[i] = p[i]
  BY <1>2, StateFields
<1> HIDE DEF m, q, n
<1>4. PipeInOrder(f, t, q) /\ EventsNameApps(f, t, q) /\ NeighboursDiffer(q) /\ NoneIsSkipped(t, q)
  <2>1. PipeInOrder(f, t, q)
    BY <1>2, <1>3 DEF Chain, PipeInOrder
  <2>2. EventsNameApps(f, t, q)
    BY <1>2, <1>3 DEF Chain, EventsNameApps
  <2>3. NeighboursDiffer(q)
    BY <1>2, <1>3 DEF Chain, NeighboursDiffer
  <2>4. NoneIsSkipped(t, q)
    <3>1. ASSUME NEW i \in States(p), NEW j \in States(p), i < j, p[i].event < p[j].event
          PROVE  \E k \in States(p) : i <= k /\ k < j /\ q[k].event = p[j].event - 1
      <4>1. PICK k \in States(p) : i <= k /\ k < j /\ p[k].event = p[j].event - 1
        BY <3>1 DEF Chain, NoneIsSkipped
      <4>2. q[k] = p[k]
        BY <1>3
      <4> QED BY <4>1, <4>2
    <3>2. \A i \in States(p) : \E k \in States(p) : i <= k /\ q[k].event = t.event
      BY <1>3 DEF Chain, NoneIsSkipped
    <3> QED BY <1>2, <1>3, <3>1, <3>2 DEF NoneIsSkipped
  <2> QED BY <2>1, <2>2, <2>3, <2>4
<1>5. OnFollowsState(f, q)
  BY <1>1, <1>2, <1>3 DEF Chain, OnFollowsState
<1>6. Foreign(f, p) => Foreign(f, q)
  BY <1>1, <1>2, <1>3 DEF Foreign
<1>7. Chained(f, t, p) => Chained(f, t, q)
  BY <1>2, <1>3 DEF Chained
<1> QED BY <1>4, <1>5, <1>6, <1>7 DEF Chain, q, m

(* The sensor is down: of what is under way nothing changes.                *)
LEMMA SensorGoesDown ==
  ASSUME NEW f \in Source, NEW t \in Tracker, NEW p \in Seq(MessageType), Chain(f, t, p)
  PROVE  /\ [f EXCEPT !.online = FALSE] \in Source
         /\ Chain([f EXCEPT !.online = FALSE], t, p)
<1> DEFINE g == [f EXCEPT !.online = FALSE]
<1>1. g \in Source /\ g.app = f.app /\ g.event = f.event /\ ~g.online
  BY DEF Source
<1> HIDE DEF g
<1>2. /\ PipeInOrder(g, t, p) /\ EventsNameApps(g, t, p) /\ OnFollowsState(g, p)
      /\ Foreign(g, p) \/ Chained(g, t, p)
  BY <1>1 DEF Chain, PipeInOrder, EventsNameApps, OnFollowsState, Foreign, Chained
<1>3. Chain(g, t, p)
  BY <1>1, <1>2 DEF Chain
<1> QED BY <1>1, <1>3 DEF g

(* A run of the collector begins, with nothing under way.                   *)
LEMMA RunBegins ==
  ASSUME NEW f \in Source, ~f.online, NEW issued \in 0..MaxEvent, f.event <= issued
  PROVE  /\ NewTracker(issued) \in Tracker /\ <<>> \in Seq(MessageType)
         /\ Chain(f, NewTracker(issued), <<>>)
<1> DEFINE t == NewTracker(issued)
<1>1. t \in Tracker /\ t.event = 0 /\ t.issued = issued
  BY SourceAssumption DEF NewTracker, Tracker, MaybeApp
<1>2. DOMAIN <<>> = {} /\ <<>> \in Seq(MessageType) /\ States(<<>>) = {}
  BY EmptySeq DEF States
<1> HIDE DEF t
<1>3. /\ PipeInOrder(f, t, <<>>) /\ EventsNameApps(f, t, <<>>) /\ NeighboursDiffer(<<>>)
      /\ NoneIsSkipped(t, <<>>) /\ OnFollowsState(f, <<>>) /\ Foreign(f, <<>>)
  BY <1>1, <1>2 DEF PipeInOrder, EventsNameApps, NeighboursDiffer, NoneIsSkipped,
                    OnFollowsState, Foreign
<1>4. Chain(f, t, <<>>)
  BY <1>1, <1>3 DEF Chain
<1> QED BY <1>1, <1>2, <1>4 DEF t

(* The first message goes: the others move up.                              *)
LEMMA OneLess ==
  ASSUME NEW p \in Seq(MessageType), p # <<>>
  PROVE  /\ Tail(p) \in Seq(MessageType) /\ 1 \in DOMAIN p /\ p[1] = Head(p)
         /\ Head(p) \in MessageType
         /\ \A i \in DOMAIN Tail(p) : i \in Nat /\ i + 1 \in DOMAIN p /\ Tail(p)[i] = p[i + 1]
         /\ \A j \in DOMAIN p : j \in Nat /\ j >= 1
         /\ \A j \in DOMAIN p : j > 1 => j - 1 \in DOMAIN Tail(p) /\ Tail(p)[j - 1] = p[j]
         /\ \A i \in States(Tail(p)) : i \in Nat /\ i + 1 \in States(p) /\ Tail(p)[i] = p[i + 1]
         /\ \A j \in States(p) : j > 1 => j - 1 \in States(Tail(p)) /\ Tail(p)[j - 1] = p[j]
<1>1. /\ Tail(p) \in Seq(MessageType) /\ Len(Tail(p)) = Len(p) - 1 /\ Head(p) \in MessageType
      /\ \A i \in 1..Len(Tail(p)) : Tail(p)[i] = p[i + 1]
      /\ Len(p) \in Nat /\ Len(p) > 0
  BY HeadTailProperties, LenProperties, EmptySeq
<1>2. DOMAIN p = 1..Len(p) /\ DOMAIN Tail(p) = 1..(Len(p) - 1) /\ p[1] = Head(p)
  BY <1>1, LenProperties
<1>3. \A i \in DOMAIN Tail(p) : i \in Nat /\ i + 1 \in DOMAIN p /\ Tail(p)[i] = p[i + 1]
  BY <1>1, <1>2
<1>4. \A j \in DOMAIN p : j \in Nat /\ j >= 1 /\ (j > 1 => j - 1 \in DOMAIN Tail(p))
  BY <1>1, <1>2
<1>5. ASSUME NEW j \in DOMAIN p, j > 1 PROVE Tail(p)[j - 1] = p[j]
  BY <1>3, <1>4, <1>5
<1> QED BY <1>1, <1>2, <1>3, <1>4, <1>5 DEF States

(* What holds among the messages holds among the others.                    *)
LEMMA OthersStay ==
  ASSUME NEW f \in Source, NEW t \in Tracker, NEW p \in Seq(MessageType), p # <<>>,
         Chain(f, t, p)
  PROVE  /\ \A i, j \in States(Tail(p)) : i < j => Tail(p)[i].event <= Tail(p)[j].event
         /\ \A i, j \in States(Tail(p)) :
              Tail(p)[i].event = Tail(p)[j].event => Tail(p)[i].app = Tail(p)[j].app
         /\ NeighboursDiffer(Tail(p)) /\ NoneIsSkipped(t, Tail(p))
<1> DEFINE q == Tail(p)
<1>1. /\ \A i \in States(q) : i \in Nat /\ i + 1 \in States(p) /\ q[i] = p[i + 1]
      /\ \A j \in States(p) : j \in Nat
      /\ \A j \in States(p) : j > 1 => j - 1 \in States(q) /\ q[j - 1] = p[j]
  BY OneLess, StateFields
<1> HIDE DEF q
<1>2. \A i, j \in States(q) : i < j => i + 1 < j + 1
  BY <1>1
<1>3. \A i, j \in States(q) : i < j => q[i].event <= q[j].event
  BY <1>1, <1>2 DEF Chain, PipeInOrder
<1>4. \A i, j \in States(q) : q[i].event = q[j].event => q[i].app = q[j].app
  BY <1>1 DEF Chain, EventsNameApps
<1>5. NeighboursDiffer(q)
  <2> SUFFICES ASSUME NEW i \in States(q), NEW j \in States(q),
                      i < j, q[j].event = q[i].event + 1
               PROVE  q[i].app # q[j].app
    BY DEF NeighboursDiffer
  <2>1. /\ i + 1 \in States(p) /\ j + 1 \in States(p) /\ i + 1 < j + 1
        /\ q[i] = p[i + 1] /\ q[j] = p[j + 1]
    BY <1>1, <1>2
  <2>2. p[j + 1].event = p[i + 1].event + 1
    BY <2>1
  <2> QED BY <2>1, <2>2 DEF Chain, NeighboursDiffer
<1>6. NoneIsSkipped(t, q)
  <2>1. ASSUME NEW i \in States(q), NEW j \in States(q), i < j, q[i].event < q[j].event
        PROVE  \E k \in States(q) : i <= k /\ k < j /\ q[k].event = q[j].event - 1
    <3>1. PICK k \in States(p) : i + 1 <= k /\ k < j + 1 /\ p[k].event = p[j + 1].event - 1
      BY <1>1, <1>2, <2>1 DEF Chain, NoneIsSkipped
    <3>2. k \in Nat /\ k > 1 /\ i <= k - 1 /\ k - 1 < j
      <4>1. i \in Nat /\ i + 1 \in States(p) /\ j \in Nat /\ k \in Nat /\ i + 1 >= 1
        BY <1>1
      <4>2. i >= 1
        BY OneLess DEF q, States
      <4> QED BY <3>1, <4>1, <4>2
    <3>3. q[j] = p[j + 1]
      BY <1>1
    <3> QED BY <1>1, <3>1, <3>2, <3>3
  <2>2. ASSUME NEW i \in States(q)
        PROVE  \E k \in States(q) : i <= k /\ q[k].event = t.event
    <3>1. PICK k \in States(p) : i + 1 <= k /\ p[k].event = t.event
      BY <1>1 DEF Chain, NoneIsSkipped
    <3>2. i >= 1
      BY OneLess DEF q, States
    <3>3. k \in Nat /\ i \in Nat
      BY <1>1
    <3>4. k > 1 /\ i <= k - 1
      BY <3>1, <3>2, <3>3
    <3> QED BY <1>1, <3>1, <3>4
  <2> QED BY <2>1, <2>2 DEF NoneIsSkipped
<1> QED BY <1>3, <1>4, <1>5, <1>6 DEF q

(* The sensor gets an app: the same one again, or one to announce.          *)
LEMMA StateArrives ==
  ASSUME NEW f \in Source, NEW t \in Tracker, NEW p \in Seq(MessageType), p # <<>>,
         Chain(f, t, p), IsState(Head(p)),
         NEW g, g = [f EXCEPT !.app = Head(p).app, !.event = Head(p).event]
  PROVE  /\ g \in Source /\ Chain(g, t, Tail(p))
         /\ g = f \/ (/\ f.event < Head(p).event
                      /\ Head(p).app # f.app \/ ~f.online)
<1> DEFINE q == Tail(p)
           m == Head(p)
<1>1. /\ \A i \in States(q) : i \in Nat /\ i >= 1 /\ i + 1 \in States(p) /\ q[i] = p[i + 1]
      /\ \A j \in States(p) : j > 1 => j - 1 \in States(q) /\ q[j - 1] = p[j]
      /\ 1 \in States(p) /\ p[1] = m /\ q \in Seq(MessageType)
  <2>1. /\ \A i \in States(q) : i \in Nat /\ i + 1 \in States(p) /\ q[i] = p[i + 1]
        /\ \A j \in States(p) : j > 1 => j - 1 \in States(q) /\ q[j - 1] = p[j]
        /\ 1 \in DOMAIN p /\ p[1] = m /\ q \in Seq(MessageType)
    BY OneLess
  <2>2. \A i \in States(q) : i \in DOMAIN q
    BY DEF States
  <2>3. \A i \in DOMAIN q : i >= 1
    BY <2>1, LenProperties
  <2> QED BY <2>1, <2>2, <2>3 DEF States
<1>2. /\ m.event \in Nat /\ m.event > 0 /\ m.event \in 1..MaxEvent /\ m.app \in MaybeApp
      /\ \A j \in States(p) : j \in Nat /\ p[j].event \in Nat
      /\ f.event \in Nat /\ t.event \in Nat /\ t.issued \in Nat
  BY <1>1, StateFields, SensorFields, TrackerFields
<1>3. g \in Source /\ g.app = m.app /\ g.event = m.event /\ g.online = f.online
  <2>1. m.event \in 0..MaxEvent
    BY <1>2, SourceAssumption
  <2> HIDE DEF m
  <2>2. g = [f EXCEPT !.app = m.app, !.event = m.event]
    BY DEF m
  <2> QED BY <1>2, <2>1, <2>2 DEF Source
<1>4. /\ \A i, j \in States(q) : i < j => q[i].event <= q[j].event
      /\ \A i, j \in States(q) : q[i].event = q[j].event => q[i].app = q[j].app
      /\ NeighboursDiffer(q) /\ NoneIsSkipped(t, q)
  BY OthersStay
<1>5. f.event <= m.event /\ m.event <= t.event
  BY <1>1 DEF Chain, PipeInOrder
<1> HIDE DEF q, m
<1>6. PipeInOrder(g, t, q)
  <2>1. \A j \in States(q) : m.event <= q[j].event /\ q[j].event <= t.event
    <3> TAKE j \in States(q)
    <3>1. j + 1 \in States(p) /\ 1 < j + 1 /\ q[j] = p[j + 1]
      BY <1>1
    <3> QED BY <1>1, <3>1 DEF Chain, PipeInOrder
  <2> QED BY <1>3, <1>4, <2>1 DEF PipeInOrder
<1>7. EventsNameApps(g, t, q)
  BY <1>1, <1>3, <1>4 DEF Chain, EventsNameApps
<1>8. OnFollowsState(g, q)
  BY <1>2, <1>3 DEF OnFollowsState
<1>9. Chained(g, t, q)
  <2>1. ASSUME NEW j \in States(q), q[j].event = m.event + 1 PROVE q[j].app # m.app
    <3>1. j + 1 \in States(p) /\ 1 < j + 1 /\ q[j] = p[j + 1]
      BY <1>1
    <3> QED BY <1>1, <2>1, <3>1 DEF Chain, NeighboursDiffer
  <2>2. ASSUME NEW j \in States(q), q[j].event > m.event + 1
        PROVE  \E k \in States(q) : k < j /\ q[k].event = q[j].event - 1
    <3>1. j \in Nat /\ j + 1 \in States(p) /\ 1 < j + 1 /\ q[j] = p[j + 1]
      BY <1>1
    <3>2. m.event < q[j].event
      BY <1>2, <2>2, <3>1
    <3>3. PICK k \in States(p) : 1 <= k /\ k < j + 1 /\ p[k].event = q[j].event - 1
      BY <1>1, <3>1, <3>2 DEF Chain, NoneIsSkipped
    <3>4. k # 1
      BY <1>1, <1>2, <2>2, <3>1, <3>3
    <3>5. k > 1 /\ k - 1 < j
      BY <1>2, <3>1, <3>3, <3>4
    <3> QED BY <1>1, <3>3, <3>5
  <2>3. m.event < t.event => \E k \in States(q) : q[k].event = t.event
    <3> SUFFICES ASSUME m.event < t.event PROVE \E k \in States(q) : q[k].event = t.event
      OBVIOUS
    <3>1. PICK k \in States(p) : 1 <= k /\ p[k].event = t.event
      BY <1>1 DEF Chain, NoneIsSkipped
    <3>2. k # 1
      BY <1>1, <1>2, <3>1
    <3>3. k > 1
      BY <1>2, <3>1, <3>2
    <3> QED BY <1>1, <3>1, <3>3
  <2> QED BY <1>2, <1>3, <1>5, <2>1, <2>2, <2>3 DEF Chained
<1>10. Chain(g, t, q)
  <2>1. g.event <= t.issued /\ t.event \in {0, t.issued}
    BY <1>2, <1>3, <1>5 DEF Chain
  <2> QED BY <1>4, <1>6, <1>7, <1>8, <1>9, <2>1 DEF Chain
<1>11. g = f \/ (f.event < m.event /\ (m.app # f.app \/ ~f.online))
  <2>1. CASE m.event = f.event
    <3>1. m.app = f.app
      BY <1>1, <2>1 DEF Chain, EventsNameApps
    <3> QED BY <1>3, <2>1, <3>1 DEF Source
  <2>2. CASE m.event # f.event
    <3>1. f.event < m.event
      BY <1>2, <1>5, <2>2
    <3>2. CASE Foreign(f, p)
      BY <3>1, <3>2 DEF Foreign
    <3>3. CASE Chained(f, t, p)
      <4>1. CASE m.event = f.event + 1
        BY <1>1, <3>1, <3>3, <4>1 DEF Chained
      <4>2. CASE m.event > f.event + 1
        <5>1. PICK k \in States(p) : k < 1
          BY <1>1, <3>3, <4>2 DEF Chained
        <5>2. k >= 1
          BY LenProperties DEF States
        <5> QED BY <1>2, <5>1, <5>2
      <4> QED BY <1>2, <3>1, <4>1, <4>2
    <3> QED BY <3>2, <3>3 DEF Chain
  <2> QED BY <2>1, <2>2
<1> QED BY <1>3, <1>10, <1>11 DEF q, m

(* The sensor goes down or comes back.                                      *)
LEMMA AvailabilityArrivesSafely ==
  ASSUME NEW f \in Source, NEW t \in Tracker, NEW p \in Seq(MessageType), p # <<>>,
         Chain(f, t, p), ~IsState(Head(p)),
         NEW g, g = [f EXCEPT !.online = Head(p).online]
  PROVE  /\ g \in Source /\ Chain(g, t, Tail(p))
         /\ g.online /\ ~f.online => f.event > 0
<1> DEFINE q == Tail(p)
           m == Head(p)
<1>1. /\ \A i \in States(q) : i \in Nat /\ i + 1 \in States(p) /\ q[i] = p[i + 1]
      /\ \A i \in DOMAIN q : i \in Nat /\ i + 1 \in DOMAIN p /\ q[i] = p[i + 1]
      /\ 1 \in DOMAIN p /\ p[1] = m /\ q \in Seq(MessageType) /\ m \in MessageType
      /\ \A j \in States(p) : j \in Nat /\ j > 1 /\ j - 1 \in States(q) /\ q[j - 1] = p[j]
  <2>1. /\ \A i \in States(q) : i \in Nat /\ i + 1 \in States(p) /\ q[i] = p[i + 1]
        /\ \A i \in DOMAIN q : i \in Nat /\ i + 1 \in DOMAIN p /\ q[i] = p[i + 1]
        /\ \A j \in States(p) : j > 1 => j - 1 \in States(q) /\ q[j - 1] = p[j]
        /\ \A j \in DOMAIN p : j \in Nat /\ j >= 1
        /\ 1 \in DOMAIN p /\ p[1] = m /\ q \in Seq(MessageType) /\ m \in MessageType
    BY OneLess
  <2>2. \A j \in States(p) : j \in DOMAIN p /\ j # 1
    BY <2>1 DEF States
  <2>3. \A j \in States(p) : j \in Nat /\ j > 1
    BY <2>1, <2>2
  <2> QED BY <2>1, <2>3
<1>2. m.online \in BOOLEAN /\ IsAvailability(m)
  BY <1>1, MessageKinds
<1>3. g \in Source /\ g.app = f.app /\ g.event = f.event /\ g.online = m.online
  <2> HIDE DEF m
  <2>1. g = [f EXCEPT !.online = m.online]
    BY DEF m
  <2> QED BY <1>2, <2>1 DEF Source
<1>4. /\ \A i, j \in States(q) : i < j => q[i].event <= q[j].event
      /\ \A i, j \in States(q) : q[i].event = q[j].event => q[i].app = q[j].app
      /\ NeighboursDiffer(q) /\ NoneIsSkipped(t, q)
  BY OthersStay
<1> HIDE DEF q, m
<1>5. PipeInOrder(g, t, q) /\ EventsNameApps(g, t, q)
  <2>1. \A j \in States(q) : f.event <= q[j].event /\ q[j].event <= t.event
    BY <1>1 DEF Chain, PipeInOrder
  <2>2. PipeInOrder(g, t, q)
    BY <1>3, <1>4, <2>1 DEF PipeInOrder
  <2>3. \A j \in States(q) : q[j].event = f.event => q[j].app = f.app
    BY <1>1 DEF Chain, EventsNameApps
  <2>4. \A j \in States(q) : q[j].event = t.event => q[j].app = t.app
    BY <1>1 DEF Chain, EventsNameApps
  <2>5. t.event > 0 /\ f.event = t.event => f.app = t.app
    BY DEF Chain, EventsNameApps
  <2>6. EventsNameApps(g, t, q)
    BY <1>3, <1>4, <2>3, <2>4, <2>5 DEF EventsNameApps
  <2> QED BY <2>2, <2>6
<1>6. \A k \in States(p) : ~(k < 1)
  BY <1>1
<1>7. m.online => f.event > 0
  BY <1>1, <1>2, <1>6 DEF Chain, OnFollowsState, IsOn
<1>8. OnFollowsState(g, q)
  <2> SUFFICES ASSUME NEW i \in DOMAIN q, IsOn(q[i]), ~(f.event > 0)
               PROVE  \E k \in States(q) : k < i
    BY <1>3 DEF OnFollowsState
  <2>1. PICK k \in States(p) : k < i + 1
    BY <1>1 DEF Chain, OnFollowsState
  <2>2. k - 1 \in States(q) /\ k - 1 < i
    BY <1>1, <2>1
  <2> QED BY <2>2
<1>9. Foreign(g, q) \/ Chained(g, t, q)
  <2>1. CASE Foreign(f, p)
    <3>1. ~m.online
      BY <1>1, <1>2, <1>6, <2>1 DEF Foreign, IsOn
    <3>2. ASSUME NEW i \in DOMAIN q, IsOn(q[i]) PROVE \E k \in States(q) : k < i
      <4>1. PICK k \in States(p) : k < i + 1
        BY <1>1, <2>1, <3>2 DEF Foreign
      <4>2. k - 1 \in States(q) /\ k - 1 < i
        BY <1>1, <4>1
      <4> QED BY <4>2
    <3> QED BY <1>3, <3>1, <3>2 DEF Foreign
  <2>2. CASE Chained(f, t, p)
    <3>1. \A j \in States(q) : q[j].event = g.event + 1 => q[j].app # g.app
      BY <1>1, <1>3, <2>2 DEF Chained
    <3>2. ASSUME NEW j \in States(q), q[j].event > g.event + 1
          PROVE  \E k \in States(q) : k < j /\ q[k].event = q[j].event - 1
      <4>1. PICK k \in States(p) : k < j + 1 /\ p[k].event = p[j + 1].event - 1
        BY <1>1, <1>3, <2>2, <3>2 DEF Chained
      <4>2. k - 1 \in States(q) /\ k - 1 < j /\ q[k - 1] = p[k]
        BY <1>1, <4>1
      <4>3. q[j] = p[j + 1]
        BY <1>1
      <4> QED BY <4>1, <4>2, <4>3
    <3>3. g.event < t.event => \E k \in States(q) : q[k].event = t.event
      BY <1>1, <1>3, <2>2 DEF Chained
    <3> QED BY <1>3, <2>2, <3>1, <3>2, <3>3 DEF Chained
  <2> QED BY <2>1, <2>2 DEF Chain
<1>10. Chain(g, t, q)
  BY <1>3, <1>4, <1>5, <1>8, <1>9 DEF Chain
<1> QED BY <1>3, <1>7, <1>10 DEF q

(* Whatever came before, the last message on availability counts.           *)
LEMMA LastWordOnAvailability ==
  ASSUME NEW f, NEW t, NEW p \in Seq(MessageType), NEW online \in BOOLEAN, t.online = online
  PROVE  AvailabilityArrives(f, t, Append(p, Availability(online)))
<1> DEFINE m == Availability(online)
           q == Append(p, m)
           n == Len(p) + 1
<1>1. m \in MessageType /\ IsAvailability(m) /\ m.online = online
  BY MessageKinds
<1>2. n \in Nat /\ q[n] = m /\ DOMAIN q = DOMAIN p \cup {n} /\ \A i \in DOMAIN p : i < n
  BY <1>1, OneMore
<1> HIDE DEF m, q, n
<1>3. ~\A i \in DOMAIN q : ~IsAvailability(q[i])
  BY <1>1, <1>2
<1>4. ASSUME NEW i \in DOMAIN q, \A j \in DOMAIN q : j > i => ~IsAvailability(q[j])
      PROVE  q[i].online = t.online
  <2>1. i = n
    <3>1. ~(n > i)
      BY <1>1, <1>2, <1>4
    <3>2. i \in DOMAIN p => i < n /\ i \in Nat
      BY <1>2, LenProperties
    <3> QED BY <1>2, <1>4, <3>1, <3>2
  <2> QED BY <1>1, <1>2, <2>1
<1>5. AvailabilityArrives(f, t, q)
  BY <1>3, <1>4 DEF AvailabilityArrives
<1> QED BY <1>5 DEF q, m

(* A message on the app says nothing on availability.                       *)
LEMMA StateSaysNothingOnAvailability ==
  ASSUME NEW f, NEW t, NEW u, NEW p \in Seq(MessageType), NEW m \in MessageType,
         ~IsAvailability(m), u.online = t.online, AvailabilityArrives(f, t, p)
  PROVE  AvailabilityArrives(f, u, Append(p, m))
<1> DEFINE q == Append(p, m)
           n == Len(p) + 1
<1>1. /\ n \in Nat /\ q[n] = m /\ DOMAIN q = DOMAIN p \cup {n}
      /\ \A i \in DOMAIN p : i \in Nat /\ i < n /\ q[i] = p[i]
  BY OneMore
<1> HIDE DEF q, n
<1>2. (\A i \in DOMAIN q : ~IsAvailability(q[i])) => f.online = u.online
  BY <1>1 DEF AvailabilityArrives
<1>3. ASSUME NEW i \in DOMAIN q, IsAvailability(q[i]),
             \A j \in DOMAIN q : j > i => ~IsAvailability(q[j])
      PROVE  q[i].online = u.online
  <2>1. i \in DOMAIN p /\ q[i] = p[i]
    BY <1>1, <1>3
  <2>2. \A j \in DOMAIN p : j > i => ~IsAvailability(p[j])
    BY <1>1, <1>3
  <2> QED BY <1>3, <2>1, <2>2 DEF AvailabilityArrives
<1>4. AvailabilityArrives(f, u, q)
  BY <1>2, <1>3 DEF AvailabilityArrives
<1> QED BY <1>4 DEF q

(* The sensor gets a message: the rest still brings what the tracker has.   *)
LEMMA RestArrives ==
  ASSUME NEW f, NEW g, NEW t, NEW p \in Seq(MessageType), p # <<>>,
         AvailabilityArrives(f, t, p),
         g.online = IF IsAvailability(Head(p)) THEN Head(p).online ELSE f.online
  PROVE  AvailabilityArrives(g, t, Tail(p))
<1> DEFINE q == Tail(p)
<1>1. /\ \A i \in DOMAIN q : i \in Nat /\ i + 1 \in DOMAIN p /\ q[i] = p[i + 1]
      /\ \A j \in DOMAIN p : j \in Nat /\ j >= 1
      /\ \A j \in DOMAIN p : j > 1 => j - 1 \in DOMAIN q /\ q[j - 1] = p[j]
      /\ 1 \in DOMAIN p /\ p[1] = Head(p)
  BY OneLess
<1> HIDE DEF q
<1>2. ASSUME \A i \in DOMAIN q : ~IsAvailability(q[i]) PROVE g.online = t.online
  <2>1. \A j \in DOMAIN p : j > 1 => ~IsAvailability(p[j])
    BY <1>1, <1>2
  <2>2. CASE IsAvailability(Head(p))
    <3>1. p[1].online = t.online
      BY <1>1, <2>1, <2>2 DEF AvailabilityArrives
    <3> QED BY <1>1, <2>2, <3>1
  <2>3. CASE ~IsAvailability(Head(p))
    <3>1. ASSUME NEW j \in DOMAIN p PROVE ~IsAvailability(p[j])
      <4>1. j = 1 \/ j > 1
        BY <1>1
      <4> QED BY <1>1, <2>1, <2>3, <4>1
    <3>2. f.online = t.online
      BY <3>1 DEF AvailabilityArrives
    <3> QED BY <2>3, <3>2
  <2> QED BY <2>2, <2>3
<1>3. ASSUME NEW i \in DOMAIN q, IsAvailability(q[i]),
             \A j \in DOMAIN q : j > i => ~IsAvailability(q[j])
      PROVE  q[i].online = t.online
  <2>1. i \in Nat /\ i + 1 \in DOMAIN p /\ q[i] = p[i + 1]
    BY <1>1
  <2>2. ASSUME NEW j \in DOMAIN p, j > i + 1 PROVE ~IsAvailability(p[j])
    <3>1. j \in Nat /\ j > 1 /\ j - 1 > i
      BY <1>1, <2>1, <2>2
    <3>2. j - 1 \in DOMAIN q /\ q[j - 1] = p[j]
      BY <1>1, <3>1
    <3> QED BY <1>3, <3>1, <3>2
  <2> QED BY <1>3, <2>1, <2>2 DEF AvailabilityArrives
<1>4. AvailabilityArrives(g, t, q)
  BY <1>2, <1>3 DEF AvailabilityArrives
<1> QED BY <1>4 DEF q

(* Messages are published one after the other.                              *)
LEMMA PublishedInTurn ==
  ASSUME NEW p \in Seq(MessageType), NEW m \in MessageType, NEW n \in MessageType
  PROVE  /\ p \o <<>> = p
         /\ p \o <<m>> = Append(p, m)
         /\ p \o <<m, n>> = Append(Append(p, m), n)
         /\ <<m>> \o <<>> = <<m>> /\ <<m>> \o <<n>> = <<m, n>>
<1>1. <<m>> \in Seq(MessageType) /\ <<n>> \in Seq(MessageType)
  OBVIOUS
<1>2. <<m>> \o <<>> = <<m>> /\ <<m>> \o <<n>> = <<m, n>>
  <2>1. <<m>> \o <<>> = <<m>>
    BY <1>1, ConcatEmptySeq
  <2>2. <<m>> \o <<n>> = Append(<<m>>, n)
    BY <1>1, AppendIsConcat
  <2>3. Append(<<m>>, n) = <<m, n>>
    <3> DEFINE q == Append(<<m>>, n)
               r == <<m, n>>
    <3>1. Len(<<m>>) = 1 /\ <<m>>[1] = m
      OBVIOUS
    <3>2. q \in Seq(MessageType) /\ Len(q) = 2 /\ q[1] = m /\ q[2] = n
      BY <1>1, <3>1, AppendProperties
    <3>3. r \in Seq(MessageType) /\ Len(r) = 2 /\ r[1] = m /\ r[2] = n
      OBVIOUS
    <3> HIDE DEF q, r
    <3>4. \A i \in 1..2 : q[i] = r[i]
      BY <3>2, <3>3
    <3>5. q = r
      BY <3>2, <3>3, <3>4, SeqEqual
    <3> QED BY <3>5 DEF q, r
  <2> QED BY <2>1, <2>2, <2>3
<1>3. p \o <<>> = p /\ p \o <<m>> = Append(p, m)
  BY ConcatEmptySeq, AppendIsConcat
<1>4. Append(p, m) \in Seq(MessageType)
  BY AppendProperties
<1>5. Append(Append(p, m), n) = (p \o <<m>>) \o <<n>>
  BY <1>3, <1>4, AppendIsConcat
<1>6. (p \o <<m>>) \o <<n>> = p \o (<<m>> \o <<n>>)
  BY <1>1, ConcatAssociative
<1> QED BY <1>2, <1>3, <1>5, <1>6

-----------------------------------------------------------------------------
(* Collector: the invariant.                                                *)

(* The tracker has what the last poll has found, or the screensaver while   *)
(* an app settles.                                                          *)
TrackerIsCurrent ==
  tracker.online => /\ tracker.event > 0
                    /\ settle.armed => tracker.app = NoApp
                    /\ ~settle.armed => tracker.app = seen.last

(* The guard knows of everything an app has to settle after, and counts no  *)
(* more than has passed.                                                    *)
GuardIsRight ==
  /\ seen.broken => settle.armed
  /\ seen.unclearAge # Never => settle.armed
  /\ ~settle.armed => settle.pending = Never
  /\ settle.ambiguityAge # Never =>
       settle.pending = Never /\ ~seen.broken /\ seen.unclearAge = settle.ambiguityAge
  /\ settle.pending # Never => seen.last = settle.pending /\ settle.pendingAge <= seen.steady

PipeIsRight ==
  /\ Chain(fg, tracker, mqtt.pipe)
  /\ mqtt.connected => AvailabilityArrives(fg, tracker, mqtt.pipe)

CollectorInv == CollectorTypeOK /\ PipeIsRight /\ TrackerIsCurrent /\ GuardIsRight

(* The fields of a guard, and of a history of the polls.                    *)
LEMMA GuardFields ==
  ASSUME NEW guard \in Guard
  PROVE  /\ guard.armed \in BOOLEAN /\ guard.pending \in Apps \cup {Never}
         /\ guard.pendingAge \in 0..Settle
         /\ guard.goodAge \in (0..(LastGood + 1)) \cup {Never}
         /\ guard.ambiguityAge \in (0..(Ambiguity + 1)) \cup {Never}
BY DEF Guard

LEMMA HistoryFields ==
  ASSUME NEW history \in History
  PROVE  /\ history.last \in Apps \cup {Never} /\ history.steady \in 0..Settle
         /\ history.broken \in BOOLEAN
         /\ history.unclearAge \in (0..(Ambiguity + 1)) \cup {Never}
BY DEF History

LEMMA ZeroAges ==
  0 \in 0..Settle /\ 0 \in 0..(LastGood + 1) /\ 0 \in 0..(Ambiguity + 1)
BY CollectorAssumption

(* What the operations of DvtSettleGuard make of a guard.                   *)
LEMMA ArmedGuard ==
  ASSUME NEW guard \in Guard
  PROVE  /\ arm(guard) \in Guard /\ arm(guard).armed /\ arm(guard).pending = Never
         /\ arm(guard).ambiguityAge = Never
<1>1. arm(guard) \in Guard
  BY ZeroAges DEF arm, Guard
<1>2. arm(guard).armed
  BY DEF arm, Guard
<1>3. arm(guard).pending = Never /\ arm(guard).ambiguityAge = Never
  BY DEF arm, Guard
<1> QED BY <1>1, <1>2, <1>3

LEMMA AcceptedGuard ==
  ASSUME NEW guard \in Guard
  PROVE  /\ Accepted(guard) \in Guard /\ ~Accepted(guard).armed
         /\ Accepted(guard).pending = Never /\ Accepted(guard).ambiguityAge = Never
<1>1. Accepted(guard) \in Guard
  BY ZeroAges DEF Accepted, Guard
<1>2. ~Accepted(guard).armed
  BY DEF Accepted, Guard
<1>3. Accepted(guard).pending = Never /\ Accepted(guard).ambiguityAge = Never
  BY DEF Accepted, Guard
<1> QED BY <1>1, <1>2, <1>3

LEMMA HoldingGuard ==
  ASSUME NEW guard \in Guard, NEW a \in Apps
  PROVE  /\ Holds(guard, a) \in Guard /\ Holds(guard, a).armed = guard.armed
         /\ Holds(guard, a).pending = a /\ Holds(guard, a).ambiguityAge = Never
         /\ Holds(guard, a).pendingAge = IF guard.pending = a THEN guard.pendingAge ELSE 0
<1>1. CASE guard.pending = a
  <2>1. Holds(guard, a) = [guard EXCEPT !.ambiguityAge = Never]
    BY <1>1 DEF Holds
  <2>2. Holds(guard, a) \in Guard
    BY <2>1 DEF Guard
  <2>3. Holds(guard, a).armed = guard.armed
    BY <2>1 DEF Guard
  <2> QED BY <1>1, <2>1, <2>2, <2>3 DEF Guard
<1>2. CASE guard.pending # a
  <2>1. Holds(guard, a) = [guard EXCEPT !.ambiguityAge = Never, !.pending = a, !.pendingAge = 0]
    BY <1>2 DEF Holds
  <2>2. Holds(guard, a) \in Guard
    BY <2>1, ZeroAges DEF Guard
  <2>3. Holds(guard, a).armed = guard.armed
    BY <2>1 DEF Guard
  <2> QED BY <1>2, <2>1, <2>2, <2>3 DEF Guard
<1> QED BY <1>1, <1>2

LEMMA AmbiguousGuard ==
  ASSUME NEW guard \in Guard
  PROVE  /\ ambiguous(guard) \in Guard
         /\ guard.armed => ambiguous(guard).armed
         /\ \/ guard.ambiguityAge # Never /\ ambiguous(guard) = guard
            \/ ambiguous(guard) = arm(guard)
            \/ ~guard.armed /\ ambiguous(guard) = [guard EXCEPT !.armed = TRUE, !.ambiguityAge = 0]
<1> DEFINE g == [guard EXCEPT !.armed = TRUE, !.ambiguityAge = 0]
<1>1. g \in Guard
  BY ZeroAges DEF Guard
<1>2. arm(guard) \in Guard /\ arm(guard).armed
  BY ArmedGuard
<1>3. \/ guard.ambiguityAge # Never /\ ambiguous(guard) = guard
      \/ ambiguous(guard) = arm(guard)
      \/ ~guard.armed /\ ambiguous(guard) = g
  BY DEF ambiguous
<1> HIDE DEF g
<1>4. ambiguous(guard) \in Guard /\ (guard.armed => ambiguous(guard).armed)
  BY <1>1, <1>2, <1>3
<1> QED BY <1>3, <1>4 DEF g

(* A step of the clock.                                                     *)
LEMMA OlderType ==
  ASSUME NEW limit \in Nat, NEW age \in (0..(limit + 1)) \cup {Never}
  PROVE  /\ Older(age, limit) \in (0..(limit + 1)) \cup {Never}
         /\ Older(age, limit) = Never <=> age = Never
         /\ age # Never => Older(age, limit) >= age
BY CollectorAssumption DEF Older

-----------------------------------------------------------------------------
(* Collector: what is published.                                            *)

(* Whether the tracker is online says nothing on the events under way.      *)
LEMMA SameEvents ==
  ASSUME NEW f, NEW t, NEW u, NEW p,
         u.event = t.event, u.issued = t.issued, u.app = t.app, Chain(f, t, p)
  PROVE  Chain(f, u, p)
<1>1. PipeInOrder(f, u, p) /\ EventsNameApps(f, u, p)
  BY DEF Chain, PipeInOrder, EventsNameApps
<1>2. NoneIsSkipped(u, p) /\ (Foreign(f, p) \/ Chained(f, u, p))
  BY DEF Chain, NoneIsSkipped, Chained
<1> QED BY <1>1, <1>2 DEF Chain

(* The variables that carry messages.                                       *)
LEMMA CollectorFields ==
  ASSUME CollectorTypeOK
  PROVE  /\ fg \in Source /\ tracker \in Tracker /\ settle \in Guard /\ seen \in History
         /\ mqtt.connected \in BOOLEAN /\ mqtt.pipe \in Seq(MessageType)
         /\ mqtt = [connected |-> mqtt.connected, pipe |-> mqtt.pipe]
BY DEF CollectorTypeOK

LEMMA PublishedFields ==
  ASSUME CollectorTypeOK, NEW ms \in Seq(MessageType), Publishes(ms)
  PROVE  /\ mqtt' \in [connected : BOOLEAN, pipe : Seq(MessageType)]
         /\ mqtt'.pipe = mqtt.pipe \o ms /\ mqtt'.connected = mqtt.connected
<1>1. mqtt.pipe \o ms \in Seq(MessageType)
  BY CollectorFields, ConcatProperties
<1>2. mqtt' = [connected |-> mqtt.connected, pipe |-> mqtt.pipe \o ms]
  BY CollectorFields DEF Publishes
<1> QED BY <1>1, <1>2, CollectorFields

(* source_outage() leaves the messages right.                               *)
LEMMA FailsKeepsPipe ==
  ASSUME CollectorTypeOK, PipeIsRight, Fails, fg' = fg
  PROVE  /\ tracker' \in Tracker /\ ~tracker'.online
         /\ mqtt' \in [connected : BOOLEAN, pipe : Seq(MessageType)] /\ PipeIsRight'
<1> DEFINE u == [tracker EXCEPT !.online = FALSE]
           m == Availability(FALSE)
<1>1. /\ u \in Tracker /\ u.event = tracker.event /\ u.issued = tracker.issued
      /\ u.app = tracker.app /\ u.online = FALSE /\ tracker' = u
  BY CollectorFields DEF Tracker, Fails
<1>2. m \in MessageType /\ <<m>> \in Seq(MessageType) /\ <<>> \in Seq(MessageType)
  <2>1. m \in MessageType
    BY MessageKinds
  <2> HIDE DEF m
  <2> QED BY <2>1
<1>3. mqtt.pipe \in Seq(MessageType)
  BY CollectorFields
<1>4. Chain(fg, u, mqtt.pipe)
  BY <1>1, SameEvents DEF PipeIsRight
<1>5. CASE tracker.online
  <2>1. Publishes(<<m>>)
    BY <1>5 DEF Fails
  <2>2. /\ mqtt' \in [connected : BOOLEAN, pipe : Seq(MessageType)]
        /\ mqtt'.pipe = Append(mqtt.pipe, m) /\ mqtt'.connected = mqtt.connected
    BY <1>2, <1>3, <2>1, PublishedFields, PublishedInTurn
  <2>3. Chain(fg, u, Append(mqtt.pipe, m))
    BY <1>1, <1>3, <1>4, AvailabilityStated, CollectorFields
  <2>4. AvailabilityArrives(fg, u, Append(mqtt.pipe, m))
    BY <1>1, <1>3, LastWordOnAvailability
  <2> QED BY <1>1, <2>2, <2>3, <2>4 DEF PipeIsRight
<1>6. CASE ~tracker.online
  <2>1. Publishes(<<>>)
    BY <1>6 DEF Fails
  <2>2. /\ mqtt' \in [connected : BOOLEAN, pipe : Seq(MessageType)]
        /\ mqtt'.pipe = mqtt.pipe /\ mqtt'.connected = mqtt.connected
    BY <1>2, <1>3, <2>1, PublishedFields, PublishedInTurn
  <2>3. mqtt.connected => AvailabilityArrives(fg, u, mqtt.pipe)
    <3>1. tracker.online = u.online
      BY <1>1, <1>6, CollectorFields DEF Tracker
    <3> QED BY <3>1 DEF PipeIsRight, AvailabilityArrives
  <2> QED BY <1>1, <1>4, <2>2, <2>3 DEF PipeIsRight
<1> QED BY <1>5, <1>6

(* An app that is the same again leaves them right.                         *)
LEMMA SameAgainKeepsPipe ==
  ASSUME CollectorTypeOK, PipeIsRight, SameAgain, tracker.event > 0, fg' = fg
  PROVE  /\ tracker' \in Tracker /\ tracker'.online
         /\ tracker'.event > 0 /\ tracker'.app = tracker.app
         /\ mqtt' \in [connected : BOOLEAN, pipe : Seq(MessageType)] /\ PipeIsRight'
<1> DEFINE u == [tracker EXCEPT !.online = TRUE]
           p == mqtt.pipe
           m == StateMessage(tracker)
           n == Availability(TRUE)
           q == Append(p, m)
           r == Append(q, n)
<1>1. /\ u \in Tracker /\ u.event = tracker.event /\ u.issued = tracker.issued
      /\ u.app = tracker.app /\ u.online = TRUE /\ tracker' = u
  BY CollectorFields DEF Tracker, SameAgain
<1>2. /\ m \in MessageType /\ n \in MessageType /\ IsState(m)
      /\ <<m, n>> \in Seq(MessageType) /\ <<>> \in Seq(MessageType)
  <2>1. m \in MessageType /\ n \in MessageType /\ IsState(m)
    BY MessageKinds, CollectorFields
  <2> HIDE DEF m, n
  <2> QED BY <2>1
<1>3. p \in Seq(MessageType)
  BY CollectorFields
<1>4. CASE ~tracker.online
  <2>1. Publishes(<<m, n>>)
    BY <1>4 DEF SameAgain, BackOnline
  <2> HIDE DEF m, n, u
  <2>2. /\ mqtt' \in [connected : BOOLEAN, pipe : Seq(MessageType)]
        /\ mqtt'.pipe = r /\ mqtt'.connected = mqtt.connected
    BY <1>2, <1>3, <2>1, PublishedFields, PublishedInTurn
  <2>3. Chain(fg, tracker, q)
    BY <1>3, StatedAgain, CollectorFields DEF PipeIsRight, m
  <2>4. q \in Seq(MessageType) /\ States(q) # {}
    BY <1>2, <1>3, OneMore
  <2> HIDE DEF q
  <2>5. Chain(fg, u, q)
    BY <1>1, <2>3, SameEvents
  <2>6. Chain(fg, u, r)
    BY <1>1, <2>4, <2>5, AvailabilityStated, CollectorFields DEF n
  <2>7. AvailabilityArrives(fg, u, r)
    BY <1>1, <2>4, LastWordOnAvailability DEF n
  <2> QED BY <1>1, <2>2, <2>6, <2>7 DEF PipeIsRight
<1>5. CASE tracker.online
  <2>1. Publishes(<<>>)
    BY <1>5 DEF SameAgain
  <2>2. /\ mqtt' \in [connected : BOOLEAN, pipe : Seq(MessageType)]
        /\ mqtt'.pipe = mqtt.pipe /\ mqtt'.connected = mqtt.connected
    BY <1>2, <1>3, <2>1, PublishedFields, PublishedInTurn
  <2> HIDE DEF u
  <2>3. Chain(fg, u, p)
    BY <1>1, SameEvents DEF PipeIsRight
  <2>4. mqtt.connected => AvailabilityArrives(fg, u, p)
    <3>1. tracker.online = u.online
      BY <1>1, <1>5, CollectorFields DEF Tracker
    <3> QED BY <3>1 DEF PipeIsRight, AvailabilityArrives
  <2> QED BY <1>1, <2>2, <2>3, <2>4 DEF PipeIsRight
<1> QED BY <1>4, <1>5

(* A transition leaves them right.                                          *)
LEMMA TransitionKeepsPipe ==
  ASSUME CollectorTypeOK, PipeIsRight, NEW a \in MaybeApp, Transition(a), fg' = fg,
         tracker.event > 0 => tracker.app # a
  PROVE  /\ tracker' \in Tracker /\ tracker'.online
         /\ tracker'.event > 0 /\ tracker'.app = a
         /\ mqtt' \in [connected : BOOLEAN, pipe : Seq(MessageType)] /\ PipeIsRight'
<1> DEFINE u == [app |-> a, event |-> tracker.issued + 1, issued |-> tracker.issued + 1,
                 online |-> TRUE]
           p == mqtt.pipe
           m == StateMessage(u)
           n == Availability(TRUE)
           q == Append(p, m)
           r == Append(q, n)
<1>1. /\ u \in Tracker /\ u.event = tracker.issued + 1 /\ u.issued = u.event /\ u.event > 0
      /\ u.app = a /\ u.online = TRUE /\ tracker' = u
  <2>1. tracker.issued \in Nat /\ tracker.issued + 1 \in 0..MaxEvent
    BY CollectorFields, TrackerFields, SourceAssumption DEF Transition
  <2> QED BY <2>1 DEF Tracker, Transition
<1>2. /\ m \in MessageType /\ n \in MessageType /\ IsState(m) /\ ~IsAvailability(m)
      /\ <<m>> \in Seq(MessageType) /\ <<m, n>> \in Seq(MessageType)
  <2>1. m \in MessageType /\ n \in MessageType /\ IsState(m) /\ ~IsAvailability(m)
    BY <1>1, MessageKinds
  <2> HIDE DEF m, n
  <2> QED BY <2>1
<1>3. p \in Seq(MessageType)
  BY CollectorFields
<1>4. Publishes(<<m>> \o IF tracker.online THEN <<>> ELSE <<n>>)
  BY <1>1 DEF Transition
<1> HIDE DEF u
<1>5. Chain(fg, u, q)
  BY <1>1, <1>3, StatedAnew, CollectorFields DEF PipeIsRight
<1> HIDE DEF m, n
<1>6. q \in Seq(MessageType) /\ States(q) # {}
  <2>1. q \in Seq(MessageType)
    BY <1>2, <1>3, AppendProperties
  <2>2. Len(p) + 1 \in States(q)
    BY <1>2, <1>3, OneMore
  <2> QED BY <2>1, <2>2
<1>7. CASE tracker.online
  <2>1. Publishes(<<m>>)
    BY <1>2, <1>4, <1>7, PublishedInTurn
  <2>2. /\ mqtt' \in [connected : BOOLEAN, pipe : Seq(MessageType)]
        /\ mqtt'.pipe = q /\ mqtt'.connected = mqtt.connected
    BY <1>2, <1>3, <2>1, PublishedFields, PublishedInTurn
  <2>3. mqtt.connected => AvailabilityArrives(fg, u, q)
    <3>1. tracker.online = u.online
      BY <1>1, <1>7, CollectorFields DEF Tracker
    <3> QED BY <1>2, <1>3, <3>1, StateSaysNothingOnAvailability DEF PipeIsRight
  <2> QED BY <1>1, <1>5, <2>2, <2>3 DEF PipeIsRight
<1>8. CASE ~tracker.online
  <2>1. Publishes(<<m, n>>)
    BY <1>2, <1>4, <1>8, PublishedInTurn
  <2>2. /\ mqtt' \in [connected : BOOLEAN, pipe : Seq(MessageType)]
        /\ mqtt'.pipe = r /\ mqtt'.connected = mqtt.connected
    <3>1. /\ mqtt' \in [connected : BOOLEAN, pipe : Seq(MessageType)]
          /\ mqtt'.pipe = p \o <<m, n>> /\ mqtt'.connected = mqtt.connected
      BY <1>2, <2>1, PublishedFields
    <3>2. p \o <<m, n>> = r
      BY <1>2, <1>3, PublishedInTurn
    <3> QED BY <3>1, <3>2
  <2> HIDE DEF q
  <2>3. Chain(fg, u, r)
    BY <1>1, <1>5, <1>6, AvailabilityStated, CollectorFields DEF n
  <2>4. AvailabilityArrives(fg, u, r)
    BY <1>1, <1>6, LastWordOnAvailability DEF n
  <2> QED BY <1>1, <2>2, <2>3, <2>4 DEF PipeIsRight
<1> QED BY <1>7, <1>8

LEMMA ShowsKeepsPipe ==
  ASSUME CollectorTypeOK, PipeIsRight, NEW a \in MaybeApp, Shows(a), fg' = fg
  PROVE  /\ tracker' \in Tracker /\ tracker'.online
         /\ tracker'.event > 0 /\ tracker'.app = a
         /\ mqtt' \in [connected : BOOLEAN, pipe : Seq(MessageType)] /\ PipeIsRight'
<1>1. CASE tracker.event > 0 /\ tracker.app = a
  BY <1>1, SameAgainKeepsPipe DEF Shows
<1>2. CASE ~(tracker.event > 0 /\ tracker.app = a)
  BY <1>2, TransitionKeepsPipe DEF Shows
<1> QED BY <1>1, <1>2

-----------------------------------------------------------------------------
(* Collector: every step keeps the invariant.                               *)

LEMMA TickKeepsInv ==
  ASSUME CollectorInv, TickPasses
  PROVE  CollectorInv'
<1> DEFINE pendingAge == Older(settle.pendingAge, Settle - 1)
           goodAge == Older(settle.goodAge, LastGood)
           ambiguityAge == Older(settle.ambiguityAge, Ambiguity)
           steady == Older(seen.steady, Settle - 1)
           unclearAge == Older(seen.unclearAge, Ambiguity)
<1>1. CollectorTypeOK /\ settle \in Guard /\ seen \in History
  BY CollectorFields DEF CollectorInv
<1>2. LastGood \in Nat /\ Ambiguity \in Nat /\ Settle \in Nat /\ Settle > 0 /\ Never \notin Nat
  BY CollectorAssumption
<1>3. /\ pendingAge \in 0..Settle /\ steady \in 0..Settle
      /\ settle.pendingAge <= seen.steady => pendingAge <= steady
  <2>1. settle.pendingAge \in 0..Settle /\ seen.steady \in 0..Settle
    BY <1>1, GuardFields, HistoryFields
  <2> QED BY <1>2, <2>1 DEF Older
<1>4. /\ goodAge \in (0..(LastGood + 1)) \cup {Never}
      /\ ambiguityAge \in (0..(Ambiguity + 1)) \cup {Never}
      /\ unclearAge \in (0..(Ambiguity + 1)) \cup {Never}
      /\ ambiguityAge = Never <=> settle.ambiguityAge = Never
      /\ unclearAge = Never <=> seen.unclearAge = Never
      /\ settle.ambiguityAge = seen.unclearAge => ambiguityAge = unclearAge
  BY <1>1, <1>2, GuardFields, HistoryFields, OlderType
<1>5. /\ settle' = [settle EXCEPT !.pendingAge = pendingAge, !.goodAge = goodAge,
                                  !.ambiguityAge = ambiguityAge]
      /\ seen' = [seen EXCEPT !.steady = steady, !.unclearAge = unclearAge]
      /\ UNCHANGED <<fg, view, polling, tracker, mqtt, collectorMishaps>>
  BY DEF TickPasses
<1> HIDE DEF pendingAge, goodAge, ambiguityAge, steady, unclearAge
<1>6. settle' \in Guard
  BY <1>1, <1>3, <1>4, <1>5 DEF Guard
<1>7. seen' \in History
  BY <1>1, <1>3, <1>4, <1>5 DEF History
<1>8. /\ settle'.armed = settle.armed /\ settle'.pending = settle.pending
      /\ settle'.pendingAge = pendingAge /\ settle'.ambiguityAge = ambiguityAge
  BY <1>1, <1>5 DEF Guard
<1>9. /\ seen'.last = seen.last /\ seen'.steady = steady /\ seen'.broken = seen.broken
      /\ seen'.unclearAge = unclearAge
  BY <1>1, <1>5 DEF History
<1>10. GuardIsRight'
  BY <1>3, <1>4, <1>8, <1>9 DEF CollectorInv, GuardIsRight
<1>11. TrackerIsCurrent'
  BY <1>5, <1>8, <1>9 DEF CollectorInv, TrackerIsCurrent
<1>12. CollectorTypeOK'
  BY <1>1, <1>5, <1>6, <1>7 DEF CollectorTypeOK
<1>13. PipeIsRight'
  BY <1>5 DEF CollectorInv, PipeIsRight
<1> QED BY <1>10, <1>11, <1>12, <1>13 DEF CollectorInv

LEMMA ViewKeepsInv ==
  ASSUME CollectorInv, ViewChanges \/ SessionStarts
  PROVE  CollectorInv'
<1>1. view' \in View /\ polling' \in BOOLEAN
  BY DEF CollectorInv, CollectorTypeOK, ViewChanges, SessionStarts
<1>2. UNCHANGED <<fg, settle, tracker, mqtt, seen, collectorMishaps>>
  BY DEF ViewChanges, SessionStarts
<1>3. CollectorTypeOK'
  BY <1>1, <1>2 DEF CollectorInv, CollectorTypeOK
<1>4. PipeIsRight' /\ TrackerIsCurrent' /\ GuardIsRight'
  BY <1>2 DEF CollectorInv, PipeIsRight, TrackerIsCurrent, GuardIsRight
<1> QED BY <1>3, <1>4 DEF CollectorInv

(* What the history of the polls becomes.                                   *)
LEMMA SeenAnApp ==
  ASSUME NEW a \in Apps, CollectorTypeOK
  PROVE  /\ SeenApp(a) \in History /\ SeenApp(a).last = a
         /\ SeenApp(a).broken = seen.broken /\ SeenApp(a).unclearAge = seen.unclearAge
         /\ SeenApp(a).steady = IF seen.last = a THEN seen.steady ELSE 0
<1> DEFINE steady == IF seen.last = a THEN seen.steady ELSE 0
<1>1. seen \in History /\ steady \in 0..Settle
  BY CollectorFields, HistoryFields, ZeroAges
<1>2. SeenApp(a) = [seen EXCEPT !.last = a, !.steady = steady]
  BY DEF SeenApp
<1> HIDE DEF steady
<1>3. SeenApp(a) \in History
  BY <1>1, <1>2 DEF History
<1>4. SeenApp(a).broken = seen.broken
  BY <1>1, <1>2 DEF History
<1>5. SeenApp(a).last = a /\ SeenApp(a).steady = steady /\ SeenApp(a).unclearAge = seen.unclearAge
  BY <1>1, <1>2 DEF History
<1> QED BY <1>3, <1>4, <1>5 DEF steady

LEMMA AcceptedKeepsInv ==
  ASSUME CollectorInv, NEW a \in Apps, PollsAccepted(a)
  PROVE  CollectorInv'
<1>1. CollectorTypeOK /\ settle \in Guard /\ a \in MaybeApp
  BY CollectorFields DEF CollectorInv, MaybeApp
<1>2. UNCHANGED <<fg, view, polling, collectorMishaps>>
  BY DEF PollsAccepted, Polls
<1>3. /\ settle' \in Guard /\ ~settle'.armed /\ settle'.pending = Never
      /\ settle'.ambiguityAge = Never
  BY <1>1, AcceptedGuard DEF PollsAccepted
<1>4. seen' \in History /\ seen'.last = a /\ ~seen'.broken /\ seen'.unclearAge = Never
  <2> DEFINE h == SeenApp(a)
  <2>1. h \in History /\ h.last = a
    BY <1>1, SeenAnApp
  <2>2. seen' = [h EXCEPT !.broken = FALSE, !.unclearAge = Never]
    BY DEF PollsAccepted
  <2> HIDE DEF h
  <2>3. seen' \in History
    BY <2>1, <2>2 DEF History
  <2>4. ~seen'.broken
    BY <2>1, <2>2 DEF History
  <2> QED BY <2>1, <2>2, <2>3, <2>4 DEF History
<1>5. /\ tracker' \in Tracker /\ tracker'.online /\ tracker'.event > 0 /\ tracker'.app = a
      /\ mqtt' \in [connected : BOOLEAN, pipe : Seq(MessageType)] /\ PipeIsRight'
  BY <1>1, <1>2, ShowsKeepsPipe DEF CollectorInv, PollsAccepted
<1>6. CollectorTypeOK'
  BY <1>1, <1>2, <1>3, <1>4, <1>5 DEF CollectorTypeOK
<1>7. TrackerIsCurrent'
  BY <1>3, <1>4, <1>5 DEF TrackerIsCurrent
<1>8. GuardIsRight'
  BY <1>3, <1>4 DEF GuardIsRight
<1> QED BY <1>5, <1>6, <1>7, <1>8 DEF CollectorInv

LEMMA HeldKeepsInv ==
  ASSUME CollectorInv, NEW a \in Apps, PollsHeld(a)
  PROVE  CollectorInv'
<1>1. CollectorTypeOK /\ settle \in Guard /\ seen \in History /\ settle.armed
  BY CollectorFields DEF CollectorInv, PollsHeld, accepts
<1>2. UNCHANGED <<fg, view, polling, tracker, mqtt, collectorMishaps>>
  BY DEF PollsHeld, Polls
<1>3. /\ settle' \in Guard /\ settle'.armed /\ settle'.pending = a
      /\ settle'.ambiguityAge = Never
      /\ settle'.pendingAge = IF settle.pending = a THEN settle.pendingAge ELSE 0
  BY <1>1, HoldingGuard DEF PollsHeld
<1>4. /\ seen' \in History /\ seen'.last = a
      /\ seen'.steady = IF seen.last = a THEN seen.steady ELSE 0
  BY <1>1, SeenAnApp DEF PollsHeld
<1>5. CollectorTypeOK'
  BY <1>1, <1>2, <1>3, <1>4 DEF CollectorTypeOK
<1>6. TrackerIsCurrent'
  BY <1>1, <1>2, <1>3 DEF CollectorInv, TrackerIsCurrent
<1>7. settle'.pendingAge <= seen'.steady
  <2>1. settle.pendingAge \in 0..Settle /\ seen.steady \in 0..Settle /\ Settle \in Nat
    BY <1>1, GuardFields, HistoryFields, CollectorAssumption
  <2>2. CASE settle.pending = a
    <3>1. a # Never
      BY CollectorAssumption DEF MaybeApp
    <3>2. seen.last = a /\ settle.pendingAge <= seen.steady
      BY <2>2, <3>1 DEF CollectorInv, GuardIsRight
    <3> QED BY <1>3, <1>4, <2>2, <3>2
  <2>3. CASE settle.pending # a
    BY <1>3, <1>4, <2>1, <2>3
  <2> QED BY <2>2, <2>3
<1>8. GuardIsRight'
  BY <1>3, <1>4, <1>7 DEF GuardIsRight
<1>9. PipeIsRight'
  BY <1>2 DEF CollectorInv, PipeIsRight
<1> QED BY <1>5, <1>6, <1>8, <1>9 DEF CollectorInv

(* A history after which every app has to settle.                           *)
LEMMA BrokenHistory ==
  LET h == [NewHistory EXCEPT !.broken = TRUE]
  IN h \in History /\ h.broken
<1>1. Never \in Apps \cup {Never} /\ 0 \in 0..Settle
  BY ZeroAges
<1> QED BY <1>1 DEF NewHistory, History

LEMMA ScreensaverKeepsInv ==
  ASSUME CollectorInv, PollsScreensaver
  PROVE  CollectorInv'
<1>1. CollectorTypeOK /\ settle \in Guard /\ NoApp \in MaybeApp
  BY CollectorFields DEF CollectorInv, MaybeApp
<1>2. UNCHANGED <<fg, view, polling, collectorMishaps>>
  BY DEF PollsScreensaver, Polls
<1>3. /\ settle' \in Guard /\ settle'.armed /\ settle'.pending = Never
      /\ settle'.ambiguityAge = Never
  BY <1>1, ArmedGuard DEF PollsScreensaver
<1>4. seen' \in History
  BY BrokenHistory DEF PollsScreensaver
<1>5. /\ tracker' \in Tracker /\ tracker'.event > 0 /\ tracker'.app = NoApp
      /\ mqtt' \in [connected : BOOLEAN, pipe : Seq(MessageType)] /\ PipeIsRight'
  BY <1>1, <1>2, ShowsKeepsPipe DEF CollectorInv, PollsScreensaver
<1>6. CollectorTypeOK'
  BY <1>1, <1>2, <1>3, <1>4, <1>5 DEF CollectorTypeOK
<1>7. TrackerIsCurrent' /\ GuardIsRight'
  BY <1>3, <1>5 DEF TrackerIsCurrent, GuardIsRight
<1> QED BY <1>5, <1>6, <1>7 DEF CollectorInv

LEMMA AmbiguousKeepsInv ==
  ASSUME CollectorInv, PollsAmbiguous
  PROVE  CollectorInv'
<1> DEFINE unclearAge == IF seen.unclearAge = Never THEN 0 ELSE seen.unclearAge
<1>1. CollectorTypeOK /\ settle \in Guard /\ seen \in History
  BY CollectorFields DEF CollectorInv
<1>2. UNCHANGED <<fg, view, polling, collectorMishaps>>
  BY DEF PollsAmbiguous, Polls
<1>3. /\ tracker' \in Tracker /\ ~tracker'.online
      /\ mqtt' \in [connected : BOOLEAN, pipe : Seq(MessageType)] /\ PipeIsRight'
  BY <1>1, <1>2, FailsKeepsPipe DEF CollectorInv, PollsAmbiguous
<1>4. unclearAge \in 0..(Ambiguity + 1)
  BY <1>1, HistoryFields, ZeroAges
<1>5. seen' = [seen EXCEPT !.last = Never, !.steady = 0, !.unclearAge = unclearAge]
  BY <1>1 DEF PollsAmbiguous, History
<1> HIDE DEF unclearAge
<1>6. seen' \in History
  BY <1>1, <1>4, <1>5, ZeroAges DEF History
<1>7. seen'.broken = seen.broken
  BY <1>1, <1>5 DEF History
<1>8. seen'.unclearAge = unclearAge
  BY <1>1, <1>5 DEF History
<1>9. settle' \in Guard /\ settle' = ambiguous(settle)
  <2>1. settle' = ambiguous(settle)
    BY DEF PollsAmbiguous
  <2>2. ambiguous(settle) \in Guard
    BY <1>1, AmbiguousGuard
  <2> QED BY <2>1, <2>2
<1>10. CollectorTypeOK'
  BY <1>1, <1>2, <1>3, <1>6, <1>9 DEF CollectorTypeOK
<1>11. TrackerIsCurrent'
  BY <1>3 DEF TrackerIsCurrent
<1>12. GuardIsRight'
  <2>1. CASE settle.ambiguityAge # Never /\ settle' = settle
    <3>1. /\ settle.pending = Never /\ ~seen.broken
          /\ seen.unclearAge = settle.ambiguityAge /\ seen.unclearAge # Never /\ settle.armed
      BY <2>1 DEF CollectorInv, GuardIsRight
    <3>2. unclearAge = settle.ambiguityAge
      BY <3>1 DEF unclearAge
    <3> QED BY <1>7, <1>8, <2>1, <3>1, <3>2 DEF GuardIsRight
  <2>2. CASE settle' = arm(settle)
    BY <1>1, <2>2, ArmedGuard DEF GuardIsRight
  <2>3. CASE ~settle.armed /\ settle' = [settle EXCEPT !.armed = TRUE, !.ambiguityAge = 0]
    <3>1. settle.pending = Never /\ ~seen.broken /\ seen.unclearAge = Never
      BY <2>3 DEF CollectorInv, GuardIsRight
    <3>2. settle'.armed
      BY <1>1, <2>3 DEF Guard
    <3>3. settle'.pending = Never /\ settle'.ambiguityAge = 0
      BY <1>1, <2>3, <3>1 DEF Guard
    <3>4. unclearAge = 0
      BY <3>1 DEF unclearAge
    <3> QED BY <1>7, <1>8, <3>1, <3>2, <3>3, <3>4 DEF GuardIsRight
  <2> QED BY <1>1, <1>9, <2>1, <2>2, <2>3, AmbiguousGuard
<1> QED BY <1>3, <1>10, <1>11, <1>12 DEF CollectorInv

LEMMA PollFailsKeepsInv ==
  ASSUME CollectorInv, PollFails
  PROVE  CollectorInv'
<1>1. CollectorTypeOK /\ settle \in Guard
  BY CollectorFields DEF CollectorInv
<1>2. UNCHANGED <<fg, view, collectorMishaps>> /\ polling' = FALSE
  BY DEF PollFails
<1>3. /\ settle' \in Guard /\ settle'.armed /\ settle'.pending = Never
      /\ settle'.ambiguityAge = Never
  BY <1>1, ArmedGuard DEF PollFails
<1>4. seen' \in History
  BY BrokenHistory DEF PollFails
<1>5. /\ tracker' \in Tracker /\ ~tracker'.online
      /\ mqtt' \in [connected : BOOLEAN, pipe : Seq(MessageType)] /\ PipeIsRight'
  BY <1>1, <1>2, FailsKeepsPipe DEF CollectorInv, PollFails
<1>6. CollectorTypeOK'
  BY <1>1, <1>2, <1>3, <1>4, <1>5 DEF CollectorTypeOK
<1>7. TrackerIsCurrent' /\ GuardIsRight'
  BY <1>3, <1>5 DEF TrackerIsCurrent, GuardIsRight
<1> QED BY <1>5, <1>6, <1>7 DEF CollectorInv

LEMMA DeliversKeepsInv ==
  ASSUME CollectorInv, Delivers
  PROVE  CollectorInv' /\ [Sensor!SourceNext]_fg
<1> DEFINE p == mqtt.pipe
           m == Head(p)
<1>1. /\ CollectorTypeOK /\ p \in Seq(MessageType) /\ p # <<>> /\ m \in MessageType
      /\ fg \in Source /\ tracker \in Tracker /\ Tail(p) \in Seq(MessageType)
  BY CollectorFields, OneLess DEF CollectorInv, Delivers
<1>2. Chain(fg, tracker, p) /\ mqtt.connected /\ AvailabilityArrives(fg, tracker, p)
  BY DEF CollectorInv, PipeIsRight, Delivers
<1>3. /\ mqtt' \in [connected : BOOLEAN, pipe : Seq(MessageType)]
      /\ mqtt'.pipe = Tail(p)
  <2>1. mqtt' = [connected |-> mqtt.connected, pipe |-> Tail(p)]
    BY <1>1, CollectorFields DEF Delivers
  <2> QED BY <1>1, <2>1, CollectorFields
<1>4. UNCHANGED <<view, polling, settle, tracker, seen, collectorMishaps>>
  BY DEF Delivers
<1>5. fg' = IF IsState(m) THEN [fg EXCEPT !.app = m.app, !.event = m.event]
            ELSE [fg EXCEPT !.online = m.online]
  BY DEF Delivers, IsState
<1>6. IsState(m) <=> ~IsAvailability(m)
  BY <1>1, MessageKinds DEF IsState, IsAvailability
<1> HIDE DEF p, m
<1>7. /\ fg' \in Source /\ Chain(fg', tracker, Tail(p)) /\ [Sensor!SourceNext]_fg
      /\ fg'.online = IF IsAvailability(m) THEN m.online ELSE fg.online
  <2>1. CASE IsState(m)
    <3>1. fg' = [fg EXCEPT !.app = m.app, !.event = m.event]
      BY <1>5, <2>1
    <3>2. /\ fg' \in Source /\ Chain(fg', tracker, Tail(p))
          /\ fg' = fg \/ (fg.event < m.event /\ (m.app # fg.app \/ ~fg.online))
      BY <1>1, <1>2, <2>1, <3>1, StateArrives DEF m
    <3>3. fg'.online = fg.online
      BY <1>1, <3>1 DEF Source
    <3>4. ASSUME fg.event < m.event, m.app # fg.app \/ ~fg.online
          PROVE  Sensor!SourceNext
      <4>1. fg' = [online |-> fg.online, app |-> m.app, event |-> m.event]
        BY <1>1, <3>1 DEF Source
      <4>2. m.app \in MaybeApp /\ m.event \in 0..MaxEvent
        BY <3>2, <4>1 DEF Source
      <4>3. m.event \in (fg.event + 1)..MaxEvent
        BY <1>1, <3>4, <4>2, SensorFields, SourceAssumption
      <4>4. Sensor!Announce(m.app)
        BY <3>4, <4>1, <4>3 DEF Sensor!Announce
      <4> QED BY <4>2, <4>4 DEF Sensor!SourceNext, Sensor!MaybeApp, MaybeApp
    <3> QED BY <1>6, <2>1, <3>2, <3>3, <3>4
  <2>2. CASE ~IsState(m)
    <3>1. fg' = [fg EXCEPT !.online = m.online]
      BY <1>5, <2>2
    <3>2. /\ fg' \in Source /\ Chain(fg', tracker, Tail(p))
          /\ fg'.online /\ ~fg.online => fg.event > 0
      BY <1>1, <1>2, <2>2, <3>1, AvailabilityArrivesSafely DEF m
    <3>3. fg'.online = m.online /\ m.online \in BOOLEAN
      BY <1>1, <2>2, <3>1, MessageKinds DEF Source
    <3>4. fg' = fg \/ Sensor!Outage \/ Sensor!Return
      <4>1. CASE m.online = fg.online
        BY <1>1, <3>1, <4>1 DEF Source
      <4>2. CASE m.online /\ ~fg.online
        <5>1. fg' = [fg EXCEPT !.online = TRUE]
          BY <3>1, <3>3, <4>2
        <5> QED BY <3>2, <3>3, <4>2, <5>1 DEF Sensor!Return
      <4>3. CASE ~m.online /\ fg.online
        <5>1. fg' = [fg EXCEPT !.online = FALSE]
          BY <3>1, <3>3, <4>3
        <5> QED BY <4>3, <5>1 DEF Sensor!Outage
      <4> QED BY <1>1, <3>3, <4>1, <4>2, <4>3, SensorFields
    <3> QED BY <1>6, <2>2, <3>2, <3>3, <3>4 DEF Sensor!SourceNext
  <2> QED BY <2>1, <2>2
<1>8. AvailabilityArrives(fg', tracker, Tail(p))
  BY <1>1, <1>2, <1>7, RestArrives DEF m
<1>9. CollectorTypeOK'
  BY <1>1, <1>3, <1>4, <1>7 DEF CollectorTypeOK
<1>10. PipeIsRight'
  BY <1>3, <1>4, <1>7, <1>8 DEF PipeIsRight
<1>11. TrackerIsCurrent' /\ GuardIsRight'
  BY <1>4 DEF CollectorInv, TrackerIsCurrent, GuardIsRight
<1> QED BY <1>7, <1>9, <1>10, <1>11 DEF CollectorInv

LEMMA ConnectsKeepsInv ==
  ASSUME CollectorInv, Connects
  PROVE  CollectorInv' /\ fg' = fg
<1> DEFINE p == mqtt.pipe
           m == StateMessage(tracker)
           n == Availability(TRUE)
           o == Availability(FALSE)
           q == Append(p, m)
           r == Append(q, n)
<1>1. /\ CollectorTypeOK /\ p \in Seq(MessageType) /\ fg \in Source /\ tracker \in Tracker
      /\ Chain(fg, tracker, p) /\ tracker.online \in BOOLEAN
  BY CollectorFields, TrackerFields DEF CollectorInv, PipeIsRight
<1>2. mqtt' = [connected |-> TRUE, pipe |-> p \o Replay]
  BY DEF Connects
<1>3. UNCHANGED <<fg, view, polling, settle, tracker, seen, collectorMishaps>>
  BY DEF Connects
<1>4. /\ p \o Replay \in Seq(MessageType)
      /\ Chain(fg, tracker, p \o Replay) /\ AvailabilityArrives(fg, tracker, p \o Replay)
  <2>1. CASE tracker.online
    <3>1. tracker.event > 0
      BY <2>1 DEF CollectorInv, TrackerIsCurrent
    <3>2. m \in MessageType /\ IsState(m) /\ n \in MessageType
      BY <1>1, <3>1, MessageKinds
    <3>3. Chain(fg, tracker, q)
      BY <1>1, <3>1, StatedAgain
    <3>4. p \o Replay = p \o <<m, n>>
      BY <2>1 DEF Replay
    <3> HIDE DEF m, n
    <3>5. p \o Replay = r
      BY <1>1, <3>2, <3>4, PublishedInTurn
    <3>6. q \in Seq(MessageType)
      BY <1>1, <3>2, AppendProperties
    <3>7. Len(p) + 1 \in States(q)
      BY <1>1, <3>2, OneMore
    <3> HIDE DEF q
    <3>8. r \in Seq(MessageType)
      BY <3>2, <3>6, AppendProperties
    <3>9. Chain(fg, tracker, r)
      BY <1>1, <3>3, <3>6, <3>7, AvailabilityStated DEF n
    <3>10. AvailabilityArrives(fg, tracker, r)
      BY <2>1, <1>1, <3>6, LastWordOnAvailability DEF n
    <3> QED BY <3>5, <3>8, <3>9, <3>10
  <2>2. CASE ~tracker.online
    <3>1. o \in MessageType
      BY MessageKinds
    <3>2. p \o Replay = p \o <<o>>
      BY <2>2 DEF Replay
    <3>3. Chain(fg, tracker, Append(p, o))
      BY <1>1, AvailabilityStated
    <3>4. AvailabilityArrives(fg, tracker, Append(p, o))
      BY <1>1, <2>2, LastWordOnAvailability
    <3> HIDE DEF o
    <3>5. p \o Replay = Append(p, o) /\ Append(p, o) \in Seq(MessageType)
      BY <1>1, <3>1, <3>2, PublishedInTurn, AppendProperties
    <3> QED BY <3>3, <3>4, <3>5
  <2> QED BY <2>1, <2>2
<1> HIDE DEF p
<1>5. CollectorTypeOK'
  BY <1>1, <1>2, <1>3, <1>4 DEF CollectorTypeOK
<1>6. PipeIsRight'
  BY <1>2, <1>3, <1>4 DEF PipeIsRight
<1>7. TrackerIsCurrent' /\ GuardIsRight'
  BY <1>3 DEF CollectorInv, TrackerIsCurrent, GuardIsRight
<1> QED BY <1>3, <1>5, <1>6, <1>7 DEF CollectorInv

(* What goes wrong is counted, and puts the sensor down at most.            *)
LEMMA SensorDown ==
  ASSUME CollectorInv, fg' = [fg EXCEPT !.online = FALSE], CollectorMishap
  PROVE  /\ fg' \in Source /\ ~fg'.online /\ fg'.event = fg.event
         /\ Chain(fg', tracker, mqtt.pipe) /\ [Sensor!SourceNext]_fg
         /\ collectorMishaps' \in 0..MaxCollectorMishaps
<1>1. fg \in Source /\ tracker \in Tracker /\ mqtt.pipe \in Seq(MessageType)
  BY CollectorFields DEF CollectorInv
<1>2. fg' \in Source /\ Chain(fg', tracker, mqtt.pipe)
  BY <1>1, SensorGoesDown DEF CollectorInv, PipeIsRight
<1>3. ~fg'.online
  BY <1>1 DEF Source
<1>4. fg'.event = fg.event
  BY <1>1 DEF Source
<1>5. fg' = fg \/ Sensor!Outage
  <2>1. CASE fg.online
    BY <2>1 DEF Sensor!Outage
  <2>2. CASE ~fg.online
    BY <1>1, <2>2 DEF Source
  <2> QED BY <2>1, <2>2
<1>6. collectorMishaps' \in 0..MaxCollectorMishaps
  BY CollectorAssumption DEF CollectorInv, CollectorTypeOK, CollectorMishap
<1> QED BY <1>2, <1>3, <1>4, <1>5, <1>6 DEF Sensor!SourceNext

LEMMA BrokerLostKeepsInv ==
  ASSUME CollectorInv, BrokerIsLost
  PROVE  CollectorInv' /\ [Sensor!SourceNext]_fg
<1>1. /\ fg' \in Source /\ Chain(fg', tracker, mqtt.pipe) /\ [Sensor!SourceNext]_fg
      /\ collectorMishaps' \in 0..MaxCollectorMishaps
  BY SensorDown DEF BrokerIsLost
<1>2. UNCHANGED <<view, polling, settle, tracker, seen>>
  BY DEF BrokerIsLost
<1>3. /\ mqtt' \in [connected : BOOLEAN, pipe : Seq(MessageType)]
      /\ mqtt'.pipe = mqtt.pipe /\ mqtt'.connected = FALSE
  <2>1. mqtt' = [connected |-> FALSE, pipe |-> mqtt.pipe] /\ mqtt.pipe \in Seq(MessageType)
    BY CollectorFields DEF CollectorInv, BrokerIsLost
  <2> QED BY <2>1
<1>4. CollectorTypeOK'
  BY <1>1, <1>2, <1>3 DEF CollectorInv, CollectorTypeOK
<1>5. PipeIsRight' /\ TrackerIsCurrent' /\ GuardIsRight'
  BY <1>1, <1>2, <1>3 DEF CollectorInv, PipeIsRight, TrackerIsCurrent, GuardIsRight
<1> QED BY <1>1, <1>4, <1>5 DEF CollectorInv

(* The guard and the history of a collector that has just started.          *)
LEMMA NewStateIsRight ==
  /\ NewGuard \in Guard /\ NewHistory \in History
  /\ ~NewGuard.armed /\ NewGuard.pending = Never /\ NewGuard.ambiguityAge = Never
  /\ ~NewHistory.broken /\ NewHistory.unclearAge = Never
<1>1. NewGuard \in Guard /\ ~NewGuard.armed
  BY ZeroAges DEF NewGuard, Guard
<1>2. NewHistory \in History /\ ~NewHistory.broken
  BY ZeroAges DEF NewHistory, History
<1> QED BY <1>1, <1>2 DEF NewGuard, NewHistory

LEMMA RestartKeepsInv ==
  ASSUME CollectorInv, CollectorRestarts
  PROVE  CollectorInv' /\ [Sensor!SourceNext]_fg
<1>1. /\ fg' \in Source /\ ~fg'.online /\ fg'.event = fg.event /\ [Sensor!SourceNext]_fg
      /\ collectorMishaps' \in 0..MaxCollectorMishaps
  BY SensorDown DEF CollectorRestarts
<1>2. tracker.issued \in 0..MaxEvent /\ fg.event <= tracker.issued
  BY CollectorFields, TrackerFields DEF CollectorInv, PipeIsRight, Chain
<1>3. /\ settle' = NewGuard /\ seen' = NewHistory /\ tracker' = NewTracker(tracker.issued)
      /\ polling' = FALSE /\ mqtt' = [connected |-> FALSE, pipe |-> <<>>] /\ view' = view
  BY DEF CollectorRestarts
<1>4. /\ tracker' \in Tracker /\ <<>> \in Seq(MessageType) /\ Chain(fg', tracker', <<>>)
  BY <1>1, <1>2, <1>3, RunBegins
<1>5. ~tracker'.online
  BY <1>3 DEF NewTracker
<1>6. CollectorTypeOK'
  BY <1>1, <1>3, <1>4, NewStateIsRight DEF CollectorInv, CollectorTypeOK
<1>7. PipeIsRight' /\ TrackerIsCurrent' /\ GuardIsRight'
  BY <1>3, <1>4, <1>5, NewStateIsRight DEF PipeIsRight, TrackerIsCurrent, GuardIsRight
<1> QED BY <1>1, <1>6, <1>7 DEF CollectorInv

LEMMA InitCollectorInv ==
  ASSUME CollectorInit
  PROVE  CollectorInv
<1>1. /\ settle = NewGuard /\ seen = NewHistory /\ tracker = NewTracker(0)
      /\ polling = FALSE /\ mqtt = [connected |-> FALSE, pipe |-> <<>>] /\ view \in View
      /\ fg = [online |-> FALSE, app |-> NoApp, event |-> 0] /\ collectorMishaps = 0
  BY DEF CollectorInit, SourceInit
<1>2. fg \in Source /\ ~fg.online /\ fg.event = 0 /\ 0 \in 0..MaxEvent /\ 0 <= 0
  BY <1>1, SourceAssumption DEF Source, MaybeApp
<1>3. tracker \in Tracker /\ <<>> \in Seq(MessageType) /\ Chain(fg, tracker, <<>>)
  BY <1>1, <1>2, RunBegins
<1>4. ~tracker.online
  BY <1>1 DEF NewTracker
<1>5. collectorMishaps \in 0..MaxCollectorMishaps
  BY <1>1, CollectorAssumption
<1>6. CollectorTypeOK
  BY <1>1, <1>2, <1>3, <1>5, NewStateIsRight DEF CollectorTypeOK
<1>7. PipeIsRight /\ TrackerIsCurrent /\ GuardIsRight
  BY <1>1, <1>3, <1>4, NewStateIsRight DEF PipeIsRight, TrackerIsCurrent, GuardIsRight
<1> QED BY <1>6, <1>7 DEF CollectorInv

(* Every step keeps the invariant and is one of the source, or none.        *)
LEMMA CollectorStepKeepsInv ==
  ASSUME CollectorInv, [CollectorNext]_collectorVars
  PROVE  CollectorInv' /\ [Sensor!SourceNext]_fg
<1>1. CASE TickPasses
  BY <1>1, TickKeepsInv DEF TickPasses
<1>2. CASE ViewChanges \/ SessionStarts
  BY <1>2, ViewKeepsInv DEF ViewChanges, SessionStarts
<1>3. ASSUME NEW a \in Apps, PollsAccepted(a) PROVE CollectorInv' /\ fg' = fg
  BY <1>3, AcceptedKeepsInv DEF PollsAccepted, Polls
<1>4. ASSUME NEW a \in Apps, PollsHeld(a) PROVE CollectorInv' /\ fg' = fg
  BY <1>4, HeldKeepsInv DEF PollsHeld, Polls
<1>5. CASE PollsScreensaver
  BY <1>5, ScreensaverKeepsInv DEF PollsScreensaver, Polls
<1>6. CASE PollsAmbiguous
  BY <1>6, AmbiguousKeepsInv DEF PollsAmbiguous, Polls
<1>7. CASE PollFails
  BY <1>7, PollFailsKeepsInv DEF PollFails
<1>8. CASE Delivers
  BY <1>8, DeliversKeepsInv
<1>9. CASE Connects
  BY <1>9, ConnectsKeepsInv
<1>10. CASE BrokerIsLost
  BY <1>10, BrokerLostKeepsInv
<1>11. CASE CollectorRestarts
  BY <1>11, RestartKeepsInv
<1>12. CASE UNCHANGED collectorVars
  <2>1. UNCHANGED <<fg, view, polling, settle, tracker, mqtt, seen, collectorMishaps>>
    BY <1>12 DEF collectorVars
  <2>2. CollectorTypeOK' /\ PipeIsRight'
    BY <2>1 DEF CollectorInv, CollectorTypeOK, PipeIsRight
  <2> QED BY <2>1, <2>2 DEF CollectorInv, TrackerIsCurrent, GuardIsRight
<1> QED BY <1>1, <1>2, <1>3, <1>4, <1>5, <1>6, <1>7, <1>8, <1>9, <1>10, <1>11, <1>12
        DEF CollectorNext, PollSteps

(* What Home Assistant sees as available is what the tracker has, once      *)
(* everything is delivered.                                                 *)
LEMMA DeliveredIsCurrent ==
  ASSUME CollectorInv
  PROVE  AvailableIsCurrent
<1> SUFFICES ASSUME mqtt.connected, mqtt.pipe = <<>>
             PROVE  /\ fg.online = tracker.online
                    /\ fg.online => /\ fg.app = tracker.app /\ fg.event = tracker.event
                                    /\ fg.app = seen.last \/ (fg.app = NoApp /\ settle.armed)
  BY DEF AvailableIsCurrent
<1>1. DOMAIN <<>> = {} /\ States(<<>>) = {}
  BY DEF States
<1>2. Chain(fg, tracker, <<>>) /\ AvailabilityArrives(fg, tracker, <<>>)
  BY DEF CollectorInv, PipeIsRight
<1>3. fg.online = tracker.online
  BY <1>1, <1>2 DEF AvailabilityArrives
<1>4. ASSUME fg.online PROVE fg.app = tracker.app /\ fg.event = tracker.event
  <2>1. Chained(fg, tracker, <<>>)
    BY <1>2, <1>4 DEF Chain, Foreign
  <2>2. fg.event <= tracker.event /\ tracker.event > 0 /\ ~(fg.event < tracker.event)
    BY <1>1, <2>1 DEF Chained
  <2>3. fg.event = tracker.event
    BY <2>2, CollectorFields, SensorFields, TrackerFields DEF CollectorInv
  <2> QED BY <1>2, <2>2, <2>3 DEF Chain, EventsNameApps
<1>5. ASSUME tracker.online
      PROVE  tracker.app = seen.last \/ (tracker.app = NoApp /\ settle.armed)
  BY <1>5 DEF CollectorInv, TrackerIsCurrent
<1> QED BY <1>3, <1>4, <1>5

(* An app is accepted after a break only when every poll has found it for   *)
(* as long as it has to settle.                                             *)
LEMMA AcceptedHasSettled ==
  ASSUME CollectorInv, NEW a \in Apps, PollsAccepted(a),
         seen.broken \/ (seen.unclearAge # Never /\ seen.unclearAge > Ambiguity)
  PROVE  seen.last = a /\ seen.steady >= Settle
<1>1. settle \in Guard /\ seen \in History
  BY CollectorFields DEF CollectorInv
<1>2. settle.armed
  BY DEF CollectorInv, GuardIsRight
<1>3. ~Within(settle.ambiguityAge, Ambiguity)
  <2> SUFFICES ASSUME settle.ambiguityAge # Never, settle.ambiguityAge <= Ambiguity
               PROVE  FALSE
    BY DEF Within
  <2>1. ~seen.broken /\ seen.unclearAge = settle.ambiguityAge
    BY DEF CollectorInv, GuardIsRight
  <2>2. settle.ambiguityAge \in 0..(Ambiguity + 1) /\ Ambiguity \in Nat
    BY <1>1, GuardFields, CollectorAssumption
  <2> QED BY <2>1, <2>2
<1>4. settle.pending = a /\ settle.pendingAge >= Settle
  BY <1>2, <1>3 DEF PollsAccepted, accepts, Lasts
<1>5. a # Never
  BY CollectorAssumption DEF MaybeApp
<1>6. seen.last = a /\ settle.pendingAge <= seen.steady
  BY <1>4, <1>5 DEF CollectorInv, GuardIsRight
<1>7. settle.pendingAge \in 0..Settle /\ seen.steady \in 0..Settle /\ Settle \in Nat
  BY <1>1, GuardFields, HistoryFields, CollectorAssumption
<1> QED BY <1>4, <1>6, <1>7

-----------------------------------------------------------------------------
(* LogArchive: the events under way.                                        *)

(* From the archive to the reader: the batch that is being written, the     *)
(* queue, and what the reader waits to queue.                               *)
Pipe == recorder.batch \o queue
UnderWay == IF reader.offer = NoEvent THEN Pipe ELSE Append(Pipe, reader.offer)

Before(c, d) == c.boot < d.boot \/ (c.boot = d.boot /\ c.after < d.after)
NotAfter(c, d) == c.boot < d.boot \/ (c.boot = d.boot /\ c.after <= d.after)
CursorOf(id) == [boot |-> id[1], after |-> id[2]]

IsRow(e) == e.kind = "row"
IsGap(e) == e.kind = "gap"
IsMarked(e) == e.cursor # NoCursor

(* A row comes with its cursor, a gap with none, and a boot is no record.   *)
WholeEvent(e) ==
  /\ IsRow(e) => e.ids = {<<e.cursor.boot, e.cursor.after>>} /\ e.cursor.after > 0
  /\ IsGap(e) => e.cursor = NoCursor
  /\ ~IsRow(e) /\ ~IsGap(e) => e.ids = {} /\ e.cursor.boot > 0 /\ e.cursor.after = 0

(* A record is in the archive a or in an event before the i-th.             *)
Named(a, events, i, id) ==
  id \in a.rows \cup a.gaps \/ \E j \in DOMAIN events : j < i /\ id \in events[j].ids

(* Every record before a row is.                                            *)
RowsAreNext(a, events) ==
  \A i \in DOMAIN events : IsRow(events[i]) =>
    \A n \in 1..(events[i].cursor.after - 1) :
      Named(a, events, i, <<events[i].cursor.boot, n>>)

(* Cursors grow, and no row is after the cursor of the archive.             *)
CursorsGrow(a, events) ==
  /\ \A i \in DOMAIN events : IsMarked(events[i]) => Before(a.cursor, events[i].cursor)
  /\ \A i, j \in DOMAIN events : i < j /\ IsMarked(events[i]) /\ IsMarked(events[j]) =>
       Before(events[i].cursor, events[j].cursor)
RowsAreBehind(a) ==
  /\ \A id \in a.rows : NotAfter(CursorOf(id), a.cursor)
  /\ a.cursor.after > 0 => <<a.cursor.boot, a.cursor.after>> \in a.rows

(* No record is both a row and in a gap.                                    *)
Apart(a, events) ==
  /\ \A i \in DOMAIN events : IsRow(events[i]) => events[i].ids \cap a.gaps = {}
  /\ \A i \in DOMAIN events : IsGap(events[i]) => events[i].ids \cap a.rows = {}
  /\ \A i, j \in DOMAIN events : IsRow(events[i]) /\ IsGap(events[j]) =>
       events[i].ids \cap events[j].ids = {}

Intact(a, events) ==
  /\ a.rows \cap a.gaps = {}
  /\ \A id \in a.rows : \A n \in 1..(id[2] - 1) : <<id[1], n>> \in a.rows \cup a.gaps
  /\ \A i \in DOMAIN events : WholeEvent(events[i])
  /\ RowsAreNext(a, events) /\ CursorsGrow(a, events) /\ RowsAreBehind(a) /\ Apart(a, events)

(* What a gap names has been overwritten in the ring.                       *)
Overwritten(id) == id[1] < ring.boot \/ (id[1] = ring.boot /\ id[2] < Oldest)
InGap(a, events, id) ==
  id \in a.gaps \/ \E i \in DOMAIN events : IsGap(events[i]) /\ id \in events[i].ids
GapsAreOverwritten(a, events) ==
  \A id \in RecordId : InGap(a, events, id) => Overwritten(id)

(* No cursor is of a boot that is to come.                                  *)
Newest == [boot |-> ring.boot, after |-> MaxSeq]
CursorsAreKnown(a, events) ==
  /\ NotAfter(a.cursor, Newest)
  /\ \A i \in DOMAIN events : IsMarked(events[i]) => NotAfter(events[i].cursor, Newest)

RingIsAhead(a, events) == GapsAreOverwritten(a, events) /\ CursorsAreKnown(a, events)

-----------------------------------------------------------------------------
(* LogArchive: the reader.                                                  *)

(* All that is under way is no later than the cursor of the reader, and all *)
(* before that cursor is named.                                             *)
AllNamed(a, events, id) ==
  id \in a.rows \cup a.gaps \/ \E j \in DOMAIN events : id \in events[j].ids
SavedIsAhead(a, events, saved) ==
  /\ saved.boot <= ring.boot /\ NotAfter(a.cursor, saved)
  /\ \A i \in DOMAIN events : IsMarked(events[i]) => NotAfter(events[i].cursor, saved)
  /\ \A n \in 1..saved.after : AllNamed(a, events, <<saved.boot, n>>)

(* The gap that the reader waits to queue is after its cursor.              *)
OfferIsAhead ==
  /\ reader.offer # NoEvent => reader.pc \in {"ask", "record"}
  /\ \A id \in reader.offer.ids : IsGap(reader.offer) =>
       id[1] = reader.saved.boot /\ id[2] > reader.saved.after

(* The page: its records are in order, none of them is in a gap, and where  *)
(* one is left out it was overwritten.                                      *)
BeforeRecord(i) ==
  IF i > 1 THEN reader.page.records[i - 1]
  ELSE IF reader.pc = "record" THEN reader.previous ELSE reader.saved.after
PageIsRight ==
  LET page == reader.page
      records == page.records
  IN /\ page.boot \in 1..ring.boot /\ reader.saved.boot <= page.boot
     /\ reader.pc = "read" =>
          /\ page.boot = ring.boot
          /\ records = <<>> => reader.previous = reader.saved.after
          /\ records # <<>> => reader.previous = records[Len(records)]
     /\ page.boot = ring.boot => page.oldest <= Oldest
     /\ \A i, j \in DOMAIN records : i < j => records[i] < records[j]
     /\ \A i \in DOMAIN records :
          /\ records[i] >= page.oldest
          /\ ~InGap(archive, UnderWay, <<page.boot, records[i]>>)
          /\ records[i] > BeforeRecord(i) + 1 /\ page.boot = ring.boot => records[i] <= Oldest

(* The records of a page: all before the next one are named, unless the     *)
(* recorder stops.                                                          *)
PreviousIsNamed ==
  /\ reader.saved.boot = reader.page.boot /\ reader.previous >= reader.saved.after
  /\ ~recorder.stop =>
       \A n \in 1..reader.previous : AllNamed(archive, UnderWay, <<reader.page.boot, n>>)

ReaderIsRight ==
  /\ reader.pc # "ended" => SavedIsAhead(archive, UnderWay, reader.saved)
  /\ OfferIsAhead
  /\ reader.pc \in {"read", "check", "record"} => PageIsRight
  /\ reader.pc = "record" => PreviousIsNamed

(* A batch is there to be written, and a recorder that is about to end has  *)
(* joined the reader.                                                       *)
RecorderIsRight ==
  /\ recorder.pc # "write" => recorder.batch = <<>>
  /\ recorder.pc \in {"down", "flush", "stopped"} => reader.pc = "ended"
  /\ recorder.pc \in {"down", "stopped"} => queue = <<>>

LogInv ==
  /\ LogTypeOK /\ ring.boot > 0
  /\ Intact(archive, UnderWay) /\ RingIsAhead(archive, UnderWay)
  /\ ReaderIsRight /\ RecorderIsRight

-----------------------------------------------------------------------------
(* Numbers.                                                                 *)

(* Of some numbers one is the least, and of some that are bounded one is    *)
(* the greatest.                                                            *)
LEMMA LeastNumber ==
  ASSUME NEW T, T \subseteq Nat, T # {}
  PROVE  \E n \in T : \A m \in T : n <= m
<1> DEFINE less == {pair \in Nat \X Nat : pair[1] < pair[2]}
<1>1. less = OpToRel(<, Nat)
  BY Zenon DEF OpToRel
<1>2. IsWellFoundedOn(less, Nat)
  BY <1>1, NatLessThanWellFounded, Zenon
<1>3. \A x, y \in Nat : x < y => <<x, y>> \in less
  OBVIOUS
<1> HIDE DEF less
<1>4. PICK n \in T : \A m \in T : <<m, n>> \notin less
  BY <1>2, WFMin
<1>5. \A m \in T : ~(m < n)
  BY <1>3, <1>4
<1> QED BY <1>5

LEMMA GreatestNumber ==
  ASSUME NEW top \in Nat, NEW T, T \subseteq 0..top, T # {}
  PROVE  \E n \in T : \A m \in T : m <= n
<1> DEFINE rest == {d \in Nat : top - d \in T}
<1>1. \A n \in T : n \in Nat /\ top - n \in Nat /\ top - (top - n) = n
  OBVIOUS
<1>2. rest # {} /\ \A m \in T : top - m \in rest
  BY <1>1
<1>3. PICK d \in rest : \A e \in rest : d <= e
  BY <1>2, LeastNumber
<1>4. top - d \in T /\ d \in Nat
  OBVIOUS
<1> HIDE DEF rest
<1>5. \A m \in T : m <= top - d
  BY <1>1, <1>2, <1>3, <1>4
<1> QED BY <1>4, <1>5

-----------------------------------------------------------------------------
(* LogArchive: what the operations make of the events under way.            *)

(* The fields of events, and of the archive.                                *)
LEMMA EventFields ==
  ASSUME NEW e \in Event
  PROVE  /\ e.kind \in {"row", "gap", "boot"} /\ e.ids \subseteq RecordId
         /\ e.cursor \in Cursor
         /\ e.cursor.boot \in 0..MaxBoot /\ e.cursor.boot \in Nat
         /\ e.cursor.after \in 0..MaxSeq /\ e.cursor.after \in Nat
<1>1. e.cursor \in Cursor
  BY LogAssumption DEF Event, NoCursor, Cursor, Boot
<1> QED BY <1>1, LogAssumption DEF Event, Cursor, Boot

LEMMA ArchiveFields ==
  ASSUME NEW a \in Archive
  PROVE  /\ a.rows \subseteq RecordId /\ a.gaps \subseteq RecordId /\ a.cursor \in Cursor
         /\ a.cursor.boot \in 0..MaxBoot /\ a.cursor.boot \in Nat
         /\ a.cursor.after \in 0..MaxSeq /\ a.cursor.after \in Nat
BY LogAssumption DEF Archive, Cursor, Boot

LEMMA IdFields ==
  ASSUME NEW id \in RecordId
  PROVE  /\ id[1] \in Nat /\ id[2] \in Nat /\ id[2] > 0 /\ id = <<id[1], id[2]>>
         /\ CursorOf(id).boot = id[1] /\ CursorOf(id).after = id[2]
BY LogAssumption DEF RecordId, Boot, SeqNo, CursorOf

(* The order of cursors.                                                    *)
IsCursor(c) == c.boot \in Nat /\ c.after \in Nat
LEMMA CursorsAreOrdered ==
  ASSUME NEW c, NEW d, NEW e, IsCursor(c), IsCursor(d), IsCursor(e)
  PROVE  /\ NotAfter(c, c)
         /\ NotAfter(c, d) /\ NotAfter(d, e) => NotAfter(c, e)
         /\ NotAfter(c, d) /\ Before(d, e) => Before(c, e)
         /\ Before(c, d) => NotAfter(c, d)
         /\ Before(c, d) /\ NotAfter(d, e) => Before(c, e)
         /\ ~(Before(c, d) /\ NotAfter(d, c))
BY DEF IsCursor, NotAfter, Before

(* Two sequences of events, one after the other.                            *)
LEMMA EventsJoined ==
  ASSUME NEW b \in Seq(Event), NEW q \in Seq(Event)
  PROVE  /\ b \o q \in Seq(Event) /\ Len(b) \in Nat
         /\ \A i \in DOMAIN b : /\ i \in DOMAIN (b \o q) /\ (b \o q)[i] = b[i]
                                /\ i \in Nat /\ i >= 1 /\ i <= Len(b)
         /\ \A j \in DOMAIN q : /\ Len(b) + j \in DOMAIN (b \o q)
                                /\ (b \o q)[Len(b) + j] = q[j]
                                /\ j \in Nat /\ j >= 1
         /\ \A k \in DOMAIN (b \o q) :
              k \in Nat /\ (k \in DOMAIN b \/ (k > Len(b) /\ k - Len(b) \in DOMAIN q))
<1>1. /\ b \o q \in Seq(Event) /\ Len(b \o q) = Len(b) + Len(q)
      /\ \A i \in 1..(Len(b) + Len(q)) :
           (b \o q)[i] = IF i <= Len(b) THEN b[i] ELSE q[i - Len(b)]
  BY ConcatProperties
<1>2. /\ Len(b) \in Nat /\ Len(q) \in Nat /\ DOMAIN b = 1..Len(b) /\ DOMAIN q = 1..Len(q)
      /\ DOMAIN (b \o q) = 1..(Len(b) + Len(q))
  BY <1>1, LenProperties
<1>3. \A j \in 1..Len(q) : /\ Len(b) + j \in 1..(Len(b) + Len(q)) /\ ~(Len(b) + j <= Len(b))
                           /\ Len(b) + j - Len(b) = j
  BY <1>2
<1>4. \A j \in DOMAIN q : Len(b) + j \in DOMAIN (b \o q) /\ (b \o q)[Len(b) + j] = q[j]
  BY <1>1, <1>2, <1>3
<1>5. \A i \in DOMAIN b : i \in DOMAIN (b \o q) /\ (b \o q)[i] = b[i]
  BY <1>1, <1>2
<1> QED BY <1>1, <1>2, <1>4, <1>5

LEMMA OneMoreEvent ==
  ASSUME NEW p \in Seq(Event), NEW e \in Event
  PROVE  /\ Append(p, e) \in Seq(Event) /\ Len(p) + 1 \in Nat
         /\ DOMAIN Append(p, e) = DOMAIN p \cup {Len(p) + 1}
         /\ Append(p, e)[Len(p) + 1] = e
         /\ \A i \in DOMAIN p : i \in Nat /\ i < Len(p) + 1 /\ Append(p, e)[i] = p[i]
<1>1. /\ Append(p, e) \in Seq(Event) /\ Len(p) \in Nat
      /\ Append(p, e)[Len(p) + 1] = e /\ Len(Append(p, e)) = Len(p) + 1
      /\ \A i \in 1..Len(p) : Append(p, e)[i] = p[i]
  BY AppendProperties, LenProperties
<1>2. DOMAIN Append(p, e) = 1..(Len(p) + 1) /\ DOMAIN p = 1..Len(p)
  BY <1>1, LenProperties
<1>3. DOMAIN Append(p, e) = DOMAIN p \cup {Len(p) + 1}
  BY <1>1, <1>2
<1> QED BY <1>1, <1>2, <1>3

(* Stored(b): what is in the archive then, and its cursor.                  *)
LEMMA StoredArchive ==
  ASSUME archive \in Archive, NEW b \in Seq(Event)
  PROVE  /\ Stored(b) \in Archive
         /\ \A id : id \in Stored(b).rows <=>
              id \in archive.rows \/ \E i \in DOMAIN b : IsRow(b[i]) /\ id \in b[i].ids
         /\ \A id : id \in Stored(b).gaps <=>
              id \in archive.gaps \/ \E i \in DOMAIN b : IsGap(b[i]) /\ id \in b[i].ids
         /\ \/ /\ \A i \in DOMAIN b : ~IsMarked(b[i])
               /\ Stored(b).cursor = archive.cursor
            \/ \E l \in DOMAIN b : /\ IsMarked(b[l]) /\ Stored(b).cursor = b[l].cursor
                                   /\ \A i \in DOMAIN b : IsMarked(b[i]) => i <= l
<1> DEFINE latest == CHOOSE i \in Marked(b) : \A j \in Marked(b) : j <= i
           cursor == IF Marked(b) = {} THEN archive.cursor ELSE b[latest].cursor
           rows == archive.rows \cup IdsOf(b, "row")
           gaps == archive.gaps \cup IdsOf(b, "gap")
<1>1. Stored(b) = [rows |-> rows, gaps |-> gaps, cursor |-> cursor]
  BY DEF Stored
<1>2. \A i \in DOMAIN b : b[i] \in Event /\ b[i].ids \subseteq RecordId /\ b[i].cursor \in Cursor
  BY EventFields, ElementOfSeq, LenProperties
<1>3. /\ \A id : id \in IdsOf(b, "row") <=> \E i \in DOMAIN b : IsRow(b[i]) /\ id \in b[i].ids
      /\ \A id : id \in IdsOf(b, "gap") <=> \E i \in DOMAIN b : IsGap(b[i]) /\ id \in b[i].ids
  BY DEF IdsOf, IsRow, IsGap
<1>4. Marked(b) # {} => latest \in Marked(b) /\ \A j \in Marked(b) : j <= latest
  <2>1. Marked(b) \subseteq 0..Len(b) /\ Len(b) \in Nat
    BY LenProperties DEF Marked
  <2>2. Marked(b) # {} => \E i \in Marked(b) : \A j \in Marked(b) : j <= i
    BY <2>1, GreatestNumber
  <2> QED BY <2>2
<1>5. \A i \in DOMAIN b : i \in Marked(b) <=> IsMarked(b[i])
  BY DEF Marked, IsMarked
<1>6. Marked(b) \subseteq DOMAIN b
  BY DEF Marked
<1> HIDE DEF latest
<1>7. cursor \in Cursor
  BY <1>2, <1>4, <1>6 DEF Archive
<1>8. rows \subseteq RecordId /\ gaps \subseteq RecordId
  BY <1>2, <1>3 DEF Archive
<1>9. \/ /\ \A i \in DOMAIN b : ~IsMarked(b[i])
         /\ cursor = archive.cursor
      \/ \E l \in DOMAIN b : /\ IsMarked(b[l]) /\ cursor = b[l].cursor
                             /\ \A i \in DOMAIN b : IsMarked(b[i]) => i <= l
  <2>1. CASE Marked(b) = {}
    BY <1>5, <2>1
  <2>2. CASE Marked(b) # {}
    <3>1. latest \in DOMAIN b /\ IsMarked(b[latest]) /\ cursor = b[latest].cursor
      BY <1>4, <1>5, <1>6, <2>2
    <3>2. \A i \in DOMAIN b : IsMarked(b[i]) => i <= latest
      BY <1>4, <1>5, <2>2
    <3> QED BY <3>1, <3>2
  <2> QED BY <2>1, <2>2
<1>10. /\ \A id : id \in rows <=>
            id \in archive.rows \/ \E i \in DOMAIN b : IsRow(b[i]) /\ id \in b[i].ids
       /\ \A id : id \in gaps <=>
            id \in archive.gaps \/ \E i \in DOMAIN b : IsGap(b[i]) /\ id \in b[i].ids
  BY <1>3
<1> HIDE DEF rows, gaps, cursor
<1>11. Stored(b).rows = rows /\ Stored(b).gaps = gaps /\ Stored(b).cursor = cursor
  BY <1>1
<1>12. Stored(b) \in Archive
  BY <1>1, <1>7, <1>8 DEF Archive
<1> QED BY <1>9, <1>10, <1>11, <1>12

(* An event that is whole: what it names it names as a row or a gap, and a  *)
(* row has a cursor.                                                        *)
LEMMA WholeEvents ==
  ASSUME NEW e \in Event, WholeEvent(e)
  PROVE  /\ \A id \in e.ids : IsRow(e) \/ IsGap(e)
         /\ IsRow(e) => /\ IsMarked(e) /\ e.cursor.after > 0
                        /\ e.ids = {<<e.cursor.boot, e.cursor.after>>}
         /\ IsMarked(e) /\ ~IsRow(e) => e.cursor.after = 0
         /\ ~(IsRow(e) /\ IsGap(e))
BY EventFields DEF WholeEvent, IsMarked, NoCursor, IsRow, IsGap

(* What the archive takes in leaves everything right.                       *)
LEMMA StoringIsSafe ==
  ASSUME archive \in Archive, NEW b \in Seq(Event), NEW q \in Seq(Event),
         Intact(archive, b \o q)
  PROVE  /\ Stored(b) \in Archive /\ Intact(Stored(b), q)
         /\ \A id : AllNamed(archive, b \o q, id) => AllNamed(Stored(b), q, id)
         /\ \A id : InGap(Stored(b), q, id) => InGap(archive, b \o q, id)
         /\ \A saved : /\ NotAfter(archive.cursor, saved)
                       /\ \A i \in DOMAIN (b \o q) :
                            IsMarked((b \o q)[i]) => NotAfter((b \o q)[i].cursor, saved)
                       => /\ NotAfter(Stored(b).cursor, saved)
                          /\ \A i \in DOMAIN q : IsMarked(q[i]) => NotAfter(q[i].cursor, saved)
<1> DEFINE a == archive
           s == Stored(b)
           E == b \o q
<1>1. /\ Len(b) \in Nat
      /\ \A i \in DOMAIN b : i \in DOMAIN E /\ E[i] = b[i] /\ i \in Nat /\ i <= Len(b)
      /\ \A j \in DOMAIN q : Len(b) + j \in DOMAIN E /\ E[Len(b) + j] = q[j] /\ j \in Nat /\ j >= 1
      /\ \A k \in DOMAIN E :
           k \in Nat /\ (k \in DOMAIN b \/ (k > Len(b) /\ k - Len(b) \in DOMAIN q))
  BY EventsJoined
<1>2. /\ s \in Archive
      /\ \A id : id \in s.rows <=>
           id \in a.rows \/ \E i \in DOMAIN b : IsRow(b[i]) /\ id \in b[i].ids
      /\ \A id : id \in s.gaps <=>
           id \in a.gaps \/ \E i \in DOMAIN b : IsGap(b[i]) /\ id \in b[i].ids
      /\ \/ /\ \A i \in DOMAIN b : ~IsMarked(b[i])
            /\ s.cursor = a.cursor
         \/ \E l \in DOMAIN b : /\ IsMarked(b[l]) /\ s.cursor = b[l].cursor
                                /\ \A i \in DOMAIN b : IsMarked(b[i]) => i <= l
  BY StoredArchive
<1>3. \A i \in DOMAIN E : E[i] \in Event
  BY EventsJoined, ElementOfSeq, LenProperties
<1>4. \A i \in DOMAIN E : WholeEvent(E[i])
  BY DEF Intact
<1>5. /\ \A i \in DOMAIN b : b[i] \in Event /\ WholeEvent(b[i])
      /\ \A i \in DOMAIN q : q[i] \in Event /\ WholeEvent(q[i])
  BY <1>1, <1>3, <1>4
<1>6. /\ IsCursor(a.cursor) /\ IsCursor(s.cursor)
      /\ \A i \in DOMAIN b : IsCursor(b[i].cursor)
      /\ \A i \in DOMAIN q : IsCursor(q[i].cursor)
  BY <1>2, <1>5, ArchiveFields, EventFields DEF IsCursor
<1>7. Apart(a, E) /\ CursorsGrow(a, E) /\ RowsAreNext(a, E) /\ RowsAreBehind(a)
  BY DEF Intact
<1>8. a.rows \cap a.gaps = {}
  BY DEF Intact
<1>9. \A id \in a.rows : \A n \in 1..(id[2] - 1) : <<id[1], n>> \in a.rows \cup a.gaps
  BY DEF Intact
<1> HIDE DEF a, s, E
<1>10. ASSUME NEW id, NEW i \in DOMAIN b, id \in b[i].ids
       PROVE  id \in s.rows \cup s.gaps
  BY <1>2, <1>5, <1>10, WholeEvents
<1>11. a.rows \subseteq s.rows /\ a.gaps \subseteq s.gaps
  BY <1>2
<1>12. s.rows \cap s.gaps = {}
  <2> SUFFICES ASSUME NEW id, id \in s.rows, id \in s.gaps PROVE FALSE
    OBVIOUS
  <2>1. CASE id \in a.rows /\ id \in a.gaps
    BY <1>8, <2>1
  <2>2. ASSUME NEW i \in DOMAIN b, IsRow(b[i]), id \in b[i].ids, id \in a.gaps
        PROVE  FALSE
    BY <1>1, <1>7, <2>2 DEF Apart
  <2>3. ASSUME NEW i \in DOMAIN b, IsGap(b[i]), id \in b[i].ids, id \in a.rows
        PROVE  FALSE
    BY <1>1, <1>7, <2>3 DEF Apart
  <2>4. ASSUME NEW i \in DOMAIN b, IsRow(b[i]), id \in b[i].ids,
               NEW j \in DOMAIN b, IsGap(b[j]), id \in b[j].ids
        PROVE  FALSE
    BY <1>1, <1>7, <2>4 DEF Apart
  <2> QED BY <1>2, <2>1, <2>2, <2>3, <2>4
<1>13. ASSUME NEW id \in s.rows, NEW n \in 1..(id[2] - 1)
       PROVE  <<id[1], n>> \in s.rows \cup s.gaps
  <2>1. CASE id \in a.rows
    BY <1>9, <1>11, <2>1
  <2>2. CASE id \notin a.rows
    <3>1. PICK i \in DOMAIN b : IsRow(b[i]) /\ id \in b[i].ids
      BY <1>2, <2>2
    <3>2. id = <<b[i].cursor.boot, b[i].cursor.after>>
      BY <1>5, <3>1, WholeEvents
    <3>3. id[1] = b[i].cursor.boot /\ n \in 1..(b[i].cursor.after - 1)
      BY <3>2
    <3>4. Named(a, E, i, <<id[1], n>>)
      BY <1>1, <1>7, <3>1, <3>3 DEF RowsAreNext
    <3>5. ASSUME NEW j \in DOMAIN E, j < i, <<id[1], n>> \in E[j].ids
          PROVE  j \in DOMAIN b
      BY <1>1, <3>5
    <3> QED BY <1>1, <1>10, <1>11, <3>4, <3>5 DEF Named
  <2> QED BY <2>1, <2>2
<1>14. ASSUME NEW i \in DOMAIN q, IsRow(q[i]), NEW n \in 1..(q[i].cursor.after - 1)
       PROVE  Named(s, q, i, <<q[i].cursor.boot, n>>)
  <2> DEFINE id == <<q[i].cursor.boot, n>>
  <2>1. Named(a, E, Len(b) + i, id)
    BY <1>1, <1>7, <1>14 DEF RowsAreNext
  <2> HIDE DEF id
  <2>2. CASE id \in a.rows \cup a.gaps
    BY <1>11, <2>2 DEF Named, id
  <2>3. ASSUME NEW j \in DOMAIN E, j < Len(b) + i, id \in E[j].ids
        PROVE  Named(s, q, i, id)
    <3>1. CASE j \in DOMAIN b
      BY <1>1, <1>10, <2>3, <3>1 DEF Named
    <3>2. CASE j > Len(b) /\ j - Len(b) \in DOMAIN q
      <4> DEFINE k == j - Len(b)
      <4>1. k \in DOMAIN q /\ k < i /\ Len(b) + k = j
        BY <1>1, <2>3, <3>2
      <4> HIDE DEF k
      <4>2. id \in q[k].ids
        BY <1>1, <2>3, <4>1
      <4> QED BY <4>1, <4>2 DEF Named
    <3> QED BY <1>1, <3>1, <3>2
  <2> QED BY <2>1, <2>2, <2>3 DEF Named, id
<1>15. /\ NotAfter(a.cursor, s.cursor)
       /\ \A i \in DOMAIN b : IsMarked(b[i]) => NotAfter(b[i].cursor, s.cursor)
       /\ \A j \in DOMAIN q : IsMarked(q[j]) => Before(s.cursor, q[j].cursor)
  <2>1. CASE /\ \A i \in DOMAIN b : ~IsMarked(b[i])
             /\ s.cursor = a.cursor
    BY <1>1, <1>6, <1>7, <2>1, CursorsAreOrdered DEF CursorsGrow
  <2>2. ASSUME NEW l \in DOMAIN b, IsMarked(b[l]), s.cursor = b[l].cursor,
               \A i \in DOMAIN b : IsMarked(b[i]) => i <= l
        PROVE  <1>15
    <3>1. NotAfter(a.cursor, s.cursor)
      BY <1>1, <1>6, <1>7, <2>2, CursorsAreOrdered DEF CursorsGrow
    <3>2. ASSUME NEW i \in DOMAIN b, IsMarked(b[i]) PROVE NotAfter(b[i].cursor, s.cursor)
      <4>1. CASE i = l
        BY <1>6, <2>2, <4>1, CursorsAreOrdered
      <4>2. CASE i # l
        <5>1. i < l
          BY <1>1, <2>2, <3>2, <4>2
        <5>2. Before(b[i].cursor, b[l].cursor)
          BY <1>1, <1>7, <2>2, <3>2, <5>1 DEF CursorsGrow
        <5> QED BY <1>6, <2>2, <5>2, CursorsAreOrdered
      <4> QED BY <4>1, <4>2
    <3>3. ASSUME NEW j \in DOMAIN q, IsMarked(q[j]) PROVE Before(s.cursor, q[j].cursor)
      <4>1. l < Len(b) + j
        BY <1>1
      <4> QED BY <1>1, <1>7, <2>2, <3>3, <4>1 DEF CursorsGrow
    <3> QED BY <3>1, <3>2, <3>3
  <2> QED BY <1>2, <2>1, <2>2
<1>16. CursorsGrow(s, q)
  <2> SUFFICES ASSUME NEW i \in DOMAIN q, NEW j \in DOMAIN q, i < j,
                      IsMarked(q[i]), IsMarked(q[j])
               PROVE  Before(q[i].cursor, q[j].cursor)
    BY <1>15 DEF CursorsGrow
  <2>1. Len(b) + i < Len(b) + j
    BY <1>1
  <2> QED BY <1>1, <1>7, <2>1 DEF CursorsGrow
<1>17. RowsAreBehind(s)
  <2>1. ASSUME NEW id \in s.rows PROVE NotAfter(CursorOf(id), s.cursor)
    <3>0. id \in RecordId /\ IsCursor(CursorOf(id))
      BY <1>2, ArchiveFields, IdFields DEF IsCursor
    <3>1. CASE id \in a.rows
      BY <1>6, <1>7, <1>15, <3>0, <3>1, CursorsAreOrdered DEF RowsAreBehind
    <3>2. CASE id \notin a.rows
      <4>1. PICK i \in DOMAIN b : IsRow(b[i]) /\ id \in b[i].ids
        BY <1>2, <3>2
      <4>2. id = <<b[i].cursor.boot, b[i].cursor.after>> /\ IsMarked(b[i])
        BY <1>5, <4>1, WholeEvents
      <4>3. NotAfter(b[i].cursor, s.cursor)
        BY <1>15, <4>2
      <4> QED BY <4>2, <4>3 DEF NotAfter, CursorOf
    <3> QED BY <3>1, <3>2
  <2>2. s.cursor.after > 0 => <<s.cursor.boot, s.cursor.after>> \in s.rows
    <3>1. CASE s.cursor = a.cursor
      BY <1>7, <1>11, <3>1 DEF RowsAreBehind
    <3>2. ASSUME NEW l \in DOMAIN b, IsMarked(b[l]), s.cursor = b[l].cursor, s.cursor.after > 0
          PROVE  <<s.cursor.boot, s.cursor.after>> \in s.rows
      <4>1. IsRow(b[l])
        BY <1>5, <1>6, <3>2, WholeEvents DEF IsCursor
      <4> QED BY <1>2, <1>5, <3>2, <4>1, WholeEvents
    <3> QED BY <1>2, <3>1, <3>2
  <2> QED BY <2>1, <2>2 DEF RowsAreBehind
<1>18. Apart(s, q)
  <2>1. ASSUME NEW i \in DOMAIN q, IsRow(q[i]), NEW id \in q[i].ids PROVE id \notin s.gaps
    <3>1. id \notin a.gaps
      BY <1>1, <1>7, <2>1 DEF Apart
    <3>2. ASSUME NEW j \in DOMAIN b, IsGap(b[j]), id \in b[j].ids PROVE FALSE
      BY <1>1, <1>7, <2>1, <3>2 DEF Apart
    <3> QED BY <1>2, <3>1, <3>2
  <2>2. ASSUME NEW i \in DOMAIN q, IsGap(q[i]), NEW id \in q[i].ids PROVE id \notin s.rows
    <3>1. id \notin a.rows
      BY <1>1, <1>7, <2>2 DEF Apart
    <3>2. ASSUME NEW j \in DOMAIN b, IsRow(b[j]), id \in b[j].ids PROVE FALSE
      BY <1>1, <1>7, <2>2, <3>2 DEF Apart
    <3> QED BY <1>2, <3>1, <3>2
  <2>3. ASSUME NEW i \in DOMAIN q, NEW j \in DOMAIN q, IsRow(q[i]), IsGap(q[j])
        PROVE  q[i].ids \cap q[j].ids = {}
    BY <1>1, <1>7, <2>3 DEF Apart
  <2> QED BY <2>1, <2>2, <2>3 DEF Apart
<1>19. Intact(s, q)
  BY <1>5, <1>12, <1>13, <1>14, <1>16, <1>17, <1>18 DEF Intact, RowsAreNext
<1>20. ASSUME NEW id, AllNamed(a, E, id) PROVE AllNamed(s, q, id)
  <2>1. CASE id \in a.rows \cup a.gaps
    BY <1>11, <2>1 DEF AllNamed
  <2>2. ASSUME NEW j \in DOMAIN E, id \in E[j].ids PROVE AllNamed(s, q, id)
    <3>1. CASE j \in DOMAIN b
      BY <1>1, <1>10, <2>2, <3>1 DEF AllNamed
    <3>2. CASE j > Len(b) /\ j - Len(b) \in DOMAIN q
      <4> DEFINE k == j - Len(b)
      <4>1. k \in DOMAIN q /\ Len(b) + k = j
        BY <1>1, <3>2
      <4> HIDE DEF k
      <4> QED BY <1>1, <2>2, <4>1 DEF AllNamed
    <3> QED BY <1>1, <3>1, <3>2
  <2> QED BY <1>20, <2>1, <2>2 DEF AllNamed
<1>21. ASSUME NEW id, InGap(s, q, id) PROVE InGap(a, E, id)
  <2>1. CASE id \in s.gaps
    BY <1>1, <1>2, <2>1 DEF InGap
  <2>2. CASE id \notin s.gaps
    BY <1>1, <1>21, <2>2 DEF InGap
  <2> QED BY <2>1, <2>2
<1>22. ASSUME NEW saved, NotAfter(a.cursor, saved),
              \A i \in DOMAIN E : IsMarked(E[i]) => NotAfter(E[i].cursor, saved)
       PROVE  /\ NotAfter(s.cursor, saved)
              /\ \A i \in DOMAIN q : IsMarked(q[i]) => NotAfter(q[i].cursor, saved)
  BY <1>1, <1>2, <1>22
<1> QED BY <1>2, <1>19, <1>20, <1>21, <1>22 DEF a, s, E

(* One more event at the end.                                               *)
LEMMA EventIsNamed ==
  ASSUME NEW a, NEW p \in Seq(Event), NEW e \in Event, NEW id
  PROVE  /\ AllNamed(a, Append(p, e), id) <=> AllNamed(a, p, id) \/ id \in e.ids
         /\ InGap(a, Append(p, e), id) <=> InGap(a, p, id) \/ (IsGap(e) /\ id \in e.ids)
<1> DEFINE E == Append(p, e)
           n == Len(p) + 1
<1>1. /\ DOMAIN E = DOMAIN p \cup {n} /\ E[n] = e
      /\ \A i \in DOMAIN p : E[i] = p[i]
  BY OneMoreEvent
<1> HIDE DEF E, n
<1>2. AllNamed(a, E, id) <=> AllNamed(a, p, id) \/ id \in e.ids
  BY <1>1 DEF AllNamed
<1>3. InGap(a, E, id) <=> InGap(a, p, id) \/ (IsGap(e) /\ id \in e.ids)
  BY <1>1 DEF InGap
<1> QED BY <1>2, <1>3 DEF E

LEMMA AppendingIsSafe ==
  ASSUME NEW a \in Archive, NEW p \in Seq(Event), NEW e \in Event,
         Intact(a, p), WholeEvent(e),
         IsMarked(e) => /\ Before(a.cursor, e.cursor)
                        /\ \A i \in DOMAIN p : IsMarked(p[i]) => Before(p[i].cursor, e.cursor),
         IsRow(e) => \A n \in 1..(e.cursor.after - 1) : AllNamed(a, p, <<e.cursor.boot, n>>),
         IsRow(e) => \A id \in e.ids : ~InGap(a, p, id),
         IsGap(e) => /\ e.ids \cap a.rows = {}
                     /\ \A i \in DOMAIN p : IsRow(p[i]) => e.ids \cap p[i].ids = {}
  PROVE  Intact(a, Append(p, e))
<1> DEFINE E == Append(p, e)
           l == Len(p) + 1
<1>1. /\ DOMAIN E = DOMAIN p \cup {l} /\ E[l] = e /\ l \in Nat
      /\ \A i \in DOMAIN p : i \in Nat /\ i < l /\ E[i] = p[i]
  BY OneMoreEvent
<1>0. /\ \A i \in DOMAIN p : p[i] \in Event /\ WholeEvent(p[i])
  BY ElementOfSeq, LenProperties DEF Intact
<1> HIDE DEF E, l
<1>2. \A i \in DOMAIN E : WholeEvent(E[i])
  BY <1>1 DEF Intact
<1>3. RowsAreNext(a, E)
  <2> SUFFICES ASSUME NEW i \in DOMAIN E, IsRow(E[i]), NEW n \in 1..(E[i].cursor.after - 1)
               PROVE  Named(a, E, i, <<E[i].cursor.boot, n>>)
    BY DEF RowsAreNext
  <2>1. CASE i \in DOMAIN p
    <3>1. Named(a, p, i, <<p[i].cursor.boot, n>>)
      BY <1>1, <2>1 DEF Intact, RowsAreNext
    <3> QED BY <1>1, <2>1, <3>1 DEF Named
  <2>2. CASE i = l
    <3>1. AllNamed(a, p, <<e.cursor.boot, n>>)
      BY <1>1, <2>2
    <3> QED BY <1>1, <2>2, <3>1 DEF Named, AllNamed
  <2> QED BY <1>1, <2>1, <2>2
<1>4. CursorsGrow(a, E)
  <2>1. \A i \in DOMAIN E : IsMarked(E[i]) => Before(a.cursor, E[i].cursor)
    BY <1>1 DEF Intact, CursorsGrow
  <2>2. ASSUME NEW i \in DOMAIN E, NEW j \in DOMAIN E, i < j, IsMarked(E[i]), IsMarked(E[j])
        PROVE  Before(E[i].cursor, E[j].cursor)
    <3>1. i \in DOMAIN p
      BY <1>1, <2>2
    <3>2. CASE j \in DOMAIN p
      BY <1>1, <2>2, <3>1, <3>2 DEF Intact, CursorsGrow
    <3>3. CASE j = l
      BY <1>1, <2>2, <3>1, <3>3
    <3> QED BY <1>1, <3>2, <3>3
  <2> QED BY <2>1, <2>2 DEF CursorsGrow
<1>5. Apart(a, E)
  <2>1. ASSUME NEW i \in DOMAIN E, IsRow(E[i]) PROVE E[i].ids \cap a.gaps = {}
    BY <1>1, <2>1 DEF Intact, Apart, InGap
  <2>2. ASSUME NEW i \in DOMAIN E, IsGap(E[i]) PROVE E[i].ids \cap a.rows = {}
    BY <1>1, <2>2 DEF Intact, Apart
  <2>3. ASSUME NEW i \in DOMAIN E, NEW j \in DOMAIN E, IsRow(E[i]), IsGap(E[j])
        PROVE  E[i].ids \cap E[j].ids = {}
    <3>1. CASE i \in DOMAIN p /\ j \in DOMAIN p
      BY <1>1, <2>3, <3>1 DEF Intact, Apart
    <3>2. CASE i = l /\ j \in DOMAIN p
      BY <1>1, <2>3, <3>2 DEF InGap
    <3>3. CASE i \in DOMAIN p /\ j = l
      BY <1>1, <2>3, <3>3
    <3>4. CASE i = l /\ j = l
      BY <1>1, <2>3, <3>4 DEF IsRow, IsGap
    <3> QED BY <1>1, <3>1, <3>2, <3>3, <3>4
  <2> QED BY <2>1, <2>2, <2>3 DEF Apart
<1>6. Intact(a, E)
  BY <1>2, <1>3, <1>4, <1>5 DEF Intact
<1> QED BY <1>6 DEF E

(* The last event or all of them come to nothing.                           *)
LEMMA DroppingIsSafe ==
  ASSUME NEW a \in Archive, NEW p \in Seq(Event), NEW e \in Event, Intact(a, Append(p, e))
  PROVE  Intact(a, p)
<1> DEFINE E == Append(p, e)
           l == Len(p) + 1
<1>1. /\ DOMAIN E = DOMAIN p \cup {l} /\ l \in Nat
      /\ \A i \in DOMAIN p : i \in Nat /\ i < l /\ E[i] = p[i]
  BY OneMoreEvent
<1>2. Intact(a, E)
  OBVIOUS
<1> HIDE DEF E, l
<1>3. RowsAreNext(a, p)
  <2> SUFFICES ASSUME NEW i \in DOMAIN p, IsRow(p[i]), NEW n \in 1..(p[i].cursor.after - 1)
               PROVE  Named(a, p, i, <<p[i].cursor.boot, n>>)
    BY DEF RowsAreNext
  <2>1. Named(a, E, i, <<p[i].cursor.boot, n>>)
    BY <1>1, <1>2 DEF Intact, RowsAreNext
  <2>2. ~(l < i)
    BY <1>1
  <2> QED BY <1>1, <2>1, <2>2 DEF Named
<1>4. CursorsGrow(a, p)
  BY <1>1, <1>2 DEF Intact, CursorsGrow
<1>5. Apart(a, p)
  BY <1>1, <1>2 DEF Intact, Apart
<1>6. \A i \in DOMAIN p : WholeEvent(p[i])
  BY <1>1, <1>2 DEF Intact
<1> QED BY <1>2, <1>3, <1>4, <1>5, <1>6 DEF Intact

LEMMA LosingIsSafe ==
  ASSUME NEW a, NEW events, Intact(a, events)
  PROVE  Intact(a, <<>>)
<1>1. DOMAIN <<>> = {}
  OBVIOUS
<1>2. RowsAreNext(a, <<>>) /\ CursorsGrow(a, <<>>) /\ Apart(a, <<>>)
  BY <1>1 DEF RowsAreNext, CursorsGrow, Apart
<1> QED BY <1>1, <1>2 DEF Intact

-----------------------------------------------------------------------------
(* LogArchive: what is under way, and the fields of its state.              *)

LEMMA NoEventIsNone == NoEvent \notin Event /\ NoEvent.ids = {} /\ ~IsGap(NoEvent)
BY DEF NoEvent, Event, EventOfKind, IsGap

LEMMA LogFields ==
  ASSUME LogTypeOK
  PROVE  /\ Pipe \in Seq(Event) /\ UnderWay \in Seq(Event)
         /\ recorder.batch \in Seq(Event) /\ queue \in Seq(Event) /\ archive \in Archive
         /\ reader.offer # NoEvent => reader.offer \in Event
         /\ reader.offer = NoEvent => UnderWay = Pipe
         /\ reader.offer # NoEvent => UnderWay = Append(Pipe, reader.offer)
<1>1. recorder.batch \in Seq(Event) /\ queue \in Seq(Event) /\ archive \in Archive
  BY DEF LogTypeOK, RecorderState
<1>2. Pipe \in Seq(Event)
  BY <1>1, ConcatProperties DEF Pipe
<1>3. reader.offer # NoEvent => reader.offer \in Event
  BY DEF LogTypeOK, ReaderState
<1>4. UnderWay \in Seq(Event)
  BY <1>2, <1>3, AppendProperties DEF UnderWay
<1> QED BY <1>1, <1>2, <1>3, <1>4 DEF UnderWay

LEMMA ReaderFields ==
  ASSUME LogTypeOK
  PROVE  /\ reader.saved \in Cursor /\ reader.saved.boot \in Boot /\ reader.saved.boot \in Nat
         /\ reader.saved.after \in 0..MaxSeq /\ reader.saved.after \in Nat
         /\ reader.previous \in 0..MaxSeq /\ reader.previous \in Nat
         /\ reader.page \in PageType /\ reader.page.boot \in Boot /\ reader.page.boot \in Nat
         /\ reader.page.oldest \in 1..(MaxSeq + 1) /\ reader.page.oldest \in Nat
         /\ reader.page.next \in 1..(MaxSeq + 1) /\ reader.page.next \in Nat
         /\ reader.page.records \in Seq(SeqNo)
         /\ reader = [pc |-> reader.pc, saved |-> reader.saved, page |-> reader.page,
                      previous |-> reader.previous, offer |-> reader.offer]
<1>1. /\ reader.saved \in Cursor /\ reader.previous \in 0..MaxSeq /\ reader.page \in PageType
      /\ reader = [pc |-> reader.pc, saved |-> reader.saved, page |-> reader.page,
                   previous |-> reader.previous, offer |-> reader.offer]
  BY DEF LogTypeOK, ReaderState
<1>2. /\ reader.page.boot \in Boot /\ reader.page.oldest \in 1..(MaxSeq + 1)
      /\ reader.page.next \in 1..(MaxSeq + 1) /\ reader.page.records \in Seq(SeqNo)
  BY <1>1 DEF PageType
<1>3. reader.saved.boot \in Boot /\ reader.saved.after \in 0..MaxSeq
  BY <1>1 DEF Cursor
<1> QED BY <1>1, <1>2, <1>3, LogAssumption DEF Boot

LEMMA RecorderFields ==
  ASSUME LogTypeOK
  PROVE  /\ recorder.stop \in BOOLEAN
         /\ recorder = [pc |-> recorder.pc, stop |-> recorder.stop, batch |-> recorder.batch]
         /\ recorder.pc \in {"down", "run", "write", "joining", "flush", "stopped"}
BY DEF LogTypeOK, RecorderState

LEMMA RingFields ==
  ASSUME LogTypeOK
  PROVE  /\ ring.boot \in 0..MaxBoot /\ ring.boot \in Nat /\ ring.next \in 1..(MaxSeq + 1)
         /\ ring.next \in Nat /\ ring = [boot |-> ring.boot, next |-> ring.next]
         /\ Oldest \in 1..(MaxSeq + 1) /\ Oldest \in Nat /\ Oldest <= ring.next
<1>1. /\ ring.boot \in 0..MaxBoot /\ ring.next \in 1..(MaxSeq + 1)
      /\ ring = [boot |-> ring.boot, next |-> ring.next]
  BY DEF LogTypeOK, Boot
<1> QED BY <1>1, LogAssumption DEF Oldest

(* A record of the page.                                                    *)
LEMMA RecordFields ==
  ASSUME LogTypeOK, NEW i \in DOMAIN reader.page.records
  PROVE  /\ reader.page.records[i] \in SeqNo /\ reader.page.records[i] \in Nat
         /\ reader.page.records[i] >= 1
         /\ i \in Nat /\ i >= 1 /\ i <= Len(reader.page.records)
         /\ Len(reader.page.records) \in Nat
<1>1. reader.page.records \in Seq(SeqNo)
  BY ReaderFields
<1>2. i \in 1..Len(reader.page.records) /\ Len(reader.page.records) \in Nat
  BY <1>1, LenProperties
<1>3. reader.page.records[i] \in SeqNo
  BY <1>1, <1>2, ElementOfSeq
<1> QED BY <1>2, <1>3, LogAssumption DEF SeqNo

-----------------------------------------------------------------------------
(* LogArchive: every step keeps the invariant.                              *)

(* Events move on, and nothing that was named is forgotten.                 *)
LEMMA ReaderStays ==
  ASSUME LogInv, ring' = ring, reader'.pc = reader.pc, reader'.saved = reader.saved,
         reader'.page = reader.page, reader'.previous = reader.previous,
         reader'.offer \in {reader.offer, NoEvent},
         recorder.stop => recorder'.stop,
         \A id : AllNamed(archive, UnderWay, id) => AllNamed(archive', UnderWay', id),
         \A id : InGap(archive', UnderWay', id) => InGap(archive, UnderWay, id),
         \A saved :
           /\ NotAfter(archive.cursor, saved)
           /\ \A i \in DOMAIN UnderWay : IsMarked(UnderWay[i]) => NotAfter(UnderWay[i].cursor, saved)
           => /\ NotAfter(archive'.cursor, saved)
              /\ \A i \in DOMAIN UnderWay' :
                   IsMarked(UnderWay'[i]) => NotAfter(UnderWay'[i].cursor, saved)
  PROVE  RingIsAhead(archive, UnderWay)' /\ ReaderIsRight'
<1>1. Oldest' = Oldest
  BY DEF Oldest
<1>2. RingIsAhead(archive, UnderWay)'
  <2>1. GapsAreOverwritten(archive, UnderWay)'
    BY <1>1 DEF LogInv, RingIsAhead, GapsAreOverwritten, Overwritten
  <2>2. Newest' = Newest /\ CursorsAreKnown(archive, UnderWay)
    BY DEF LogInv, RingIsAhead, Newest
  <2>3. CursorsAreKnown(archive, UnderWay)'
    BY <2>2 DEF CursorsAreKnown
  <2> QED BY <2>1, <2>3 DEF RingIsAhead
<1>3. reader'.pc # "ended" => SavedIsAhead(archive, UnderWay, reader.saved)'
  <2> SUFFICES ASSUME reader.pc # "ended" PROVE SavedIsAhead(archive, UnderWay, reader.saved)'
    OBVIOUS
  <2>1. SavedIsAhead(archive, UnderWay, reader.saved)
    BY DEF LogInv, ReaderIsRight
  <2> QED BY <2>1 DEF SavedIsAhead
<1>4. OfferIsAhead'
  BY NoEventIsNone DEF LogInv, ReaderIsRight, OfferIsAhead
<1>5. reader'.pc \in {"read", "check", "record"} => PageIsRight'
  <2> SUFFICES ASSUME PageIsRight PROVE PageIsRight'
    BY DEF LogInv, ReaderIsRight
  <2>1. \A i : BeforeRecord(i)' = BeforeRecord(i)
    BY DEF BeforeRecord
  <2> QED BY <1>1, <2>1 DEF PageIsRight
<1>6. reader'.pc = "record" => PreviousIsNamed'
  <2> SUFFICES ASSUME reader.pc = "record" PROVE PreviousIsNamed'
    OBVIOUS
  <2>1. PreviousIsNamed
    BY DEF LogInv, ReaderIsRight
  <2> QED BY <2>1 DEF PreviousIsNamed
<1> QED BY <1>2, <1>3, <1>4, <1>5, <1>6 DEF ReaderIsRight

(* The events under way and the archive are the same.                       *)
LEMMA EventsStay ==
  ASSUME LogInv, ring' = ring, archive' = archive, UnderWay' = UnderWay,
         reader'.pc = reader.pc, reader'.saved = reader.saved, reader'.page = reader.page,
         reader'.previous = reader.previous, reader'.offer \in {reader.offer, NoEvent},
         recorder.stop => recorder'.stop
  PROVE  /\ Intact(archive, UnderWay)' /\ RingIsAhead(archive, UnderWay)'
         /\ ReaderIsRight'
<1>1. Intact(archive, UnderWay)'
  BY DEF LogInv
<1>2. RingIsAhead(archive, UnderWay)' /\ ReaderIsRight'
  BY ReaderStays
<1> QED BY <1>1, <1>2

LEMMA PutSucceedsKeepsInv ==
  ASSUME LogInv, PutSucceeds
  PROVE  LogInv'
<1>1. LogTypeOK /\ reader.offer # NoEvent /\ reader.offer \in Event /\ Len(queue) < QueueSize
  BY LogFields DEF LogInv, PutSucceeds
<1>2. /\ queue' = Append(queue, reader.offer) /\ reader' = [reader EXCEPT !.offer = NoEvent]
      /\ UNCHANGED <<ring, recorder, archive, logMishaps>>
  BY DEF PutSucceeds
<1>3. /\ queue \in Seq(Event) /\ recorder.batch \in Seq(Event)
      /\ UnderWay = Append(Pipe, reader.offer) /\ Pipe \in Seq(Event)
  BY <1>1, LogFields
<1>4. queue' \in Seq(Event) /\ Len(queue') <= QueueSize
  BY <1>1, <1>2, <1>3, AppendProperties, LenProperties, LogAssumption
<1>5. /\ reader' \in ReaderState /\ reader'.pc = reader.pc /\ reader'.saved = reader.saved
      /\ reader'.page = reader.page /\ reader'.previous = reader.previous
      /\ reader'.offer = NoEvent
  <2>1. reader \in ReaderState
    BY <1>1 DEF LogTypeOK
  <2> QED BY <1>2, <2>1 DEF ReaderState
<1>6. UnderWay' = UnderWay
  <2>1. UnderWay' = recorder.batch \o Append(queue, reader.offer)
    BY <1>2, <1>5 DEF UnderWay, Pipe
  <2>2. recorder.batch \o Append(queue, reader.offer) = Append(Pipe, reader.offer)
    <3> DEFINE e == reader.offer
               b == recorder.batch
    <3>1. <<e>> \in Seq(Event)
      BY <1>1
    <3>2. Append(queue, e) = queue \o <<e>> /\ Append(Pipe, e) = Pipe \o <<e>>
      BY <1>1, <1>3, AppendIsConcat
    <3>3. b \in Seq(Event)
      BY <1>3
    <3> HIDE DEF b, e
    <3>4. (b \o queue) \o <<e>> = b \o (queue \o <<e>>)
      BY <1>3, <3>1, <3>3, ConcatAssociative
    <3>5. Pipe = b \o queue
      BY DEF Pipe, b
    <3>6. Append(Pipe, e) = b \o Append(queue, e)
      BY <3>2, <3>4, <3>5
    <3> QED BY <3>6 DEF b, e
  <2> QED BY <1>3, <2>1, <2>2
<1>7. /\ Intact(archive, UnderWay)' /\ RingIsAhead(archive, UnderWay)'
      /\ ReaderIsRight'
  BY <1>2, <1>5, <1>6, EventsStay
<1>8. LogTypeOK' /\ ring'.boot > 0
  BY <1>1, <1>2, <1>4, <1>5 DEF LogInv, LogTypeOK
<1>9. RecorderIsRight'
  <2>1. reader.pc # "ended"
    BY <1>1 DEF LogInv, ReaderIsRight, OfferIsAhead
  <2> QED BY <1>2, <1>5, <2>1 DEF LogInv, RecorderIsRight
<1> QED BY <1>7, <1>8, <1>9 DEF LogInv

LEMMA TakesBatchKeepsInv ==
  ASSUME LogInv, TakesBatch
  PROVE  LogInv'
<1>1. PICK n \in 1..Len(queue) :
        /\ recorder' = [recorder EXCEPT !.pc = "write", !.batch = SubSeq(queue, 1, n)]
        /\ queue' = SubSeq(queue, n + 1, Len(queue))
  BY DEF TakesBatch
<1>2. UNCHANGED <<ring, reader, archive, logMishaps>> /\ recorder.pc = "run"
  BY DEF TakesBatch
<1>3. LogTypeOK /\ queue \in Seq(Event) /\ Len(queue) \in Nat /\ Len(queue) <= QueueSize
  BY LenProperties DEF LogInv, LogTypeOK
<1>4. /\ SubSeq(queue, 1, n) \in Seq(Event)
      /\ queue' \in Seq(Event) /\ Len(queue') <= QueueSize
  <2>1. SubSeq(queue, 1, n) \in Seq(Event)
    BY <1>3, SubSeqProperties
  <2>2. queue' \in Seq(Event) /\ Len(queue') = Len(queue) - n
    <3>1. n + 1 \in Nat /\ n + 1 <= Len(queue) + 1
      BY <1>3
    <3> QED BY <1>1, <1>3, <3>1, SubSeqProperties
  <2>3. Len(queue) - n <= QueueSize
    BY <1>3, LogAssumption
  <2> QED BY <2>1, <2>2, <2>3
<1>5. SubSeq(queue, 1, n) \o queue' = queue
  <2> DEFINE l == Len(queue)
  <2>1. l \in Nat /\ n \in 1..l
    BY <1>3
  <2>2. 1 \in 1..(l + 1) /\ n \in (1 - 1)..l /\ l \in n..l
    BY <2>1
  <2>3. SubSeq(queue, 1, n) \o SubSeq(queue, n + 1, l) = SubSeq(queue, 1, l)
    BY <1>3, <2>2, ConcatAdjacentSubSeq
  <2>4. SubSeq(queue, 1, l) = queue
    BY <1>3, SubSeqFull
  <2> QED BY <1>1, <2>3, <2>4
<1>6. /\ recorder' \in RecorderState /\ recorder'.stop = recorder.stop
      /\ recorder'.batch = SubSeq(queue, 1, n) /\ recorder'.pc = "write"
  <2>1. recorder' = [pc |-> "write", stop |-> recorder.stop, batch |-> SubSeq(queue, 1, n)]
    BY <1>1, <1>3, RecorderFields
  <2> QED BY <1>3, <1>4, <2>1, RecorderFields DEF RecorderState
<1>7. UnderWay' = UnderWay
  <2>1. Pipe' = queue
    BY <1>5, <1>6 DEF Pipe
  <2>2. Pipe = queue
    BY <1>2, <1>3, ConcatEmptySeq DEF Pipe, LogInv, RecorderIsRight
  <2> QED BY <1>2, <2>1, <2>2 DEF UnderWay
<1>8. /\ Intact(archive, UnderWay)' /\ RingIsAhead(archive, UnderWay)'
      /\ ReaderIsRight'
  BY <1>2, <1>6, <1>7, EventsStay
<1>9. LogTypeOK' /\ ring'.boot > 0
  BY <1>2, <1>3, <1>4, <1>6 DEF LogInv, LogTypeOK
<1>10. RecorderIsRight'
  BY <1>6 DEF RecorderIsRight
<1> QED BY <1>8, <1>9, <1>10 DEF LogInv

(* The main thread goes on to another state, with what it has.              *)
LEMMA MainThreadKeepsInv ==
  ASSUME LogInv, UNCHANGED <<ring, reader, queue, archive, logMishaps>>,
         NEW pc \in {"down", "run", "write", "joining", "flush", "stopped"},
         NEW stop \in BOOLEAN, recorder.stop => stop,
         recorder' = [pc |-> pc, stop |-> stop, batch |-> recorder.batch],
         pc = "write" \/ recorder.batch = <<>>,
         pc \in {"down", "flush", "stopped"} => reader.pc = "ended",
         pc \in {"down", "stopped"} => queue = <<>>
  PROVE  LogInv'
<1>1. LogTypeOK /\ recorder.batch \in Seq(Event)
  BY LogFields DEF LogInv
<1>2. /\ recorder' \in RecorderState /\ recorder'.pc = pc /\ recorder'.stop = stop
      /\ recorder'.batch = recorder.batch
  BY <1>1 DEF RecorderState
<1>3. UnderWay' = UnderWay
  BY <1>2 DEF UnderWay, Pipe
<1>4. /\ Intact(archive, UnderWay)' /\ RingIsAhead(archive, UnderWay)'
      /\ ReaderIsRight'
  BY <1>2, <1>3, EventsStay
<1>5. LogTypeOK' /\ ring'.boot > 0
  BY <1>1, <1>2 DEF LogInv, LogTypeOK
<1>6. RecorderIsRight'
  BY <1>2 DEF RecorderIsRight
<1> QED BY <1>4, <1>5, <1>6 DEF LogInv

LEMMA ShutdownKeepsInv ==
  ASSUME LogInv, IsTerminated \/ BeginsShutdown \/ JoinsThreads \/ Stops
  PROVE  LogInv'
<1>1. /\ LogTypeOK /\ recorder.stop \in BOOLEAN
      /\ recorder = [pc |-> recorder.pc, stop |-> recorder.stop, batch |-> recorder.batch]
      /\ recorder.pc \in {"down", "run", "write", "joining", "flush", "stopped"}
  BY RecorderFields DEF LogInv
<1>2. RecorderIsRight
  BY DEF LogInv
<1>3. CASE IsTerminated
  <2>1. /\ recorder' = [pc |-> recorder.pc, stop |-> TRUE, batch |-> recorder.batch]
        /\ UNCHANGED <<ring, reader, queue, archive, logMishaps>>
    BY <1>1, <1>3 DEF IsTerminated
  <2>2. recorder.pc = "write" \/ recorder.batch = <<>>
    BY <1>2 DEF RecorderIsRight
  <2>3. /\ recorder.pc \in {"down", "flush", "stopped"} => reader.pc = "ended"
        /\ recorder.pc \in {"down", "stopped"} => queue = <<>>
    BY <1>2 DEF RecorderIsRight
  <2> QED BY <1>1, <2>1, <2>2, <2>3, MainThreadKeepsInv
<1>4. CASE BeginsShutdown
  <2>1. /\ recorder' = [pc |-> "joining", stop |-> recorder.stop, batch |-> recorder.batch]
        /\ UNCHANGED <<ring, reader, queue, archive, logMishaps>> /\ recorder.pc = "run"
    BY <1>1, <1>4 DEF BeginsShutdown
  <2>2. recorder.batch = <<>>
    BY <1>2, <2>1 DEF RecorderIsRight
  <2> QED BY <1>1, <2>1, <2>2, MainThreadKeepsInv
<1>5. CASE JoinsThreads
  <2>1. /\ recorder' = [pc |-> "flush", stop |-> recorder.stop, batch |-> recorder.batch]
        /\ UNCHANGED <<ring, reader, queue, archive, logMishaps>> /\ recorder.pc = "joining"
        /\ reader.pc = "ended"
    BY <1>1, <1>5 DEF JoinsThreads, Joined
  <2>2. recorder.batch = <<>>
    BY <1>2, <2>1 DEF RecorderIsRight
  <2> QED BY <1>1, <2>1, <2>2, MainThreadKeepsInv
<1>6. CASE Stops
  <2>1. /\ recorder' = [pc |-> "stopped", stop |-> recorder.stop, batch |-> recorder.batch]
        /\ UNCHANGED <<ring, reader, queue, archive, logMishaps>> /\ recorder.pc = "flush"
        /\ queue = <<>>
    BY <1>1, <1>6 DEF Stops
  <2>2. recorder.batch = <<>> /\ reader.pc = "ended"
    BY <1>2, <2>1 DEF RecorderIsRight
  <2> QED BY <1>1, <2>1, <2>2, MainThreadKeepsInv
<1> QED BY <1>3, <1>4, <1>5, <1>6

(* A part of what is under way is stored, the rest stays under way.         *)
LEMMA StoringKeepsInv ==
  ASSUME LogInv, NEW b \in Seq(Event), NEW q \in Seq(Event),
         UnderWay = b \o q, archive' = Stored(b), UnderWay' = q,
         ring' = ring, reader' = reader, recorder'.stop = recorder.stop
  PROVE  /\ archive' \in Archive /\ Intact(archive, UnderWay)'
         /\ RingIsAhead(archive, UnderWay)' /\ ReaderIsRight'
<1>1. archive \in Archive /\ Intact(archive, b \o q)
  BY LogFields DEF LogInv
<1>2. /\ archive' \in Archive /\ Intact(archive', UnderWay')
      /\ \A id : AllNamed(archive, UnderWay, id) => AllNamed(archive', UnderWay', id)
      /\ \A id : InGap(archive', UnderWay', id) => InGap(archive, UnderWay, id)
      /\ \A saved :
           /\ NotAfter(archive.cursor, saved)
           /\ \A i \in DOMAIN UnderWay : IsMarked(UnderWay[i]) => NotAfter(UnderWay[i].cursor, saved)
           => /\ NotAfter(archive'.cursor, saved)
              /\ \A i \in DOMAIN UnderWay' :
                   IsMarked(UnderWay'[i]) => NotAfter(UnderWay'[i].cursor, saved)
  BY <1>1, StoringIsSafe
<1>3. RingIsAhead(archive, UnderWay)' /\ ReaderIsRight'
  BY <1>2, ReaderStays
<1> QED BY <1>2, <1>3

LEMMA WritesKeepsInv ==
  ASSUME LogInv, Writes
  PROVE  LogInv'
<1> DEFINE b == recorder.batch
           e == reader.offer
<1>1. LogTypeOK /\ b \in Seq(Event) /\ queue \in Seq(Event)
  BY LogFields DEF LogInv
<1>2. /\ archive' = Stored(b) /\ UNCHANGED <<ring, reader, queue, logMishaps>>
      /\ recorder.pc = "write"
  BY DEF Writes
<1>3. /\ recorder' \in RecorderState /\ recorder'.stop = recorder.stop /\ recorder'.batch = <<>>
      /\ recorder'.pc \in {"run", "joining"}
  <2>1. PICK pc \in {"run", "joining"} :
          recorder' = [pc |-> pc, stop |-> recorder.stop, batch |-> <<>>]
    BY <1>1, RecorderFields DEF Writes
  <2>2. <<>> \in Seq(Event)
    OBVIOUS
  <2> QED BY <1>1, <2>1, <2>2, RecorderFields DEF RecorderState
<1>4. \E q \in Seq(Event) : UnderWay = b \o q /\ UnderWay' = q
  <2>1. Pipe' = queue
    BY <1>1, <1>2, <1>3, ConcatEmptySeq DEF Pipe
  <2>2. CASE e = NoEvent
    BY <1>1, <1>2, <2>1, <2>2 DEF UnderWay, Pipe
  <2>3. CASE e # NoEvent
    <3>1. e \in Event
      BY <1>1, <2>3, LogFields
    <3>2. UnderWay = Append(Pipe, e) /\ UnderWay' = Append(queue, e)
      BY <1>2, <2>1, <2>3 DEF UnderWay
    <3>3. Pipe = b \o queue /\ Pipe \in Seq(Event)
      BY <1>1, LogFields DEF Pipe
    <3> HIDE DEF b, e
    <3>4. <<e>> \in Seq(Event) /\ Append(queue, e) \in Seq(Event)
      BY <1>1, <3>1, AppendProperties
    <3>5. Append(queue, e) = queue \o <<e>> /\ Append(Pipe, e) = Pipe \o <<e>>
      BY <1>1, <3>1, <3>3, AppendIsConcat
    <3>6. (b \o queue) \o <<e>> = b \o (queue \o <<e>>)
      BY <1>1, <3>4, ConcatAssociative
    <3> QED BY <3>2, <3>3, <3>4, <3>5, <3>6
  <2> QED BY <2>2, <2>3
<1>5. /\ archive' \in Archive /\ Intact(archive, UnderWay)'
      /\ RingIsAhead(archive, UnderWay)' /\ ReaderIsRight'
  BY <1>1, <1>2, <1>3, <1>4, StoringKeepsInv
<1>6. LogTypeOK' /\ ring'.boot > 0
  BY <1>1, <1>2, <1>3, <1>5 DEF LogInv, LogTypeOK
<1>7. RecorderIsRight'
  BY <1>3 DEF RecorderIsRight
<1> QED BY <1>5, <1>6, <1>7 DEF LogInv

LEMMA FlushesKeepsInv ==
  ASSUME LogInv, Flushes
  PROVE  LogInv'
<1> DEFINE b == <<Head(queue)>>
           q == Tail(queue)
<1>1. LogTypeOK /\ queue \in Seq(Event) /\ queue # <<>> /\ recorder.pc = "flush"
  BY LogFields DEF LogInv, Flushes
<1>2. /\ archive' = Stored(b) /\ queue' = q
      /\ UNCHANGED <<ring, reader, recorder, logMishaps>>
  BY DEF Flushes
<1>3. reader.pc = "ended" /\ reader.offer = NoEvent /\ recorder.batch = <<>>
  BY <1>1 DEF LogInv, ReaderIsRight, OfferIsAhead, RecorderIsRight
<1>4. Head(queue) \in Event /\ q \in Seq(Event) /\ Len(q) = Len(queue) - 1
  BY <1>1, HeadTailProperties
<1>5. b \in Seq(Event)
  BY <1>4
<1>6. b \o q = queue
  <2> DEFINE l == Len(queue)
  <2>1. l \in Nat /\ l > 0
    BY <1>1, LenProperties, EmptySeq
  <2>2. 1 \in 1..l /\ l \in 1..l
    BY <2>1
  <2>3. SubSeq(queue, 1, l) = <<queue[1]>> \o SubSeq(queue, 1 + 1, l)
    BY <1>1, <2>2, SubSeqRecursiveFirst
  <2>4. SubSeq(queue, 1, l) = queue /\ q = SubSeq(queue, 2, l) /\ 1 + 1 = 2
    BY <1>1, SubSeqFull, TailIsSubSeq
  <2>5. Head(queue) = queue[1]
    BY <1>1
  <2> QED BY <2>3, <2>4, <2>5
<1>7. UnderWay = b \o q /\ UnderWay' = q
  <2>1. Pipe = queue /\ Pipe' = q
    BY <1>1, <1>2, <1>3, <1>4, ConcatEmptySeq DEF Pipe
  <2> QED BY <1>2, <1>3, <1>6, <2>1 DEF UnderWay
<1> HIDE DEF b, q
<1>8. /\ archive' \in Archive /\ Intact(archive, UnderWay)'
      /\ RingIsAhead(archive, UnderWay)' /\ ReaderIsRight'
  BY <1>2, <1>4, <1>5, <1>7, StoringKeepsInv
<1>9. Len(queue') <= QueueSize
  BY <1>1, <1>2, <1>4, LenProperties, LogAssumption DEF LogTypeOK
<1>10. LogTypeOK' /\ ring'.boot > 0
  BY <1>1, <1>2, <1>4, <1>8, <1>9 DEF LogInv, LogTypeOK
<1>11. RecorderIsRight'
  BY <1>1, <1>2, <1>3 DEF RecorderIsRight
<1> QED BY <1>8, <1>10, <1>11 DEF LogInv

(* A reader that starts, and one that has ended.                            *)
LEMMA NewReaderType ==
  ASSUME NEW cursor \in Cursor,
         NEW pc \in {"ask", "stats", "read", "check", "record", "wait", "ended"},
         NEW offer \in Event \cup {NoEvent}
  PROVE  /\ [NewReader(cursor) EXCEPT !.pc = pc] \in ReaderState
         /\ [NewReader(cursor) EXCEPT !.offer = offer] \in ReaderState
         /\ NewReader(cursor) \in ReaderState
<1>1. NoPage \in PageType
  <2>1. 0 \in Boot /\ 1 \in 1..(MaxSeq + 1) /\ <<>> \in Seq(SeqNo)
    BY LogAssumption DEF Boot
  <2> QED BY <2>1 DEF NoPage, PageType
<1>2. 0 \in 0..MaxSeq
  BY LogAssumption
<1> QED BY <1>1, <1>2 DEF NewReader, ReaderState

LEMMA EndedReaderType ==
  EndedReader \in ReaderState /\ EndedReader.pc = "ended" /\ EndedReader.offer = NoEvent
<1>1. NoCursor \in Cursor
  BY LogAssumption DEF NoCursor, Cursor, Boot
<1>2. EndedReader \in ReaderState
  BY <1>1, NewReaderType DEF EndedReader
<1>3. EndedReader.pc = "ended" /\ EndedReader.offer = NoEvent
  BY DEF EndedReader, NewReader
<1> QED BY <1>2, <1>3

(* An event that waits to be queued comes to nothing.                       *)
LEMMA OfferIsDropped ==
  ASSUME LogInv, UNCHANGED <<ring, queue, recorder, archive>>, reader'.offer = NoEvent
  PROVE  /\ UnderWay' = Pipe
         /\ Intact(archive, UnderWay)' /\ RingIsAhead(archive, UnderWay)'
         /\ \A id : InGap(archive, Pipe, id) => InGap(archive, UnderWay, id)
         /\ \A id : AllNamed(archive, UnderWay, id) =>
                      AllNamed(archive, Pipe, id) \/ id \in reader.offer.ids
         /\ \A saved : (\A i \in DOMAIN UnderWay : IsMarked(UnderWay[i]) =>
                                                     NotAfter(UnderWay[i].cursor, saved))
                       => \A i \in DOMAIN Pipe : IsMarked(Pipe[i]) => NotAfter(Pipe[i].cursor, saved)
<1>1. UnderWay' = Pipe /\ Oldest' = Oldest /\ Newest' = Newest
  BY DEF UnderWay, Pipe, Oldest, Newest
<1>2. archive \in Archive /\ Pipe \in Seq(Event)
  BY LogFields DEF LogInv
<1>3. CASE reader.offer = NoEvent
  <2>1. UnderWay = Pipe
    BY <1>3 DEF UnderWay
  <2> QED BY <1>1, <2>1 DEF LogInv, RingIsAhead, GapsAreOverwritten, Overwritten, CursorsAreKnown
<1>4. CASE reader.offer # NoEvent
  <2>1. UnderWay = Append(Pipe, reader.offer) /\ reader.offer \in Event
    BY <1>4, LogFields DEF LogInv
  <2>2. Intact(archive, Pipe)
    BY <1>2, <2>1, DroppingIsSafe DEF LogInv
  <2>3. \A id : InGap(archive, Pipe, id) => InGap(archive, UnderWay, id)
    BY <1>2, <2>1, EventIsNamed
  <2>4. \A id : AllNamed(archive, UnderWay, id) =>
                  AllNamed(archive, Pipe, id) \/ id \in reader.offer.ids
    BY <1>2, <2>1, EventIsNamed
  <2>5. \A i \in DOMAIN Pipe : i \in DOMAIN UnderWay /\ UnderWay[i] = Pipe[i]
    BY <1>2, <2>1, OneMoreEvent
  <2>6. GapsAreOverwritten(archive, UnderWay)'
    BY <1>1, <2>3 DEF LogInv, RingIsAhead, GapsAreOverwritten, Overwritten
  <2>7. CursorsAreKnown(archive, UnderWay)'
    BY <1>1, <2>5 DEF LogInv, RingIsAhead, CursorsAreKnown
  <2> QED BY <1>1, <2>2, <2>3, <2>4, <2>5, <2>6, <2>7 DEF RingIsAhead
<1> QED BY <1>3, <1>4

(* The reader ends.                                                         *)
LEMMA ReaderEnds ==
  ASSUME LogInv, reader' = EndedReader, UNCHANGED <<ring, queue, recorder, archive>>,
         logMishaps' \in 0..MaxLogMishaps
  PROVE  LogInv'
<1>1. reader' \in ReaderState /\ reader'.pc = "ended" /\ reader'.offer = NoEvent
  BY EndedReaderType
<1>2. Intact(archive, UnderWay)' /\ RingIsAhead(archive, UnderWay)'
  BY <1>1, OfferIsDropped
<1>3. LogTypeOK' /\ ring'.boot > 0
  BY <1>1 DEF LogInv, LogTypeOK
<1>4. ReaderIsRight'
  BY <1>1, NoEventIsNone DEF ReaderIsRight, OfferIsAhead
<1>5. RecorderIsRight'
  BY <1>1 DEF LogInv, RecorderIsRight
<1> QED BY <1>2, <1>3, <1>4, <1>5 DEF LogInv

LEMMA DiesKeepsInv ==
  ASSUME LogInv, Dies
  PROVE  LogInv'
<1>1. /\ recorder' = [NewRecorder EXCEPT !.pc = "down"] /\ queue' = <<>>
      /\ reader' = EndedReader /\ UNCHANGED <<ring, archive>>
      /\ logMishaps' \in 0..MaxLogMishaps
  BY LogAssumption DEF Dies, LogInv, LogTypeOK, LogMishap
<1>2. /\ recorder' \in RecorderState /\ recorder'.batch = <<>> /\ recorder'.pc = "down"
      /\ <<>> \in Seq(Event) /\ Len(<<>>) <= QueueSize
  <2>1. recorder' = [pc |-> "down", stop |-> FALSE, batch |-> <<>>]
    BY <1>1 DEF NewRecorder
  <2>2. <<>> \in Seq(Event) /\ Len(<<>>) = 0 /\ QueueSize \in Nat
    BY LogAssumption
  <2> QED BY <2>1, <2>2 DEF RecorderState
<1>3. reader' \in ReaderState /\ reader'.pc = "ended" /\ reader'.offer = NoEvent
  BY <1>1, EndedReaderType
<1>4. UnderWay' = <<>>
  BY <1>1, <1>2, <1>3 DEF UnderWay, Pipe
<1>5. Intact(archive, UnderWay)'
  BY <1>1, <1>4, LosingIsSafe DEF LogInv
<1>6. RingIsAhead(archive, UnderWay)'
  <2>1. \A id : InGap(archive, <<>>, id) => InGap(archive, UnderWay, id)
    BY DEF InGap
  <2>2. Oldest' = Oldest /\ Newest' = Newest /\ DOMAIN <<>> = {}
    BY <1>1 DEF Oldest, Newest
  <2>3. GapsAreOverwritten(archive, UnderWay)'
    BY <1>1, <1>4, <2>1, <2>2 DEF LogInv, RingIsAhead, GapsAreOverwritten, Overwritten
  <2>4. CursorsAreKnown(archive, UnderWay)'
    BY <1>1, <1>4, <2>2 DEF LogInv, RingIsAhead, CursorsAreKnown
  <2> QED BY <2>3, <2>4 DEF RingIsAhead
<1>7. LogTypeOK' /\ ring'.boot > 0
  BY <1>1, <1>2, <1>3 DEF LogInv, LogTypeOK
<1>8. ReaderIsRight' /\ RecorderIsRight'
  BY <1>1, <1>2, <1>3, NoEventIsNone DEF ReaderIsRight, OfferIsAhead, RecorderIsRight
<1> QED BY <1>5, <1>6, <1>7, <1>8 DEF LogInv

LEMMA StartsKeepsInv ==
  ASSUME LogInv, ServiceRestarts \/ ServiceStarts
  PROVE  LogInv'
<1>1. /\ recorder' = NewRecorder /\ reader' = NewReader(archive.cursor)
      /\ UNCHANGED <<ring, queue, archive, logMishaps>>
  BY DEF ServiceRestarts, ServiceStarts, StartsAgain
<1>2. queue = <<>> /\ recorder.batch = <<>> /\ reader.offer = NoEvent
  BY DEF ServiceRestarts, ServiceStarts, LogInv, RecorderIsRight, ReaderIsRight, OfferIsAhead
<1>3. UnderWay = <<>>
  BY <1>2 DEF UnderWay, Pipe
<1>4. LogTypeOK /\ archive \in Archive /\ archive.cursor \in Cursor
  BY LogFields, ArchiveFields DEF LogInv
<1>5. /\ reader' \in ReaderState /\ reader'.pc = "ask" /\ reader'.offer = NoEvent
      /\ reader'.saved = archive.cursor
  BY <1>1, <1>4, NewReaderType DEF NewReader
<1>6. /\ recorder' \in RecorderState /\ recorder'.batch = <<>> /\ recorder'.pc = "run"
  <2>1. <<>> \in Seq(Event)
    OBVIOUS
  <2> QED BY <1>1, <2>1 DEF NewRecorder, RecorderState
<1>7. UnderWay' = <<>>
  BY <1>1, <1>2, <1>5, <1>6 DEF UnderWay, Pipe
<1>8. Intact(archive, <<>>)
  BY <1>3 DEF LogInv
<1>9. RingIsAhead(archive, UnderWay)'
  <2>1. Oldest' = Oldest /\ Newest' = Newest
    BY <1>1 DEF Oldest, Newest
  <2> QED BY <1>1, <1>3, <1>7, <2>1 DEF LogInv, RingIsAhead, GapsAreOverwritten, Overwritten,
                                        CursorsAreKnown
<1>10. LogTypeOK' /\ ring'.boot > 0
  BY <1>1, <1>4, <1>5, <1>6 DEF LogInv, LogTypeOK
<1>11. SavedIsAhead(archive, UnderWay, reader.saved)'
  <2> DEFINE c == archive.cursor
  <2>1. IsCursor(c) /\ NotAfter(c, c)
    BY <1>4, ArchiveFields, CursorsAreOrdered DEF IsCursor
  <2>2. ASSUME NEW n \in 1..c.after PROVE <<c.boot, n>> \in archive.rows \cup archive.gaps
    <3>1. c.after > 0 /\ <<c.boot, c.after>> \in archive.rows
      BY <2>1, <2>2, <1>8 DEF Intact, RowsAreBehind, IsCursor
    <3>2. CASE n = c.after
      BY <3>1, <3>2
    <3>3. CASE n # c.after
      <4>1. n \in 1..(c.after - 1)
        BY <2>1, <2>2, <3>3 DEF IsCursor
      <4>2. \A id \in archive.rows : \A m \in 1..(id[2] - 1) :
              <<id[1], m>> \in archive.rows \cup archive.gaps
        BY <1>8 DEF Intact
      <4>3. <<c.boot, c.after>>[1] = c.boot /\ <<c.boot, c.after>>[2] = c.after
        OBVIOUS
      <4> HIDE DEF c
      <4> QED BY <3>1, <4>1, <4>2, <4>3
    <3> QED BY <3>2, <3>3
  <2>3. c.boot <= ring.boot
    <3>1. NotAfter(c, Newest) /\ ring.boot \in Nat
      BY <1>4, RingFields DEF LogInv, RingIsAhead, CursorsAreKnown
    <3> QED BY <2>1, <3>1 DEF NotAfter, Newest, IsCursor
  <2>4. DOMAIN <<>> = {}
    OBVIOUS
  <2> QED BY <1>1, <1>5, <1>7, <2>1, <2>2, <2>3, <2>4 DEF SavedIsAhead, AllNamed
<1>12. ReaderIsRight' /\ RecorderIsRight'
  BY <1>5, <1>6, <1>11, NoEventIsNone DEF ReaderIsRight, OfferIsAhead, RecorderIsRight
<1> QED BY <1>7, <1>8, <1>9, <1>10, <1>1, <1>12 DEF LogInv

(* The reader drops its page and has no event to queue.                     *)
LEMMA PageIsDropped ==
  ASSUME LogInv, reader.offer = NoEvent, reader.pc # "ended", reader' \in ReaderState,
         reader'.pc \in {"ask", "stats", "wait"}, reader'.offer = NoEvent,
         reader'.saved = reader.saved, UNCHANGED <<ring, queue, recorder, archive>>,
         logMishaps' \in 0..MaxLogMishaps
  PROVE  LogInv'
<1>1. UnderWay' = UnderWay /\ Oldest' = Oldest /\ Newest' = Newest
  BY DEF UnderWay, Pipe, Oldest, Newest
<1>2. Intact(archive, UnderWay)' /\ RingIsAhead(archive, UnderWay)'
  BY <1>1 DEF LogInv, RingIsAhead, GapsAreOverwritten, Overwritten, CursorsAreKnown
<1>3. SavedIsAhead(archive, UnderWay, reader.saved)'
  BY <1>1 DEF LogInv, ReaderIsRight, SavedIsAhead
<1>4. ReaderIsRight'
  BY <1>3, NoEventIsNone DEF ReaderIsRight, OfferIsAhead
<1>5. LogTypeOK' /\ ring'.boot > 0
  BY DEF LogInv, LogTypeOK
<1>6. RecorderIsRight'
  BY DEF LogInv, RecorderIsRight
<1> QED BY <1>2, <1>4, <1>5, <1>6 DEF LogInv

LEMMA WaitingType ==
  ASSUME LogTypeOK
  PROVE  /\ Waiting \in ReaderState /\ Waiting.pc = "wait" /\ Waiting.offer = NoEvent
         /\ Waiting.saved = reader.saved
<1>1. Waiting \in ReaderState
  BY ReaderFields, NewReaderType DEF Waiting
<1> QED BY <1>1 DEF Waiting, NewReader

LEMMA ReaderGoesOnKeepsInv ==
  ASSUME LogInv, Asks \/ WaitIsOver \/ RefusesRecord \/ EndsPage \/ RequestFails
  PROVE  LogInv'
<1>1. LogTypeOK /\ logMishaps' \in 0..MaxLogMishaps
  BY LogAssumption DEF LogInv, LogTypeOK, Asks, WaitIsOver, RefusesRecord, EndsPage, RequestFails,
                       LogMishap
<1>2. UNCHANGED <<ring, queue, recorder, archive>>
  BY DEF Asks, WaitIsOver, RefusesRecord, EndsPage, RequestFails
<1>3. reader.offer = NoEvent /\ reader.pc # "ended"
  BY DEF LogInv, ReaderIsRight, OfferIsAhead, Asks, WaitIsOver, RefusesRecord, EndsPage, Expects,
         RequestFails, Reads
<1>4. CASE reader' = EndedReader
  BY <1>1, <1>2, <1>4, ReaderEnds
<1>5. CASE reader' = Waiting
  BY <1>1, <1>2, <1>3, <1>5, PageIsDropped, WaitingType
<1>6. CASE reader' = NewReader(reader.saved)
  <2>1. reader' \in ReaderState /\ reader'.pc = "ask"
    BY <1>1, <1>6, ReaderFields, NewReaderType DEF NewReader
  <2>2. reader'.offer = NoEvent /\ reader'.saved = reader.saved
    BY <1>6 DEF NewReader
  <2> QED BY <1>1, <1>2, <1>3, <2>1, <2>2, PageIsDropped
<1>7. ASSUME NEW pc \in {"ask", "stats"}, reader' = [reader EXCEPT !.pc = pc]
      PROVE  LogInv'
  <2>1. reader \in ReaderState
    BY <1>1 DEF LogTypeOK
  <2>2. /\ reader' \in ReaderState /\ reader'.pc = pc /\ reader'.offer = reader.offer
        /\ reader'.saved = reader.saved
    BY <1>7, <2>1 DEF ReaderState
  <2> QED BY <1>1, <1>2, <1>3, <2>2, PageIsDropped
<1> QED BY <1>4, <1>5, <1>6, <1>7 DEF Asks, WaitIsOver, RefusesRecord, EndsPage, RequestFails

LEMMA PutFailsKeepsInv ==
  ASSUME LogInv, PutFails
  PROVE  LogInv'
<1>1. LogTypeOK /\ logMishaps' \in 0..MaxLogMishaps
  BY DEF LogInv, LogTypeOK, PutFails
<1>2. /\ UNCHANGED <<ring, queue, recorder, archive>> /\ recorder.stop
      /\ reader.offer # NoEvent /\ reader.pc \in {"ask", "record"}
  BY DEF PutFails, LogInv, ReaderIsRight, OfferIsAhead
<1>3. CASE IsRow(reader.offer)
  BY <1>1, <1>2, <1>3, ReaderEnds DEF PutFails, IsRow
<1>4. CASE ~IsRow(reader.offer)
  <2>1. /\ reader' \in ReaderState /\ reader'.pc = reader.pc /\ reader'.saved = reader.saved
        /\ reader'.page = reader.page /\ reader'.previous = reader.previous
        /\ reader'.offer = NoEvent
    <3>1. reader \in ReaderState /\ reader' = [reader EXCEPT !.offer = NoEvent]
      BY <1>1, <1>4 DEF LogTypeOK, PutFails, IsRow
    <3> QED BY <3>1 DEF ReaderState
  <2>2. /\ UnderWay' = Pipe
        /\ Intact(archive, UnderWay)' /\ RingIsAhead(archive, UnderWay)'
        /\ \A id : InGap(archive, Pipe, id) => InGap(archive, UnderWay, id)
        /\ \A id : AllNamed(archive, UnderWay, id) =>
                     AllNamed(archive, Pipe, id) \/ id \in reader.offer.ids
        /\ (\A i \in DOMAIN UnderWay : IsMarked(UnderWay[i]) =>
                                         NotAfter(UnderWay[i].cursor, reader.saved))
             => \A i \in DOMAIN Pipe : IsMarked(Pipe[i]) => NotAfter(Pipe[i].cursor, reader.saved)
    BY <1>2, <2>1, OfferIsDropped
  <2>3. SavedIsAhead(archive, UnderWay, reader.saved)
    BY <1>2 DEF LogInv, ReaderIsRight
  <2>4. \A n \in 1..reader.saved.after : <<reader.saved.boot, n>> \notin reader.offer.ids
    <3>1. UnderWay = Append(Pipe, reader.offer) /\ Pipe \in Seq(Event) /\ reader.offer \in Event
      BY <1>1, <1>2, LogFields
    <3>2. WholeEvent(reader.offer)
      <4>1. UnderWay[Len(Pipe) + 1] = reader.offer /\ Len(Pipe) + 1 \in DOMAIN UnderWay
        BY <3>1, OneMoreEvent
      <4> QED BY <4>1 DEF LogInv, Intact
    <3>3. CASE IsGap(reader.offer)
      <4> SUFFICES ASSUME NEW n \in 1..reader.saved.after,
                          <<reader.saved.boot, n>> \in reader.offer.ids
                   PROVE  FALSE
        OBVIOUS
      <4>1. <<reader.saved.boot, n>>[2] > reader.saved.after
        BY <3>3 DEF LogInv, ReaderIsRight, OfferIsAhead
      <4> QED BY <1>1, <4>1, ReaderFields
    <3>4. CASE ~IsGap(reader.offer)
      BY <1>4, <3>2, <3>4 DEF WholeEvent
    <3> QED BY <3>3, <3>4
  <2>5. SavedIsAhead(archive, UnderWay, reader.saved)'
    BY <1>2, <2>1, <2>2, <2>3, <2>4 DEF SavedIsAhead
  <2>6. OfferIsAhead'
    BY <2>1, NoEventIsNone DEF OfferIsAhead
  <2>7. reader.pc = "record" => PageIsRight' /\ PreviousIsNamed'
    <3> SUFFICES ASSUME reader.pc = "record", PageIsRight, PreviousIsNamed
                 PROVE  PageIsRight' /\ PreviousIsNamed'
      BY DEF LogInv, ReaderIsRight
    <3>1. Oldest' = Oldest /\ \A i : BeforeRecord(i)' = BeforeRecord(i)
      BY <1>2, <2>1 DEF BeforeRecord, Oldest
    <3>2. PageIsRight'
      BY <1>2, <2>1, <2>2, <3>1 DEF PageIsRight
    <3>3. PreviousIsNamed'
      BY <1>2, <2>1 DEF PreviousIsNamed
    <3> QED BY <3>2, <3>3
  <2>8. ReaderIsRight'
    BY <1>2, <2>1, <2>5, <2>6, <2>7 DEF ReaderIsRight
  <2>9. LogTypeOK' /\ ring'.boot > 0
    BY <1>1, <1>2, <2>1 DEF LogInv, LogTypeOK
  <2>10. RecorderIsRight'
    BY <1>2, <2>1 DEF LogInv, RecorderIsRight
  <2> QED BY <2>2, <2>8, <2>9, <2>10 DEF LogInv
<1> QED BY <1>3, <1>4

(* The ring moves on: what has been overwritten stays so.                   *)
LEMMA LogsKeepsInv ==
  ASSUME LogInv, Logs
  PROVE  LogInv'
<1>1. LogTypeOK
  BY DEF LogInv
<1>2. /\ ring.boot \in Boot /\ ring.boot \in Nat /\ ring.next \in Nat /\ ring.next <= MaxSeq
      /\ ring' = [boot |-> ring.boot, next |-> ring.next + 1]
      /\ UNCHANGED <<reader, queue, recorder, archive, logMishaps>>
  BY <1>1, RingFields DEF Logs, Boot
<1>3. ring'.boot = ring.boot /\ ring' \in [boot : Boot, next : 1..(MaxSeq + 1)]
  BY <1>2, LogAssumption
<1>4. Oldest \in Nat /\ Oldest' \in Nat /\ Oldest <= Oldest'
  <2>1. Capacity \in Nat /\ ring'.next = ring.next + 1
    BY <1>2, LogAssumption
  <2> QED BY <1>2, <2>1 DEF Oldest
<1>5. UnderWay' = UnderWay /\ Newest' = Newest
  BY <1>2, <1>3 DEF UnderWay, Pipe, Newest
<1>6. RingIsAhead(archive, UnderWay)'
  <2>1. ASSUME NEW id \in RecordId, Overwritten(id) PROVE Overwritten(id)'
    BY <1>3, <1>4, <2>1, IdFields DEF Overwritten
  <2>2. GapsAreOverwritten(archive, UnderWay)'
    BY <1>2, <1>5, <2>1 DEF LogInv, RingIsAhead, GapsAreOverwritten
  <2> QED BY <1>2, <1>5, <2>2 DEF LogInv, RingIsAhead, CursorsAreKnown
<1>7. ReaderIsRight'
  <2>1. reader.pc # "ended" => SavedIsAhead(archive, UnderWay, reader.saved)'
    BY <1>2, <1>3, <1>5 DEF LogInv, ReaderIsRight, SavedIsAhead
  <2>2. OfferIsAhead' /\ (reader.pc = "record" => PreviousIsNamed')
    BY <1>2, <1>5 DEF LogInv, ReaderIsRight, OfferIsAhead, PreviousIsNamed
  <2>3. ASSUME PageIsRight PROVE PageIsRight'
    <3>1. \A i : BeforeRecord(i)' = BeforeRecord(i)
      BY <1>2 DEF BeforeRecord
    <3>2. reader.page.boot = ring.boot => reader.page.oldest <= Oldest'
      BY <1>1, <1>4, <2>3, ReaderFields DEF PageIsRight
    <3>3. ASSUME NEW i \in DOMAIN reader.page.records,
                 reader.page.records[i] > BeforeRecord(i) + 1 /\ reader.page.boot = ring.boot
          PROVE  reader.page.records[i] <= Oldest'
      <4>1. reader.page.records[i] <= Oldest
        BY <2>3, <3>3 DEF PageIsRight
      <4>2. reader.page.records[i] \in Nat
        BY <1>1, <3>3, RecordFields
      <4> QED BY <1>4, <4>1, <4>2
    <3> QED BY <1>2, <1>3, <1>5, <2>3, <3>1, <3>2, <3>3 DEF PageIsRight
  <2> QED BY <1>2, <2>1, <2>2, <2>3 DEF LogInv, ReaderIsRight
<1>8. LogTypeOK' /\ ring'.boot > 0
  BY <1>1, <1>2, <1>3 DEF LogInv, LogTypeOK
<1>9. Intact(archive, UnderWay)' /\ RecorderIsRight'
  BY <1>2, <1>5 DEF LogInv, RecorderIsRight
<1> QED BY <1>6, <1>7, <1>8, <1>9 DEF LogInv

LEMMA RebootKeepsInv ==
  ASSUME LogInv, LogDeviceReboots
  PROVE  LogInv'
<1>1. LogTypeOK
  BY DEF LogInv
<1>2. /\ ring.boot \in Nat /\ ring.boot < MaxBoot
      /\ ring' = [boot |-> ring.boot + 1, next |-> 1]
      /\ UNCHANGED <<queue, recorder, archive, logMishaps>>
  BY <1>1, RingFields DEF LogDeviceReboots
<1>3. /\ ring' \in [boot : Boot, next : 1..(MaxSeq + 1)]
      /\ ring'.boot = ring.boot + 1 /\ ring'.boot > 0
  <2>1. ring.boot + 1 \in Boot /\ 1 \in 1..(MaxSeq + 1)
    BY <1>2, LogAssumption DEF Boot
  <2> QED BY <1>2, <2>1
<1>4. /\ reader' \in ReaderState /\ reader'.saved = reader.saved /\ reader'.offer = reader.offer
      /\ reader'.pc = "ended" => reader.pc = "ended"
      /\ reader.pc = "ended" => reader'.pc = "ended"
      /\ \/ reader' = reader /\ reader.pc \notin {"stats", "read"}
         \/ reader'.pc = "wait" /\ reader.offer = NoEvent
  <2>1. CASE reader.pc \in {"stats", "read"}
    <3>1. reader' = Waiting
      BY <2>1 DEF LogDeviceReboots
    <3>2. reader.offer = NoEvent
      BY <2>1 DEF LogInv, ReaderIsRight, OfferIsAhead
    <3> QED BY <1>1, <2>1, <3>1, <3>2, WaitingType
  <2>2. CASE reader.pc \notin {"stats", "read"}
    BY <1>1, <2>2 DEF LogDeviceReboots, LogTypeOK
  <2> QED BY <2>1, <2>2
<1>5. UnderWay' = UnderWay
  BY <1>2, <1>4 DEF UnderWay, Pipe
<1>6. RingIsAhead(archive, UnderWay)'
  <2>1. ASSUME NEW id \in RecordId, Overwritten(id) PROVE Overwritten(id)'
    BY <1>2, <1>3, <2>1, IdFields DEF Overwritten
  <2>2. GapsAreOverwritten(archive, UnderWay)'
    BY <1>2, <1>5, <2>1 DEF LogInv, RingIsAhead, GapsAreOverwritten
  <2>3. ASSUME NEW c, IsCursor(c), NotAfter(c, Newest) PROVE NotAfter(c, Newest')
    BY <1>2, <1>3, <2>3 DEF NotAfter, Newest, IsCursor
  <2>4. IsCursor(archive.cursor) /\ \A i \in DOMAIN UnderWay : IsCursor(UnderWay[i].cursor)
    <3>1. \A i \in DOMAIN UnderWay : UnderWay[i] \in Event
      BY <1>1, LogFields, ElementOfSeq, LenProperties
    <3> QED BY <1>1, <3>1, LogFields, ArchiveFields, EventFields DEF IsCursor
  <2>5. CursorsAreKnown(archive, UnderWay)'
    BY <1>2, <1>5, <2>3, <2>4 DEF LogInv, RingIsAhead, CursorsAreKnown
  <2> QED BY <2>2, <2>5 DEF RingIsAhead
<1>7. ReaderIsRight'
  <2>1. reader.pc # "ended" => SavedIsAhead(archive, UnderWay, reader.saved)'
    <3> SUFFICES ASSUME reader.pc # "ended" PROVE SavedIsAhead(archive, UnderWay, reader.saved)'
      OBVIOUS
    <3>1. SavedIsAhead(archive, UnderWay, reader.saved) /\ reader.saved.boot \in Nat
      BY <1>1, ReaderFields DEF LogInv, ReaderIsRight
    <3>2. reader.saved.boot <= ring'.boot
      BY <1>2, <1>3, <3>1 DEF SavedIsAhead
    <3> QED BY <1>2, <1>4, <1>5, <3>1, <3>2 DEF SavedIsAhead
  <2>2. CASE reader' = reader /\ reader.pc \notin {"stats", "read"}
    <3>1. OfferIsAhead' /\ (reader.pc = "record" => PreviousIsNamed')
      BY <1>2, <1>5, <2>2 DEF LogInv, ReaderIsRight, OfferIsAhead, PreviousIsNamed
    <3>2. ASSUME PageIsRight PROVE PageIsRight'
      <4>1. \A i : BeforeRecord(i)' = BeforeRecord(i)
        BY <2>2 DEF BeforeRecord
      <4>2. reader.page.boot \in 1..ring.boot /\ reader.page.boot \in Nat
        BY <1>1, <3>2, ReaderFields DEF PageIsRight
      <4>3. reader.page.boot \in 1..ring'.boot /\ reader.page.boot # ring'.boot
        BY <1>2, <1>3, <4>2
      <4> QED BY <1>2, <1>5, <2>2, <3>2, <4>1, <4>3 DEF PageIsRight
    <3> QED BY <2>1, <2>2, <3>1, <3>2 DEF LogInv, ReaderIsRight
  <2>3. CASE reader'.pc = "wait" /\ reader.offer = NoEvent
    BY <1>4, <2>1, <2>3, NoEventIsNone DEF ReaderIsRight, OfferIsAhead
  <2> QED BY <1>4, <2>2, <2>3
<1>8. LogTypeOK'
  BY <1>1, <1>2, <1>3, <1>4 DEF LogTypeOK
<1>9. Intact(archive, UnderWay)' /\ RecorderIsRight'
  BY <1>2, <1>4, <1>5 DEF LogInv, RecorderIsRight
<1> QED BY <1>3, <1>6, <1>7, <1>8, <1>9 DEF LogInv

-----------------------------------------------------------------------------
(* LogArchive: the reader offers an event, or none.                         *)

LEMMA NothingIsOffered ==
  ASSUME LogInv, reader.offer = NoEvent, reader'.offer = NoEvent,
         UNCHANGED <<ring, queue, recorder, archive>>
  PROVE  /\ UnderWay' = UnderWay /\ Oldest' = Oldest
         /\ Intact(archive, UnderWay)' /\ RingIsAhead(archive, UnderWay)'
<1>1. UnderWay' = UnderWay /\ Oldest' = Oldest /\ Newest' = Newest
  BY DEF UnderWay, Pipe, Oldest, Newest
<1> QED
  BY <1>1 DEF LogInv, RingIsAhead, GapsAreOverwritten, Overwritten, CursorsAreKnown

LEMMA EventIsOffered ==
  ASSUME LogInv, reader.offer = NoEvent, NEW e \in Event, reader'.offer = e,
         UNCHANGED <<ring, queue, recorder, archive>>, WholeEvent(e),
         IsMarked(e) => /\ Before(archive.cursor, e.cursor) /\ NotAfter(e.cursor, Newest)
                        /\ \A i \in DOMAIN UnderWay :
                             IsMarked(UnderWay[i]) => Before(UnderWay[i].cursor, e.cursor),
         IsRow(e) => /\ \A n \in 1..(e.cursor.after - 1) :
                          AllNamed(archive, UnderWay, <<e.cursor.boot, n>>)
                     /\ \A id \in e.ids : ~InGap(archive, UnderWay, id),
         IsGap(e) => /\ e.ids \cap archive.rows = {} /\ \A id \in e.ids : Overwritten(id)
                     /\ \A i \in DOMAIN UnderWay :
                          IsRow(UnderWay[i]) => e.ids \cap UnderWay[i].ids = {}
  PROVE  /\ UnderWay' = Append(UnderWay, e) /\ Oldest' = Oldest
         /\ Intact(archive, UnderWay)' /\ RingIsAhead(archive, UnderWay)'
         /\ \A id : AllNamed(archive', UnderWay', id) <=>
                      AllNamed(archive, UnderWay, id) \/ id \in e.ids
         /\ \A id : InGap(archive', UnderWay', id) <=>
                      InGap(archive, UnderWay, id) \/ (IsGap(e) /\ id \in e.ids)
         /\ \A saved :
              /\ \A i \in DOMAIN UnderWay :
                   IsMarked(UnderWay[i]) => NotAfter(UnderWay[i].cursor, saved)
              /\ IsMarked(e) => NotAfter(e.cursor, saved)
              => \A i \in DOMAIN UnderWay' :
                   IsMarked(UnderWay'[i]) => NotAfter(UnderWay'[i].cursor, saved)
<1>1. /\ UnderWay = Pipe /\ UnderWay \in Seq(Event) /\ archive \in Archive
      /\ Intact(archive, UnderWay) /\ RingIsAhead(archive, UnderWay)
  BY LogFields DEF LogInv
<1>2. UnderWay' = Append(UnderWay, e)
  BY <1>1, NoEventIsNone DEF UnderWay, Pipe
<1>3. Oldest' = Oldest /\ Newest' = Newest
  BY DEF Oldest, Newest
<1>4. Intact(archive, UnderWay)'
  <2>1. Intact(archive, Append(UnderWay, e))
    BY <1>1, AppendingIsSafe
  <2> QED BY <1>2, <2>1
<1> DEFINE U == UnderWay
           A == Append(U, e)
           l == Len(U) + 1
<1>5. /\ DOMAIN A = DOMAIN U \cup {l} /\ A[l] = e
      /\ \A i \in DOMAIN U : A[i] = U[i]
  BY <1>1, OneMoreEvent
<1>6. \A id : /\ AllNamed(archive, A, id) <=> AllNamed(archive, U, id) \/ id \in e.ids
              /\ InGap(archive, A, id) <=> InGap(archive, U, id) \/ (IsGap(e) /\ id \in e.ids)
  BY <1>1, EventIsNamed
<1>7. UnderWay' = A /\ archive' = archive
  BY <1>2
<1>8. /\ \A i \in DOMAIN U : IsMarked(U[i]) => NotAfter(U[i].cursor, Newest)
      /\ IsMarked(e) => NotAfter(e.cursor, Newest)
  BY <1>1 DEF RingIsAhead, CursorsAreKnown
<1>9. /\ \A id \in RecordId : InGap(archive, U, id) => Overwritten(id)
      /\ IsGap(e) => \A id \in e.ids : Overwritten(id)
  BY <1>1 DEF RingIsAhead, GapsAreOverwritten
<1> HIDE DEF A, l
<1>10. \A saved :
         /\ \A i \in DOMAIN U : IsMarked(U[i]) => NotAfter(U[i].cursor, saved)
         /\ IsMarked(e) => NotAfter(e.cursor, saved)
         => \A i \in DOMAIN A : IsMarked(A[i]) => NotAfter(A[i].cursor, saved)
  BY <1>5
<1>11. RingIsAhead(archive, UnderWay)'
  <2>1. \A id \in RecordId : InGap(archive, A, id) => Overwritten(id)
    BY <1>6, <1>9
  <2>2. GapsAreOverwritten(archive, UnderWay)'
    BY <1>3, <1>7, <2>1 DEF GapsAreOverwritten, Overwritten
  <2>3. \A i \in DOMAIN A : IsMarked(A[i]) => NotAfter(A[i].cursor, Newest)
    BY <1>8, <1>10
  <2>4. NotAfter(archive.cursor, Newest)
    BY <1>1 DEF RingIsAhead, CursorsAreKnown
  <2>5. CursorsAreKnown(archive, UnderWay)'
    BY <1>3, <1>7, <2>3, <2>4 DEF CursorsAreKnown
  <2> QED BY <2>2, <2>5 DEF RingIsAhead
<1> QED BY <1>2, <1>3, <1>4, <1>6, <1>7, <1>10, <1>11

(* A gap of the boot that is read, after the cursor.                        *)
LEMMA GapIsOffered ==
  ASSUME LogInv, reader.offer = NoEvent, reader.pc # "ended", NEW first \in Nat, NEW last \in Nat,
         reader.saved.boot = reader.page.boot, first > reader.saved.after, last <= MaxSeq,
         reader.page.boot = ring.boot => last < Oldest,
         reader'.offer = GapEvent(first, last), reader'.saved = reader.saved,
         UNCHANGED <<ring, queue, recorder, archive>>
  PROVE  /\ Oldest' = Oldest /\ reader'.offer \in Event \cup {NoEvent}
         /\ Intact(archive, UnderWay)' /\ RingIsAhead(archive, UnderWay)'
         /\ SavedIsAhead(archive, UnderWay, reader.saved)'
         /\ \A id : AllNamed(archive, UnderWay, id) => AllNamed(archive', UnderWay', id)
         /\ ~recorder.stop =>
              \A n \in first..last : AllNamed(archive', UnderWay', <<reader.page.boot, n>>)
         /\ \A id : InGap(archive', UnderWay', id) =>
              InGap(archive, UnderWay, id) \/ (id[1] = reader.page.boot /\ id[2] <= last)
         /\ \A id \in reader'.offer.ids :
              id[1] = reader.saved.boot /\ id[2] > reader.saved.after
<1>1. LogTypeOK /\ SavedIsAhead(archive, UnderWay, reader.saved)
  BY DEF LogInv, ReaderIsRight
<1>2. CASE recorder.stop
  <2>1. reader'.offer = NoEvent
    BY <1>2 DEF GapEvent, Offer
  <2>2. /\ UnderWay' = UnderWay /\ Oldest' = Oldest
        /\ Intact(archive, UnderWay)' /\ RingIsAhead(archive, UnderWay)'
    BY <2>1, NothingIsOffered
  <2>3. SavedIsAhead(archive, UnderWay, reader.saved)'
    BY <1>1, <2>2 DEF SavedIsAhead
  <2> QED BY <1>2, <2>1, <2>2, <2>3, NoEventIsNone
<1>3. CASE ~recorder.stop
  <2> DEFINE e == EventOfKind("gap", Missing(first, last), NoCursor)
  <2>1. reader'.offer = e
    BY <1>3 DEF GapEvent, Offer
  <2>2. /\ reader.page.boot \in Boot /\ reader.page.boot \in Nat /\ reader.saved.after \in Nat
        /\ ring.boot \in Nat /\ Oldest \in Nat /\ reader.page.boot <= ring.boot
    BY <1>1, ReaderFields, RingFields DEF SavedIsAhead
  <2>3. \A id \in Missing(first, last) :
          /\ id = <<reader.page.boot, id[2]>> /\ id[1] = reader.page.boot
          /\ id[2] \in first..last /\ id \in RecordId
    BY <2>2, LogAssumption DEF Missing, RecordId, SeqNo
  <2>4. \A n \in first..last : <<reader.page.boot, n>> \in Missing(first, last)
    BY DEF Missing
  <2>5. /\ e.kind = "gap" /\ e.ids = Missing(first, last) /\ e.cursor = NoCursor
        /\ ~IsRow(e) /\ IsGap(e) /\ ~IsMarked(e) /\ WholeEvent(e)
    BY DEF EventOfKind, IsRow, IsGap, IsMarked, WholeEvent
  <2>6. e \in Event
    BY <2>3 DEF EventOfKind, Event
  <2>7. \A id \in e.ids : Overwritten(id)
    BY <2>2, <2>3, <2>5 DEF Overwritten
  <2>8. ASSUME NEW id \in e.ids, NotAfter(CursorOf(id), reader.saved) PROVE FALSE
    BY <2>2, <2>3, <2>5, <2>8 DEF NotAfter, CursorOf
  <2>9. e.ids \cap archive.rows = {}
    <3> SUFFICES ASSUME NEW id \in e.ids, id \in archive.rows PROVE FALSE
      OBVIOUS
    <3>1. NotAfter(CursorOf(id), archive.cursor) /\ NotAfter(archive.cursor, reader.saved)
      BY <1>1 DEF LogInv, Intact, RowsAreBehind, SavedIsAhead
    <3>2. IsCursor(CursorOf(id)) /\ IsCursor(archive.cursor) /\ IsCursor(reader.saved)
      BY <1>1, <2>3, <2>5, IdFields, LogFields, ArchiveFields, ReaderFields DEF IsCursor
    <3>3. NotAfter(CursorOf(id), reader.saved)
      BY <3>1, <3>2, CursorsAreOrdered
    <3> QED BY <2>8, <3>3
  <2>10. ASSUME NEW i \in DOMAIN UnderWay, IsRow(UnderWay[i])
         PROVE  e.ids \cap UnderWay[i].ids = {}
    <3> SUFFICES ASSUME NEW id \in e.ids, id \in UnderWay[i].ids PROVE FALSE
      OBVIOUS
    <3> DEFINE r == UnderWay[i]
    <3>1. r \in Event /\ WholeEvent(r) /\ IsRow(r)
      BY <1>1, <2>10, LogFields, ElementOfSeq, LenProperties DEF LogInv, Intact
    <3>2. IsMarked(r) => NotAfter(r.cursor, reader.saved)
      BY <1>1 DEF SavedIsAhead
    <3>3. id \in r.ids
      OBVIOUS
    <3> HIDE DEF r
    <3>4. IsMarked(r) /\ r.ids = {<<r.cursor.boot, r.cursor.after>>}
      BY <3>1, WholeEvents
    <3>5. CursorOf(id).boot = r.cursor.boot /\ CursorOf(id).after = r.cursor.after
      BY <3>3, <3>4 DEF CursorOf
    <3>6. NotAfter(CursorOf(id), reader.saved)
      BY <3>2, <3>4, <3>5 DEF NotAfter
    <3> QED BY <2>8, <3>6
  <2> HIDE DEF e
  <2>11. /\ Oldest' = Oldest
         /\ Intact(archive, UnderWay)' /\ RingIsAhead(archive, UnderWay)'
         /\ \A id : AllNamed(archive', UnderWay', id) <=>
                      AllNamed(archive, UnderWay, id) \/ id \in e.ids
         /\ \A id : InGap(archive', UnderWay', id) <=>
                      InGap(archive, UnderWay, id) \/ (IsGap(e) /\ id \in e.ids)
         /\ \A saved :
              /\ \A i \in DOMAIN UnderWay :
                   IsMarked(UnderWay[i]) => NotAfter(UnderWay[i].cursor, saved)
              /\ IsMarked(e) => NotAfter(e.cursor, saved)
              => \A i \in DOMAIN UnderWay' :
                   IsMarked(UnderWay'[i]) => NotAfter(UnderWay'[i].cursor, saved)
    BY <2>1, <2>5, <2>6, <2>7, <2>9, <2>10, EventIsOffered
  <2>12. SavedIsAhead(archive, UnderWay, reader.saved)'
    BY <1>1, <2>5, <2>11 DEF SavedIsAhead
  <2>13. \A id \in e.ids : id[1] = reader.page.boot /\ id[2] > reader.saved.after /\ id[2] <= last
    BY <2>2, <2>3, <2>5
  <2> QED BY <2>1, <2>4, <2>5, <2>6, <2>11, <2>12, <2>13
<1> QED BY <1>2, <1>3

-----------------------------------------------------------------------------
(* LogArchive: the page is built and sent.                                  *)

LEMMA PageGoesOn ==
  ASSUME LogInv, reader.offer = NoEvent, reader.pc # "ended", reader' \in ReaderState,
         reader'.pc \in {"read", "check"}, reader'.offer = NoEvent,
         reader'.saved = reader.saved,
         UNCHANGED <<ring, queue, recorder, archive, logMishaps>>,
         PageIsRight'
  PROVE  LogInv'
<1>1. /\ UnderWay' = UnderWay /\ Intact(archive, UnderWay)' /\ RingIsAhead(archive, UnderWay)'
  BY NothingIsOffered
<1>2. SavedIsAhead(archive, UnderWay, reader.saved)'
  BY <1>1 DEF LogInv, ReaderIsRight, SavedIsAhead
<1>3. ReaderIsRight'
  BY <1>2, NoEventIsNone DEF ReaderIsRight, OfferIsAhead
<1>4. LogTypeOK' /\ ring'.boot > 0
  BY DEF LogInv, LogTypeOK
<1>5. RecorderIsRight'
  BY DEF LogInv, RecorderIsRight
<1> QED BY <1>1, <1>3, <1>4, <1>5 DEF LogInv

LEMMA TakesStatsKeepsInv ==
  ASSUME LogInv, TakesStats
  PROVE  LogInv'
<1> DEFINE page == [boot |-> ring.boot, oldest |-> Oldest, next |-> ring.next, records |-> <<>>]
<1>1. /\ LogTypeOK /\ reader.offer = NoEvent /\ reader.pc = "stats" /\ ring.boot > 0
      /\ SavedIsAhead(archive, UnderWay, reader.saved)
  BY DEF TakesStats, LogInv, ReaderIsRight, OfferIsAhead
<1>2. /\ page \in PageType /\ page.records = <<>> /\ page.boot = ring.boot /\ page.oldest = Oldest
  <2>1. <<>> \in Seq(SeqNo)
    OBVIOUS
  <2> QED BY <1>1, <2>1, RingFields DEF PageType, Boot
<1>3. /\ reader' = [reader EXCEPT !.pc = "read", !.previous = reader.saved.after, !.page = page]
      /\ UNCHANGED <<ring, queue, recorder, archive, logMishaps>>
  BY DEF TakesStats
<1> HIDE DEF page
<1>4. /\ reader' \in ReaderState /\ reader'.pc = "read" /\ reader'.offer = NoEvent
      /\ reader'.saved = reader.saved /\ reader'.page = page
      /\ reader'.previous = reader.saved.after
  <2>1. reader \in ReaderState /\ reader.saved.after \in 0..MaxSeq
    BY <1>1, ReaderFields DEF LogTypeOK
  <2> QED BY <1>1, <1>2, <1>3, <2>1 DEF ReaderState
<1>5. PageIsRight'
  <2>1. ring.boot \in 1..ring.boot /\ reader.saved.boot <= ring.boot /\ Oldest \in Nat
    BY <1>1, RingFields DEF SavedIsAhead
  <2>2. Oldest' = Oldest /\ DOMAIN <<>> = {}
    BY <1>3 DEF Oldest
  <2> QED BY <1>2, <1>3, <1>4, <2>1, <2>2 DEF PageIsRight
<1> QED BY <1>1, <1>3, <1>4, <1>5, PageGoesOn

LEMMA ReadsRecordKeepsInv ==
  ASSUME LogInv, ReadsRecord
  PROVE  LogInv'
<1> DEFINE p == reader.page
           s == p.records
           r == After(reader.previous)
           q == [p EXCEPT !.records = Append(s, r)]
<1>1. /\ LogTypeOK /\ reader.offer = NoEvent /\ reader.pc = "read" /\ PageIsRight
      /\ p.boot = ring.boot /\ p.oldest <= Oldest /\ reader.saved.boot <= p.boot
      /\ r < ring.next
  BY DEF ReadsRecord, LogInv, ReaderIsRight, OfferIsAhead, PageIsRight
<1>2. /\ reader' = [reader EXCEPT !.previous = r, !.page = q]
      /\ UNCHANGED <<ring, queue, recorder, archive, logMishaps>>
  <2>1. [reader EXCEPT !.previous = After(@),
                       !.page.records = Append(@, After(reader.previous))] =
        [reader EXCEPT !.previous = r, !.page = q]
    BY <1>1, ReaderFields
  <2> QED BY <2>1 DEF ReadsRecord
<1>3. /\ reader.previous \in Nat /\ Oldest \in Nat /\ ring.next \in Nat /\ ring.next <= MaxSeq + 1
      /\ s \in Seq(SeqNo) /\ p \in PageType /\ reader \in ReaderState /\ p.oldest \in Nat
      /\ reader.saved.after \in Nat /\ Oldest >= 1
  BY <1>1, ReaderFields, RingFields, LogAssumption DEF LogTypeOK
<1>4. /\ r \in Nat /\ r >= Oldest /\ r >= reader.previous + 1
      /\ r > reader.previous + 1 => r = Oldest
  BY <1>3 DEF After
<1>5. r \in SeqNo /\ r \in 0..MaxSeq
  BY <1>1, <1>3, <1>4, LogAssumption DEF SeqNo
<1>6. /\ Append(s, r) \in Seq(SeqNo) /\ Len(s) \in Nat
      /\ DOMAIN Append(s, r) = DOMAIN s \cup {Len(s) + 1}
      /\ Append(s, r)[Len(s) + 1] = r /\ Len(Append(s, r)) = Len(s) + 1
      /\ Append(s, r) # <<>>
      /\ \A i \in DOMAIN s : i \in Nat /\ i >= 1 /\ i <= Len(s) /\ Append(s, r)[i] = s[i]
  <2> HIDE DEF r, s
  <2>1. /\ Append(s, r) \in Seq(SeqNo) /\ Append(s, r)[Len(s) + 1] = r
        /\ Len(Append(s, r)) = Len(s) + 1 /\ Append(s, r) # <<>>
        /\ \A i \in 1..Len(s) : Append(s, r)[i] = s[i]
    BY <1>3, <1>5, AppendProperties
  <2>2. DOMAIN s = 1..Len(s) /\ Len(s) \in Nat /\ DOMAIN Append(s, r) = 1..(Len(s) + 1)
    BY <1>3, <2>1, LenProperties
  <2> QED BY <2>1, <2>2
<1>7. /\ s # <<>> => Len(s) \in DOMAIN s /\ reader.previous = s[Len(s)]
      /\ s = <<>> => Len(s) = 0 /\ reader.previous = reader.saved.after
  <2>1. DOMAIN s = 1..Len(s) /\ (s # <<>> => Len(s) # 0) /\ (s = <<>> => Len(s) = 0)
    BY <1>3, LenProperties, EmptySeq
  <2> QED BY <1>1, <1>6, <2>1 DEF PageIsRight
<1>8. /\ \A i \in DOMAIN s : s[i] \in Nat /\ s[i] >= p.oldest
      /\ \A i \in DOMAIN s : s[i] <= reader.previous
  <2>1. \A i \in DOMAIN s : s[i] \in Nat /\ s[i] >= p.oldest
    BY <1>1, RecordFields DEF PageIsRight
  <2>2. ASSUME NEW i \in DOMAIN s PROVE s[i] <= reader.previous
    <3>1. s # <<>> /\ Len(s) \in DOMAIN s /\ reader.previous = s[Len(s)]
      BY <1>7
    <3>2. i = Len(s) \/ i < Len(s)
      BY <1>6
    <3>3. i < Len(s) => s[i] < s[Len(s)]
      BY <1>1, <3>1 DEF PageIsRight
    <3> QED BY <2>1, <3>1, <3>2, <3>3
  <2> QED BY <2>1, <2>2
<1>9. q \in PageType /\ q.boot = ring.boot /\ q.oldest = p.oldest /\ q.records = Append(s, r)
  BY <1>1, <1>3, <1>6 DEF PageType
<1>10. /\ reader' \in ReaderState /\ reader'.pc = "read" /\ reader'.offer = NoEvent
       /\ reader'.saved = reader.saved /\ reader'.page = q /\ reader'.previous = r
  <2> HIDE DEF r, q
  <2> QED BY <1>1, <1>2, <1>3, <1>5, <1>9 DEF ReaderState
<1>11. UnderWay' = UnderWay /\ Oldest' = Oldest
  BY <1>1, <1>2, <1>10, NothingIsOffered
<1>12. ~InGap(archive, UnderWay, <<ring.boot, r>>)
  <2>1. <<ring.boot, r>> \in RecordId
    BY <1>1, <1>5, RingFields DEF RecordId, Boot
  <2>2. ~Overwritten(<<ring.boot, r>>)
    <3>1. <<ring.boot, r>>[1] = ring.boot /\ <<ring.boot, r>>[2] = r /\ ring.boot \in Nat
      BY <1>1, RingFields
    <3> QED BY <1>3, <1>4, <3>1 DEF Overwritten
  <2> QED BY <2>1, <2>2 DEF LogInv, RingIsAhead, GapsAreOverwritten
<1> HIDE DEF r, q, s, p
<1>13. PageIsRight'
  <2> DEFINE t == Append(s, r)
             l == Len(s) + 1
  <2>1. /\ reader'.page.boot = ring'.boot /\ reader'.page.records = t
        /\ reader'.page.oldest = p.oldest /\ ring' = ring
    BY <1>2, <1>9, <1>10
  <2>2. /\ reader'.page.boot \in 1..ring'.boot /\ reader'.saved.boot <= reader'.page.boot
        /\ reader'.page.oldest <= Oldest'
    BY <1>1, <1>2, <1>10, <1>11, <2>1 DEF PageIsRight, p
  <2>3. t # <<>> /\ reader'.previous = t[Len(t)]
    BY <1>6, <1>10
  <2>4. \A i, j \in DOMAIN t : i < j => t[i] < t[j]
    <3> SUFFICES ASSUME NEW i \in DOMAIN t, NEW j \in DOMAIN t, i < j PROVE t[i] < t[j]
      OBVIOUS
    <3>1. CASE j \in DOMAIN s
      <4>1. i \in DOMAIN s
        BY <1>6, <3>1
      <4> QED BY <1>1, <1>6, <3>1, <4>1 DEF PageIsRight, s, p
    <3>2. CASE j = l
      <4>1. i \in DOMAIN s
        BY <1>6, <3>2
      <4> QED BY <1>3, <1>4, <1>6, <1>8, <3>2, <4>1
    <3> QED BY <1>6, <3>1, <3>2
  <2>5. ASSUME NEW i \in DOMAIN t
        PROVE  /\ t[i] >= p.oldest /\ ~InGap(archive, UnderWay, <<ring.boot, t[i]>>)
               /\ t[i] > BeforeRecord(i)' + 1 => t[i] <= Oldest
    <3>1. CASE i \in DOMAIN s
      <4>1. BeforeRecord(i)' = BeforeRecord(i)
        <5>1. i > 1 => i - 1 \in DOMAIN s
          BY <1>3, <1>6, <3>1, LenProperties
        <5> QED BY <1>1, <1>6, <1>10, <2>1, <3>1, <5>1 DEF BeforeRecord, s, p
      <4>2. t[i] = s[i]
        BY <1>6, <3>1
      <4> QED BY <1>1, <3>1, <4>1, <4>2 DEF PageIsRight, s, p
    <3>2. CASE i = l
      <4>1. t[i] = r
        BY <1>6, <3>2
      <4>2. BeforeRecord(i)' = reader.previous
        <5>1. CASE s = <<>>
          BY <1>6, <1>7, <1>10, <3>2, <5>1 DEF BeforeRecord
        <5>2. CASE s # <<>>
          <6>1. i > 1 /\ i - 1 = Len(s) /\ Len(s) \in DOMAIN s
            BY <1>6, <1>7, <3>2, <5>2
          <6> QED BY <1>6, <1>7, <2>1, <5>2, <6>1 DEF BeforeRecord
        <5> QED BY <5>1, <5>2
      <4>3. r >= p.oldest
        BY <1>1, <1>3, <1>4
      <4> QED BY <1>3, <1>4, <1>12, <4>1, <4>2, <4>3
    <3> QED BY <1>6, <3>1, <3>2
  <2> HIDE DEF t, l
  <2> QED BY <1>2, <1>10, <1>11, <2>1, <2>2, <2>3, <2>4, <2>5 DEF PageIsRight
<1> QED BY <1>1, <1>2, <1>10, <1>13, PageGoesOn

LEMMA SendsPageKeepsInv ==
  ASSUME LogInv, SendsPage
  PROVE  LogInv'
<1>1. /\ LogTypeOK /\ reader.offer = NoEvent /\ reader.pc = "read" /\ PageIsRight
      /\ reader' = [reader EXCEPT !.pc = "check", !.previous = 0]
      /\ UNCHANGED <<ring, queue, recorder, archive, logMishaps>>
  BY DEF SendsPage, LogInv, ReaderIsRight, OfferIsAhead
<1>2. /\ reader' \in ReaderState /\ reader'.pc = "check" /\ reader'.offer = NoEvent
      /\ reader'.saved = reader.saved /\ reader'.page = reader.page
  <2>1. reader \in ReaderState /\ 0 \in 0..MaxSeq
    BY <1>1, LogAssumption DEF LogTypeOK
  <2> QED BY <1>1, <2>1 DEF ReaderState
<1>3. UnderWay' = UnderWay /\ Oldest' = Oldest
  BY <1>1, <1>2, NothingIsOffered
<1>4. \A i : BeforeRecord(i)' = BeforeRecord(i)
  BY <1>1, <1>2 DEF BeforeRecord
<1>5. PageIsRight'
  BY <1>1, <1>2, <1>3, <1>4 DEF PageIsRight
<1> QED BY <1>1, <1>2, <1>5, PageGoesOn

-----------------------------------------------------------------------------
(* LogArchive: the page is read.                                            *)

LEMMA ReaderMoves ==
  ASSUME LogInv, reader.pc # "ended", reader' \in ReaderState, reader'.pc # "ended",
         UNCHANGED <<ring, queue, recorder, archive, logMishaps>>,
         Intact(archive, UnderWay)', RingIsAhead(archive, UnderWay)',
         SavedIsAhead(archive, UnderWay, reader.saved)', OfferIsAhead',
         reader'.pc \in {"read", "check", "record"} => PageIsRight',
         reader'.pc = "record" => PreviousIsNamed'
  PROVE  LogInv'
<1>1. ReaderIsRight'
  BY DEF ReaderIsRight
<1>2. LogTypeOK' /\ ring'.boot > 0
  BY DEF LogInv, LogTypeOK
<1>3. RecorderIsRight'
  BY DEF LogInv, RecorderIsRight
<1> QED BY <1>1, <1>2, <1>3 DEF LogInv

LEMMA SeesBootKeepsInv ==
  ASSUME LogInv, SeesBoot
  PROVE  LogInv'
<1> DEFINE c == BootCursor
           e == EventOfKind("boot", {}, c)
<1>1. /\ LogTypeOK /\ reader.offer = NoEvent /\ reader.pc = "check" /\ PageIsRight
      /\ reader.page.boot # reader.saved.boot
      /\ reader' = [NewReader(c) EXCEPT !.offer = Offer(e)]
      /\ UNCHANGED <<ring, queue, recorder, archive, logMishaps>>
      /\ SavedIsAhead(archive, UnderWay, reader.saved)
  BY DEF SeesBoot, Reads, LogInv, ReaderIsRight
<1>2. /\ c.boot = reader.page.boot /\ c.after = 0 /\ c \in Cursor /\ c # NoCursor
      /\ c.boot > reader.saved.boot /\ c.boot <= ring.boot /\ c.boot \in Nat /\ c.boot > 0
  <2>1. /\ reader.page.boot \in Boot /\ reader.page.boot \in 1..ring.boot
        /\ reader.saved.boot <= reader.page.boot
    BY <1>1, ReaderFields DEF PageIsRight
  <2> QED
    BY <1>1, <2>1, ReaderFields, RingFields, LogAssumption DEF BootCursor, Cursor, NoCursor
<1>3. /\ e.kind = "boot" /\ e.ids = {} /\ e.cursor = c /\ e \in Event
      /\ ~IsRow(e) /\ ~IsGap(e) /\ WholeEvent(e)
  BY <1>2 DEF EventOfKind, Event, IsRow, IsGap, WholeEvent
<1> HIDE DEF c, e
<1>4. /\ reader' \in ReaderState /\ reader'.pc = "ask" /\ reader'.saved = c
      /\ reader'.offer = Offer(e)
  <2>1. Offer(e) \in Event \cup {NoEvent}
    BY <1>3 DEF Offer
  <2>2. reader' \in ReaderState
    BY <1>1, <1>2, <2>1, NewReaderType
  <2> QED BY <1>1, <2>2 DEF NewReader
<1>5. /\ NotAfter(c, Newest)
      /\ \A d : IsCursor(d) /\ NotAfter(d, reader.saved) => Before(d, c)
  <2>1. NotAfter(c, Newest)
    BY <1>1, <1>2, RingFields, LogAssumption DEF NotAfter, Newest
  <2> QED BY <1>1, <1>2, <2>1, ReaderFields DEF NotAfter, Before, IsCursor
<1>6. IsCursor(c) /\ IsCursor(archive.cursor) /\ \A i \in DOMAIN UnderWay : IsCursor(UnderWay[i].cursor)
  <2>1. \A i \in DOMAIN UnderWay : UnderWay[i] \in Event
    BY <1>1, LogFields, ElementOfSeq, LenProperties
  <2> QED BY <1>1, <1>2, <2>1, LogFields, ArchiveFields, EventFields DEF IsCursor
<1>7. /\ Before(archive.cursor, c)
      /\ \A i \in DOMAIN UnderWay : IsMarked(UnderWay[i]) => Before(UnderWay[i].cursor, c)
  BY <1>1, <1>5, <1>6 DEF SavedIsAhead
<1>8. /\ NotAfter(archive.cursor, c) /\ NotAfter(c, c)
      /\ \A i \in DOMAIN UnderWay : IsMarked(UnderWay[i]) => NotAfter(UnderWay[i].cursor, c)
  BY <1>6, <1>7, CursorsAreOrdered
<1>9. /\ Intact(archive, UnderWay)' /\ RingIsAhead(archive, UnderWay)'
      /\ \A i \in DOMAIN UnderWay' : IsMarked(UnderWay'[i]) => NotAfter(UnderWay'[i].cursor, c)
  <2>1. CASE recorder.stop
    BY <1>1, <1>4, <1>8, <2>1, NothingIsOffered DEF Offer
  <2>2. CASE ~recorder.stop
    <3>1. reader'.offer = e
      BY <1>4, <2>2 DEF Offer
    <3>2. /\ Intact(archive, UnderWay)' /\ RingIsAhead(archive, UnderWay)'
          /\ \A saved :
               /\ \A i \in DOMAIN UnderWay :
                    IsMarked(UnderWay[i]) => NotAfter(UnderWay[i].cursor, saved)
               /\ IsMarked(e) => NotAfter(e.cursor, saved)
               => \A i \in DOMAIN UnderWay' :
                    IsMarked(UnderWay'[i]) => NotAfter(UnderWay'[i].cursor, saved)
      BY <1>1, <1>3, <1>5, <1>7, <3>1, EventIsOffered
    <3> QED BY <1>3, <1>8, <3>2
  <2> QED BY <2>1, <2>2
<1>10. SavedIsAhead(archive, UnderWay, reader.saved)'
  BY <1>1, <1>2, <1>4, <1>8, <1>9 DEF SavedIsAhead
<1>11. OfferIsAhead'
  BY <1>3, <1>4, NoEventIsNone DEF OfferIsAhead, Offer
<1> QED BY <1>1, <1>4, <1>9, <1>10, <1>11, ReaderMoves

LEMMA ChecksPageKeepsInv ==
  ASSUME LogInv, ChecksPage
  PROVE  LogInv'
<1> DEFINE p == reader.page
           s == p.records
           a == reader.saved.after
<1>1. /\ LogTypeOK /\ reader.offer = NoEvent /\ reader.pc = "check" /\ PageIsRight
      /\ p.boot = reader.saved.boot
      /\ UNCHANGED <<ring, queue, recorder, archive, logMishaps>>
      /\ SavedIsAhead(archive, UnderWay, reader.saved)
  BY DEF ChecksPage, Reads, LogInv, ReaderIsRight
<1>2. /\ a \in Nat /\ a \in 0..MaxSeq /\ p.oldest \in Nat /\ p.oldest \in 1..(MaxSeq + 1)
      /\ Oldest \in Nat /\ ring.boot \in Nat /\ p.boot \in Nat /\ reader \in ReaderState
      /\ \A i \in DOMAIN s : s[i] \in Nat /\ i \in Nat /\ i >= 1
  BY <1>1, ReaderFields, RingFields, RecordFields DEF LogTypeOK
<1>3. ASSUME NEW previous \in Nat, NEW offer, reader'.previous = previous, previous >= a,
             reader' \in ReaderState, reader'.pc = "record", reader'.saved = reader.saved,
             reader'.page = p, reader'.offer = offer,
             previous = a \/ previous <= p.oldest - 1,
             Oldest' = Oldest,
             Intact(archive, UnderWay)', RingIsAhead(archive, UnderWay)',
             SavedIsAhead(archive, UnderWay, reader.saved)', OfferIsAhead',
             ~recorder.stop =>
               \A n \in 1..previous : AllNamed(archive', UnderWay', <<p.boot, n>>),
             \A i \in DOMAIN s : ~InGap(archive', UnderWay', <<p.boot, s[i]>>)
      PROVE  LogInv'
  <2>1. PreviousIsNamed'
    BY <1>1, <1>3 DEF PreviousIsNamed
  <2>2. ASSUME NEW i \in DOMAIN s
        PROVE  /\ ~InGap(archive', UnderWay', <<p.boot, s[i]>>)
               /\ s[i] > BeforeRecord(i)' + 1 /\ p.boot = ring.boot => s[i] <= Oldest
    <3>1. ~InGap(archive', UnderWay', <<p.boot, s[i]>>)
      BY <1>3
    <3>2. CASE i > 1
      <4>1. BeforeRecord(i)' = BeforeRecord(i)
        BY <1>3, <3>2 DEF BeforeRecord
      <4> QED BY <1>1, <3>1, <4>1 DEF PageIsRight
    <3>3. CASE ~(i > 1)
      <4>1. BeforeRecord(i)' = previous /\ BeforeRecord(i) = a
        BY <1>1, <1>3, <3>3 DEF BeforeRecord
      <4>2. s[i] > a + 1 /\ p.boot = ring.boot => s[i] <= Oldest
        BY <1>1, <4>1 DEF PageIsRight
      <4> QED BY <1>2, <1>3, <3>1, <4>1, <4>2
    <3> QED BY <3>2, <3>3
  <2>3. PageIsRight'
    BY <1>1, <1>3, <2>2 DEF PageIsRight
  <2> QED BY <1>1, <1>3, <2>1, <2>3, ReaderMoves
<1>4. CASE p.oldest > a + 1
  <2> DEFINE last == p.oldest - 1
             offer == GapEvent(a + 1, last)
  <2>1. /\ last \in Nat /\ last \in 0..MaxSeq /\ last <= MaxSeq /\ a + 1 \in Nat /\ a + 1 > a
        /\ last >= a /\ (p.boot = ring.boot => last < Oldest)
    BY <1>1, <1>2, <1>4, LogAssumption DEF PageIsRight
  <2>2. reader' = [reader EXCEPT !.pc = "record", !.previous = last, !.offer = offer]
    BY <1>4 DEF ChecksPage
  <2> HIDE DEF offer, last
  <2>3. reader'.offer = offer /\ reader'.saved = reader.saved
    BY <1>2, <2>2 DEF ReaderState
  <2>4. reader'.offer = GapEvent(a + 1, last)
    BY <2>3 DEF offer
  <2>5. /\ Oldest' = Oldest /\ reader'.offer \in Event \cup {NoEvent}
        /\ Intact(archive, UnderWay)' /\ RingIsAhead(archive, UnderWay)'
        /\ SavedIsAhead(archive, UnderWay, reader.saved)'
        /\ \A id : AllNamed(archive, UnderWay, id) => AllNamed(archive', UnderWay', id)
        /\ ~recorder.stop => \A n \in (a + 1)..last : AllNamed(archive', UnderWay', <<p.boot, n>>)
        /\ \A id : InGap(archive', UnderWay', id) =>
             InGap(archive, UnderWay, id) \/ (id[1] = p.boot /\ id[2] <= last)
        /\ \A id \in reader'.offer.ids :
             id[1] = reader.saved.boot /\ id[2] > a
    <3> HIDE DEF p
    <3>1. reader.pc # "ended" /\ reader.saved.boot = reader.page.boot
      BY <1>1 DEF p
    <3>2. reader.page.boot = ring.boot => last < Oldest
      BY <2>1 DEF p
    <3> QED BY <1>1, <2>1, <2>3, <2>4, <3>1, <3>2, GapIsOffered DEF p
  <2>6. /\ reader' \in ReaderState /\ reader'.pc = "record" /\ reader'.page = p
        /\ reader'.previous = last
    BY <1>2, <2>1, <2>2, <2>3, <2>5 DEF ReaderState
  <2>7. OfferIsAhead'
    BY <2>3, <2>5, <2>6 DEF OfferIsAhead
  <2>8. ~recorder.stop => \A n \in 1..last : AllNamed(archive', UnderWay', <<p.boot, n>>)
    <3> SUFFICES ASSUME ~recorder.stop, NEW n \in 1..last
                 PROVE  AllNamed(archive', UnderWay', <<p.boot, n>>)
      OBVIOUS
    <3>1. CASE n <= a
      BY <1>1, <1>2, <2>1, <2>5, <3>1 DEF SavedIsAhead
    <3>2. CASE n > a
      BY <1>2, <2>1, <2>5, <3>2
    <3> QED BY <1>2, <2>1, <3>1, <3>2
  <2>9. ASSUME NEW i \in DOMAIN s, InGap(archive', UnderWay', <<p.boot, s[i]>>) PROVE FALSE
    <3>1. ~InGap(archive, UnderWay, <<p.boot, s[i]>>) /\ s[i] >= p.oldest
      BY <1>1 DEF PageIsRight
    <3>2. <<p.boot, s[i]>>[2] <= last
      BY <2>5, <2>9, <3>1
    <3> QED BY <1>2, <3>1, <3>2 DEF last
  <2> QED BY <1>3, <2>1, <2>3, <2>5, <2>6, <2>7, <2>8, <2>9 DEF last
<1>5. CASE ~(p.oldest > a + 1)
  <2>1. reader' = [reader EXCEPT !.pc = "record", !.previous = a]
    BY <1>5 DEF ChecksPage
  <2>2. /\ reader' \in ReaderState /\ reader'.pc = "record" /\ reader'.page = p
        /\ reader'.previous = a /\ reader'.saved = reader.saved /\ reader'.offer = NoEvent
    BY <1>1, <1>2, <2>1 DEF ReaderState
  <2>3. /\ UnderWay' = UnderWay /\ Oldest' = Oldest
        /\ Intact(archive, UnderWay)' /\ RingIsAhead(archive, UnderWay)'
    BY <1>1, <2>2, NothingIsOffered
  <2>4. SavedIsAhead(archive, UnderWay, reader.saved)'
    BY <1>1, <2>2, <2>3 DEF SavedIsAhead
  <2>5. OfferIsAhead'
    BY <2>2, NoEventIsNone DEF OfferIsAhead
  <2>6. /\ \A n \in 1..a : AllNamed(archive', UnderWay', <<p.boot, n>>)
        /\ \A i \in DOMAIN s : ~InGap(archive', UnderWay', <<p.boot, s[i]>>)
    BY <1>1, <2>3 DEF SavedIsAhead, PageIsRight
  <2> QED BY <1>2, <1>3, <2>2, <2>3, <2>4, <2>5, <2>6
<1> QED BY <1>4, <1>5

LEMMA SeesGapKeepsInv ==
  ASSUME LogInv, SeesGap
  PROVE  LogInv'
<1> DEFINE p == reader.page
           s == p.records
           h == s[1]
           b == reader.previous
           last == h - 1
<1>1. /\ LogTypeOK /\ reader.offer = NoEvent /\ reader.pc = "record" /\ s # <<>>
      /\ PageIsRight /\ PreviousIsNamed
      /\ UNCHANGED <<ring, queue, recorder, archive, logMishaps>>
      /\ SavedIsAhead(archive, UnderWay, reader.saved)
  BY DEF SeesGap, Expects, Reads, LogInv, ReaderIsRight
<1>2. /\ b \in Nat /\ reader.saved.after \in Nat /\ reader.saved.after <= b
      /\ p.boot = reader.saved.boot /\ reader \in ReaderState /\ Oldest \in Nat
      /\ s \in Seq(SeqNo)
      /\ \A i \in DOMAIN s : s[i] \in Nat /\ s[i] <= MaxSeq /\ i \in Nat /\ i >= 1
  <2>1. \A i \in DOMAIN s : s[i] \in Nat /\ s[i] <= MaxSeq /\ i \in Nat /\ i >= 1
    BY <1>1, RecordFields, LogAssumption DEF SeqNo
  <2>2. reader.saved.after <= b /\ p.boot = reader.saved.boot
    BY <1>1, ReaderFields DEF PreviousIsNamed
  <2>3. reader \in ReaderState
    BY <1>1 DEF LogTypeOK
  <2> QED BY <1>1, <2>1, <2>2, <2>3, ReaderFields, RingFields
<1>3. h = Head(s) /\ 1 \in DOMAIN s
  <2>1. Len(s) # 0 /\ DOMAIN s = 1..Len(s) /\ Len(s) \in Nat
    BY <1>1, <1>2, LenProperties, EmptySeq
  <2> QED BY <1>2, <2>1
<1>4. /\ h > b + 1 /\ reader' = [reader EXCEPT !.previous = last, !.offer = GapEvent(b + 1, last)]
  BY <1>3 DEF SeesGap, Overtaken, HeadRecord
<1>5. /\ last \in Nat /\ last \in 0..MaxSeq /\ last <= MaxSeq /\ b + 1 \in Nat
      /\ b + 1 > reader.saved.after /\ last >= b /\ last < h
  <2>1. h \in Nat /\ h <= MaxSeq
    BY <1>2, <1>3
  <2> HIDE DEF h
  <2> QED BY <1>2, <1>4, <2>1, LogAssumption
<1>6. p.boot = ring.boot => last < Oldest
  <2>1. BeforeRecord(1) = b
    BY <1>1 DEF BeforeRecord
  <2>2. h > BeforeRecord(1) + 1 /\ p.boot = ring.boot => h <= Oldest
    BY <1>1, <1>3 DEF PageIsRight
  <2>3. h \in Nat
    BY <1>2, <1>3
  <2> HIDE DEF h
  <2> QED BY <1>2, <1>4, <2>1, <2>2, <2>3
<1> HIDE DEF last
<1>7. reader'.offer = GapEvent(b + 1, last) /\ reader'.saved = reader.saved
  BY <1>2, <1>4 DEF ReaderState
<1>8. /\ Oldest' = Oldest /\ reader'.offer \in Event \cup {NoEvent}
      /\ Intact(archive, UnderWay)' /\ RingIsAhead(archive, UnderWay)'
      /\ SavedIsAhead(archive, UnderWay, reader.saved)'
      /\ \A id : AllNamed(archive, UnderWay, id) => AllNamed(archive', UnderWay', id)
      /\ ~recorder.stop => \A n \in (b + 1)..last : AllNamed(archive', UnderWay', <<p.boot, n>>)
      /\ \A id : InGap(archive', UnderWay', id) =>
           InGap(archive, UnderWay, id) \/ (id[1] = p.boot /\ id[2] <= last)
      /\ \A id \in reader'.offer.ids :
           id[1] = reader.saved.boot /\ id[2] > reader.saved.after
  BY <1>1, <1>2, <1>5, <1>6, <1>7, GapIsOffered
<1>9. /\ reader' \in ReaderState /\ reader'.pc = "record" /\ reader'.page = p
      /\ reader'.previous = last
  BY <1>1, <1>2, <1>4, <1>5, <1>7, <1>8 DEF ReaderState
<1>10. OfferIsAhead'
  BY <1>7, <1>8, <1>9 DEF OfferIsAhead
<1>11. PreviousIsNamed'
  <2> SUFFICES ASSUME ~recorder.stop, NEW n \in 1..last
               PROVE  AllNamed(archive', UnderWay', <<p.boot, n>>)
    BY <1>1, <1>2, <1>5, <1>7, <1>9 DEF PreviousIsNamed
  <2>1. CASE n <= b
    BY <1>1, <1>2, <1>8, <2>1 DEF PreviousIsNamed
  <2>2. CASE n > b
    BY <1>2, <1>5, <1>8, <2>2
  <2> QED BY <1>2, <1>5, <2>1, <2>2
<1>12. ASSUME NEW i \in DOMAIN s
       PROVE  /\ ~InGap(archive', UnderWay', <<p.boot, s[i]>>)
              /\ s[i] > BeforeRecord(i)' + 1 /\ p.boot = ring.boot => s[i] <= Oldest
  <2>1. s[i] >= h
    <3>1. i = 1 \/ 1 < i
      BY <1>2
    <3>2. 1 < i => s[1] < s[i]
      BY <1>1, <1>3 DEF PageIsRight
    <3> QED BY <1>2, <1>3, <3>1, <3>2
  <2>2. ~InGap(archive', UnderWay', <<p.boot, s[i]>>)
    <3>1. ~InGap(archive, UnderWay, <<p.boot, s[i]>>)
      BY <1>1 DEF PageIsRight
    <3>2. <<p.boot, s[i]>>[2] = s[i] /\ ~(s[i] <= last)
      BY <1>2, <1>3, <1>5, <2>1
    <3> QED BY <1>8, <3>1, <3>2
  <2>3. CASE i > 1
    <3>1. BeforeRecord(i)' = BeforeRecord(i)
      BY <1>9, <2>3 DEF BeforeRecord
    <3> QED BY <1>1, <2>2, <3>1 DEF PageIsRight
  <2>4. CASE ~(i > 1)
    <3>1. BeforeRecord(i)' = last /\ i = 1
      BY <1>2, <1>9, <2>4 DEF BeforeRecord
    <3>2. ~(s[i] > last + 1)
      BY <1>2, <1>3, <3>1 DEF last
    <3> QED BY <2>2, <3>1, <3>2
  <2> QED BY <2>3, <2>4
<1>13. PageIsRight'
  BY <1>1, <1>7, <1>8, <1>9, <1>12 DEF PageIsRight
<1> QED BY <1>1, <1>8, <1>9, <1>10, <1>11, <1>13, ReaderMoves

LEMMA TakesRecordKeepsInv ==
  ASSUME LogInv, TakesRecord
  PROVE  LogInv'
<1> DEFINE p == reader.page
           s == p.records
           h == s[1]
           b == reader.previous
           c == [boot |-> p.boot, after |-> h]
           e == RowOf(c)
           t == Tail(s)
           q == [p EXCEPT !.records = t]
<1>1. /\ LogTypeOK /\ reader.offer = NoEvent /\ reader.pc = "record" /\ s # <<>>
      /\ PageIsRight /\ PreviousIsNamed
      /\ UNCHANGED <<ring, queue, recorder, archive, logMishaps>>
      /\ SavedIsAhead(archive, UnderWay, reader.saved)
  BY DEF TakesRecord, Expects, Reads, LogInv, ReaderIsRight
<1>2. /\ b \in Nat /\ reader.saved.after \in Nat /\ reader.saved.after <= b
      /\ p.boot = reader.saved.boot /\ reader \in ReaderState /\ Oldest \in Nat
      /\ p.boot \in Boot /\ p.boot \in Nat /\ p.boot <= ring.boot /\ ring.boot \in Nat
      /\ s \in Seq(SeqNo) /\ p \in PageType /\ p.boot > 0
      /\ \A i \in DOMAIN s : s[i] \in Nat /\ s[i] <= MaxSeq /\ s[i] >= 1 /\ i \in Nat /\ i >= 1
  <2>1. \A i \in DOMAIN s :
          s[i] \in Nat /\ s[i] <= MaxSeq /\ s[i] >= 1 /\ i \in Nat /\ i >= 1
    BY <1>1, RecordFields, LogAssumption DEF SeqNo
  <2>2. reader.saved.after <= b /\ p.boot = reader.saved.boot /\ p.boot \in 1..ring.boot
    BY <1>1, ReaderFields DEF PreviousIsNamed, PageIsRight
  <2>3. reader \in ReaderState
    BY <1>1 DEF LogTypeOK
  <2>4. p.boot \in Nat /\ ring.boot \in Nat /\ p.boot <= ring.boot /\ p.boot > 0
    BY <1>1, <2>2, ReaderFields, RingFields
  <2> QED BY <1>1, <2>1, <2>2, <2>3, <2>4, ReaderFields, RingFields
<1>3. /\ h = Head(s) /\ 1 \in DOMAIN s
      /\ t \in Seq(SeqNo) /\ Len(s) \in Nat /\ \A i \in DOMAIN t :
           /\ t[i] = s[i + 1] /\ i + 1 \in DOMAIN s /\ i \in DOMAIN s /\ i \in Nat /\ i >= 1
           /\ i > 1 => i - 1 \in DOMAIN t /\ t[i - 1] = s[i]
  <2>1. Len(s) # 0 /\ DOMAIN s = 1..Len(s) /\ Len(s) \in Nat
    BY <1>1, <1>2, LenProperties, EmptySeq
  <2>2. /\ t \in Seq(SeqNo) /\ Len(t) = Len(s) - 1 /\ \A i \in 1..Len(t) : t[i] = s[i + 1]
    BY <1>1, <1>2, HeadTailProperties
  <2>3. DOMAIN t = 1..(Len(s) - 1)
    BY <2>1, <2>2, LenProperties
  <2>4. h = Head(s) /\ 1 \in DOMAIN s
    BY <1>2, <2>1
  <2> HIDE DEF t, s
  <2>5. ASSUME NEW i \in DOMAIN t
        PROVE  /\ t[i] = s[i + 1] /\ i + 1 \in DOMAIN s /\ i \in DOMAIN s /\ i \in Nat /\ i >= 1
               /\ i > 1 => i - 1 \in DOMAIN t /\ t[i - 1] = s[i]
    <3>1. i \in Nat /\ i >= 1 /\ i <= Len(s) - 1 /\ i \in 1..Len(t)
      BY <2>1, <2>2, <2>3
    <3>2. i > 1 => i - 1 \in 1..Len(t) /\ i - 1 \in DOMAIN t /\ i - 1 + 1 = i
      BY <2>1, <2>2, <2>3, <3>1
    <3> QED BY <2>1, <2>2, <3>1, <3>2
  <2> QED BY <2>1, <2>2, <2>4, <2>5
<1>4. h > b /\ h <= b + 1 /\ h \in Nat /\ b = h - 1
  <2>1. h \in Nat
    BY <1>2, <1>3
  <2>2. Valid /\ ~Overtaken /\ HeadRecord = h
    BY <1>3 DEF TakesRecord, HeadRecord
  <2>3. b < h /\ ~(h > b + 1)
    BY <2>2 DEF Overtaken, Valid
  <2> HIDE DEF h
  <2> QED BY <1>2, <2>1, <2>3
<1>5. CASE recorder.stop
  <2>1. reader' = EndedReader
    BY <1>5 DEF TakesRecord
  <2> QED BY <1>1, <2>1, ReaderEnds DEF LogTypeOK
<1>6. CASE ~recorder.stop
  <2>1. reader' = [reader EXCEPT !.saved = c, !.previous = h, !.page = q, !.offer = e]
    <3>1. reader' = [reader EXCEPT !.saved = c, !.previous = h, !.page.records = Tail(@),
                                   !.offer = RowOf(c)]
      BY <1>3, <1>6 DEF TakesRecord, HeadRecord
    <3>2. [reader EXCEPT !.saved = c, !.previous = h, !.page.records = Tail(@),
                         !.offer = RowOf(c)]
          = [reader EXCEPT !.saved = c, !.previous = h, !.page = q, !.offer = RowOf(c)]
      BY <1>1, ReaderFields
    <3> QED BY <3>1, <3>2
  <2>2. /\ c \in Cursor /\ c.boot = p.boot /\ c.after = h /\ c # NoCursor /\ IsCursor(c)
        /\ h \in 0..MaxSeq
    BY <1>2, <1>3, <1>4, LogAssumption DEF Cursor, NoCursor, IsCursor
  <2>3. /\ e.kind = "row" /\ e.ids = {<<p.boot, h>>} /\ e.cursor = c /\ e \in Event
        /\ IsRow(e) /\ ~IsGap(e) /\ IsMarked(e) /\ WholeEvent(e)
    <3>1. <<p.boot, h>> \in RecordId
      BY <1>2, <1>3, <1>4, <2>2 DEF RecordId, SeqNo
    <3>2. e = EventOfKind("row", {<<p.boot, h>>}, c)
      BY DEF RowOf
    <3>3. e.kind = "row" /\ e.ids = {<<p.boot, h>>} /\ e.cursor = c /\ e \in Event
      BY <2>2, <3>1, <3>2 DEF EventOfKind, Event
    <3> HIDE DEF e
    <3> QED BY <1>2, <1>4, <2>2, <3>3 DEF IsRow, IsGap, IsMarked, WholeEvent
  <2>4. q \in PageType /\ q.boot = p.boot /\ q.oldest = p.oldest /\ q.records = t
    BY <1>2, <1>3 DEF PageType
  <2> HIDE DEF c, e, q, t
  <2>5. /\ reader' \in ReaderState /\ reader'.pc = "record" /\ reader'.saved = c
        /\ reader'.page = q /\ reader'.previous = h /\ reader'.offer = e
    BY <1>1, <1>2, <2>1, <2>2, <2>3, <2>4 DEF ReaderState
  <2>6. /\ NotAfter(c, Newest)
        /\ \A d : IsCursor(d) /\ NotAfter(d, reader.saved) => Before(d, c) /\ NotAfter(d, c)
    <3>1. NotAfter(c, Newest)
      BY <1>2, <1>3, <2>2 DEF NotAfter, Newest
    <3> QED BY <1>2, <1>4, <2>2, <3>1 DEF NotAfter, Before, IsCursor
  <2>7. IsCursor(archive.cursor) /\ \A i \in DOMAIN UnderWay : IsCursor(UnderWay[i].cursor)
    <3>1. \A i \in DOMAIN UnderWay : UnderWay[i] \in Event
      BY <1>1, LogFields, ElementOfSeq, LenProperties
    <3> QED BY <1>1, <3>1, LogFields, ArchiveFields, EventFields DEF IsCursor
  <2>8. /\ Before(archive.cursor, c) /\ NotAfter(archive.cursor, c) /\ NotAfter(c, c)
        /\ \A i \in DOMAIN UnderWay : IsMarked(UnderWay[i]) =>
             Before(UnderWay[i].cursor, c) /\ NotAfter(UnderWay[i].cursor, c)
    BY <1>1, <2>2, <2>6, <2>7, CursorsAreOrdered DEF SavedIsAhead
  <2>9. /\ \A n \in 1..(c.after - 1) : AllNamed(archive, UnderWay, <<c.boot, n>>)
        /\ \A id \in e.ids : ~InGap(archive, UnderWay, id)
    <3>1. \A n \in 1..b : AllNamed(archive, UnderWay, <<p.boot, n>>)
      BY <1>1, <1>6 DEF PreviousIsNamed
    <3>2. ~InGap(archive, UnderWay, <<p.boot, h>>)
      BY <1>1, <1>3 DEF PageIsRight
    <3> QED BY <1>4, <2>2, <2>3, <3>1, <3>2
  <2>10. /\ Oldest' = Oldest
         /\ Intact(archive, UnderWay)' /\ RingIsAhead(archive, UnderWay)'
         /\ \A id : AllNamed(archive', UnderWay', id) <=>
                      AllNamed(archive, UnderWay, id) \/ id \in e.ids
         /\ \A id : InGap(archive', UnderWay', id) <=>
                      InGap(archive, UnderWay, id) \/ (IsGap(e) /\ id \in e.ids)
         /\ \A saved :
              /\ \A i \in DOMAIN UnderWay :
                   IsMarked(UnderWay[i]) => NotAfter(UnderWay[i].cursor, saved)
              /\ IsMarked(e) => NotAfter(e.cursor, saved)
              => \A i \in DOMAIN UnderWay' :
                   IsMarked(UnderWay'[i]) => NotAfter(UnderWay'[i].cursor, saved)
    BY <1>1, <2>3, <2>5, <2>6, <2>8, <2>9, EventIsOffered
  <2>11. \A n \in 1..h : AllNamed(archive', UnderWay', <<p.boot, n>>)
    <3> SUFFICES ASSUME NEW n \in 1..h PROVE AllNamed(archive', UnderWay', <<p.boot, n>>)
      OBVIOUS
    <3>1. CASE n = h
      BY <2>3, <2>10, <3>1
    <3>2. CASE n # h
      <4>1. n \in 1..(c.after - 1)
        BY <1>4, <2>2, <3>2
      <4> QED BY <2>2, <2>9, <2>10, <4>1
    <3> QED BY <3>1, <3>2
  <2>12. SavedIsAhead(archive, UnderWay, reader.saved)'
    BY <1>1, <1>2, <2>2, <2>3, <2>5, <2>8, <2>10, <2>11 DEF SavedIsAhead
  <2>13. OfferIsAhead'
    BY <2>3, <2>5 DEF OfferIsAhead
  <2>14. PreviousIsNamed'
    BY <1>4, <2>2, <2>4, <2>5, <2>11 DEF PreviousIsNamed
  <2>15. ASSUME NEW i \in DOMAIN t
         PROVE  /\ t[i] >= p.oldest /\ ~InGap(archive', UnderWay', <<p.boot, t[i]>>)
                /\ t[i] > BeforeRecord(i)' + 1 /\ p.boot = ring.boot => t[i] <= Oldest
    <3>1. BeforeRecord(i)' = BeforeRecord(i + 1)
      <4>1. BeforeRecord(i + 1) = s[i]
        <5>1. i + 1 > 1 /\ (i + 1) - 1 = i
          BY <1>3
        <5> QED BY <5>1 DEF BeforeRecord
      <4>2. CASE i > 1
        BY <1>3, <2>4, <2>5, <4>1, <4>2 DEF BeforeRecord
      <4>3. CASE ~(i > 1)
        <5>1. i = 1
          BY <1>3, <4>3
        <5> QED BY <2>5, <4>1, <5>1 DEF BeforeRecord
      <4> QED BY <4>2, <4>3
    <3>2. i + 1 \in DOMAIN s /\ t[i] = s[i + 1]
      BY <1>3
    <3> QED BY <1>1, <2>3, <2>10, <3>1, <3>2 DEF PageIsRight
  <2>16. \A i, j \in DOMAIN t : i < j => t[i] < t[j]
    <3> SUFFICES ASSUME NEW i \in DOMAIN t, NEW j \in DOMAIN t, i < j PROVE t[i] < t[j]
      OBVIOUS
    <3>1. /\ i + 1 \in DOMAIN s /\ j + 1 \in DOMAIN s /\ i + 1 < j + 1
          /\ t[i] = s[i + 1] /\ t[j] = s[j + 1]
      BY <1>3
    <3> QED BY <1>1, <3>1 DEF PageIsRight
  <2>17. PageIsRight'
    <3>1. p.boot \in 1..ring.boot /\ (p.boot = ring.boot => p.oldest <= Oldest)
      BY <1>1 DEF PageIsRight
    <3>2. c.boot <= p.boot
      BY <1>2, <2>2
    <3> HIDE DEF p, s
    <3> QED BY <1>1, <2>4, <2>5, <2>10, <2>15, <2>16, <3>1, <3>2 DEF PageIsRight
  <2> QED BY <1>1, <2>5, <2>10, <2>12, <2>13, <2>14, <2>17, ReaderMoves
<1> QED BY <1>5, <1>6

-----------------------------------------------------------------------------
(* LogArchive: the invariant.                                               *)

LEMMA InitLogInv ==
  ASSUME LogInit
  PROVE  LogInv
<1>1. NoCursor \in Cursor /\ NoCursor.boot = 0 /\ NoCursor.after = 0
  BY LogAssumption DEF NoCursor, Cursor, Boot
<1>2. /\ ring = [boot |-> 1, next |-> 1] /\ ring.boot = 1
      /\ ring \in [boot : Boot, next : 1..(MaxSeq + 1)]
  BY LogAssumption DEF LogInit, Boot
<1>3. /\ reader \in ReaderState /\ reader.pc = "ask" /\ reader.saved = NoCursor
      /\ reader.offer = NoEvent
  <2>1. reader = NewReader(NoCursor)
    BY DEF LogInit
  <2> QED BY <1>1, <2>1, NewReaderType DEF NewReader
<1>4. /\ recorder \in RecorderState /\ recorder.pc = "run" /\ recorder.batch = <<>>
  <2>1. <<>> \in Seq(Event)
    OBVIOUS
  <2> QED BY <2>1 DEF LogInit, NewRecorder, RecorderState
<1>5. queue = <<>> /\ queue \in Seq(Event) /\ Len(queue) = 0 /\ UnderWay = <<>>
  <2>1. queue = <<>> /\ UnderWay = <<>> \o <<>>
    BY <1>3, <1>4 DEF LogInit, UnderWay, Pipe
  <2>2. <<>> \in Seq(Event) /\ <<>> \o <<>> = <<>>
    BY ConcatEmptySeq
  <2> QED BY <2>1, <2>2, EmptySeq
<1>6. /\ archive \in Archive /\ archive.rows = {} /\ archive.gaps = {}
      /\ archive.cursor = NoCursor
  BY <1>1 DEF LogInit, Archive
<1>7. LogTypeOK
  BY <1>2, <1>3, <1>4, <1>5, <1>6, LogAssumption DEF LogTypeOK, LogInit
<1>8. DOMAIN <<>> = {}
  OBVIOUS
<1>9. Intact(archive, UnderWay)
  <2>1. RowsAreNext(archive, UnderWay) /\ CursorsGrow(archive, UnderWay) /\ Apart(archive, UnderWay)
    BY <1>5, <1>8 DEF RowsAreNext, CursorsGrow, Apart
  <2>2. RowsAreBehind(archive)
    BY <1>1, <1>6 DEF RowsAreBehind
  <2> QED BY <1>5, <1>6, <1>8, <2>1, <2>2 DEF Intact
<1>10. RingIsAhead(archive, UnderWay)
  BY <1>1, <1>2, <1>5, <1>6, <1>8
     DEF RingIsAhead, GapsAreOverwritten, InGap, CursorsAreKnown, NotAfter, Newest
<1>11. ReaderIsRight
  <2>1. SavedIsAhead(archive, UnderWay, reader.saved)
    BY <1>1, <1>2, <1>3, <1>5, <1>6, <1>8 DEF SavedIsAhead, NotAfter
  <2> QED BY <1>3, <2>1, NoEventIsNone DEF ReaderIsRight, OfferIsAhead
<1>12. RecorderIsRight
  BY <1>4 DEF RecorderIsRight
<1> QED BY <1>2, <1>7, <1>9, <1>10, <1>11, <1>12 DEF LogInv

LEMMA LogStepKeepsInv ==
  ASSUME LogInv, [LogNext]_logVars
  PROVE  LogInv'
<1>1. CASE UNCHANGED logVars
  <2>1. UNCHANGED <<ring, reader, queue, recorder, archive, logMishaps>>
    BY <1>1 DEF logVars
  <2>2. /\ Intact(archive, UnderWay)' /\ RingIsAhead(archive, UnderWay)'
        /\ ReaderIsRight'
    <3>1. UnderWay' = UnderWay
      BY <2>1 DEF UnderWay, Pipe
    <3> QED BY <2>1, <3>1, EventsStay
  <2>3. LogTypeOK' /\ ring'.boot > 0 /\ RecorderIsRight'
    BY <2>1 DEF LogInv, LogTypeOK, RecorderIsRight
  <2> QED BY <2>2, <2>3 DEF LogInv
<1>2. CASE Logs \/ LogDeviceReboots
  BY <1>2, LogsKeepsInv, RebootKeepsInv
<1>3. CASE DeviceLogSteps
  BY <1>3, TakesStatsKeepsInv, ReadsRecordKeepsInv, SendsPageKeepsInv DEF DeviceLogSteps
<1>4. CASE RequestFails \/ Asks \/ WaitIsOver \/ RefusesRecord \/ EndsPage
  BY <1>4, ReaderGoesOnKeepsInv
<1>5. CASE SeesBoot \/ ChecksPage \/ SeesGap \/ TakesRecord
  BY <1>5, SeesBootKeepsInv, ChecksPageKeepsInv, SeesGapKeepsInv, TakesRecordKeepsInv
<1>6. CASE PutSucceeds \/ PutFails
  BY <1>6, PutSucceedsKeepsInv, PutFailsKeepsInv
<1>7. CASE TakesBatch \/ Writes \/ Flushes
  BY <1>7, TakesBatchKeepsInv, WritesKeepsInv, FlushesKeepsInv
<1>8. CASE IsTerminated \/ BeginsShutdown \/ JoinsThreads \/ Stops
  BY <1>8, ShutdownKeepsInv
<1>9. CASE Dies \/ ServiceRestarts \/ ServiceStarts
  BY <1>9, DiesKeepsInv, StartsKeepsInv
<1> QED
  BY <1>1, <1>2, <1>3, <1>4, <1>5, <1>6, <1>7, <1>8, <1>9
     DEF LogNext, ReaderSteps, WriterSteps

(* What the invariant is for.                                               *)
LEMMA LogInvIsEnough == LogInv => NothingIsLostSilently /\ LogTypeOK
BY DEF LogInv, Intact, NothingIsLostSilently

-----------------------------------------------------------------------------
(* Services: the parts side by side.                                        *)

(* A step of the services is one of one part, or none, to each part.        *)
LEMMA PartsMove ==
  ASSUME [ServicesNext]_servicesVars
  PROVE  /\ [LogNext]_logVars /\ [CollectorNext]_collectorVars /\ [WatchNext]_watchVars
         /\ UNCHANGED part
BY DEF ServicesNext, servicesVars, InPart

(* The invariants of the parts.                                             *)
ServicesInv == part \in Part /\ LogInv /\ CollectorInv /\ WatchInv

LEMMA InitServicesInv ==
  ASSUME ServicesInit
  PROVE  ServicesInv
BY InitLogInv, InitCollectorInv, InitWatchInv DEF ServicesInit, ServicesInv

LEMMA ServicesStepKeepsInv ==
  ASSUME ServicesInv, [ServicesNext]_servicesVars
  PROVE  ServicesInv'
<1>1. /\ [LogNext]_logVars /\ [CollectorNext]_collectorVars /\ [WatchNext]_watchVars
      /\ UNCHANGED part
  BY PartsMove
<1> QED
  BY <1>1, LogStepKeepsInv, CollectorStepKeepsInv, WatchStepIsDue DEF ServicesInv

LEMMA ServicesAreRight == ServicesSpec => []ServicesInv
<1>1. ServicesInit => ServicesInv
  BY InitServicesInv
<1>2. ServicesInv /\ [ServicesNext]_servicesVars => ServicesInv'
  BY ServicesStepKeepsInv
<1> QED BY <1>1, <1>2, PTL DEF ServicesSpec

(* The types of all the variables are kept.                                 *)
THEOREM ServicesAreTyped == ServicesSpec => []ServicesTypeOK
<1>1. ServicesInv => ServicesTypeOK
  BY DEF ServicesInv, ServicesTypeOK, LogInv, CollectorInv, WatchInv
<1> QED BY <1>1, ServicesAreRight, PTL

(* NothingIsLostSilently holds for any ring, page, queue and number of      *)
(* boots and mishaps: whatever is overwritten while a page is built or      *)
(* sent, and wherever the device, the reader and the writer stop and start  *)
(* anew, every record before one in the archive is there or named by a gap. *)
THEOREM LogIsComplete == ServicesSpec => []NothingIsLostSilently
<1>1. ServicesInv => NothingIsLostSilently
  BY LogInvIsEnough DEF ServicesInv
<1> QED BY <1>1, ServicesAreRight, PTL

(* AvailableIsCurrent holds for any number of apps and events and any       *)
(* length of the broker's queue: once everything is delivered, what Home    *)
(* Assistant sees as available is what the last poll found, or nothing      *)
(* while an app settles.                                                    *)
THEOREM ShownIsCurrent == ServicesSpec => []AvailableIsCurrent
<1>1. ServicesInv => AvailableIsCurrent
  BY DeliveredIsCurrent DEF ServicesInv
<1> QED BY <1>1, ServicesAreRight, PTL

(* SettledBeforeShown holds for any guard: no app is shown after a break    *)
(* before every poll for as long as the guard lasts has found it.           *)
THEOREM NothingIsShownEarly == ServicesSpec => SettledBeforeShown
<1>1. ServicesInv =>
        [\A a \in Apps :
           PollsAccepted(a) /\ (seen.broken \/ (seen.unclearAge # Never /\ seen.unclearAge > Ambiguity))
             => seen.last = a /\ seen.steady >= Settle]_collectorVars
  BY AcceptedHasSettled DEF ServicesInv
<1> QED BY <1>1, ServicesAreRight, PTL DEF SettledBeforeShown

(* The sensor implements ForegroundSource: it starts as that does, and      *)
(* every step of the collector, of the broker and of the network is one of  *)
(* that or leaves the sensor as it is.                                      *)
THEOREM SensorIsRight == ServicesSpec => SensorIsSource
<1>1. ServicesInit => Sensor!SourceInit
  BY DEF ServicesInit, CollectorInit, SourceInit, Sensor!SourceInit
<1>2. ServicesInv /\ [ServicesNext]_servicesVars => [Sensor!SourceNext]_fg
  BY PartsMove, CollectorStepKeepsInv DEF ServicesInv
<1> QED BY <1>1, <1>2, ServicesAreRight, PTL DEF ServicesSpec, SensorIsSource, Sensor!SourceSpec

(* RestartsAreDue holds for any absence, pauses and number of attempts:     *)
(* tunneld is restarted only after a whole absence and a whole pause.       *)
THEOREM RestartsNeedAbsence == ServicesSpec => RestartsAreDue
<1>1. ServicesInv /\ [ServicesNext]_servicesVars =>
        [RestartRequested =>
           /\ since.trouble >= Absence
           /\ since.restarts = 0 \/ since.restart >= Backoff(since.restarts)]_watchVars
  BY PartsMove, WatchStepIsDue DEF ServicesInv, RestartIsDue
<1> QED BY <1>1, ServicesAreRight, PTL DEF ServicesSpec, RestartsAreDue
=============================================================================
