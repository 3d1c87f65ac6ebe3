---------------------------- MODULE Target_proofs ----------------------------
(***************************************************************************)
(* The first target over an untouched receiver: a burst of planned clicks  *)
(* never takes the receiver past it (PlannedBurstsStopShort), and a target *)
(* that is declared reached is reached (CompletionsAreExact).  The         *)
(* argument counts the clicks in flight: how far a burst has come and how  *)
(* far its clicks on the way can still take it are within what its clicks  *)
(* can do at worst, and that is within the distance it was planned for.    *)
(***************************************************************************)
EXTENDS ControllerSafety_proofs, FiniteSetTheorems

-----------------------------------------------------------------------------
(* Counting the clicks in flight.                                           *)

ClickSet(q) == {i \in DOMAIN q : IsClick(q[i])}
ClickCount(q) == Cardinality(ClickSet(q))

(* They can be counted.                                                     *)
LEMMA ClicksCount ==
  ASSUME NEW q \in Seq(Command)
  PROVE  /\ IsFiniteSet(ClickSet(q)) /\ ClickCount(q) \in Nat
         /\ NoClicks(q) <=> ClickCount(q) = 0
<1>1. DOMAIN q = 1..Len(q) /\ Len(q) \in Nat
  BY LenProperties
<1>2. IsFiniteSet(1..Len(q))
  BY <1>1, FS_Interval
<1>3. IsFiniteSet(ClickSet(q))
  BY <1>1, <1>2, FS_Subset DEF ClickSet
<1>4. ClickCount(q) \in Nat
  BY <1>3, FS_CardinalityType DEF ClickCount
<1>5. NoClicks(q) <=> ClickSet(q) = {}
  BY DEF NoClicks, ClickSet
<1>6. ClickSet(q) = {} <=> ClickCount(q) = 0
  BY <1>3, FS_EmptySet DEF ClickCount
<1> QED BY <1>3, <1>4, <1>5, <1>6

(* One is sent.                                                             *)
LEMMA OneClickSent ==
  ASSUME NEW q \in Seq(Command), NEW c \in Command
  PROVE  ClickCount(Append(q, c)) = IF IsClick(c) THEN ClickCount(q) + 1 ELSE ClickCount(q)
<1> DEFINE a == Append(q, c)
           n == Len(q)
<1>1. /\ n \in Nat /\ DOMAIN q = 1..n /\ DOMAIN a = 1..(n + 1)
      /\ \A i \in 1..(n + 1) : a[i] = IF i <= n THEN q[i] ELSE c
  BY AppendProperties, LenProperties
<1> HIDE DEF a, n
<1>2. n + 1 \notin ClickSet(q) /\ IsFiniteSet(ClickSet(q))
  <2>1. n + 1 \notin DOMAIN q
    BY <1>1
  <2> QED BY <2>1, ClicksCount DEF ClickSet
<1>3. ClickSet(a) = IF IsClick(c) THEN ClickSet(q) \cup {n + 1} ELSE ClickSet(q)
  <2>1. \A i \in 1..n : i \in 1..(n + 1) /\ a[i] = q[i]
    BY <1>1
  <2>2. n + 1 \in 1..(n + 1) /\ a[n + 1] = c
    BY <1>1
  <2>3. 1..(n + 1) = 1..n \cup {n + 1}
    BY <1>1
  <2> QED BY <1>1, <2>1, <2>2, <2>3 DEF ClickSet
<1>4. ClickCount(a) = IF IsClick(c) THEN ClickCount(q) + 1 ELSE ClickCount(q)
  BY <1>2, <1>3, FS_AddElement DEF ClickCount
<1> QED BY <1>4 DEF a

(* One arrives.                                                             *)
LEMMA OneClickArrives ==
  ASSUME NEW q \in Seq(Command), q # <<>>
  PROVE  ClickCount(q) = IF IsClick(Head(q)) THEN ClickCount(Tail(q)) + 1
                         ELSE ClickCount(Tail(q))
<1> DEFINE t == Tail(q)
           R == ClickSet(q) \ {1}
           F == [i \in ClickSet(t) |-> i + 1]
<1>1. /\ Len(q) \in Nat /\ DOMAIN q = 1..Len(q) /\ Len(q) >= 1
      /\ Head(q) = q[1]
      /\ DOMAIN t = 1..(Len(q) - 1)
      /\ \A i \in 1..(Len(q) - 1) : t[i] = q[i + 1]
  BY HeadTailProperties, LenProperties, EmptySeq
<1>2. t \in Seq(Command)
  BY HeadTailProperties
<1>3. /\ IsFiniteSet(ClickSet(q)) /\ ClickCount(q) \in Nat
      /\ IsFiniteSet(ClickSet(t)) /\ ClickCount(t) \in Nat
  BY <1>2, ClicksCount
<1> HIDE DEF t
<1>4. F \in Bijection(ClickSet(t), R)
  <2>1. \A i \in ClickSet(t) : i \in Int /\ i + 1 \in R
    BY <1>1 DEF ClickSet
  <2>2. \A j \in R : j - 1 \in ClickSet(t) /\ (j - 1) + 1 = j
    BY <1>1 DEF ClickSet
  <2>3. F \in [ClickSet(t) -> R]
    BY <2>1
  <2>4. IsInjective(F)
    BY <2>1 DEF IsInjective
  <2>5. \A j \in R : \E i \in ClickSet(t) : F[i] = j
    BY <2>2
  <2> HIDE DEF F, R
  <2> QED BY <2>3, <2>4, <2>5 DEF Bijection, Injection, Surjection
<1>5. Cardinality(R) = ClickCount(t)
  <2>1. ExistsBijection(ClickSet(t), R)
    BY <1>4 DEF ExistsBijection
  <2> HIDE DEF R
  <2> QED BY <1>3, <2>1, FS_Bijection DEF ClickCount
<1>6. Cardinality(R) = IF 1 \in ClickSet(q) THEN ClickCount(q) - 1 ELSE ClickCount(q)
  BY <1>3, FS_RemoveElement DEF ClickCount
<1>7. 1 \in ClickSet(q) <=> IsClick(Head(q))
  BY <1>1 DEF ClickSet
<1>8. ClickCount(q) = IF IsClick(Head(q)) THEN ClickCount(t) + 1 ELSE ClickCount(t)
  <2> HIDE DEF R
  <2> QED BY <1>3, <1>5, <1>6, <1>7
<1> QED BY <1>8 DEF t

(* The clicks in flight go the one way.                                     *)
Way(dir) == IF dir > 0 THEN "up" ELSE "down"
Toward(q, dir) == \A i \in DOMAIN q : IsClick(q[i]) => q[i].kind = Way(dir)

LEMMA OneWay ==
  ASSUME NEW q \in Seq(Command), NEW dir
  PROVE  /\ NoClicks(q) => Toward(q, dir)
         /\ \A c \in Command :
              Toward(q, dir) /\ (IsClick(c) => c.kind = Way(dir)) => Toward(Append(q, c), dir)
         /\ q # <<>> /\ Toward(q, dir) =>
              Toward(Tail(q), dir) /\ (IsClick(Head(q)) => Head(q).kind = Way(dir))
<1>1. NoClicks(q) => Toward(q, dir)
  BY DEF NoClicks, Toward
<1>2. ASSUME NEW c \in Command, Toward(q, dir), IsClick(c) => c.kind = Way(dir)
      PROVE  Toward(Append(q, c), dir)
  BY <1>2, OneCommandMore DEF Toward
<1>3. ASSUME q # <<>>, Toward(q, dir)
      PROVE  Toward(Tail(q), dir) /\ (IsClick(Head(q)) => Head(q).kind = Way(dir))
  BY <1>3, OneCommandGone DEF Toward
<1> QED BY <1>1, <1>2, <1>3

(* What n clicks do at worst.                                               *)
Reach(n) == WorstRaw * n

LEMMA ReachGrows ==
  /\ \A n \in Nat : Reach(n) \in Nat /\ Reach(n + 1) = Reach(n) + WorstRaw
  /\ Reach(0) = 0
  /\ \A m, n \in Nat : m <= n => Reach(m) <= Reach(n)
<1>w. WorstRaw \in Nat
  BY VolumeAssumption
<1>1. \A n \in Nat : Reach(n) \in Nat /\ Reach(n + 1) = Reach(n) + WorstRaw
  BY <1>w DEF Reach
<1>2. Reach(0) = 0
  BY <1>w DEF Reach
<1>3. ASSUME NEW m \in Nat, NEW n \in Nat, m <= n PROVE Reach(m) <= Reach(n)
  <2>1. n - m \in Nat /\ WorstRaw * (n - m) \in Nat
    BY <1>w, <1>3
  <2>2. WorstRaw * n = WorstRaw * m + WorstRaw * (n - m)
    BY <1>w
  <2>3. WorstRaw * m \in Int /\ WorstRaw * n \in Int
    BY <1>w
  <2> QED BY <2>1, <2>2, <2>3 DEF Reach
<1> QED BY <1>1, <1>2, <1>3

-----------------------------------------------------------------------------
(* What reports in flight say of the level.                                 *)

NoVolumes(q) == \A i \in DOMAIN q : q[i].kind # "volume"
AllAt(q, v) == \A i \in DOMAIN q : q[i].kind = "volume" => q[i].raw = v
EndsAt(q, v) ==
  \A i \in DOMAIN q :
    q[i].kind = "volume" /\ (\A j \in DOMAIN q : j > i => q[j].kind # "volume") => q[i].raw = v

(* Reading the oldest report.                                               *)
LEMMA OneLevelRead ==
  ASSUME NEW q \in Seq(Report), q # <<>>
  PROVE  /\ \A v : EndsAt(q, v) => EndsAt(Tail(q), v)
         /\ \A v : AllAt(q, v) => AllAt(Tail(q), v)
         /\ \A v : Head(q).kind = "volume" /\ AllAt(q, v) => Head(q).raw = v
         /\ \A v : (Head(q).kind = "volume" /\ NoVolumes(Tail(q)) /\ EndsAt(q, v))
                      => Head(q).raw = v
         /\ (Head(q).kind # "volume" /\ NoVolumes(Tail(q))) => NoVolumes(q)
<1> DEFINE t == Tail(q)
<1>1. /\ Len(q) \in Nat /\ DOMAIN q = 1..Len(q) /\ Len(q) >= 1
      /\ Head(q) = q[1]
      /\ DOMAIN t = 1..(Len(q) - 1)
      /\ \A i \in 1..(Len(q) - 1) : t[i] = q[i + 1]
  BY HeadTailProperties, LenProperties, EmptySeq
<1> HIDE DEF t
<1>2. ASSUME NEW v, EndsAt(q, v) PROVE EndsAt(t, v)
  <2> SUFFICES ASSUME NEW i \in DOMAIN t, t[i].kind = "volume",
                      \A j \in DOMAIN t : j > i => t[j].kind # "volume"
               PROVE  t[i].raw = v
    BY DEF EndsAt
  <2>1. i + 1 \in DOMAIN q /\ q[i + 1] = t[i]
    BY <1>1
  <2>2. ASSUME NEW j \in DOMAIN q, j > i + 1 PROVE q[j].kind # "volume"
    <3>1. j - 1 \in DOMAIN t /\ j - 1 > i /\ t[j - 1] = q[j]
      BY <1>1, <2>2
    <3> QED BY <3>1
  <2> QED BY <1>2, <2>1, <2>2 DEF EndsAt
<1>3. ASSUME NEW v, AllAt(q, v) PROVE AllAt(t, v)
  BY <1>1, <1>3 DEF AllAt
<1>4. ASSUME NEW v, Head(q).kind = "volume", AllAt(q, v) PROVE Head(q).raw = v
  BY <1>1, <1>4 DEF AllAt
<1>5. ASSUME NEW j \in DOMAIN q, j > 1, NoVolumes(t) PROVE q[j].kind # "volume"
  <2>1. j - 1 \in DOMAIN t /\ t[j - 1] = q[j]
    BY <1>1, <1>5
  <2> QED BY <1>5, <2>1 DEF NoVolumes
<1>6. ASSUME NEW v, Head(q).kind = "volume", NoVolumes(t), EndsAt(q, v)
      PROVE  Head(q).raw = v
  BY <1>1, <1>5, <1>6 DEF EndsAt
<1>7. ASSUME Head(q).kind # "volume", NoVolumes(t) PROVE NoVolumes(q)
  BY <1>1, <1>5, <1>7 DEF NoVolumes
<1> QED BY <1>2, <1>3, <1>4, <1>6, <1>7 DEF t

(* Reports are added, or cut off at the end.                                *)
LEMMA MoreLevels ==
  ASSUME NEW q \in Seq(Report), NEW out \in Seq(Report)
  PROVE  /\ \A v : AllAt(q, v) /\ AllAt(out, v) => AllAt(q \o out, v)
         /\ NoVolumes(q \o out) => NoVolumes(q) /\ NoVolumes(out)
         /\ \A v, next : (EndsAt(q, v) /\ AllAt(out, next) /\ (NoVolumes(out) => v = next))
                            => EndsAt(q \o out, next)
         /\ \A v : \A n \in 0..Len(q) : AllAt(q, v) => AllAt(SubSeq(q, 1, n), v)
<1> DEFINE m == Len(q)
           k == Len(out)
           r == q \o out
<1>1. /\ m \in Nat /\ DOMAIN q = 1..m /\ k \in Nat /\ DOMAIN out = 1..k
      /\ DOMAIN r = 1..(m + k)
      /\ \A i \in 1..(m + k) : r[i] = IF i <= m THEN q[i] ELSE out[i - m]
  BY ConcatProperties, LenProperties
<1>5. \A i \in 1..k : r[m + i] = out[i] /\ m + i \in 1..(m + k) /\ m + i > m
  <2> HIDE DEF r, m, k
  <2> SUFFICES ASSUME NEW i \in 1..k
               PROVE  r[m + i] = out[i] /\ m + i \in 1..(m + k) /\ m + i > m
    OBVIOUS
  <2>1. m + i \in 1..(m + k) /\ ~(m + i <= m) /\ (m + i) - m = i
    BY <1>1
  <2> QED BY <1>1, <2>1
<1>6. \A i \in 1..m : r[i] = q[i] /\ i \in 1..(m + k)
  <2> HIDE DEF r, m, k
  <2> QED BY <1>1
<1> HIDE DEF r, m, k
<1>2. ASSUME NEW v, AllAt(q, v), AllAt(out, v) PROVE AllAt(r, v)
  <2> SUFFICES ASSUME NEW i \in 1..(m + k), r[i].kind = "volume" PROVE r[i].raw = v
    BY <1>1 DEF AllAt
  <2>1. CASE i <= m
    BY <1>1, <1>2, <2>1 DEF AllAt
  <2>2. CASE ~(i <= m)
    <3>1. i - m \in 1..k /\ r[i] = out[i - m]
      BY <1>1, <2>2
    <3> QED BY <1>1, <1>2, <3>1 DEF AllAt
  <2> QED BY <2>1, <2>2
<1>3. ASSUME NoVolumes(r) PROVE NoVolumes(q) /\ NoVolumes(out)
  BY <1>1, <1>3, <1>5, <1>6 DEF NoVolumes
<1>4. ASSUME NEW v, NEW next, EndsAt(q, v), AllAt(out, next), NoVolumes(out) => v = next
      PROVE  EndsAt(r, next)
  <2> SUFFICES ASSUME NEW i \in 1..(m + k), r[i].kind = "volume",
                      \A j \in 1..(m + k) : j > i => r[j].kind # "volume"
               PROVE  r[i].raw = next
    BY <1>1 DEF EndsAt
  <2>1. CASE i <= m
    <3>1. i \in 1..m /\ r[i] = q[i]
      BY <1>1, <2>1
    <3>2. NoVolumes(out)
      <4> SUFFICES ASSUME NEW j \in 1..k PROVE out[j].kind # "volume"
        BY <1>1 DEF NoVolumes
      <4>1. m + j \in 1..(m + k) /\ m + j > i /\ r[m + j] = out[j]
        BY <1>1, <1>5, <2>1
      <4> QED BY <4>1
    <3>3. \A j \in 1..m : j > i => q[j].kind # "volume"
      BY <1>6
    <3> QED BY <1>1, <1>4, <3>1, <3>2, <3>3 DEF EndsAt
  <2>2. CASE ~(i <= m)
    <3>1. i - m \in 1..k /\ r[i] = out[i - m]
      BY <1>1, <2>2
    <3> QED BY <1>1, <1>4, <3>1 DEF AllAt
  <2> QED BY <2>1, <2>2
<1>7. ASSUME NEW n \in 0..m, NEW v, AllAt(q, v) PROVE AllAt(SubSeq(q, 1, n), v)
  <2> DEFINE s == SubSeq(q, 1, n)
  <2>1. n \in Int /\ \A i \in 1..n : q[i] \in Report /\ i \in 1..m
    BY <1>1, ElementOfSeq DEF m
  <2>2. s \in Seq(Report) /\ Len(s) = n /\ \A i \in 1..n : s[i] = q[i]
    <3>1. /\ s \in Seq(Report) /\ Len(s) = IF 1 <= n THEN n - 1 + 1 ELSE 0
          /\ \A i \in 1..(n - 1 + 1) : s[i] = q[1 + i - 1]
      BY <2>1, SubSeqProperties
    <3> HIDE DEF s
    <3> QED BY <1>1, <3>1
  <2>3. DOMAIN s = 1..n
    <3> HIDE DEF s
    <3> QED BY <2>2, LenProperties
  <2> HIDE DEF s
  <2>4. AllAt(s, v)
    BY <1>1, <1>7, <2>1, <2>2, <2>3 DEF AllAt
  <2> QED BY <2>4 DEF s
<1> QED BY <1>2, <1>3, <1>4, <1>7 DEF r, m

(* What the receiver sends says how it is, and says so when that changes.   *)
LEMMA LevelsAreTrue ==
  ASSUME NEW r \in Receiver
  PROVE  /\ \A out \in Orders(r) : AllAt(out, r.vol) /\ ~NoVolumes(out)
         /\ \A out \in Reports(r) :
              AllAt(out, r.vol) /\ (NoVolumes(out) => rx.vol = r.vol)
<1>1. /\ VolumeReport(r).kind = "volume" /\ VolumeReport(r).raw = r.vol
      /\ MuteReport(r).kind = "mute"
  BY DEF MuteReport, VolumeReport
<1>2. /\ AllAt(<<MuteReport(r), VolumeReport(r)>>, r.vol)
      /\ ~NoVolumes(<<MuteReport(r), VolumeReport(r)>>)
  BY <1>1 DEF AllAt, NoVolumes
<1>3. /\ AllAt(<<VolumeReport(r), MuteReport(r)>>, r.vol)
      /\ ~NoVolumes(<<VolumeReport(r), MuteReport(r)>>)
  BY <1>1 DEF AllAt, NoVolumes
<1>4. /\ AllAt(<<VolumeReport(r)>>, r.vol)
      /\ AllAt(<<MuteReport(r)>>, r.vol) /\ ~NoVolumes(<<VolumeReport(r)>>)
      /\ AllAt(<<>>, r.vol)
  BY <1>1 DEF AllAt, NoVolumes
<1>5. ASSUME NEW out \in Orders(r) PROVE AllAt(out, r.vol) /\ ~NoVolumes(out)
  <2>1. out \in {<<MuteReport(r), VolumeReport(r)>>, <<VolumeReport(r), MuteReport(r)>>}
    BY <1>5, Zenon DEF Orders
  <2> QED BY <1>2, <1>3, <2>1
<1>6. ASSUME NEW out \in Reports(r)
      PROVE  AllAt(out, r.vol) /\ (NoVolumes(out) => rx.vol = r.vol)
  <2>1. \/ out \in Orders(r)
        \/ out \in {<<MuteReport(r)>>, <<>>} /\ r.vol = rx.vol
        \/ out = <<VolumeReport(r)>>
    BY <1>6 DEF Reports
  <2> QED BY <1>4, <1>5, <2>1
<1> QED BY <1>5, <1>6

(* The receiver and its remote add true reports.                            *)
LEMMA TrueLevelsAreAdded ==
  ASSUME TypeOK, TypeOK', ReceiverObeys \/ (UseRemote /\ link)
  PROVE  \E out \in Seq(Report) : /\ fromRx' = fromRx \o out
                                  /\ AllAt(out, rx'.vol)
                                  /\ NoVolumes(out) => rx'.vol = rx.vol
<1>1. rx \in Receiver /\ rx' \in Receiver
  BY DEF TypeOK
<1>2. \/ \E out \in Reports(rx') : fromRx' = fromRx \o out
      \/ rx' = rx /\ \E out \in Orders(rx) : fromRx' = fromRx \o out
  BY Zenon DEF ReceiverObeys, UseRemote
<1>3. CASE \E out \in Reports(rx') : fromRx' = fromRx \o out
  <2>1. PICK out \in Reports(rx') : fromRx' = fromRx \o out
    BY <1>3
  <2>2. out \in Seq(Report)
    BY <1>1, <2>1, OrdersType
  <2>3. AllAt(out, rx'.vol) /\ (NoVolumes(out) => rx.vol = rx'.vol)
    BY <1>1, <2>1, LevelsAreTrue
  <2> QED BY <2>1, <2>2, <2>3
<1>4. CASE rx' = rx /\ \E out \in Orders(rx) : fromRx' = fromRx \o out
  <2>1. PICK out \in Orders(rx) : fromRx' = fromRx \o out
    BY <1>4
  <2>2. out \in Seq(Report)
    BY <1>1, <2>1, OrdersType
  <2>3. AllAt(out, rx.vol) /\ ~NoVolumes(out)
    BY <1>1, <2>1, LevelsAreTrue
  <2> QED BY <1>4, <2>1, <2>2, <2>3
<1> QED BY <1>2, <1>3, <1>4

-----------------------------------------------------------------------------
(* What a target that ends leaves behind.                                   *)

(* What is known of the receiver, the rows and the lock.                    *)
SameEar(g, fw) ==
  /\ g.vol = fw.vol /\ g.muteKnown = fw.muteKnown /\ g.muted = fw.muted
  /\ g.saved = fw.saved /\ g.autoFb = fw.autoFb /\ g.pendReconnect = fw.pendReconnect

(* Reached, failed or called off.                                           *)
LEMMA HowTargetsEnd ==
  ASSUME NEW fw \in FirmwareState
  PROVE  /\ LET g == completeVolumeRestore(fw)
            IN /\ g.t = NoSession /\ SameEar(g, fw) /\ g.gen = fw.gen
               /\ g.suppressed = fw.remReq /\ g.failRaw = None /\ g.quiet
         /\ LET g == failVolumeRestore(fw)
            IN /\ g.t = NoSession /\ SameEar(g, fw) /\ g.gen = fw.gen
               /\ g.suppressed /\ g.failRaw = None /\ ~g.quiet
         /\ LET g == cancelVolumeRestore(fw)
            IN /\ g.t = NoSession /\ SameEar(g, fw)
               /\ fw.t.target >= 0 => g.gen # fw.gen
               /\ g.suppressed = fw.remReq /\ g.failRaw = None /\ g.quiet
<1>1. ASSUME NEW x \in FirmwareState
      PROVE  LET r == resetVolumeRestore(x)
             IN /\ r \in FirmwareState /\ r.t = NoSession /\ SameEar(r, x)
                /\ r.gen = x.gen /\ r.remReq = x.remReq
  <2>1. LET r == resetVolumeRestore(x)
        IN r.t = NoSession /\ SameEar(r, x) /\ r.gen = x.gen /\ r.remReq = x.remReq
    BY DEF resetVolumeRestore, SameEar, FirmwareState
  <2> QED BY <2>1, resetVolumeRestoreType
<1>2. ASSUME NEW x \in FirmwareState, NEW b \in BOOLEAN, NEW q \in BOOLEAN
      PROVE  LET g == [resetVolumeRestore(x) EXCEPT !.suppressed = b, !.failRaw = None, !.quiet = q]
             IN /\ g.t = NoSession /\ SameEar(g, x) /\ g.gen = x.gen
                /\ g.suppressed = b /\ g.failRaw = None /\ g.quiet = q
  <2> DEFINE r == resetVolumeRestore(x)
  <2>1. r \in FirmwareState /\ r.t = NoSession /\ SameEar(r, x) /\ r.gen = x.gen
    BY <1>1
  <2> HIDE DEF r
  <2>2. LET g == [r EXCEPT !.suppressed = b, !.failRaw = None, !.quiet = q]
        IN /\ g.t = r.t /\ SameEar(g, r) /\ g.gen = r.gen
           /\ g.suppressed = b /\ g.failRaw = None /\ g.quiet = q
    BY <2>1 DEF SameEar, FirmwareState
  <2> QED BY <2>1, <2>2 DEF SameEar, r
<1>3. ASSUME NEW x \in FirmwareState
      PROVE  LET g == completeVolumeRestore(x)
             IN /\ g.t = NoSession /\ SameEar(g, x) /\ g.gen = x.gen
                /\ g.suppressed = x.remReq /\ g.failRaw = None /\ g.quiet
  <2>1. x.remReq \in BOOLEAN
    BY DEF FirmwareState
  <2> QED BY <1>2, <2>1 DEF completeVolumeRestore
<1>4. LET g == failVolumeRestore(fw)
      IN /\ g.t = NoSession /\ SameEar(g, fw) /\ g.gen = fw.gen
         /\ g.suppressed /\ g.failRaw = None /\ ~g.quiet
  BY <1>2 DEF failVolumeRestore
<1>5. LET g == cancelVolumeRestore(fw)
      IN /\ g.t = NoSession /\ SameEar(g, fw)
         /\ fw.t.target >= 0 => g.gen # fw.gen
         /\ g.suppressed = fw.remReq /\ g.failRaw = None /\ g.quiet
  <2> DEFINE a == advanceVolumeTargetGeneration(fw)
             x == IF fw.t.target >= 0 THEN a ELSE fw
  <2>1. a \in FirmwareState /\ SameEar(a, fw) /\ a.remReq = fw.remReq
    <3>1. SameEar(a, fw) /\ a.remReq = fw.remReq
      BY DEF advanceVolumeTargetGeneration, SameEar, FirmwareState
    <3> QED BY <3>1, advanceVolumeTargetGenerationType
  <2>2. a.gen # fw.gen
    BY FirmwareAssumption DEF advanceVolumeTargetGeneration, FirmwareState
  <2> HIDE DEF a
  <2>3. x \in FirmwareState /\ SameEar(x, fw) /\ x.remReq = fw.remReq
        /\ (fw.t.target >= 0 => x.gen # fw.gen)
    BY <2>1, <2>2 DEF SameEar
  <2> HIDE DEF x
  <2>4. cancelVolumeRestore(fw) = completeVolumeRestore(x)
    BY DEF cancelVolumeRestore, x, a
  <2> QED BY <1>3, <2>3, <2>4 DEF SameEar
<1> QED BY <1>3, <1>4, <1>5

-----------------------------------------------------------------------------
(* How a target goes on: what the bursts and the ends of targets depend on. *)

Course(s) ==
  <<s.target, s.auto, s.phase, s.obs, s.dir, s.burst, s.ext, s.start, s.planned, s.sent>>

(* The target goes on as it is, or ends; nothing new is heard of the level, *)
(* and a link that is lost takes the target and the grants with it.         *)
Goes(g, fw) ==
  /\ g.cur = fw.cur /\ g.pend = fw.pend
  /\ Course(g.t) = Course(NoSession) \/ (Course(g.t) = Course(fw.t) /\ g.gen = fw.gen)
  /\ g.vol = fw.vol \/ (g.vol = None /\ g.t.target < 0)
  /\ g.was => fw.was \/ g.vol = None
  /\ ~g.was => \/ g.t.target < 0 /\ ~g.pendAllowed
               \/ ~fw.was /\ (g.pendAllowed => fw.pendAllowed)

(* The same target over the same link.                                      *)
Alike(g, fw) ==
  /\ g.cur = fw.cur /\ g.pend = fw.pend /\ g.vol = fw.vol /\ g.gen = fw.gen
  /\ Course(g.t) = Course(fw.t)
  /\ (g.was <=> fw.was) /\ (g.pendAllowed => fw.pendAllowed)

LEMMA GoesIsEnough ==
  /\ NoSession.target < 0 /\ ~NoSession.burst
  /\ \A s, t : Course(s) = Course(t) =>
       /\ s.target = t.target /\ s.auto = t.auto /\ s.phase = t.phase /\ s.obs = t.obs
       /\ s.dir = t.dir /\ s.burst = t.burst /\ s.ext = t.ext /\ s.start = t.start
       /\ s.planned = t.planned /\ s.sent = t.sent
  /\ \A fw : Goes(fw, fw)
  /\ \A fw, g : Alike(g, fw) => Goes(g, fw)
  /\ \A fw, g, h : Goes(h, g) /\ Goes(g, fw) => Goes(h, fw)
<1>1. NoSession.target < 0 /\ ~NoSession.burst
  BY DEF NoSession, None
<1>2. ASSUME NEW s, NEW t, Course(s) = Course(t)
      PROVE  /\ s.target = t.target /\ s.auto = t.auto /\ s.phase = t.phase /\ s.obs = t.obs
             /\ s.dir = t.dir /\ s.burst = t.burst /\ s.ext = t.ext /\ s.start = t.start
             /\ s.planned = t.planned /\ s.sent = t.sent
  BY <1>2 DEF Course
<1>3. ASSUME NEW fw, NEW g, Alike(g, fw) PROVE Goes(g, fw)
  BY <1>3 DEF Alike, Goes
<1>4. ASSUME NEW fw PROVE Goes(fw, fw)
  BY DEF Goes
<1>5. ASSUME NEW fw, NEW g, NEW h, Goes(h, g), Goes(g, fw) PROVE Goes(h, fw)
  <2>2. g.t.target < 0 => h.t.target < 0
    BY <1>1, <1>2, <1>5 DEF Goes
  <2>3. Course(h.t) = Course(NoSession) \/ (Course(h.t) = Course(fw.t) /\ h.gen = fw.gen)
    BY <1>5 DEF Goes
  <2> QED BY <1>5, <2>2, <2>3 DEF Goes
<1> QED BY <1>1, <1>2, <1>3, <1>4, <1>5

(* A target that is called off takes its generation with it.                *)
Off(g, fw) ==
  g.t.target < 0 => IF fw.t.target < 0 THEN g.gen = fw.gen ELSE g.gen # fw.gen
Keeps(g, fw) == Goes(g, fw) /\ Off(g, fw)

LEMMA KeepsIsEnough ==
  /\ \A fw : Keeps(fw, fw)
  /\ \A fw, g : Alike(g, fw) => Keeps(g, fw)
  /\ \A fw, g, h : Keeps(h, g) /\ Keeps(g, fw) => Keeps(h, fw)
<1>1. ASSUME NEW fw, NEW g, Alike(g, fw) PROVE Keeps(g, fw)
  <2>1. g.t.target = fw.t.target /\ g.gen = fw.gen
    BY <1>1, GoesIsEnough DEF Alike
  <2> QED BY <1>1, <2>1, GoesIsEnough DEF Keeps, Off
<1>2. ASSUME NEW fw PROVE Keeps(fw, fw)
  BY GoesIsEnough DEF Keeps, Off
<1>3. ASSUME NEW fw, NEW g, NEW h, Keeps(h, g), Keeps(g, fw) PROVE Keeps(h, fw)
  <2>1. Goes(h, fw)
    BY <1>3, GoesIsEnough DEF Keeps
  <2>2. /\ g.t.target < 0 \/ (g.t.target = fw.t.target /\ g.gen = fw.gen)
        /\ g.t.target < 0 => h.t.target < 0
        /\ fw.t.target < 0 => g.t.target < 0
    BY <1>3, GoesIsEnough DEF Keeps, Goes
  <2> QED BY <1>3, <2>1, <2>2 DEF Keeps, Off
<1> QED BY <1>1, <1>2, <1>3

(* Every end of a target, and the operators beside the target.              *)
LEMMA EndsGo ==
  ASSUME NEW fw \in FirmwareState
  PROVE  /\ \A g \in {completeVolumeRestore(fw), failVolumeRestore(fw), cancelVolumeRestore(fw)} :
              Goes(g, fw) /\ g.t = NoSession
         /\ Keeps(cancelVolumeRestore(fw), fw)
         /\ Keeps(invalidateReconnectRestore(fw), fw)
         /\ Keeps(clearManualMuteLock(fw), fw)
         /\ \A ok \in BOOLEAN : /\ Keeps(armAutomaticRemuteRecovery(fw, ok), fw)
                                /\ Keeps(clearAutomaticRemuteJournal(fw, ok), fw)
<1>1. ASSUME NEW g, SameOwner(g, fw), SameEar(g, fw), g.t = NoSession PROVE Goes(g, fw)
  BY <1>1 DEF SameOwner, SameEar, Goes
<1>2. \A g \in {completeVolumeRestore(fw), failVolumeRestore(fw), cancelVolumeRestore(fw)} :
        Goes(g, fw) /\ g.t = NoSession
  BY <1>1, EndsAlone, HowTargetsEnd
<1>3. ASSUME NEW g, g.cur = fw.cur, g.pend = fw.pend, g.vol = fw.vol, g.gen = fw.gen,
             g.t = fw.t, g.was = fw.was, g.pendAllowed => fw.pendAllowed
      PROVE  Keeps(g, fw)
  BY <1>3 DEF Keeps, Goes, Off
<1>4. Keeps(invalidateReconnectRestore(fw), fw)
  <2>1. LET g == invalidateReconnectRestore(fw)
        IN /\ g.cur = fw.cur /\ g.pend = fw.pend /\ g.vol = fw.vol /\ g.gen = fw.gen
           /\ g.t = fw.t /\ g.was = fw.was /\ (g.pendAllowed => fw.pendAllowed)
    BY DEF invalidateReconnectRestore, FirmwareState
  <2> QED BY <1>3, <2>1
<1>5. Keeps(clearManualMuteLock(fw), fw)
  <2>1. LET g == clearManualMuteLock(fw)
        IN /\ g.cur = fw.cur /\ g.pend = fw.pend /\ g.vol = fw.vol /\ g.gen = fw.gen
           /\ g.t = fw.t /\ g.was = fw.was /\ g.pendAllowed = fw.pendAllowed
    BY DEF clearManualMuteLock, FirmwareState
  <2> QED BY <1>3, <2>1
<1>6. ASSUME NEW ok \in BOOLEAN
      PROVE  /\ Keeps(armAutomaticRemuteRecovery(fw, ok), fw)
             /\ Keeps(clearAutomaticRemuteJournal(fw, ok), fw)
  <2>1. LET g == armAutomaticRemuteRecovery(fw, ok)
        IN /\ g.cur = fw.cur /\ g.pend = fw.pend /\ g.vol = fw.vol /\ g.gen = fw.gen
           /\ g.t = fw.t /\ g.was = fw.was /\ g.pendAllowed = fw.pendAllowed
    BY DEF armAutomaticRemuteRecovery, FirmwareState
  <2>2. LET g == clearAutomaticRemuteJournal(fw, ok)
        IN /\ g.cur = fw.cur /\ g.pend = fw.pend /\ g.vol = fw.vol /\ g.gen = fw.gen
           /\ g.t = fw.t /\ g.was = fw.was /\ g.pendAllowed = fw.pendAllowed
    BY DEF clearAutomaticRemuteJournal, FirmwareState
  <2> QED BY <1>3, <2>1, <2>2
<1>7. Keeps(cancelVolumeRestore(fw), fw)
  <2> DEFINE g == cancelVolumeRestore(fw)
  <2>1. /\ Goes(g, fw) /\ g.t = NoSession
        /\ fw.t.target >= 0 => g.gen # fw.gen
    BY <1>2, HowTargetsEnd
  <2>2. fw.t.target < 0 <=> ~(fw.t.target >= 0)
    BY DEF FirmwareState, Session, MaybeLevel, Level, None
  <2>3. ASSUME fw.t.target < 0 PROVE g.gen = fw.gen
    <3>1. g = completeVolumeRestore(fw)
      BY <2>2, <2>3 DEF cancelVolumeRestore
    <3> QED BY <3>1, HowTargetsEnd
  <2> HIDE DEF g
  <2>4. Off(g, fw)
    BY <2>1, <2>2, <2>3 DEF Off
  <2> QED BY <2>1, <2>4 DEF Keeps, g
<1> QED BY <1>2, <1>4, <1>5, <1>6, <1>7

(* A mute report ends the target, or only shows the target its unmuting.    *)
LEMMA NewlyMutedKeeps ==
  ASSUME NEW fw \in FirmwareState
  PROVE  Keeps(NewlyMuted(fw), fw)
<1> DEFINE g         == invalidateReconnectRestore(fw)
           autoFb    == (g.t.auto /\ g.t.target >= 0) /\ g.t.steps > 0
           locked    == [g EXCEPT !.autoFb = autoFb, !.locked = TRUE, !.lockRaw = g.vol]
           cancelled == cancelVolumeRestore(locked)
           h         == [cancelled EXCEPT !.suppressed = TRUE, !.failRaw = fw.vol, !.quiet = TRUE]
<1>1. g \in FirmwareState /\ Keeps(g, fw)
  BY invalidateReconnectRestoreType, EndsGo
<1>2. autoFb \in BOOLEAN
  BY Zenon
<1>3. locked \in FirmwareState /\ Keeps(locked, g)
  <2> HIDE DEF g, autoFb
  <2>1. locked \in FirmwareState
    BY <1>1, <1>2 DEF FirmwareState
  <2>2. /\ locked.cur = g.cur /\ locked.pend = g.pend /\ locked.vol = g.vol
        /\ locked.gen = g.gen /\ locked.t = g.t /\ locked.was = g.was
        /\ locked.pendAllowed = g.pendAllowed
    BY <1>1 DEF FirmwareState
  <2> HIDE DEF locked
  <2> QED BY <2>1, <2>2 DEF Keeps, Goes, Off
<1>4. cancelled \in FirmwareState /\ Keeps(cancelled, locked)
  <2> HIDE DEF locked
  <2> QED BY <1>3, cancelVolumeRestoreType, EndsGo
<1>5. Keeps(h, cancelled)
  <2> HIDE DEF cancelled
  <2>1. /\ h.cur = cancelled.cur /\ h.pend = cancelled.pend /\ h.vol = cancelled.vol
        /\ h.gen = cancelled.gen /\ h.t = cancelled.t /\ h.was = cancelled.was
        /\ h.pendAllowed = cancelled.pendAllowed
    BY <1>4 DEF FirmwareState
  <2> HIDE DEF h
  <2> QED BY <2>1 DEF Keeps, Goes, Off
<1>6. NewlyMuted(fw) \in {h, locked}
  BY Zenon DEF NewlyMuted
<1> HIDE DEF g, locked, cancelled, h
<1>7. Keeps(locked, fw)
  BY <1>1, <1>3, KeepsIsEnough
<1>8. Keeps(h, fw)
  BY <1>4, <1>5, <1>7, KeepsIsEnough
<1> QED BY <1>6, <1>7, <1>8

LEMMA observeMuteKeeps ==
  ASSUME NEW fw \in FirmwareState, NEW muted \in BOOLEAN, NEW ok \in BOOLEAN
  PROVE  Keeps(observeMute(fw, muted, ok), fw)
<1>1. Keeps(HeardMuted(fw, ok), fw)
  <2> DEFINE f1 == IF (fw.t.target >= 0 /\ fw.t.steps > 0) /\ ~fw.remReq
                   THEN armAutomaticRemuteRecovery(fw, ok) ELSE fw
             f2 == [f1 EXCEPT !.muteKnown = TRUE, !.muted = TRUE]
             f3 == IF f2.remReq /\ f2.remConf THEN clearAutomaticRemuteJournal(f2, ok) ELSE f2
             h  == [f3 EXCEPT !.suppressed = FALSE]
             f4 == IF (f2.remReq /\ f2.remConf) /\ (~f2.remJournal \/ ok) THEN h ELSE f3
  <2>1. f1 \in FirmwareState /\ Keeps(f1, fw)
    BY armAutomaticRemuteRecoveryType, EndsGo, KeepsIsEnough
  <2>2. f2 \in FirmwareState /\ Keeps(f2, f1)
    <3> HIDE DEF f1
    <3>1. f2 \in FirmwareState
      BY <2>1 DEF FirmwareState
    <3>2. /\ f2.cur = f1.cur /\ f2.pend = f1.pend /\ f2.vol = f1.vol /\ f2.gen = f1.gen
          /\ f2.t = f1.t /\ f2.was = f1.was /\ f2.pendAllowed = f1.pendAllowed
      BY <2>1 DEF FirmwareState
    <3> HIDE DEF f2
    <3> QED BY <3>1, <3>2 DEF Keeps, Goes, Off
  <2>3. f3 \in FirmwareState /\ Keeps(f3, f2)
    <3> HIDE DEF f2
    <3> QED BY <2>2, clearAutomaticRemuteJournalType, EndsGo, KeepsIsEnough
  <2>4. h \in FirmwareState /\ Keeps(h, f3)
    <3> HIDE DEF f3
    <3>1. h \in FirmwareState
      BY <2>3 DEF FirmwareState
    <3>2. /\ h.cur = f3.cur /\ h.pend = f3.pend /\ h.vol = f3.vol /\ h.gen = f3.gen
          /\ h.t = f3.t /\ h.was = f3.was /\ h.pendAllowed = f3.pendAllowed
      BY <2>3 DEF FirmwareState
    <3> HIDE DEF h
    <3> QED BY <3>1, <3>2 DEF Keeps, Goes, Off
  <2>5. HeardMuted(fw, ok) \in {f4, NewlyMuted(f4)}
    BY Zenon DEF HeardMuted
  <2>6. f4 \in {h, f3}
    BY Zenon
  <2> HIDE DEF f1, f2, f3, f4, h
  <2>7. f4 \in FirmwareState /\ Keeps(f4, f3)
    BY <2>3, <2>4, <2>6, KeepsIsEnough
  <2>8. Keeps(f4, fw)
    BY <2>1, <2>2, <2>3, <2>7, KeepsIsEnough
  <2>9. Keeps(NewlyMuted(f4), fw)
    BY <2>7, <2>8, NewlyMutedKeeps, KeepsIsEnough
  <2> QED BY <2>5, <2>8, <2>9
<1>2. Keeps(HeardUnmuted(fw), fw)
  <2> DEFINE g       == [fw EXCEPT !.muteKnown = TRUE, !.muted = FALSE]
             unmuted == fw.t.unmuted \/ fw.t.cycle
             s       == [fw.t EXCEPT !.unmuted = unmuted]
             h       == [g EXCEPT !.t = s]
             i       == invalidateReconnectRestore(g)
  <2>1. g \in FirmwareState /\ Keeps(g, fw) /\ g.t = fw.t
    <3>1. /\ g.cur = fw.cur /\ g.pend = fw.pend /\ g.vol = fw.vol /\ g.gen = fw.gen
          /\ g.t = fw.t /\ g.was = fw.was /\ g.pendAllowed = fw.pendAllowed
      BY DEF FirmwareState
    <3>2. g \in FirmwareState
      BY DEF FirmwareState
    <3> HIDE DEF g
    <3> QED BY <3>1, <3>2 DEF Keeps, Goes, Off
  <2>2. Keeps(h, g)
    <3>1. Course(s) = Course(fw.t)
      <4>1. fw.t \in Session
        BY DEF FirmwareState
      <4> HIDE DEF unmuted
      <4> QED BY <4>1 DEF Session, Course
    <3> HIDE DEF g, s
    <3>2. /\ h.cur = g.cur /\ h.pend = g.pend /\ h.vol = g.vol /\ h.gen = g.gen
          /\ h.t = s /\ h.was = g.was /\ h.pendAllowed = g.pendAllowed
      BY <2>1 DEF FirmwareState
    <3> HIDE DEF h
    <3> QED BY <2>1, <3>1, <3>2, KeepsIsEnough DEF Alike
  <2>3. i \in FirmwareState /\ Keeps(i, g) /\ Keeps(clearManualMuteLock(g), g)
        /\ Keeps(clearManualMuteLock(i), i)
    <3> HIDE DEF g
    <3>1. i \in FirmwareState
      BY <2>1, invalidateReconnectRestoreType
    <3> QED BY <2>1, <3>1, EndsGo
  <2>4. [g EXCEPT !.t.unmuted = @ \/ g.t.cycle] = h
    <3> HIDE DEF g
    <3> QED BY <2>1
  <2>5. HeardUnmuted(fw) \in {h, clearManualMuteLock(i), clearManualMuteLock(g)}
    <3> HIDE DEF h
    <3> QED BY <2>4, Zenon DEF HeardUnmuted
  <2> HIDE DEF g, h, i
  <2> QED BY <2>1, <2>2, <2>3, <2>5, KeepsIsEnough
<1> QED BY <1>1, <1>2, Zenon DEF observeMute

(* The edges of the link, with a target that is automatic and started while *)
(* the link was up.                                                         *)
LEMMA EdgesGo ==
  ASSUME NEW fw \in FirmwareState
  PROVE  /\ fw.t.target < 0 => Goes(ConnectEdge(fw), fw)
         /\ (fw.t.target < 0 \/ fw.t.auto) => Goes(DisconnectEdge(fw), fw)
<1>1. ASSUME fw.t.target < 0 PROVE Goes(ConnectEdge(fw), fw)
  <2> DEFINE g == [fw EXCEPT !.was = TRUE, !.sess = FALSE, !.vol = None, !.muteKnown = FALSE]
  <2>1. /\ g.cur = fw.cur /\ g.pend = fw.pend /\ g.vol = None /\ g.gen = fw.gen
        /\ g.t = fw.t /\ g.was
    BY DEF FirmwareState
  <2>2. ~(fw.t.target >= 0)
    BY <1>1 DEF FirmwareState, Session, MaybeLevel, Level, None
  <2>3. ConnectEdge(fw) = g
    <3>1. ConnectEdge(fw) = IF g.t.target >= 0 THEN armVolumeTargetSession(g) ELSE g
      BY Zenon DEF ConnectEdge
    <3> HIDE DEF g
    <3> QED BY <2>1, <2>2, <3>1
  <2> HIDE DEF g
  <2> QED BY <1>1, <2>1, <2>3 DEF Goes
<1>2. ASSUME fw.t.target < 0 \/ fw.t.auto PROVE Goes(DisconnectEdge(fw), fw)
  <2> DEFINE r == RememberCredit(fw)
             g == [r EXCEPT
                     !.was = FALSE, !.sess = FALSE, !.vol = None, !.muteKnown = FALSE,
                     !.curAuth = "none", !.pendAuth = "none", !.pendAllowed = FALSE,
                     !.pendReconnect = None]
  <2>0. g \in FirmwareState
    <3>1. r \in FirmwareState
      BY RememberCreditType
    <3> HIDE DEF r
    <3> DEFINE k == [r EXCEPT !.was = FALSE, !.sess = FALSE, !.vol = None, !.muteKnown = FALSE]
    <3>2. k \in FirmwareState
      BY <3>1, EmptyValues DEF FirmwareState
    <3>3. g = [k EXCEPT !.curAuth = "none", !.pendAuth = "none", !.pendAllowed = FALSE,
                        !.pendReconnect = None]
      OBVIOUS
    <3> HIDE DEF k, g
    <3> QED BY <3>2, <3>3, EmptyValues, AuthorityValues DEF FirmwareState
  <2> DEFINE h == [g EXCEPT !.remConf = FALSE]
             c == cancelVolumeRestore(h)
             d == [c EXCEPT !.suppressed = TRUE, !.failRaw = None, !.quiet = FALSE]
             Down(x) == /\ x \in FirmwareState /\ x.cur = fw.cur /\ x.pend = fw.pend
                       /\ x.vol = None /\ ~x.was /\ ~x.pendAllowed
  <2>1. r \in FirmwareState /\ r.t = fw.t /\ r.cur = fw.cur /\ r.pend = fw.pend
    <3>1. r = fw \/ \E x : r = [fw EXCEPT !.credit = x]
      BY Zenon DEF RememberCredit, rememberReconnectRestore
    <3>2. \A x : LET y == [fw EXCEPT !.credit = x]
                 IN y.t = fw.t /\ y.cur = fw.cur /\ y.pend = fw.pend
      BY DEF FirmwareState
    <3> HIDE DEF r
    <3> QED BY <3>1, <3>2, RememberCreditType DEF r
  <2>2. Down(g) /\ g.t = fw.t
    <3> HIDE DEF r
    <3>2. /\ g.t = r.t /\ g.cur = r.cur /\ g.pend = r.pend /\ g.vol = None
          /\ ~g.was /\ ~g.pendAllowed
      BY <2>1 DEF FirmwareState
    <3> QED BY <2>0, <2>1, <3>2
  <2>3. Down(h)
    <3> HIDE DEF g
    <3>1. h \in FirmwareState
      BY <2>2 DEF FirmwareState
    <3>2. /\ h.cur = g.cur /\ h.pend = g.pend /\ h.vol = g.vol
          /\ h.was = g.was /\ h.pendAllowed = g.pendAllowed
      BY <2>2 DEF FirmwareState
    <3> HIDE DEF h
    <3> QED BY <2>2, <3>1, <3>2
  <2>4. Down(c) /\ c.t = NoSession
    <3> HIDE DEF h
    <3>1. c \in FirmwareState
      BY <2>3, cancelVolumeRestoreType
    <3>2. SameOwner(c, h) /\ SameEar(c, h) /\ c.t = NoSession
      BY <2>3, EndsAlone, HowTargetsEnd
    <3> HIDE DEF c
    <3> QED BY <2>3, <3>1, <3>2 DEF SameOwner, SameEar
  <2>5. d.cur = c.cur /\ d.pend = c.pend /\ d.vol = c.vol /\ d.t = c.t
        /\ d.was = c.was /\ d.pendAllowed = c.pendAllowed
    <3> HIDE DEF c
    <3> QED BY <2>4 DEF FirmwareState
  <2>6. fw.t.target < 0 => pauseVolumeTargetSession(g) = g
    <3> HIDE DEF g
    <3> QED BY <2>2 DEF pauseVolumeTargetSession
  <2>7. DisconnectEdge(fw) \in {c, d} \/ (~fw.t.auto /\ DisconnectEdge(fw) = pauseVolumeTargetSession(g))
    BY Zenon DEF DisconnectEdge
  <2>8. Goes(c, fw) /\ Goes(d, fw)
    <3> HIDE DEF c, d
    <3> QED BY <2>4, <2>5, GoesIsEnough DEF Goes
  <2>9. fw.t.target < 0 => Goes(g, fw) \/ fw.gen # g.gen
    <3> HIDE DEF g
    <3> QED BY <2>2 DEF Goes
  <2>10. g.gen = fw.gen
    <3>1. r.gen = fw.gen
      <4>1. r = fw \/ \E x : r = [fw EXCEPT !.credit = x]
        BY Zenon DEF RememberCredit, rememberReconnectRestore
      <4>2. \A x : [fw EXCEPT !.credit = x].gen = fw.gen
        BY DEF FirmwareState
      <4> HIDE DEF r
      <4> QED BY <4>1, <4>2
    <3> HIDE DEF r
    <3> QED BY <2>1, <3>1 DEF FirmwareState
  <2> HIDE DEF r, g, h, c, d
  <2> QED BY <1>2, <2>6, <2>7, <2>8, <2>9, <2>10
<1> QED BY <1>1, <1>2

-----------------------------------------------------------------------------
(* The invariant of the first target.                                       *)

(* While the link is up, the reports in flight end with the level of the    *)
(* receiver, and when none is in flight the firmware has heard it.          *)
LevelIsHeard ==
  link => /\ EndsAt(fromRx, rx.vol)
          /\ f.was /\ NoVolumes(fromRx) /\ f.vol >= 0 => f.vol = rx.vol

(* No click is in flight, and all that is said of the level is true.        *)
Still == NoClicks(toRx) /\ AllAt(fromRx, rx.vol) /\ f.vol \in {None, rx.vol}

(* No app has come to the front yet.                                        *)
Waiting == used.idle = 0 \/ f.pend # NoApp

(* The phases in which a target relies on the level to stay.                *)
Steady(s, still, level) ==
  /\ s.phase \in {"needFreshStatus", "waitFreshStatus", "waitAutomaticUnmute"}
       => still /\ ~s.burst /\ ~s.ext
  /\ s.phase \in {"ready", "waitConfirmation"} => still /\ s.obs = level /\ ~s.ext
  /\ s.phase = "ready" => ~s.burst
Settles(s, v) == s.phase = "settling" => s.obs = v /\ v >= 0

(* How far a burst of several clicks has come, with what its clicks in      *)
(* flight add at worst, is within what its clicks can do, and all of those  *)
(* it plans are within the distance it was planned for.                     *)
BurstOK(s, level, q) ==
  /\ s.sent <= s.planned
  /\ (s.burst \/ s.ext) /\ s.planned > 1 =>
       /\ s.dir \in {1, -1} /\ Toward(q, s.dir)
       /\ s.dir * (level - s.start) + Reach(ClickCount(q)) <= Reach(s.sent)
       /\ Reach(s.planned) <= s.dir * (s.target - s.start)

GainsBounded == \A gain \in Gains : gain <= WorstRaw

OnCourse(s) ==
  /\ Steady(s, Still, rx.vol) /\ Settles(s, f.vol)
  /\ GainsBounded => BurstOK(s, rx.vol, toRx)

FirstOK ==
  /\ LevelIsHeard
  /\ used.idle = 0 => f.cur = NoApp /\ f.pend = NoApp
  /\ Waiting => f.t.target < 0 /\ Still
  /\ f.t.target < 0 => ~f.t.burst
  /\ ~f.was => f.t.target < 0 /\ (f.pend = NoApp \/ ~f.pendAllowed)
  /\ f.t.target >= 0 => f.t.auto /\ f.gen # 0 /\ OnCourse(f.t)

(* What is in flight is no more than before.                                *)
Fewer(q, p) ==
  /\ NoClicks(p) => NoClicks(q)
  /\ \A dir : Toward(p, dir) => Toward(q, dir)
  /\ ClickCount(q) <= ClickCount(p)

LEMMA FewerClicks ==
  ASSUME NEW p \in Seq(Command)
  PROVE  /\ Fewer(p, p) /\ Fewer(<<>>, p) /\ Fewer(p \o <<>>, p)
         /\ \A c \in Command : ~IsClick(c) => Fewer(p \o <<c>>, p)
         /\ p # <<>> => Fewer(Tail(p), p)
<1>1. ClickCount(p) \in Nat /\ ClickCount(p) <= ClickCount(p) /\ p \o <<>> = p
  BY ClicksCount
<1>2. Fewer(p, p)
  BY <1>1 DEF Fewer
<1>3. Fewer(<<>>, p)
  <2>1. <<>> \in Seq(Command) /\ NoClicks(<<>>) /\ \A dir : Toward(<<>>, dir)
    BY DEF NoClicks, Toward
  <2>2. ClickCount(<<>>) = 0
    BY <2>1, ClicksCount
  <2> QED BY <1>1, <2>1, <2>2 DEF Fewer
<1>4. ASSUME NEW c \in Command, ~IsClick(c) PROVE Fewer(p \o <<c>>, p)
  <2>1. p \o <<c>> = Append(p, c)
    OBVIOUS
  <2>2. ClickCount(Append(p, c)) = ClickCount(p)
    BY <1>4, OneClickSent
  <2>3. NoClicks(p) => NoClicks(Append(p, c))
    BY <1>4, OneCommandMore
  <2>4. \A dir : Toward(p, dir) => Toward(Append(p, c), dir)
    BY <1>4, OneWay
  <2> QED BY <1>1, <2>1, <2>2, <2>3, <2>4 DEF Fewer
<1>5. ASSUME p # <<>> PROVE Fewer(Tail(p), p)
  <2>1. Tail(p) \in Seq(Command)
    BY <1>5, HeadTailProperties
  <2>2. ClickCount(Tail(p)) \in Nat /\ ClickCount(Tail(p)) <= ClickCount(p)
    <3>1. ClickCount(Tail(p)) \in Nat
      BY <2>1, ClicksCount
    <3>2. ClickCount(p) \in {ClickCount(Tail(p)), ClickCount(Tail(p)) + 1}
      BY <1>5, OneClickArrives
    <3> QED BY <3>1, <3>2
  <2>3. NoClicks(p) => NoClicks(Tail(p))
    BY <1>5, OneCommandGone
  <2>4. \A dir : Toward(p, dir) => Toward(Tail(p), dir)
    BY <1>5, OneWay
  <2> QED BY <2>2, <2>3, <2>4 DEF Fewer
<1> QED BY <1>1, <1>2, <1>3, <1>4, <1>5

(* A burst goes on being bounded while its clicks arrive elsewhere.         *)
LEMMA BurstStaysOK ==
  ASSUME NEW s \in Session, NEW level \in Level, NEW p \in Seq(Command),
         NEW q \in Seq(Command), Fewer(q, p), BurstOK(s, level, p),
         s.target >= 0, s.start \in MaybeLevel
  PROVE  BurstOK(s, level, q)
<1>1. ASSUME s.burst \/ s.ext, s.planned > 1
      PROVE  /\ s.dir \in {1, -1} /\ Toward(q, s.dir)
             /\ s.dir * (level - s.start) + Reach(ClickCount(q)) <= Reach(s.sent)
             /\ Reach(s.planned) <= s.dir * (s.target - s.start)
  <2> DEFINE far == s.dir * (level - s.start)
  <2>1. /\ s.dir \in {1, -1} /\ Toward(p, s.dir)
        /\ far + Reach(ClickCount(p)) <= Reach(s.sent)
        /\ Reach(s.planned) <= s.dir * (s.target - s.start)
    BY <1>1 DEF BurstOK
  <2>2. Toward(q, s.dir)
    BY <2>1 DEF Fewer
  <2>3. far \in Int
    <3>1. level - s.start \in Int
      BY VolumeAssumption DEF Level, MaybeLevel, None
    <3>2. s.dir = 1 \/ s.dir = -1
      BY <2>1
    <3> DEFINE d == level - s.start
    <3> HIDE DEF d
    <3>3. d \in Int => s.dir * d \in Int
      BY <3>2
    <3> QED BY <3>1, <3>3 DEF d
  <2>4. ClickCount(p) \in Nat /\ ClickCount(q) \in Nat /\ ClickCount(q) <= ClickCount(p)
    BY ClicksCount DEF Fewer
  <2>5. Reach(ClickCount(q)) <= Reach(ClickCount(p))
        /\ Reach(ClickCount(q)) \in Int /\ Reach(ClickCount(p)) \in Int
    BY <2>4, ReachGrows
  <2>6. Reach(s.sent) \in Int
    <3>1. s.sent \in Nat
      BY VolumeAssumption DEF Session
    <3>2. Reach(s.sent) \in Nat
      BY <3>1, ReachGrows
    <3> QED BY <3>2
  <2> HIDE DEF far
  <2>7. far + Reach(ClickCount(q)) <= Reach(s.sent)
    BY <2>1, <2>3, <2>5, <2>6
  <2> QED BY <2>1, <2>2, <2>7 DEF far
<1> QED BY <1>1 DEF BurstOK

(* The part of the invariant that is about the target goes on with it.      *)
LEMMA CourseKept ==
  ASSUME TypeOK, TypeOK', FirstOK, LevelIsHeard', Goes(f', f), rx'.vol = rx.vol,
         used'.idle = used.idle, Fewer(toRx', toRx),
         AllAt(fromRx, rx.vol) => AllAt(fromRx', rx.vol)
  PROVE  FirstOK'
<1>t. /\ f.t \in Session /\ f'.t \in Session /\ rx.vol \in Level
      /\ toRx \in Seq(Command) /\ toRx' \in Seq(Command)
  BY DEF TypeOK, FirmwareState, Receiver
<1>1. (used'.idle = 0 => f'.cur = NoApp /\ f'.pend = NoApp) /\ (Waiting' => Waiting)
  BY DEF FirstOK, Goes, Waiting
<1>2. (Still => Still') /\ (f.t.target < 0 => f'.t.target < 0)
  BY GoesIsEnough DEF Still, Fewer, Goes
<1>3. f'.t.target < 0 => ~f'.t.burst
  BY GoesIsEnough DEF FirstOK, Goes
<1>4. ~f'.was => f'.t.target < 0 /\ (f'.pend = NoApp \/ ~f'.pendAllowed)
  BY <1>2 DEF FirstOK, Goes
<1>5. ASSUME f'.t.target >= 0 PROVE f'.t.auto /\ f'.gen # 0 /\ OnCourse(f.t)'
  <2>0. ~(f'.t.target < 0)
    BY <1>5 DEF TypeOK, FirmwareState, Session, MaybeLevel, Level, None
  <2>1. Course(f'.t) = Course(f.t) /\ f'.gen = f.gen /\ f'.vol = f.vol
    BY <2>0, GoesIsEnough DEF Goes
  <2>2. /\ f'.t.target = f.t.target /\ f'.t.auto = f.t.auto /\ f'.t.phase = f.t.phase
        /\ f'.t.obs = f.t.obs /\ f'.t.dir = f.t.dir /\ f'.t.burst = f.t.burst
        /\ f'.t.ext = f.t.ext /\ f'.t.start = f.t.start /\ f'.t.planned = f.t.planned
        /\ f'.t.sent = f.t.sent
    BY <2>1, GoesIsEnough
  <2>3. f.t.auto /\ f.gen # 0 /\ OnCourse(f.t)
    BY <1>5, <2>2 DEF FirstOK
  <2>4. Steady(f'.t, Still', rx'.vol) /\ Settles(f'.t, f'.vol)
    BY <1>2, <2>1, <2>2, <2>3 DEF OnCourse, Steady, Settles
  <2>5. GainsBounded => BurstOK(f'.t, rx'.vol, toRx')
    <3>1. GainsBounded => BurstOK(f'.t, rx.vol, toRx)
      BY <2>2, <2>3 DEF OnCourse, BurstOK
    <3> QED BY <1>t, <1>5, <3>1, BurstStaysOK DEF Session
  <2> QED BY <2>1, <2>2, <2>3, <2>4, <2>5 DEF OnCourse
<1> QED BY <1>1, <1>2, <1>3, <1>4, <1>5 DEF FirstOK

(* The steps that keep the first event the only one: those of the loop, the *)
(* receiver, the link and the power, and the event itself.                  *)
FirstComes == used.idle = 0 /\ used'.idle = 1 /\ \E a \in Apps : ReceiveIdle(a)
OnlyLoop ==
  /\ used'.idle = used.idle
  /\ \/ Loop \/ LeaseExpires \/ LearningCooldownEnds
     \/ ReceiverObeys \/ LinkUp \/ LinkDown \/ PowerLoss \/ UNCHANGED vars

LEMMA FirstCounts ==
  ASSUME TypeOK, [Next]_vars, FirstEvent'
  PROVE  FirstEvent /\ (FirstComes \/ OnlyLoop)
<1> DEFINE Up == \A w \in DOMAIN Bound : used[w] \in Nat /\ used'[w] \in Nat /\ used[w] <= used'[w]
<1>t. used \in [DOMAIN Bound -> Nat] /\ "manual" \in DOMAIN Bound /\ "remote" \in DOMAIN Bound
      /\ "updates" \in DOMAIN Bound /\ "idle" \in DOMAIN Bound /\ "drops" \in DOMAIN Bound
      /\ "boots" \in DOMAIN Bound /\ "failures" \in DOMAIN Bound
  BY BoundNames DEF TypeOK
<1>u. ASSUME NEW what \in DOMAIN Bound, Use(what)
      PROVE  /\ Up /\ used'[what] = used[what] + 1
             /\ what # "idle" => used'["idle"] = used["idle"]
  <2>1. used' = [used EXCEPT ![what] = used[what] + 1]
    BY <1>u DEF Use
  <2>2. \A w \in DOMAIN Bound : used[w] \in Nat
                                /\ used'[w] = IF w = what THEN used[w] + 1 ELSE used[w]
    BY <1>t, <2>1
  <2>3. Up
    BY <2>2
  <2> QED BY <1>t, <2>2, <2>3
<1>n. used' = used => Up /\ used'["idle"] = used["idle"]
  BY <1>t
<1>z. used'.manual + used'.remote = 0 /\ used'.updates = 0 /\ used'.idle <= 1
  BY DEF FirstEvent, Untouched
<1>f. ASSUME Up PROVE FirstEvent /\ used'.manual = 0 /\ used'.remote = 0 /\ used'.updates = 0
  <2>1. /\ used.manual \in Nat /\ used'.manual \in Nat /\ used.manual <= used'.manual
        /\ used.remote \in Nat /\ used'.remote \in Nat /\ used.remote <= used'.remote
        /\ used.updates \in Nat /\ used'.updates \in Nat /\ used.updates <= used'.updates
        /\ used.idle \in Nat /\ used'.idle \in Nat /\ used.idle <= used'.idle
    BY <1>t, <1>f
  <2> HIDE DEF Up
  <2> QED BY <1>z, <2>1 DEF FirstEvent, Untouched
<1>x. ASSUME NEW what \in {"manual", "remote", "updates"}, Use(what) PROVE FALSE
  <2>1. what \in DOMAIN Bound /\ Up /\ used'[what] = used[what] + 1
    BY <1>t, <1>u, <1>x
  <2>2. used[what] \in Nat /\ used'[what] = 0
    <3>1. used'.manual = 0 /\ used'.remote = 0 /\ used'.updates = 0
      BY <1>f, <2>1
    <3> HIDE DEF Up
    <3> QED BY <1>t, <1>x, <2>1, <3>1
  <2> HIDE DEF Up
  <2> QED BY <2>1, <2>2
<1>i. ASSUME Use("idle") PROVE FirstEvent /\ used.idle = 0 /\ used'.idle = 1
  <2>1. FirstEvent /\ used'.idle = used.idle + 1 /\ used.idle \in Nat
    BY <1>t, <1>u, <1>f, <1>i
  <2> HIDE DEF Up
  <2> QED BY <1>z, <2>1
<1>k. ASSUME NEW what \in {"drops", "boots", "failures"}, Use(what)
      PROVE  FirstEvent /\ used'.idle = used.idle
  <2>1. what \in DOMAIN Bound /\ what # "idle"
    BY <1>t
  <2> QED BY <1>u, <1>f, <1>k, <2>1
<1>m. used' = used => FirstEvent /\ used'.idle = used.idle
  BY <1>n, <1>f
<1> HIDE DEF Up
<1>1. CASE HomeAssistant
  <2>1. ~(Use("updates"))
    BY <1>x
  <2>2. \E a \in Apps : ReceiveIdle(a)
    <3>1. \A a \in Apps : ~ReceiveActive(a)
      BY <2>1 DEF ReceiveActive
    <3>2. \A reauth \in BOOLEAN : ~ReceiveAgain(reauth)
      BY <2>1 DEF ReceiveAgain
    <3>3. ~(ReceiveRevocation \/ ReceiveClear \/ ReceiveIgnored)
      BY <2>1 DEF ReceiveRevocation, ReceiveClear, ReceiveIgnored
    <3> QED BY <1>1, <3>1, <3>2, <3>3 DEF HomeAssistant
  <2>3. Use("idle")
    BY <2>2 DEF ReceiveIdle
  <2> QED BY <1>i, <2>2, <2>3 DEF FirstComes
<1>2. CASE WebUser \/ UseRemote
  <2>1. Use("manual") \/ Use("remote")
    BY <1>2 DEF WebUser, SendVolume, SendTargetVolume, UseRemote
  <2> QED BY <1>x, <2>1
<1>3. CASE Loop \/ LeaseExpires \/ LearningCooldownEnds
  <2>1. ASSUME NEW g, Becomes(g) PROVE used' = used
    BY <2>1 DEF Becomes
  <2>2. ASSUME NEW cmds, NEW g, NEW h, Sends(cmds, g, h) PROVE used' = used \/ Use("failures")
    BY <2>2 DEF Sends
  <2>3. CASE ReadDenon
    BY <1>k, <1>m, <2>3 DEF ReadDenon, OnlyLoop, Loop
  <2>4. CASE StartMuteCycle
    <3>1. (\E g : Becomes(g)) \/ (\E cmds, g, h : Sends(cmds, g, h)) \/ Use("failures")
      BY <2>4, Zenon DEF StartMuteCycle
    <3> QED BY <1>k, <1>m, <1>3, <2>1, <2>2, <3>1 DEF OnlyLoop
  <2>5. CASE BurstClick \/ NextClick
    <3>1. (\E g : Becomes(g)) \/ (\E cmds, g, h : Sends(cmds, g, h))
      BY <2>5, Zenon DEF BurstClick, NextClick
    <3> QED BY <1>k, <1>m, <1>3, <2>1, <2>2, <3>1 DEF OnlyLoop
  <2>6. CASE Settled \/ RequestMovementStatus \/ RequestFreshStatus \/ StatusPoll
             \/ maintainAutomaticRemute
    <3>1. (\E g : Becomes(g)) \/ (\E cmds, g, h : Sends(cmds, g, h))
      BY <2>6, Zenon DEF Settled, RequestMovementStatus, RequestFreshStatus, StatusPoll,
                         maintainAutomaticRemute
    <3> QED BY <1>k, <1>m, <1>3, <2>1, <2>2, <3>1 DEF OnlyLoop
  <2>7. CASE maintainManualMuteLock \/ maintainAppSwitch \/ RestoreDeadline \/ ResponseTimeout
             \/ LeaseEnds \/ SeesConnected \/ SeesDisconnected \/ LeaseExpires
             \/ LearningCooldownEnds
    <3>1. \E g : Becomes(g)
      BY <2>7, Zenon DEF maintainManualMuteLock, maintainAppSwitch, RestoreDeadline,
                         ResponseTimeout, LeaseEnds, SeesConnected, SeesDisconnected,
                         LeaseExpires, LearningCooldownEnds
    <3> QED BY <1>m, <1>3, <2>1, <3>1 DEF OnlyLoop
  <2> QED BY <1>3, <2>3, <2>4, <2>5, <2>6, <2>7 DEF Loop, Restore
<1>4. CASE ReceiverObeys \/ LinkUp \/ LinkDown \/ PowerLoss
  BY <1>4, <1>k, <1>m DEF ReceiverObeys, LinkUp, LinkDown, PowerLoss, OnlyLoop
<1>5. CASE UNCHANGED vars
  BY <1>5, <1>m DEF vars, OnlyLoop
<1> QED BY <1>1, <1>2, <1>3, <1>4, <1>5 DEF Next, World

(* A step of the firmware that hears nothing, sends no click and lets the   *)
(* target go on or end.                                                     *)
LEMMA FirmwareGoes ==
  ASSUME TypeOK, TypeOK', FirstOK, Goes(f', f), Wire, used'.idle = used.idle,
         Fewer(toRx', toRx)
  PROVE  FirstOK'
<1>1. ~(None >= 0)
  BY DEF None
<1>2. f'.was /\ f'.vol >= 0 => f.was /\ f'.vol = f.vol
  BY <1>1 DEF Goes
<1>3. LevelIsHeard'
  BY <1>2 DEF FirstOK, LevelIsHeard, Wire
<1> QED BY <1>3, CourseKept DEF Wire

(* Such steps: the timers, the ends of targets, the edges of the link.      *)
LEMMA QuietStepsKeepFirst ==
  ASSUME TypeOK, TypeOK', FirstOK, used'.idle = used.idle,
         \/ maintainManualMuteLock \/ maintainAutomaticRemute \/ RestoreDeadline
         \/ ResponseTimeout \/ LeaseEnds \/ SeesConnected \/ SeesDisconnected \/ StatusPoll
         \/ LeaseExpires \/ LearningCooldownEnds \/ UNCHANGED vars
  PROVE  FirstOK'
<1>f. f \in FirmwareState /\ toRx \in Seq(Command)
  BY DEF TypeOK
<1>p. GetStatus \in Command /\ ~IsClick(GetStatus) /\ MuteOn \in Command /\ ~IsClick(MuteOn)
  <2>1. ~IsClick(GetStatus) /\ ~IsClick(MuteOn)
    BY DEF GetStatus, MuteOn, IsClick
  <2> QED BY <2>1, CommandTypes
<1>q. Fewer(toRx, toRx) /\ Fewer(toRx \o <<>>, toRx) /\ Fewer(toRx \o <<GetStatus>>, toRx)
      /\ Fewer(toRx \o <<MuteOn>>, toRx)
  BY <1>f, <1>p, FewerClicks
<1>b. ASSUME NEW g, Becomes(g), Goes(g, f) PROVE FirstOK'
  <2>1. f' = g /\ toRx' = toRx /\ Wire
    BY <1>b DEF Becomes, Env, Wire
  <2> QED BY <1>b, <1>q, <2>1, FirmwareGoes
<1>s. ASSUME NEW cmds \in {<<>>, <<GetStatus>>, <<MuteOn>>}, NEW g, NEW h, Sends(cmds, g, h),
             Goes(g, f), Goes(h, f)
      PROVE  FirstOK'
  <2>1. f' \in {g, h} /\ toRx' \in {toRx, toRx \o cmds} /\ Wire
    BY <1>s DEF Sends, Env, Wire
  <2>2. Fewer(toRx', toRx)
    BY <1>q, <1>s, <2>1
  <2> QED BY <1>s, <2>1, <2>2, FirmwareGoes
<1>a. ASSUME NEW g, g.cur = f.cur, g.pend = f.pend, g.vol = f.vol, g.gen = f.gen, g.t = f.t,
             g.was = f.was, g.pendAllowed = f.pendAllowed
      PROVE  Goes(g, f)
  BY <1>a DEF Goes
<1>1. CASE maintainManualMuteLock
  <2> DEFINE g == [f EXCEPT !.autoFb = FALSE, !.lockRaw = f.vol]
  <2>1. /\ g.cur = f.cur /\ g.pend = f.pend /\ g.vol = f.vol /\ g.gen = f.gen /\ g.t = f.t
        /\ g.was = f.was /\ g.pendAllowed = f.pendAllowed
    BY <1>f DEF FirmwareState
  <2>2. Becomes(g)
    BY <1>1 DEF maintainManualMuteLock
  <2> HIDE DEF g
  <2> QED BY <1>a, <1>b, <2>1, <2>2
<1>2. CASE maintainAutomaticRemute
  <2> DEFINE g == [f EXCEPT !.remConf = TRUE, !.muteKnown = FALSE]
  <2>1. /\ g.cur = f.cur /\ g.pend = f.pend /\ g.vol = f.vol /\ g.gen = f.gen /\ g.t = f.t
        /\ g.was = f.was /\ g.pendAllowed = f.pendAllowed
    BY <1>f DEF FirmwareState
  <2>2. Sends(<<MuteOn>>, g, f)
    BY <1>2 DEF maintainAutomaticRemute
  <2> HIDE DEF g
  <2> QED BY <1>a, <1>s, <2>1, <2>2, GoesIsEnough
<1>3. CASE RestoreDeadline \/ ResponseTimeout \/ LeaseEnds
  <2>1. \E g \in {failVolumeRestore(f), completeVolumeRestore(f)} : Becomes(g)
    BY <1>3, Zenon DEF RestoreDeadline, ResponseTimeout, LeaseEnds
  <2> QED BY <1>f, <1>b, <2>1, EndsGo
<1>4. CASE SeesConnected \/ SeesDisconnected
  <2>1. /\ SeesConnected => f.t.target < 0 /\ Becomes(ConnectEdge(f))
        /\ SeesDisconnected => Becomes(DisconnectEdge(f))
    BY DEF SeesConnected, SeesDisconnected, FirstOK
  <2>2. f.t.target < 0 \/ f.t.auto
    <3>1. f.t.target < 0 \/ f.t.target >= 0
      BY <1>f DEF FirmwareState, Session, MaybeLevel, Level, None
    <3> QED BY <3>1 DEF FirstOK
  <2> QED BY <1>f, <1>b, <1>4, <2>1, <2>2, EdgesGo
<1>5. CASE StatusPoll
  <2> DEFINE g == [f EXCEPT !.sess = TRUE]
             cmds == IF f.t.target < 0 THEN <<GetStatus>> ELSE <<>>
  <2>1. /\ g.cur = f.cur /\ g.pend = f.pend /\ g.vol = f.vol /\ g.gen = f.gen /\ g.t = f.t
        /\ g.was = f.was /\ g.pendAllowed = f.pendAllowed
    BY <1>f DEF FirmwareState
  <2>2. Sends(cmds, g, g)
    BY <1>5 DEF StatusPoll
  <2>3. cmds \in {<<>>, <<GetStatus>>, <<MuteOn>>}
    BY Zenon
  <2> HIDE DEF g, cmds
  <2> QED BY <1>a, <1>s, <2>1, <2>2, <2>3
<1>6. CASE LeaseExpires \/ LearningCooldownEnds
  <2> DEFINE a == [f EXCEPT !.curAuth = "stale"]
             b == [f EXCEPT !.pendAuth = "stale"]
             c == [f EXCEPT !.quiet = TRUE]
  <2>1. /\ a.cur = f.cur /\ a.pend = f.pend /\ a.vol = f.vol /\ a.gen = f.gen /\ a.t = f.t
        /\ a.was = f.was /\ a.pendAllowed = f.pendAllowed
    BY <1>f DEF FirmwareState
  <2>2. /\ b.cur = f.cur /\ b.pend = f.pend /\ b.vol = f.vol /\ b.gen = f.gen /\ b.t = f.t
        /\ b.was = f.was /\ b.pendAllowed = f.pendAllowed
    BY <1>f DEF FirmwareState
  <2>3. /\ c.cur = f.cur /\ c.pend = f.pend /\ c.vol = f.vol /\ c.gen = f.gen /\ c.t = f.t
        /\ c.was = f.was /\ c.pendAllowed = f.pendAllowed
    BY <1>f DEF FirmwareState
  <2>4. \E g \in {a, b, c} : Becomes(g)
    BY <1>6, Zenon DEF LeaseExpires, LearningCooldownEnds
  <2> HIDE DEF a, b, c
  <2>5. Goes(a, f) /\ Goes(b, f) /\ Goes(c, f)
    BY <1>a, <2>1, <2>2, <2>3
  <2> QED BY <1>b, <2>4, <2>5
<1>7. CASE UNCHANGED vars
  <2>1. f' = f /\ toRx' = toRx /\ Wire
    BY <1>7 DEF vars, Wire
  <2> QED BY <1>q, <2>1, FirmwareGoes, GoesIsEnough
<1> QED BY <1>1, <1>2, <1>3, <1>4, <1>5, <1>6, <1>7

(* The link and the power supply.                                           *)
LEMMA LinkKeepsFirst ==
  ASSUME TypeOK, TypeOK', FirstOK, used'.idle = used.idle, LinkUp \/ LinkDown \/ PowerLoss
  PROVE  FirstOK'
<1>t. toRx \in Seq(Command) /\ fromRx \in Seq(Report)
  BY DEF TypeOK
<1>1. CASE LinkUp
  <2>1. f' = f /\ ~f.was /\ rx' = rx /\ toRx' = toRx /\ fromRx' = fromRx /\ fromRx = <<>>
    BY <1>1 DEF LinkUp, Outside
  <2>2. LevelIsHeard'
    BY <2>1 DEF LevelIsHeard, EndsAt
  <2> QED BY <1>t, <2>1, <2>2, CourseKept, FewerClicks, GoesIsEnough
<1>2. CASE LinkDown
  <2>1. PICK n \in 0..Len(fromRx) : fromRx' = SubSeq(fromRx, 1, n)
    BY <1>2 DEF LinkDown
  <2>2. f' = f /\ rx' = rx /\ toRx' = <<>> /\ ~link'
    BY <1>2 DEF LinkDown, Outside
  <2>3. LevelIsHeard'
    BY <2>2 DEF LevelIsHeard
  <2>4. AllAt(fromRx, rx.vol) => AllAt(fromRx', rx.vol)
    BY <1>t, <2>1, MoreLevels
  <2> QED BY <1>t, <2>2, <2>3, <2>4, CourseKept, FewerClicks, GoesIsEnough
<1>3. CASE PowerLoss
  <2>1. ~link' /\ toRx' = <<>> /\ fromRx' = <<>>
    BY <1>3 DEF PowerLoss
  <2>2. PICK nv, saved : f' = Boot(nv, saved)
    BY <1>3 DEF PowerLoss
  <2>3. /\ f'.t = NoSession /\ f'.cur = NoApp /\ f'.pend = NoApp /\ f'.vol = None
    BY <2>2 DEF Boot
  <2>4. f'.t.target < 0 /\ ~f'.t.burst /\ ~(f'.t.target >= 0)
    BY <2>3 DEF NoSession, None
  <2>5. Still'
    BY <2>1, <2>3 DEF Still, NoClicks, AllAt
  <2>6. LevelIsHeard'
    BY <2>1 DEF LevelIsHeard
  <2> QED BY <2>3, <2>4, <2>5, <2>6 DEF FirstOK
<1> QED BY <1>1, <1>2, <1>3

(* A click arrives: it takes the receiver no further than it was counted.   *)
LEMMA ClickArrives ==
  ASSUME TypeOK, NEW s \in Session, s.target >= 0, s.start \in MaybeLevel, toRx # <<>>,
         IsClick(Head(toRx)), NEW gain \in Gains, gain <= WorstRaw,
         BurstOK(s, rx.vol, toRx)
  PROVE  BurstOK(s, Moved(Head(toRx), gain).vol, Tail(toRx))
<1> DEFINE c == Head(toRx)
           v == rx.vol
           w == Moved(c, gain).vol
<1>t. /\ toRx \in Seq(Command) /\ Tail(toRx) \in Seq(Command) /\ v \in Level
      /\ gain \in Nat /\ WorstRaw \in Nat /\ MaxRaw \in Nat
  BY ControllerAssumption, VolumeAssumption, HeadTailProperties DEF TypeOK, Receiver
<1>1. w = Clamp(IF c.kind = "up" THEN v + gain ELSE v - gain)
  BY DEF Moved
<1>2. w \in Level /\ (c.kind = "up" => w - v <= gain) /\ (c.kind # "up" => v - w <= gain)
  <2> HIDE DEF c, w, v
  <2>1. CASE c.kind = "up"
    BY <1>t, <1>1, <2>1 DEF Clamp, Level
  <2>2. CASE c.kind # "up"
    BY <1>t, <1>1, <2>2 DEF Clamp, Level
  <2> QED BY <2>1, <2>2
<1>3. ASSUME s.burst \/ s.ext, s.planned > 1
      PROVE  /\ s.dir \in {1, -1} /\ Toward(Tail(toRx), s.dir)
             /\ s.dir * (w - s.start) + Reach(ClickCount(Tail(toRx))) <= Reach(s.sent)
             /\ Reach(s.planned) <= s.dir * (s.target - s.start)
  <2>1. /\ s.dir \in {1, -1} /\ Toward(toRx, s.dir)
        /\ s.dir * (v - s.start) + Reach(ClickCount(toRx)) <= Reach(s.sent)
        /\ Reach(s.planned) <= s.dir * (s.target - s.start)
    BY <1>3 DEF BurstOK
  <2>2. Toward(Tail(toRx), s.dir) /\ c.kind = Way(s.dir)
    BY <1>t, <2>1, OneWay
  <2> DEFINE n == ClickCount(Tail(toRx))
  <2>3. n \in Nat /\ ClickCount(toRx) = n + 1
    BY <1>t, ClicksCount, OneClickArrives
  <2>4. Reach(n + 1) = Reach(n) + WorstRaw /\ Reach(n) \in Nat
    BY <2>3, ReachGrows
  <2>5. s.sent \in Nat
    BY VolumeAssumption DEF Session
  <2>6. Reach(s.sent) \in Nat
    BY <2>5, ReachGrows
  <2>7. s.start \in Int
    BY DEF MaybeLevel, Level, None
  <2> HIDE DEF n, c, w, v
  <2>8. s.dir * (w - s.start) <= s.dir * (v - s.start) + WorstRaw
        /\ s.dir * (w - s.start) \in Int /\ s.dir * (v - s.start) \in Int
    <3> DEFINE x == w - s.start
               y == v - s.start
    <3>1. x \in Int /\ y \in Int /\ (c.kind = "up" => x <= y + WorstRaw)
          /\ (c.kind # "up" => y <= x + WorstRaw)
      <4>1. v \in Int /\ w \in Int
        BY <1>t, <1>2 DEF Level
      <4>2. gain \in Int /\ WorstRaw \in Int /\ gain <= WorstRaw
        BY <1>t
      <4>3. c.kind = "up" => x <= y + WorstRaw
        BY <1>2, <2>7, <4>1, <4>2
      <4>4. c.kind # "up" => y <= x + WorstRaw
        BY <1>2, <2>7, <4>1, <4>2
      <4> QED BY <2>7, <4>1, <4>3, <4>4
    <3> HIDE DEF x, y
    <3>2. CASE s.dir = 1
      <4>1. c.kind = "up" /\ s.dir * x = x /\ s.dir * y = y
        BY <2>2, <3>1, <3>2 DEF Way
      <4> QED BY <3>1, <4>1 DEF x, y
    <3>3. CASE s.dir = -1
      <4>1. c.kind # "up" /\ s.dir * x = (-x) /\ s.dir * y = (-y)
        BY <2>2, <3>1, <3>3 DEF Way
      <4>2. s.dir * x <= s.dir * y + WorstRaw /\ s.dir * x \in Int /\ s.dir * y \in Int
        BY <1>t, <3>1, <4>1
      <4> QED BY <4>2 DEF x, y
    <3> QED BY <2>1, <3>2, <3>3
  <2>9. s.dir * (w - s.start) + Reach(n) <= Reach(s.sent)
    <3>1. s.dir * (v - s.start) + (Reach(n) + WorstRaw) <= Reach(s.sent)
      BY <2>1, <2>3, <2>4
    <3> DEFINE x == s.dir * (w - s.start)
               y == s.dir * (v - s.start)
    <3>2. x <= y + WorstRaw /\ x \in Int /\ y \in Int /\ y + (Reach(n) + WorstRaw) <= Reach(s.sent)
      BY <2>8, <3>1
    <3> HIDE DEF x, y
    <3>3. x + Reach(n) <= Reach(s.sent)
      BY <1>t, <2>4, <2>6, <3>2
    <3> QED BY <3>3 DEF x
  <2> QED BY <2>1, <2>2, <2>9 DEF n
<1>4. s.sent <= s.planned
  BY DEF BurstOK
<1> QED BY <1>3, <1>4 DEF BurstOK

LEMMA ReceiverKeepsFirst ==
  ASSUME TypeOK, TypeOK', FirstOK, ReceiverObeys
  PROVE  FirstOK'
<1> DEFINE c == Head(toRx)
<1>t. /\ toRx \in Seq(Command) /\ fromRx \in Seq(Report) /\ toRx # <<>>
      /\ toRx' = Tail(toRx) /\ toRx' \in Seq(Command)
      /\ f' = f /\ link' = link /\ used' = used
  BY DEF TypeOK, ReceiverObeys, Outside
<1>1. PICK out \in Seq(Report) : /\ fromRx' = fromRx \o out
                                 /\ AllAt(out, rx'.vol)
                                 /\ NoVolumes(out) => rx'.vol = rx.vol
  BY TrueLevelsAreAdded
<1>2. LevelIsHeard'
  <2>1. EndsAt(fromRx, rx.vol) => EndsAt(fromRx', rx'.vol)
    BY <1>t, <1>1, MoreLevels
  <2>2. NoVolumes(fromRx') => NoVolumes(fromRx) /\ rx'.vol = rx.vol
    BY <1>t, <1>1, MoreLevels
  <2> QED BY <1>t, <2>1, <2>2 DEF FirstOK, LevelIsHeard
<1>3. CASE ~IsClick(c)
  <2>1. c \in Command
    BY <1>t, HeadTailProperties
  <2>2. c.kind = "status" \/ c.kind = "mute"
    <3> HIDE DEF c
    <3> QED BY <1>3, <2>1 DEF Command, IsClick
  <2>3. rx'.vol = rx.vol
    <3>1. rx' = rx \/ rx' = [rx EXCEPT !.muted = TRUE, !.broken = FALSE]
      BY <2>2 DEF ReceiverObeys
    <3> QED BY <3>1 DEF TypeOK, Receiver
  <2>4. AllAt(fromRx, rx.vol) => AllAt(fromRx', rx.vol)
    BY <1>t, <1>1, <2>3, MoreLevels
  <2>5. Fewer(toRx', toRx)
    BY <1>t, FewerClicks
  <2> QED BY <1>t, <1>2, <2>3, <2>4, <2>5, CourseKept, GoesIsEnough
<1>4. CASE IsClick(c)
  <2>1. c.kind # "status" /\ c.kind # "mute"
    BY <1>4 DEF IsClick
  <2>2. PICK gain \in Gains : rx' = Moved(c, gain)
    BY <2>1 DEF ReceiverObeys
  <2>3. ~Still
    <3>1. 1 \in DOMAIN toRx /\ toRx[1] = c
      BY <1>t, HeadTailProperties, LenProperties, EmptySeq
    <3> QED BY <1>4, <3>1 DEF Still, NoClicks
  <2>4. ~Waiting /\ ~Waiting'
    BY <1>t, <2>3 DEF FirstOK, Waiting
  <2>5. ASSUME f.t.target >= 0 PROVE f.t.auto /\ f.gen # 0 /\ OnCourse(f.t)'
    <3>1. f.t.auto /\ f.gen # 0 /\ OnCourse(f.t)
      BY <2>5 DEF FirstOK
    <3>2. Steady(f.t, Still', rx'.vol) /\ Settles(f.t, f.vol)
      BY <2>3, <3>1 DEF OnCourse, Steady
    <3>3. GainsBounded => BurstOK(f.t, rx'.vol, toRx')
      <4>1. f.t \in Session /\ f.t.start \in MaybeLevel
        BY DEF TypeOK, FirmwareState, Session
      <4>2. GainsBounded => gain <= WorstRaw /\ BurstOK(f.t, rx.vol, toRx)
        BY <2>2, <3>1 DEF OnCourse, GainsBounded
      <4> QED BY <1>t, <1>4, <2>2, <2>5, <4>1, <4>2, ClickArrives
    <3> QED BY <1>t, <3>1, <3>2, <3>3 DEF OnCourse
  <2>6. used.idle # 0
    BY <2>4 DEF Waiting
  <2>7. /\ f.t.target < 0 => ~f.t.burst
        /\ ~f.was => f.t.target < 0 /\ (f.pend = NoApp \/ ~f.pendAllowed)
    BY DEF FirstOK
  <2> QED BY <1>t, <1>2, <2>4, <2>5, <2>6, <2>7 DEF FirstOK
<1> QED BY <1>3, <1>4

(* A mute report is read.                                                   *)
LEMMA MuteReportKeepsFirst ==
  ASSUME TypeOK, TypeOK', FirstOK, used'.idle = used.idle, ReadDenon,
         Head(fromRx).kind # "volume"
  PROVE  FirstOK'
<1> DEFINE r == Head(fromRx)
<1>t. /\ toRx \in Seq(Command) /\ fromRx \in Seq(Report) /\ fromRx # <<>>
      /\ fromRx' = Tail(fromRx) /\ f \in FirmwareState
      /\ link' = link /\ rx' = rx /\ toRx' = toRx
  BY DEF TypeOK, ReadDenon
<1>1. r.on \in BOOLEAN
  <2>1. r \in Report
    BY <1>t, HeadTailProperties
  <2> HIDE DEF r
  <2> QED BY <2>1 DEF Report
<1>2. Goes(f', f)
  <2>1. f' = observeMute(f, r.on, TRUE) \/ f' = observeMute(f, r.on, FALSE)
    BY Zenon DEF ReadDenon
  <2> HIDE DEF r
  <2> QED BY <1>t, <1>1, <2>1, observeMuteKeeps DEF Keeps
<1>3. LevelIsHeard'
  <2>1. ~(None >= 0)
    BY DEF None
  <2>2. f'.was /\ f'.vol >= 0 => f.was /\ f'.vol = f.vol
    BY <1>2, <2>1 DEF Goes
  <2>3. NoVolumes(fromRx') => NoVolumes(fromRx)
    BY <1>t, OneLevelRead
  <2>4. EndsAt(fromRx, rx.vol) => EndsAt(fromRx', rx.vol)
    BY <1>t, OneLevelRead
  <2> QED BY <1>t, <2>2, <2>3, <2>4 DEF FirstOK, LevelIsHeard
<1>4. AllAt(fromRx, rx.vol) => AllAt(fromRx', rx.vol)
  BY <1>t, OneLevelRead
<1> QED BY <1>t, <1>2, <1>3, <1>4, CourseKept, FewerClicks

-----------------------------------------------------------------------------
(* What a volume report makes of a target.                                  *)

(* s is what the target t has become when the level raw was reported.       *)
Hears(s, t, raw) ==
  /\ s.target = t.target /\ s.auto = t.auto /\ s.dir = t.dir /\ s.start = t.start
  /\ s.sent = t.sent /\ s.planned \in {t.planned, t.sent}
  /\ s.burst \/ s.ext => t.burst \/ t.ext
  /\ s.phase \in {"needFreshStatus", "waitFreshStatus", "waitAutomaticUnmute"}
       => s.phase = t.phase /\ s.burst = t.burst /\ s.ext = t.ext
  /\ s.phase # "waitConfirmation"
  /\ s.phase = "ready" =>
       /\ t.phase \in {"waitFreshStatus", "waitConfirmation", "ready"}
       /\ s.obs = raw /\ s.ext = t.ext
       /\ s.burst => t.burst /\ t.phase # "waitConfirmation"
  /\ s.phase = "settling" => s.obs = raw

(* Reached, as a target that waits for a first status or a confirmation.    *)
Reached(g, t, raw) ==
  /\ g.t = NoSession /\ raw = t.target
  /\ t.phase \in {"waitFreshStatus", "waitConfirmation"}

(* The three ways a target takes a report.                                  *)
Takes(g, fw, raw) ==
  /\ g.cur = fw.cur /\ g.pend = fw.pend /\ g.vol = fw.vol /\ g.was = fw.was
  /\ g.pendAllowed = fw.pendAllowed /\ g.gen = fw.gen
  /\ \/ g.t = NoSession /\ ~g.quiet
     \/ Reached(g, fw.t, raw)
     \/ Hears(g.t, fw.t, raw)

LEMMA TakesIsEnough ==
  ASSUME NEW fw \in FirmwareState, NEW raw \in Level
  PROVE  /\ Takes(failVolumeRestore(fw), fw, raw)
         /\ Reached([t |-> NoSession], fw.t, raw) => Takes(completeVolumeRestore(fw), fw, raw)
         /\ \A s : Hears(s, fw.t, raw) => Takes([fw EXCEPT !.t = s], fw, raw)
<1>1. LET g == failVolumeRestore(fw)
      IN /\ g.cur = fw.cur /\ g.pend = fw.pend /\ g.vol = fw.vol /\ g.was = fw.was
         /\ g.pendAllowed = fw.pendAllowed /\ g.gen = fw.gen /\ g.t = NoSession /\ ~g.quiet
  BY EndsAlone, HowTargetsEnd DEF SameOwner, SameEar
<1>2. LET g == completeVolumeRestore(fw)
      IN /\ g.cur = fw.cur /\ g.pend = fw.pend /\ g.vol = fw.vol /\ g.was = fw.was
         /\ g.pendAllowed = fw.pendAllowed /\ g.gen = fw.gen /\ g.t = NoSession
  BY EndsAlone, HowTargetsEnd DEF SameOwner, SameEar
<1>3. ASSUME NEW s, Hears(s, fw.t, raw) PROVE Takes([fw EXCEPT !.t = s], fw, raw)
  <2> DEFINE g == [fw EXCEPT !.t = s]
  <2>1. /\ g.cur = fw.cur /\ g.pend = fw.pend /\ g.vol = fw.vol /\ g.was = fw.was
        /\ g.pendAllowed = fw.pendAllowed /\ g.gen = fw.gen /\ g.t = s
    BY DEF FirmwareState
  <2> HIDE DEF g
  <2> QED BY <1>3, <2>1 DEF Takes
<1> QED BY <1>1, <1>2, <1>3 DEF Takes, Reached

(* Reaching the target, or not yet, with what was noted of the report.      *)
LEMMA AtTargetTakes ==
  ASSUME NEW fw \in FirmwareState, NEW raw \in Level, NEW s \in Session,
         s.target = fw.t.target, fw.t.phase \in {"waitFreshStatus", "waitConfirmation"},
         Hears([s EXCEPT !.phase = "ready"], fw.t, raw)
  PROVE  Takes(AtTargetOrReady([fw EXCEPT !.t = s], raw), fw, raw)
<1> DEFINE g == [fw EXCEPT !.t = s]
           c == completeVolumeRestore(g)
           h == [g EXCEPT !.t.phase = "ready"]
<1>1. g \in FirmwareState /\ g.t = s
  <2>1. g.t = s
    BY DEF FirmwareState
  <2> QED BY <2>1, SessionUpdate
<1>2. /\ g.cur = fw.cur /\ g.pend = fw.pend /\ g.vol = fw.vol /\ g.was = fw.was
      /\ g.pendAllowed = fw.pendAllowed /\ g.gen = fw.gen
  BY DEF FirmwareState
<1>3. raw = s.target => Takes(c, fw, raw)
  <2> HIDE DEF g
  <2>1. /\ c.cur = g.cur /\ c.pend = g.pend /\ c.vol = g.vol /\ c.was = g.was
        /\ c.pendAllowed = g.pendAllowed /\ c.gen = g.gen /\ c.t = NoSession
    BY <1>1, EndsAlone, HowTargetsEnd DEF SameOwner, SameEar
  <2> HIDE DEF c
  <2> QED BY <1>2, <2>1 DEF Takes, Reached
<1>4. Takes(h, fw, raw)
  <2> DEFINE r == [s EXCEPT !.phase = "ready"]
  <2>1. h = [fw EXCEPT !.t = r]
    BY Zenon DEF FirmwareState
  <2>2. Hears(r, fw.t, raw)
    OBVIOUS
  <2> HIDE DEF h, r
  <2> QED BY <2>1, <2>2, TakesIsEnough
<1>5. AtTargetOrReady(g, raw) = IF raw = s.target THEN c ELSE h
  <2> HIDE DEF g
  <2> QED BY <1>1 DEF AtTargetOrReady
<1> HIDE DEF g, c, h
<1>6. Takes(AtTargetOrReady(g, raw), fw, raw)
  BY <1>3, <1>4, <1>5
<1> QED BY <1>6 DEF g

(* The first report after a click or a burst.                               *)
LEMMA MovementSeenTakes ==
  ASSUME NEW fw \in FirmwareState, NEW raw \in Level,
         fw.t.phase \in {"waitMovement", "waitMovementStatus"}
  PROVE  Takes(MovementSeen(fw, raw), fw, raw)
<1> DEFINE t      == fw.t
           extend == t.burst /\ ExtensionAllowed(fw, raw)
           burst  == t.burst /\ ~extend
           ext    == IF t.burst THEN extend ELSE t.ext
           phase  == IF extend THEN "waitBurstSecond" ELSE "settling"
           delta  == IF t.burst THEN Distance(raw, t.start) ELSE t.delta
           clicks == IF t.burst THEN t.sent ELSE t.clicks
           s      == [t EXCEPT !.obs = raw, !.burst = burst, !.ext = ext, !.phase = phase,
                               !.delta = delta, !.clicks = clicks]
<1>1. t \in Session
  BY DEF FirmwareState
<1>2. t.burst \in BOOLEAN /\ t.ext \in BOOLEAN
  <2> HIDE DEF t
  <2> QED BY <1>1 DEF Session
<1>3. (burst => t.burst) /\ (ext => t.burst \/ t.ext)
  <2> HIDE DEF t
  <2> QED BY <1>2, Zenon
<1>4. phase \in {"waitBurstSecond", "settling"}
  BY Zenon
<1>5. Hears(s, t, raw)
  <2>1. /\ s.target = t.target /\ s.auto = t.auto /\ s.dir = t.dir /\ s.start = t.start
        /\ s.sent = t.sent /\ s.planned = t.planned /\ s.obs = raw
        /\ s.burst = burst /\ s.ext = ext /\ s.phase = phase
    <3> HIDE DEF t, extend, burst, ext, phase, delta, clicks
    <3> QED BY <1>1 DEF Session
  <2> HIDE DEF s, burst, ext, phase, t
  <2> QED BY <1>3, <1>4, <2>1 DEF Hears
<1>6. Hears(t, t, raw)
  BY DEF Hears
<1>7. MovementSeen(fw, raw) \in {fw, failVolumeRestore(fw), [fw EXCEPT !.t = s]}
  BY Zenon DEF MovementSeen
<1>8. Takes(fw, fw, raw)
  BY <1>6 DEF Takes
<1> HIDE DEF s
<1> QED BY <1>5, <1>7, <1>8, TakesIsEnough

(* A report in the middle of a burst, or with an extension to be sent.      *)
LEMMA MovementDuringBurstTakes ==
  ASSUME NEW fw \in FirmwareState, NEW raw \in Level, fw.t.phase = "waitBurstSecond"
  PROVE  Takes(MovementDuringBurst(fw, raw), fw, raw)
<1> DEFINE t  == fw.t
           g  == Settling(fw, raw)
           o  == [t EXCEPT !.obs = raw]
           s1 == [t EXCEPT !.obs = raw, !.phase = "settling", !.ext = FALSE, !.burst = TRUE]
           s2 == [t EXCEPT !.obs = raw, !.phase = "settling", !.coarse = FALSE, !.planned = t.sent]
<1>1. t \in Session
  BY DEF FirmwareState
<1>2. /\ [g EXCEPT !.t.ext = FALSE, !.t.burst = TRUE] = [fw EXCEPT !.t = s1]
      /\ [g EXCEPT !.t.coarse = FALSE, !.t.planned = t.sent] = [fw EXCEPT !.t = s2]
      /\ [fw EXCEPT !.t.obs = raw] = [fw EXCEPT !.t = o]
  <2>1. fw.t \in Session
    BY <1>1
  <2>2. g = [fw EXCEPT !.t = [t EXCEPT !.obs = raw, !.phase = "settling"]]
    BY <2>1 DEF Settling, FirmwareState, Session
  <2>3. [g EXCEPT !.t.ext = FALSE, !.t.burst = TRUE] = [fw EXCEPT !.t = s1]
    <3> HIDE DEF g
    <3> QED BY <2>1, <2>2 DEF FirmwareState, Session
  <2>4. [g EXCEPT !.t.coarse = FALSE, !.t.planned = t.sent] = [fw EXCEPT !.t = s2]
    <3> HIDE DEF g
    <3> QED BY <2>1, <2>2 DEF FirmwareState, Session
  <2>5. [fw EXCEPT !.t.obs = raw] = [fw EXCEPT !.t = o]
    BY Zenon
  <2> QED BY <2>3, <2>4, <2>5
<1>3. Hears(o, t, raw)
  <2>1. /\ o.target = t.target /\ o.auto = t.auto /\ o.dir = t.dir /\ o.start = t.start
        /\ o.sent = t.sent /\ o.planned = t.planned
        /\ o.burst = t.burst /\ o.ext = t.ext /\ o.phase = t.phase
    <3> HIDE DEF t
    <3> QED BY <1>1 DEF Session
  <2> HIDE DEF o
  <2> QED BY <2>1 DEF Hears
<1>4. t.ext => Hears(s1, t, raw)
  <2>1. /\ s1.target = t.target /\ s1.auto = t.auto /\ s1.dir = t.dir /\ s1.start = t.start
        /\ s1.sent = t.sent /\ s1.planned = t.planned /\ s1.obs = raw /\ s1.phase = "settling"
    <3> HIDE DEF t
    <3> QED BY <1>1 DEF Session
  <2> HIDE DEF s1
  <2> QED BY <2>1 DEF Hears
<1>5. Hears(s2, t, raw)
  <2>1. /\ s2.target = t.target /\ s2.auto = t.auto /\ s2.dir = t.dir /\ s2.start = t.start
        /\ s2.sent = t.sent /\ s2.planned = t.sent /\ s2.obs = raw /\ s2.phase = "settling"
        /\ s2.burst = t.burst /\ s2.ext = t.ext
    <3> HIDE DEF t
    <3> QED BY <1>1 DEF Session
  <2> HIDE DEF s2
  <2> QED BY <2>1 DEF Hears
<1>6. Hears(t, t, raw)
  BY DEF Hears
<1>7. Takes(fw, fw, raw)
  BY <1>6 DEF Takes
<1> HIDE DEF s1, s2, o, g
<1>8. \/ MovementDuringBurst(fw, raw) \in {fw, failVolumeRestore(fw), [fw EXCEPT !.t = s2],
                                         [fw EXCEPT !.t = o]}
      \/ t.ext /\ MovementDuringBurst(fw, raw) = [fw EXCEPT !.t = s1]
  BY <1>2, Zenon DEF MovementDuringBurst, g
<1> QED BY <1>3, <1>4, <1>5, <1>7, <1>8, TakesIsEnough

(* The level is noted, or is quiet again.                                   *)
LEMMA NotedTakes ==
  ASSUME NEW fw \in FirmwareState, NEW raw \in Level
  PROVE  /\ Takes(Settling(fw, raw), fw, raw)
         /\ fw.t.phase = "settling" => Takes(StillMoving(fw, raw), fw, raw)
         /\ fw.t.phase = "ready" /\ fw.t.obs = raw => Takes(fw, fw, raw)
         /\ fw.t.phase \notin {"settling", "ready", "waitConfirmation"} => Takes(fw, fw, raw)
<1> DEFINE t == fw.t
           s == [t EXCEPT !.obs = raw, !.phase = "settling"]
           o == [t EXCEPT !.obs = raw]
<1>1. t \in Session
  BY DEF FirmwareState
<1>2. Settling(fw, raw) = [fw EXCEPT !.t = s] /\ StillMoving(fw, raw) = [fw EXCEPT !.t = o]
  BY <1>1 DEF Settling, StillMoving, FirmwareState, Session
<1>3. Hears(s, t, raw)
  <2>1. /\ s.target = t.target /\ s.auto = t.auto /\ s.dir = t.dir /\ s.start = t.start
        /\ s.sent = t.sent /\ s.planned = t.planned /\ s.obs = raw /\ s.phase = "settling"
        /\ s.burst = t.burst /\ s.ext = t.ext
    <3> HIDE DEF t
    <3> QED BY <1>1 DEF Session
  <2> HIDE DEF s
  <2> QED BY <2>1 DEF Hears
<1>4. t.phase = "settling" => Hears(o, t, raw)
  <2>1. /\ o.target = t.target /\ o.auto = t.auto /\ o.dir = t.dir /\ o.start = t.start
        /\ o.sent = t.sent /\ o.planned = t.planned /\ o.obs = raw
        /\ o.burst = t.burst /\ o.ext = t.ext /\ o.phase = t.phase
    <3> HIDE DEF t
    <3> QED BY <1>1 DEF Session
  <2> HIDE DEF o
  <2> QED BY <2>1 DEF Hears
<1>5. t.phase = "ready" /\ t.obs = raw => Hears(t, t, raw)
  BY DEF Hears
<1>6. t.phase \notin {"settling", "ready", "waitConfirmation"} => Hears(t, t, raw)
  BY DEF Hears
<1>7. Hears(t, t, raw) => Takes(fw, fw, raw)
  BY DEF Takes
<1> HIDE DEF s, o
<1> QED BY <1>2, <1>3, <1>4, <1>5, <1>6, <1>7, TakesIsEnough

(* The report that confirms a settled level.                                *)
LEMMA ConfirmationSeenTakes ==
  ASSUME NEW fw \in FirmwareState, NEW raw \in Level, fw.t.phase = "waitConfirmation"
  PROVE  Takes(ConfirmationSeen(fw, raw), fw, raw)
<1> DEFINE t      == fw.t
           moved  == Distance(raw, t.start)
           past   == volumeDirection(raw, t.target) \notin {0, t.dir}
           coarse == t.coarse /\ ~past
           s      == [t EXCEPT !.delta = moved, !.clicks = t.sent, !.burst = FALSE,
                               !.coarse = coarse]
           g      == [fw EXCEPT !.t.delta = moved, !.t.clicks = t.sent, !.t.burst = FALSE,
                               !.t.coarse = @ /\ ~past]
           Ready(x) == [x EXCEPT !.phase = "ready"]
<1>1. g = [fw EXCEPT !.t = s] /\ fw = [fw EXCEPT !.t = t]
  <2>1. g = [fw EXCEPT !.t = s]
    <3> HIDE DEF moved, past
    <3> QED BY Zenon
  <2>2. fw = [fw EXCEPT !.t = t]
    BY DEF FirmwareState
  <2> QED BY <2>1, <2>2
<1>2. t \in Session /\ t.start \in MaybeLevel /\ t.sent \in 0..MaxClicks \cup {1}
  BY DEF FirmwareState, Session
<1>3. moved \in Nat /\ coarse \in BOOLEAN
  <2>1. moved \in Nat
    <3> HIDE DEF t
    <3> QED BY <1>2, DistanceType DEF MaybeLevel
  <2>2. coarse \in BOOLEAN
    BY Zenon
  <2> QED BY <2>1, <2>2
<1>4. /\ s \in Session /\ s.target = t.target /\ s.obs = t.obs /\ s.auto = t.auto
      /\ s.dir = t.dir /\ s.start = t.start /\ s.sent = t.sent /\ s.planned = t.planned
      /\ ~s.burst /\ s.ext = t.ext
  <2> HIDE DEF t, moved, coarse
  <2> QED BY <1>2, <1>3 DEF Session
<1>5. ASSUME NEW x \in Session, x.target = t.target, x.obs = raw, x.auto = t.auto,
             x.dir = t.dir, x.start = t.start, x.sent = t.sent, x.planned = t.planned,
             ~x.burst, x.ext = t.ext
      PROVE  Takes(AtTargetOrReady([fw EXCEPT !.t = x], raw), fw, raw)
  <2>1. Hears(Ready(x), t, raw)
    <3>1. /\ Ready(x).target = x.target /\ Ready(x).obs = x.obs /\ Ready(x).auto = x.auto
          /\ Ready(x).dir = x.dir /\ Ready(x).start = x.start /\ Ready(x).sent = x.sent
          /\ Ready(x).planned = x.planned /\ Ready(x).burst = x.burst /\ Ready(x).ext = x.ext
          /\ Ready(x).phase = "ready"
      BY DEF Session
    <3> HIDE DEF Ready
    <3> QED BY <1>5, <3>1 DEF Hears
  <2> QED BY <1>5, <2>1, AtTargetTakes
<1> HIDE DEF s, g, moved, coarse
<1>6. raw = t.obs => Takes(AtTargetOrReady(g, raw), fw, raw)
  BY <1>1, <1>4, <1>5
<1>7. raw = t.obs /\ ~t.burst => Takes(AtTargetOrReady(fw, raw), fw, raw)
  BY <1>1, <1>2, <1>5
<1>8. \/ ConfirmationSeen(fw, raw) \in {Settling(fw, raw), failVolumeRestore(fw)}
      \/ raw = t.obs /\ ~t.burst /\ ConfirmationSeen(fw, raw) = AtTargetOrReady(fw, raw)
      \/ raw = t.obs /\ ConfirmationSeen(fw, raw) = AtTargetOrReady(g, raw)
  BY Zenon DEF ConfirmationSeen, g, moved
<1> QED BY <1>6, <1>7, <1>8, TakesIsEnough, NotedTakes

(* Every report while a target is set.                                      *)
LEMMA TargetFeedbackTakes ==
  ASSUME NEW fw \in FirmwareState, NEW raw \in Level
  PROVE  Takes(TargetFeedback(fw, raw), fw, raw)
<1> DEFINE s == [fw.t EXCEPT !.obs = raw]
           g == [fw EXCEPT !.t.obs = raw]
<1>1. ASSUME fw.t.phase = "waitFreshStatus" PROVE Takes(AtTargetOrReady(g, raw), fw, raw)
  <2>1. fw.t \in Session
    BY DEF FirmwareState
  <2>2. /\ s \in Session /\ s.target = fw.t.target /\ s.obs = raw /\ s.auto = fw.t.auto
        /\ s.dir = fw.t.dir /\ s.start = fw.t.start /\ s.sent = fw.t.sent
        /\ s.planned = fw.t.planned /\ s.burst = fw.t.burst /\ s.ext = fw.t.ext
    BY <2>1 DEF Session, MaybeLevel
  <2>3. g = [fw EXCEPT !.t = s]
    BY Zenon
  <2> HIDE DEF s, g
  <2>4. Hears([s EXCEPT !.phase = "ready"], fw.t, raw)
    <3> DEFINE r == [s EXCEPT !.phase = "ready"]
    <3>1. /\ r.target = s.target /\ r.obs = s.obs /\ r.auto = s.auto
          /\ r.dir = s.dir /\ r.start = s.start /\ r.sent = s.sent
          /\ r.planned = s.planned /\ r.burst = s.burst /\ r.ext = s.ext /\ r.phase = "ready"
      BY <2>2 DEF Session
    <3> HIDE DEF r
    <3>2. Hears(r, fw.t, raw)
      BY <1>1, <2>2, <3>1 DEF Hears
    <3> QED BY <3>2 DEF r
  <2> QED BY <1>1, <2>2, <2>3, <2>4, AtTargetTakes
<1>2. \/ TargetFeedback(fw, raw) = failVolumeRestore(fw)
      \/ fw.t.phase = "waitFreshStatus" /\ TargetFeedback(fw, raw) = AtTargetOrReady(g, raw)
      \/ /\ fw.t.phase \in {"waitMovement", "waitMovementStatus"}
         /\ TargetFeedback(fw, raw) = MovementSeen(fw, raw)
      \/ fw.t.phase = "waitBurstSecond" /\ TargetFeedback(fw, raw) = MovementDuringBurst(fw, raw)
      \/ fw.t.phase = "settling" /\ TargetFeedback(fw, raw) = StillMoving(fw, raw)
      \/ fw.t.phase = "waitConfirmation" /\ TargetFeedback(fw, raw) = ConfirmationSeen(fw, raw)
      \/ TargetFeedback(fw, raw) = Settling(fw, raw)
      \/ fw.t.phase = "ready" /\ fw.t.obs = raw /\ TargetFeedback(fw, raw) = fw
      \/ /\ fw.t.phase \notin {"settling", "ready", "waitConfirmation"}
         /\ TargetFeedback(fw, raw) = fw
  BY DEF TargetFeedback
<1> HIDE DEF g
<1> QED BY <1>1, <1>2, MovementSeenTakes, MovementDuringBurstTakes, NotedTakes,
           ConfirmationSeenTakes, TakesIsEnough

(* A report while no target is set leaves it so, and the app in front.      *)
LEMMA IdleFeedbackGoes ==
  ASSUME NEW fw \in FirmwareState, NEW raw \in Level
  PROVE  LET h == IdleFeedback(fw, raw)
         IN /\ h.cur = fw.cur /\ h.pend = fw.pend /\ h.vol = fw.vol /\ h.gen = fw.gen
            /\ h.t = fw.t /\ h.was = fw.was /\ (h.pendAllowed => fw.pendAllowed)
<1> DEFINE Like(h, k) == /\ h.cur = k.cur /\ h.pend = k.pend /\ h.vol = k.vol /\ h.gen = k.gen
                         /\ h.t = k.t /\ h.was = k.was /\ (h.pendAllowed => k.pendAllowed)
           g == invalidateReconnectRestore(fw)
           h == [g EXCEPT !.suppressed = FALSE, !.failRaw = None, !.quiet = TRUE]
           x == [fw EXCEPT !.failRaw = raw]
           y == [fw EXCEPT !.failRaw = raw, !.quiet = FALSE]
<1>1. g \in FirmwareState /\ Like(g, fw)
  <2>1. Like(g, fw)
    BY DEF invalidateReconnectRestore, FirmwareState
  <2> QED BY <2>1, invalidateReconnectRestoreType
<1>2. h \in FirmwareState /\ Like(h, g)
  <2> HIDE DEF g
  <2>1. h \in FirmwareState
    BY <1>1, EmptyValues DEF FirmwareState
  <2>2. Like(h, g)
    BY <1>1 DEF FirmwareState
  <2> QED BY <2>1, <2>2
<1>3. ASSUME NEW k \in FirmwareState PROVE Like(Learn(k, raw), k)
  <2>1. Learn(k, raw) \in {k, [k EXCEPT !.saved[k.cur] = raw]}
    BY Zenon DEF Learn, rememberAppVolume
  <2>2. Like([k EXCEPT !.saved[k.cur] = raw], k)
    BY DEF FirmwareState
  <2> QED BY <2>1, <2>2
<1>4. Like(x, fw) /\ Like(y, fw)
  BY DEF FirmwareState
<1>5. IdleFeedback(fw, raw) \in {Learn(fw, raw), Learn(h, raw), fw, x, y}
  BY Zenon DEF IdleFeedback
<1> HIDE DEF g, h, x, y
<1> QED BY <1>1, <1>2, <1>3, <1>4, <1>5

(* What is noted of a volume report before the target sees it.              *)
LEMMA LevelIsNoted ==
  ASSUME NEW fw \in FirmwareState, NEW raw \in Level
  PROVE  LET g == ReleaseMuteLock(NoteRemuteFeedback([fw EXCEPT !.vol = raw], raw), raw)
         IN /\ g \in FirmwareState /\ g.vol = raw /\ g.t = fw.t /\ g.gen = fw.gen
            /\ g.cur = fw.cur /\ g.pend = fw.pend /\ g.was = fw.was
            /\ g.pendAllowed = fw.pendAllowed
<1> DEFINE Like(h, k) == /\ h.cur = k.cur /\ h.pend = k.pend /\ h.vol = k.vol /\ h.gen = k.gen
                         /\ h.t = k.t /\ h.was = k.was /\ h.pendAllowed = k.pendAllowed
           v == [fw EXCEPT !.vol = raw]
           n == NoteRemuteFeedback(v, raw)
           g == ReleaseMuteLock(n, raw)
<1>1. /\ v \in FirmwareState /\ v.vol = raw /\ v.t = fw.t /\ v.gen = fw.gen /\ v.cur = fw.cur
      /\ v.pend = fw.pend /\ v.was = fw.was /\ v.pendAllowed = fw.pendAllowed
  BY DEF FirmwareState, MaybeLevel
<1>2. n \in FirmwareState /\ Like(n, v)
  <2> DEFINE m == [v EXCEPT !.remBase = raw, !.remConf = FALSE]
  <2> HIDE DEF v
  <2>1. Like(m, v)
    BY <1>1 DEF FirmwareState
  <2>2. n \in {m, v}
    BY Zenon DEF NoteRemuteFeedback
  <2>3. n \in FirmwareState
    BY <1>1, NoteRemuteFeedbackType
  <2> HIDE DEF m, n
  <2> QED BY <2>1, <2>2, <2>3
<1>3. g \in FirmwareState /\ Like(g, n)
  <2> DEFINE l == [n EXCEPT !.lockRaw = raw]
             c == clearManualMuteLock(n)
  <2> HIDE DEF n
  <2>1. Like(l, n)
    BY <1>2 DEF FirmwareState
  <2>2. Like(c, n)
    BY <1>2 DEF clearManualMuteLock, FirmwareState
  <2>3. g \in {n, c, l}
    BY Zenon DEF ReleaseMuteLock
  <2>4. g \in FirmwareState
    BY <1>2, ReleaseMuteLockType
  <2> HIDE DEF l, g, c
  <2> QED BY <2>1, <2>2, <2>3, <2>4
<1> HIDE DEF v, n, g
<1>4. /\ g \in FirmwareState /\ g.vol = raw /\ g.t = fw.t /\ g.gen = fw.gen
      /\ g.cur = fw.cur /\ g.pend = fw.pend /\ g.was = fw.was
      /\ g.pendAllowed = fw.pendAllowed
  BY <1>1, <1>2, <1>3
<1> QED BY <1>4 DEF v, n, g

(* observeVolume().                                                         *)
LEMMA observeVolumeTakes ==
  ASSUME NEW fw \in FirmwareState, NEW raw \in Level
  PROVE  LET h == observeVolume(fw, raw)
         IN /\ h.cur = fw.cur /\ h.pend = fw.pend /\ h.vol = raw /\ h.was = fw.was
            /\ h.gen = fw.gen /\ (h.pendAllowed => fw.pendAllowed)
            /\ \/ fw.t.target < 0 /\ h.t = fw.t
               \/ /\ fw.t.target >= 0
                  /\ \/ h.t = NoSession /\ ~h.quiet
                     \/ Reached(h, fw.t, raw)
                     \/ Hears(h.t, fw.t, raw)
<1> DEFINE g == ReleaseMuteLock(NoteRemuteFeedback([fw EXCEPT !.vol = raw], raw), raw)
           h == observeVolume(fw, raw)
<1>1. /\ g \in FirmwareState /\ g.vol = raw /\ g.t = fw.t /\ g.gen = fw.gen
      /\ g.cur = fw.cur /\ g.pend = fw.pend /\ g.was = fw.was /\ g.pendAllowed = fw.pendAllowed
  BY LevelIsNoted
<1>2. h = IF g.t.target >= 0 THEN TargetFeedback(g, raw) ELSE IdleFeedback(g, raw)
  BY Zenon DEF observeVolume
<1> HIDE DEF g, h
<1>3. fw.t.target < 0 \/ fw.t.target >= 0
  BY DEF FirmwareState, Session, MaybeLevel, Level, None
<1>4. CASE fw.t.target >= 0
  <2>1. Takes(h, g, raw)
    BY <1>1, <1>2, <1>4, TargetFeedbackTakes
  <2>2. /\ h.cur = fw.cur /\ h.pend = fw.pend /\ h.vol = raw /\ h.was = fw.was
        /\ h.gen = fw.gen /\ (h.pendAllowed => fw.pendAllowed)
        /\ \/ h.t = NoSession /\ ~h.quiet
           \/ Reached(h, fw.t, raw)
           \/ Hears(h.t, fw.t, raw)
    BY <1>1, <2>1 DEF Takes
  <2> QED BY <1>4, <2>2 DEF h
<1>5. CASE ~(fw.t.target >= 0)
  <2>1. /\ h.cur = g.cur /\ h.pend = g.pend /\ h.vol = g.vol /\ h.gen = g.gen
        /\ h.t = g.t /\ h.was = g.was /\ (h.pendAllowed => g.pendAllowed)
    BY <1>1, <1>2, <1>5, IdleFeedbackGoes
  <2> QED BY <1>1, <1>3, <1>5, <2>1 DEF h
<1> QED BY <1>4, <1>5

(* What a target does with a level, it does within its course.              *)
LEMMA HearsKeepsCourse ==
  ASSUME NEW s \in Session, NEW t \in Session, NEW raw \in Level, Hears(s, t, raw),
         NEW still, NEW next, NEW level, still => next /\ raw = level,
         Steady(t, still, level)
  PROVE  /\ Steady(s, next, level) /\ Settles(s, raw)
         /\ \A q \in Seq(Command) : BurstOK(t, level, q) => BurstOK(s, level, q)
<1>1. Settles(s, raw)
  BY DEF Settles, Hears, Level
<1>2. Steady(s, next, level)
  <2>1. s.phase \in {"needFreshStatus", "waitFreshStatus", "waitAutomaticUnmute"}
          => next /\ ~s.burst /\ ~s.ext
    BY DEF Hears, Steady
  <2>2. ASSUME s.phase = "ready" PROVE next /\ s.obs = level /\ ~s.ext /\ ~s.burst
    <3>1. /\ t.phase \in {"waitFreshStatus", "waitConfirmation", "ready"}
          /\ s.obs = raw /\ s.ext = t.ext /\ (s.burst => t.burst /\ t.phase # "waitConfirmation")
      BY <2>2 DEF Hears
    <3>2. still /\ ~t.ext /\ (t.phase # "waitConfirmation" => ~t.burst)
      BY <3>1 DEF Steady
    <3> QED BY <3>1, <3>2
  <2>3. s.phase # "waitConfirmation"
    BY DEF Hears
  <2> QED BY <2>1, <2>2, <2>3 DEF Steady
<1>3. ASSUME NEW q \in Seq(Command), BurstOK(t, level, q) PROVE BurstOK(s, level, q)
  <2>1. /\ s.target = t.target /\ s.dir = t.dir /\ s.start = t.start
        /\ s.sent = t.sent /\ s.planned \in {t.planned, t.sent}
        /\ (s.burst \/ s.ext => t.burst \/ t.ext)
    BY DEF Hears
  <2>2. t.sent \in Nat /\ t.planned \in Nat /\ t.sent <= t.planned
    BY <1>3, VolumeAssumption DEF Session, BurstOK
  <2>3. s.planned \in Nat /\ s.sent <= s.planned /\ s.planned <= t.planned
    BY <2>1, <2>2
  <2>4. ASSUME s.burst \/ s.ext, s.planned > 1
        PROVE  /\ s.dir \in {1, -1} /\ Toward(q, s.dir)
               /\ s.dir * (level - s.start) + Reach(ClickCount(q)) <= Reach(s.sent)
               /\ Reach(s.planned) <= s.dir * (s.target - s.start)
    <3>1. (t.burst \/ t.ext) /\ t.planned > 1
      BY <2>1, <2>2, <2>3, <2>4
    <3>2. /\ t.dir \in {1, -1} /\ Toward(q, t.dir)
          /\ t.dir * (level - t.start) + Reach(ClickCount(q)) <= Reach(t.sent)
          /\ Reach(t.planned) <= t.dir * (t.target - t.start)
      BY <1>3, <3>1 DEF BurstOK
    <3> DEFINE far == t.dir * (t.target - t.start)
    <3>3. far \in Int
      <4>1. t.target - t.start \in Int
        BY DEF Session, MaybeLevel, Level, None
      <4> DEFINE d == t.target - t.start
      <4> HIDE DEF d
      <4>2. d \in Int /\ (t.dir = 1 \/ t.dir = -1)
        BY <3>2, <4>1 DEF d
      <4>3. t.dir * d \in Int
        BY <4>2
      <4> QED BY <4>3 DEF d
    <3>4. Reach(s.planned) <= Reach(t.planned) /\ Reach(s.planned) \in Nat
          /\ Reach(t.planned) \in Nat
      BY <2>2, <2>3, ReachGrows
    <3> HIDE DEF far
    <3>5. Reach(s.planned) <= far
      <4>1. Reach(t.planned) <= far
        BY <3>2 DEF far
      <4> QED BY <3>3, <3>4, <4>1
    <3> QED BY <2>1, <3>2, <3>5 DEF far
  <2> QED BY <2>3, <2>4 DEF BurstOK
<1> QED BY <1>1, <1>2, <1>3

(* A volume report is read.                                                 *)
LEMMA VolumeReportKeepsFirst ==
  ASSUME TypeOK, TypeOK', FirstOK, ReadDenon, Head(fromRx).kind = "volume"
  PROVE  FirstOK'
<1> DEFINE raw == Head(fromRx).raw
<1>t. /\ toRx \in Seq(Command) /\ fromRx \in Seq(Report) /\ fromRx # <<>>
      /\ fromRx' = Tail(fromRx) /\ f \in FirmwareState /\ f' \in FirmwareState
      /\ link' = link /\ rx' = rx /\ toRx' = toRx /\ used' = used
      /\ f' = observeVolume(f, raw)
  BY DEF TypeOK, ReadDenon
<1>1. raw \in Level
  <2> DEFINE r == Head(fromRx)
  <2>1. r \in Report
    BY <1>t, HeadTailProperties
  <2> HIDE DEF r
  <2>2. r.kind = "volume" => r.raw \in Level
    BY <2>1 DEF Report
  <2> QED BY <2>2 DEF r
<1>2. /\ f'.cur = f.cur /\ f'.pend = f.pend /\ f'.vol = raw /\ f'.was = f.was
      /\ f'.gen = f.gen /\ (f'.pendAllowed => f.pendAllowed)
      /\ \/ f.t.target < 0 /\ f'.t = f.t
         \/ /\ f.t.target >= 0
            /\ \/ f'.t = NoSession /\ ~f'.quiet
               \/ Reached(f', f.t, raw)
               \/ Hears(f'.t, f.t, raw)
  <2> HIDE DEF raw
  <2> QED BY <1>t, <1>1, observeVolumeTakes
<1>3. LevelIsHeard'
  <2>1. EndsAt(fromRx, rx.vol) => EndsAt(fromRx', rx.vol)
    BY <1>t, OneLevelRead
  <2>2. (NoVolumes(fromRx') /\ EndsAt(fromRx, rx.vol)) => raw = rx.vol
    BY <1>t, OneLevelRead
  <2> QED BY <1>t, <1>2, <2>1, <2>2 DEF FirstOK, LevelIsHeard
<1>4. Still => Still' /\ raw = rx.vol
  <2>1. AllAt(fromRx, rx.vol) => AllAt(fromRx', rx.vol) /\ raw = rx.vol
    BY <1>t, OneLevelRead
  <2> QED BY <1>t, <1>2, <2>1 DEF Still
<1> HIDE DEF raw
<1>5. f.t.target >= 0 => ~(f.t.target < 0)
  BY <1>t DEF FirmwareState, Session, MaybeLevel, Level, None
<1>6. CASE f.t.target < 0
  <2>1. f'.t = f.t /\ ~(f'.t.target >= 0)
    BY <1>2, <1>5, <1>6
  <2>2. Waiting' => Waiting
    BY <1>t, <1>2 DEF Waiting
  <2> QED BY <1>t, <1>2, <1>3, <1>4, <1>6, <2>1, <2>2 DEF FirstOK
<1>7. CASE f.t.target >= 0
  <2>1. ~Waiting /\ ~Waiting' /\ f.was /\ used'.idle # 0
    <3>1. ~Waiting /\ f.was
      BY <1>5, <1>7 DEF FirstOK
    <3> QED BY <1>t, <1>2, <3>1 DEF Waiting
  <2>2. f.t.auto /\ f.gen # 0 /\ OnCourse(f.t)
    BY <1>7 DEF FirstOK
  <2>3. CASE f'.t = NoSession
    <3>1. f'.t.target < 0 /\ ~f'.t.burst /\ ~(f'.t.target >= 0)
      BY <2>3 DEF NoSession, None
    <3> QED BY <1>2, <1>3, <2>1, <3>1 DEF FirstOK
  <2>4. CASE Hears(f'.t, f.t, raw)
    <3>1. f'.t.target = f.t.target /\ f'.t.auto
      BY <2>2, <2>4 DEF Hears
    <3>2. f.t \in Session /\ f'.t \in Session
      BY <1>t DEF FirmwareState
    <3>3. Steady(f.t, Still, rx.vol)
      BY <2>2 DEF OnCourse
    <3>4. /\ Steady(f'.t, Still', rx.vol) /\ Settles(f'.t, raw)
          /\ BurstOK(f.t, rx.vol, toRx) => BurstOK(f'.t, rx.vol, toRx)
      BY <1>t, <1>1, <1>4, <2>4, <3>2, <3>3, HearsKeepsCourse
    <3>5. OnCourse(f.t)'
      BY <1>t, <1>2, <2>2, <3>4 DEF OnCourse
    <3> QED BY <1>2, <1>3, <1>5, <1>7, <2>1, <2>2, <3>1, <3>5 DEF FirstOK
  <2> QED BY <1>2, <1>5, <1>7, <2>3, <2>4 DEF Reached
<1> QED BY <1>2, <1>6, <1>7

-----------------------------------------------------------------------------
(* What requests and switches do to a target.                               *)

SameTarget(g, fw) == g.t = fw.t /\ g.gen = fw.gen /\ g.vol = fw.vol /\ g.was = fw.was

(* A new automatic target has just started, whoever is in front.            *)
Begun(g) ==
  /\ g.t.target >= 0 /\ g.t.auto /\ g.gen # 0
  /\ g.t.phase \in {"needFreshStatus", "waitAutomaticUnmute"}
  /\ ~g.t.burst /\ ~g.t.ext /\ g.t.planned = 0 /\ g.t.sent = 0
Fresh(g, fw) ==
  Begun(g) /\ g.vol = fw.vol /\ g.was = fw.was /\ g.cur = fw.cur /\ g.pend = fw.pend

LEMMA OffIsEnough ==
  /\ \A fw, g : SameTarget(g, fw) => Off(g, fw)
  /\ \A fw, g, h : SameTarget(g, fw) /\ Off(h, g) => Off(h, fw)
  /\ \A fw, g, h : Off(g, fw) /\ SameTarget(h, g) => Off(h, fw)
  /\ \A fw, g, h : SameTarget(g, fw) /\ SameTarget(h, g) => SameTarget(h, fw)
  /\ \A fw, g, h : Off(g, fw) /\ g.t.target < 0 /\ Off(h, g) => Off(h, fw)
BY DEF SameTarget, Off

LEMMA CancelIsOff ==
  ASSUME NEW fw \in FirmwareState
  PROVE  LET g == cancelVolumeRestore(fw)
         IN /\ g \in FirmwareState /\ Off(g, fw) /\ g.t = NoSession /\ g.t.target < 0
            /\ g.vol = fw.vol /\ g.was = fw.was
<1> DEFINE g == cancelVolumeRestore(fw)
<1>1. /\ g \in FirmwareState /\ g.t = NoSession /\ g.vol = fw.vol /\ g.was = fw.was
  BY cancelVolumeRestoreType, HowTargetsEnd, EndsAlone DEF SameEar, SameOwner
<1>2. Keeps(g, fw)
  BY EndsGo
<1>3. NoSession.target < 0
  BY GoesIsEnough
<1> HIDE DEF g
<1> QED BY <1>1, <1>2, <1>3 DEF Keeps, g

(* Credits, rows, grants and the candidate's authority leave it alone.      *)
LEMMA TargetIsKept ==
  ASSUME NEW fw \in FirmwareState
  PROVE  /\ SameTarget(invalidateReconnectRestore(fw), fw)
         /\ SameTarget(clearReconnectRestore(fw), fw)
         /\ SameTarget(SaveOutgoing(fw), fw)
         /\ \A a, level : SameTarget(rememberAppVolume(fw, a, level), fw)
         /\ \A g \in Granted : SameTarget(SetPendingAuthority(fw, g), fw)
<1>1. ASSUME NEW x \in FirmwareState
      PROVE  /\ SameTarget(invalidateReconnectRestore(x), x)
             /\ SameTarget(clearReconnectRestore(x), x)
  BY DEF invalidateReconnectRestore, clearReconnectRestore, SameTarget, FirmwareState
<1>2. \A a, level : SameTarget(rememberAppVolume(fw, a, level), fw)
  BY DEF rememberAppVolume, SameTarget, FirmwareState
<1>3. SameTarget(SaveOutgoing(fw), fw)
  <2>1. SaveOutgoing(fw) \in {fw, rememberAppVolume(fw, fw.cur, fw.vol)}
    BY Zenon DEF SaveOutgoing
  <2>2. SameTarget(fw, fw)
    BY DEF SameTarget
  <2> QED BY <1>2, <2>1, <2>2
<1>4. ASSUME NEW g \in Granted PROVE SameTarget(SetPendingAuthority(fw, g), fw)
  <2> DEFINE level == IF g.reconnect THEN fw.credit.target ELSE None
             f1    == [fw EXCEPT !.pendAuth = g.auth, !.pendAllowed = g.allowed,
                                !.pendReconnect = level]
  <2>1. f1 \in FirmwareState
    <3>1. level \in MaybeLevel /\ g.auth \in Authority /\ g.allowed \in BOOLEAN
      BY EmptyValues DEF FirmwareState, Credit, Granted
    <3> HIDE DEF level
    <3> QED BY <3>1 DEF FirmwareState
  <2>2. SameTarget(f1, fw)
    <3> HIDE DEF level
    <3> QED BY DEF SameTarget, FirmwareState
  <2>3. SetPendingAuthority(fw, g) \in {f1, clearReconnectRestore(f1)}
    BY Zenon DEF SetPendingAuthority
  <2> HIDE DEF f1
  <2> QED BY <1>1, <2>1, <2>2, <2>3, OffIsEnough
<1> QED BY <1>1, <1>2, <1>3, <1>4

LEMMA GrantKeepsTarget ==
  ASSUME NEW fw \in FirmwareState, NEW a, NEW kind, NEW e, NEW reauth
  PROVE  SameTarget(Grant(fw, a, kind, e, reauth).f, fw)
<1> DEFINE g       == IF fw.pendReconnect >= 0 THEN invalidateReconnectRestore(fw) ELSE fw
           matches == kind = "idle" /\ reconnectRestoreMatches(g, a, e)
           kept    == IF g.credit.target >= 0 /\ ~matches
                      THEN invalidateReconnectRestore(g) ELSE g
           noted   == [kept EXCEPT !.lastEvent = e]
<1>0. \A x : SameTarget(x, x)
  BY DEF SameTarget
<1>1. g \in FirmwareState /\ SameTarget(g, fw)
  BY <1>0, invalidateReconnectRestoreType, TargetIsKept
<1>2. kept \in FirmwareState /\ SameTarget(kept, g)
  <2> HIDE DEF g, matches
  <2> QED BY <1>0, <1>1, invalidateReconnectRestoreType, TargetIsKept
<1>3. SameTarget(noted, kept)
  <2> HIDE DEF kept
  <2> QED BY <1>2 DEF SameTarget, FirmwareState
<1>4. Grant(fw, a, kind, e, reauth).f \in {kept, noted}
  <2> HIDE DEF kept
  <2> QED BY DEF Grant, kept
<1> HIDE DEF g, kept, noted
<1> QED BY <1>1, <1>2, <1>3, <1>4, OffIsEnough

(* setVolume() starts a new target, or leaves the one there is.             *)
LEMMA setVolumeStarts ==
  ASSUME NEW fw \in FirmwareState, NEW level \in Level
  PROVE  LET g == setVolume(fw, level, TRUE)
         IN \/ SameTarget(g, fw) /\ g.cur = fw.cur /\ g.pend = fw.pend
            \/ Fresh(g, fw)
<1>1. ASSUME NEW m \in BOOLEAN PROVE Fresh(StartTarget(fw, level, TRUE, m), fw)
  <2> DEFINE g     == advanceVolumeTargetGeneration(fw)
             armed == RestartedSession(fw.t, TRUE)
             cycle == armed.cycle \/ m
             phase == IF m THEN "waitAutomaticUnmute" ELSE armed.phase
             over  == ~TRUE /\ fw.locked
             s     == [armed EXCEPT !.target = level, !.auto = TRUE, !.override = over,
                                    !.cycle = cycle, !.phase = phase]
             h     == [g EXCEPT !.suppressed = TRUE, !.t = s]
  <2>1. /\ armed.phase = "needFreshStatus" /\ ~armed.burst /\ ~armed.ext
        /\ armed.planned = 0 /\ armed.sent = 0
    BY DEF RestartedSession, NoSession
  <2>2. /\ s.target = level /\ s.auto /\ s.phase = phase /\ s.burst = armed.burst
        /\ s.ext = armed.ext /\ s.planned = armed.planned /\ s.sent = armed.sent
    <3> HIDE DEF over, cycle, phase
    <3> QED BY DEF RestartedSession, NoSession
  <2>3. /\ g \in FirmwareState /\ g.vol = fw.vol /\ g.was = fw.was /\ g.cur = fw.cur
        /\ g.pend = fw.pend /\ g.gen # 0
    <3>1. g.gen # 0
      BY FirmwareAssumption DEF advanceVolumeTargetGeneration, FirmwareState
    <3>2. /\ g.vol = fw.vol /\ g.was = fw.was /\ g.cur = fw.cur /\ g.pend = fw.pend
      BY DEF advanceVolumeTargetGeneration, FirmwareState
    <3> QED BY <3>1, <3>2, advanceVolumeTargetGenerationType
  <2>4. /\ h.t = s /\ h.vol = g.vol /\ h.was = g.was /\ h.cur = g.cur
        /\ h.pend = g.pend /\ h.gen = g.gen
    <3> HIDE DEF g, s
    <3> QED BY <2>3 DEF FirmwareState
  <2>5. phase \in {"needFreshStatus", "waitAutomaticUnmute"} /\ level >= 0
    <3>1. level >= 0
      BY DEF Level
    <3> HIDE DEF armed
    <3>2. phase \in {"waitAutomaticUnmute", armed.phase}
      BY Zenon
    <3> HIDE DEF phase
    <3> QED BY <2>1, <3>1, <3>2
  <2>6. StartTarget(fw, level, TRUE, m) = h
    BY Zenon DEF StartTarget
  <2> HIDE DEF g, s, h, armed, phase
  <2> QED BY <2>1, <2>2, <2>3, <2>4, <2>5, <2>6 DEF Fresh, Begun
<1> DEFINE m == TRUE /\ fw.muteKnown /\ fw.muted /\ fw.locked /\ fw.curAuth = "fresh"
           x == [fw EXCEPT !.suppressed = TRUE, !.failRaw = fw.vol, !.quiet = TRUE]
<1>2. SameTarget(x, fw) /\ x.cur = fw.cur /\ x.pend = fw.pend
  BY DEF SameTarget, FirmwareState
<1>3. setVolume(fw, level, TRUE) \in {fw, x, StartTarget(fw, level, TRUE, m)}
  BY Zenon DEF setVolume
<1>4. m \in BOOLEAN
  BY Zenon
<1>5. SameTarget(fw, fw)
  BY DEF SameTarget
<1> HIDE DEF m, x
<1> QED BY <1>1, <1>2, <1>3, <1>4, <1>5

LEMMA FreshIsOff ==
  ASSUME NEW fw, NEW g \in FirmwareState, Fresh(g, fw)
  PROVE  Off(g, fw)
<1>1. ~(g.t.target < 0)
  BY DEF Fresh, Begun, FirmwareState, Session, MaybeLevel, Level, None
<1> QED BY <1>1 DEF Off

LEMMA setVolumeIsOff ==
  ASSUME NEW fw \in FirmwareState, NEW level \in MaybeLevel
  PROVE  level >= 0 => Off(setVolume(fw, level, TRUE), fw)
<1> SUFFICES ASSUME level >= 0 PROVE Off(setVolume(fw, level, TRUE), fw)
  OBVIOUS
<1>1. level \in Level
  BY DEF MaybeLevel, None
<1>2. setVolume(fw, level, TRUE) \in FirmwareState
  BY <1>1, setVolumeType DEF MaybeLevel
<1> QED BY <1>1, <1>2, setVolumeStarts, FreshIsOff, OffIsEnough

LEMMA startRestoreIsOff ==
  ASSUME NEW fw \in FirmwareState
  PROVE  Off(startRestoreForCurrentApp(fw), fw)
<1>1. \/ startRestoreForCurrentApp(fw) \in {fw, cancelVolumeRestore(fw)}
      \/ /\ fw.cur # NoApp /\ ~(fw.saved[fw.cur] < 0)
         /\ startRestoreForCurrentApp(fw) = setVolume(fw, fw.saved[fw.cur], TRUE)
  BY Zenon DEF startRestoreForCurrentApp
<1>2. SameTarget(fw, fw)
  BY DEF SameTarget
<1>3. ASSUME fw.cur # NoApp, ~(fw.saved[fw.cur] < 0)
      PROVE  fw.saved[fw.cur] \in MaybeLevel /\ fw.saved[fw.cur] >= 0
  <2>1. fw.cur \in Apps /\ fw.saved \in [Apps -> MaybeLevel]
    BY <1>3 DEF FirmwareState, MaybeApp
  <2>2. fw.saved[fw.cur] \in MaybeLevel
    BY <2>1
  <2> QED BY <1>3, <2>2 DEF MaybeLevel, Level, None
<1>4. Off(fw, fw) /\ Off(cancelVolumeRestore(fw), fw)
  BY <1>2, CancelIsOff, OffIsEnough
<1>5. ASSUME fw.cur # NoApp, ~(fw.saved[fw.cur] < 0)
      PROVE  Off(setVolume(fw, fw.saved[fw.cur], TRUE), fw)
  <2> DEFINE level == fw.saved[fw.cur]
  <2>1. level \in MaybeLevel /\ level >= 0
    BY <1>3, <1>5
  <2> HIDE DEF level
  <2>2. Off(setVolume(fw, level, TRUE), fw)
    BY <2>1, setVolumeIsOff
  <2> QED BY <2>2 DEF level
<1> QED BY Zenon, <1>1, <1>4, <1>5

(* A new candidate calls an automatic target off.                           *)
LEMMA NewPendingIsOff ==
  ASSUME NEW g \in Granted, NEW a \in MaybeApp
  PROVE  LET h == NewPending(g, a)
         IN /\ Off(h, g.f) /\ h.vol = g.f.vol /\ h.was = g.f.was
            /\ g.f.t.target < 0 => h.t = NoSession
<1> DEFINE f1 == SaveOutgoing(g.f)
           f2 == IF f1.t.target < 0 \/ f1.t.auto THEN cancelVolumeRestore(f1) ELSE f1
           f3 == [f2 EXCEPT !.pend = a]
           f4 == SetPendingAuthority(f3, g)
<1>1. f1 \in FirmwareState /\ SameTarget(f1, g.f)
  BY SaveOutgoingType, TargetIsKept DEF Granted
<1>2. /\ f2 \in FirmwareState /\ Off(f2, f1) /\ f2.vol = f1.vol /\ f2.was = f1.was
      /\ f1.t.target < 0 => f2.t = NoSession
  <2>1. SameTarget(f1, f1)
    BY DEF SameTarget
  <2> HIDE DEF f1
  <2> QED BY <1>1, <2>1, CancelIsOff, OffIsEnough
<1>3. f3 \in FirmwareState /\ SameTarget(f3, f2)
  <2> HIDE DEF f2
  <2>1. f3 \in FirmwareState
    BY <1>2 DEF FirmwareState
  <2>2. SameTarget(f3, f2)
    BY <1>2 DEF FirmwareState, SameTarget
  <2> QED BY <2>1, <2>2
<1>4. SameTarget(f4, f3)
  <2> HIDE DEF f3
  <2> QED BY <1>3, TargetIsKept
<1>5. NewPending(g, a) = f4
  BY Zenon DEF NewPending
<1> HIDE DEF f1, f2, f3, f4
<1>6. SameTarget(f4, f2)
  BY <1>3, <1>4, OffIsEnough
<1>7. Off(f4, g.f)
  BY <1>1, <1>2, <1>6, OffIsEnough
<1> QED BY <1>1, <1>2, <1>5, <1>6, <1>7 DEF SameTarget

(* An update for the app in front calls it off or starts another.           *)
LEMMA UpdateCurrentIsOff ==
  ASSUME NEW g \in Granted, g.reconnect => g.f.credit.target >= 0
  PROVE  Off(UpdateCurrent(g), g.f)
<1> DEFINE fw   == g.f
           auth == IF g.duplicate THEN fw.curAuth ELSE g.auth
           f1   == [fw EXCEPT !.pend = NoApp, !.pendAllowed = TRUE, !.pendReconnect = None,
                              !.curAuth = auth]
           ends == ~g.duplicate /\ ~g.idle /\ f1.t.cycle
           f2   == IF ends THEN cancelVolumeRestore(f1) ELSE f1
           f3   == clearReconnectRestore(f2)
           level == f2.credit.target
<1>1. fw \in FirmwareState /\ auth \in Authority
  BY DEF Granted, FirmwareState
<1>2. f1 \in FirmwareState /\ SameTarget(f1, fw) /\ f1.credit = fw.credit
  <2> HIDE DEF fw, auth
  <2>1. f1 \in FirmwareState
    BY <1>1, EmptyValues DEF FirmwareState
  <2>2. SameTarget(f1, fw) /\ f1.credit = fw.credit
    BY <1>1 DEF FirmwareState, SameTarget
  <2> QED BY <2>1, <2>2
<1>3. /\ f2 \in FirmwareState /\ Off(f2, f1) /\ f2.credit = f1.credit
      /\ SameTarget(f2, f1) \/ f2.t.target < 0
  <2>1. SameTarget(f1, f1)
    BY DEF SameTarget
  <2> HIDE DEF f1, ends
  <2> QED BY <1>2, <2>1, CancelIsOff, OffIsEnough, EndsAlone DEF SameOwner
<1>4. f3 \in FirmwareState /\ SameTarget(f3, f2)
  <2> HIDE DEF f2
  <2> QED BY <1>3, clearReconnectRestoreType, TargetIsKept
<1>5. Off(startRestoreForCurrentApp(f2), f2)
  <2> HIDE DEF f2
  <2> QED BY <1>3, startRestoreIsOff
<1>6. g.reconnect => Off(setVolume(f3, level, TRUE), f2)
  <2>1. g.reconnect => level >= 0
    <3> HIDE DEF f1, f2
    <3> QED BY <1>2, <1>3
  <2>2. level \in MaybeLevel
    <3> HIDE DEF f2
    <3> QED BY <1>3 DEF FirmwareState, Credit
  <2> HIDE DEF level, f3, f2
  <2>3. g.reconnect => Off(setVolume(f3, level, TRUE), f3)
    BY <1>4, <2>1, <2>2, setVolumeIsOff
  <2> QED BY <1>4, <2>3, OffIsEnough
<1>7. \/ UpdateCurrent(g) \in {f2, startRestoreForCurrentApp(f2)}
      \/ g.reconnect /\ UpdateCurrent(g) = setVolume(f3, level, TRUE)
  BY Zenon DEF UpdateCurrent
<1> HIDE DEF f1, f2, f3, fw, level
<1>8. ASSUME NEW h, Off(h, f2) PROVE Off(h, fw)
  <2>1. Off(h, f1)
    BY <1>3, <1>8, OffIsEnough
  <2> QED BY <1>2, <2>1, OffIsEnough
<1>9. Off(f2, fw)
  BY <1>2, <1>3, OffIsEnough
<1>10. Off(UpdateCurrent(g), fw)
  BY <1>5, <1>6, <1>7, <1>8, <1>9
<1> QED BY <1>10 DEF fw

(* A clear calls off what was automatic.                                    *)
LEMMA clearIsOff ==
  ASSUME NEW fw \in FirmwareState
  PROVE  Off(clearCurrentApp(fw), fw)
<1> DEFINE h == invalidateReconnectRestore(fw)
           g == [h EXCEPT !.pend = NoApp, !.pendAuth = "none", !.pendAllowed = TRUE,
                          !.pendReconnect = None, !.cur = NoApp, !.curAuth = "none"]
<1>1. h \in FirmwareState /\ SameTarget(h, fw)
  BY invalidateReconnectRestoreType, TargetIsKept
<1>2. g \in FirmwareState /\ SameTarget(g, h)
  <2> HIDE DEF h
  <2>1. g \in FirmwareState
    BY <1>1, EmptyValues, AuthorityValues DEF FirmwareState
  <2>2. SameTarget(g, h)
    BY <1>1 DEF FirmwareState, SameTarget
  <2> QED BY <2>1, <2>2
<1>3. clearCurrentApp(fw) \in {g, cancelVolumeRestore(g)}
  BY Zenon DEF clearCurrentApp
<1> HIDE DEF g, h
<1>4. SameTarget(g, fw)
  BY <1>1, <1>2, OffIsEnough
<1>5. Off(g, fw)
  BY <1>4, OffIsEnough
<1>6. Off(cancelVolumeRestore(g), fw)
  <2>1. Off(cancelVolumeRestore(g), g)
    BY <1>2, CancelIsOff
  <2> QED BY <1>4, <2>1, OffIsEnough
<1> QED BY <1>3, <1>5, <1>6

(* And so does whatever Home Assistant says.                                *)
LEMMA RequestsAreOff ==
  ASSUME TypeOK, OwnerOK(f), HomeAssistant
  PROVE  Off(f', f)
<1>f. f \in FirmwareState /\ ha.app \in MaybeApp /\ ha.last \in MaybeApp /\ ha.event \in EventId
  BY DEF TypeOK, Request
<1>i. Off(f, f) /\ Off(invalidateReconnectRestore(f), f)
  <2>1. SameTarget(f, f) /\ SameTarget(invalidateReconnectRestore(f), f)
    BY <1>f, TargetIsKept DEF SameTarget
  <2> QED BY <2>1, OffIsEnough
<1>r. ASSUME NEW a \in MaybeApp, NEW kind, NEW e \in EventId, NEW reauth \in BOOLEAN,
             f' = Received(a, kind, e, reauth)
      PROVE  Off(f', f)
  <2> DEFINE g == Grant(f, a, kind, e, reauth)
  <2>1. g \in Granted /\ SameTarget(g.f, f) /\ (g.reconnect => g.f.credit.target >= 0)
    BY <1>f, GrantType, GrantOK, GrantKeepsTarget DEF Fits
  <2>2. f' \in {f, invalidateReconnectRestore(f), UpdateCurrent(g), UpdatePending(g),
                NewPending(g, a)}
    BY <1>r, Zenon DEF Received, queueAppCandidate
  <2> HIDE DEF g
  <2>3. Off(UpdateCurrent(g), g.f) /\ Off(NewPending(g, a), g.f)
    BY <2>1, UpdateCurrentIsOff, NewPendingIsOff
  <2>4. Off(UpdatePending(g), g.f)
    <3>1. g.f \in FirmwareState /\ SameTarget(g.f, g.f)
      BY <2>1 DEF Granted, SameTarget
    <3>2. UpdatePending(g) \in {g.f, SetPendingAuthority(g.f, g)}
      BY Zenon DEF UpdatePending
    <3>3. SameTarget(SetPendingAuthority(g.f, g), g.f)
      BY <2>1, <3>1, TargetIsKept
    <3> QED BY <3>1, <3>2, <3>3, OffIsEnough
  <2>5. /\ Off(UpdateCurrent(g), f) /\ Off(NewPending(g, a), f)
        /\ Off(UpdatePending(g), f)
    BY <2>1, <2>3, <2>4, OffIsEnough
  <2> QED BY <1>i, <2>2, <2>5
<1>1. ASSUME NEW a \in Apps, ReceiveIdle(a) \/ ReceiveActive(a) PROVE Off(f', f)
  <2>1. a \in MaybeApp /\ 0 \in EventId
    BY EmptyValues DEF MaybeApp
  <2>2. CASE ReceiveIdle(a)
    <3>1. used.idle + 1 \in EventId
      <4>1. "idle" \in DOMAIN Bound /\ Bound["idle"] = MaxIdle
        BY DEF Bound
      <4>2. used["idle"] \in Nat /\ used["idle"] < MaxIdle
        BY <2>2, <4>1 DEF ReceiveIdle, Use, TypeOK
      <4> QED BY <4>2, ControllerAssumption, FirmwareAssumption DEF EventId
    <3> QED BY <1>r, <2>1, <2>2, <3>1 DEF ReceiveIdle
  <2>3. CASE ReceiveActive(a)
    BY <1>r, <2>1, <2>3 DEF ReceiveActive
  <2> QED BY <1>1, <2>2, <2>3
<1>2. CASE \E reauth \in BOOLEAN : ReceiveAgain(reauth)
  BY <1>f, <1>r, <1>2 DEF ReceiveAgain
<1>3. CASE ReceiveRevocation
  BY <1>f, <1>r, <1>3, EmptyValues DEF ReceiveRevocation
<1>4. CASE ReceiveClear \/ ReceiveIgnored
  BY <1>f, <1>i, <1>4, clearIsOff DEF ReceiveClear, ReceiveIgnored
<1> QED BY <1>1, <1>2, <1>3, <1>4 DEF HomeAssistant

-----------------------------------------------------------------------------
(* The first target starts.                                                 *)

(* While all stands still, a target may start.                              *)
LEMMA StillKeepsFirst ==
  ASSUME TypeOK, TypeOK', FirstOK, Still, Wire, toRx' = toRx, used'.idle # 0,
         f'.vol = f.vol, f'.was = f.was,
         f'.was \/ f'.pend = NoApp \/ ~f'.pendAllowed,
         \/ f'.t.target < 0 /\ ~f'.t.burst
         \/ Begun(f') /\ f'.pend = NoApp /\ f'.was
  PROVE  FirstOK'
<1>1. Still' /\ LevelIsHeard'
  BY DEF Still, FirstOK, LevelIsHeard, Wire
<1>2. f'.t.target < 0 <=> ~(f'.t.target >= 0)
  BY DEF TypeOK, FirmwareState, Session, MaybeLevel, Level, None
<1>3. CASE f'.t.target < 0 /\ ~f'.t.burst
  BY <1>1, <1>2, <1>3 DEF FirstOK
<1>4. CASE Begun(f') /\ f'.pend = NoApp /\ f'.was
  <2>1. ~Waiting'
    BY <1>4 DEF Waiting
  <2>2. /\ Steady(f'.t, Still', rx'.vol) /\ Settles(f'.t, f'.vol)
        /\ BurstOK(f'.t, rx'.vol, toRx')
    BY <1>1, <1>4 DEF Begun, Steady, Settles, BurstOK
  <2>3. ~(f'.t.target < 0)
    BY <1>2, <1>4 DEF Begun
  <2> QED BY <1>1, <1>4, <2>1, <2>2, <2>3 DEF FirstOK, OnCourse, Begun
<1> QED BY <1>3, <1>4

(* The first app comes to the front, and waits out its debounce.            *)
LEMMA ComingKeepsFirst ==
  ASSUME TypeOK, TypeOK', OwnerOK(f), FirstOK, FirstComes
  PROVE  FirstOK'
<1>1. PICK a \in Apps : ReceiveIdle(a)
  BY DEF FirstComes
<1> DEFINE g == Grant(f, a, "idle", 1, FALSE)
           i == invalidateReconnectRestore(f)
<1>2. /\ f \in FirmwareState /\ a \in MaybeApp /\ f.cur = NoApp /\ f.pend = NoApp /\ a # NoApp
      /\ f.t.target < 0 /\ ~f.t.burst /\ Still
  <2>1. f \in FirmwareState /\ a \in MaybeApp /\ a # NoApp
    BY FirmwareAssumption DEF TypeOK, MaybeApp
  <2>2. f.cur = NoApp /\ f.pend = NoApp /\ f.t.target < 0 /\ Still
    BY DEF FirstComes, FirstOK, Waiting
  <2>3. ~f.t.burst
    BY <2>2 DEF FirstOK
  <2> QED BY <2>1, <2>2, <2>3
<1>3. 1 \in EventId
  <2>1. "idle" \in DOMAIN Bound /\ Bound["idle"] = MaxIdle
    BY DEF Bound
  <2>2. 0 < MaxIdle
    BY <1>1, <2>1 DEF ReceiveIdle, Use, FirstComes
  <2> QED BY <2>2, ControllerAssumption, FirmwareAssumption DEF EventId
<1>4. g \in Granted /\ SameTarget(g.f, f)
  BY <1>2, <1>3, GrantType, GrantKeepsTarget
<1>5. f' = Received(a, "idle", 1, FALSE)
  <2>1. f' = Received(a, "idle", used.idle + 1, FALSE)
    BY <1>1, Zenon DEF ReceiveIdle
  <2>2. used.idle + 1 = 1
    BY DEF FirstComes
  <2> QED BY <2>1, <2>2
<1>6. f' \in {f, i} \/ (playbackIdleEventReady /\ f' = NewPending(g, a))
  BY <1>2, <1>5, Zenon DEF Received, queueAppCandidate
<1>7. SameTarget(i, f) /\ i.pend = f.pend
  <2>1. i.pend = f.pend
    BY <1>2 DEF invalidateReconnectRestore, FirmwareState
  <2> QED BY <1>2, <2>1, TargetIsKept
<1>8. playbackIdleEventReady => f.was
  BY DEF playbackIdleEventReady, OwnerOK, AuthorityOK
<1>9. Wire /\ toRx' = toRx /\ used'.idle # 0
  BY <1>1 DEF ReceiveIdle, AppEnv, Wire, FirstComes
<1>10. CASE f' \in {f, i}
  <2> HIDE DEF i
  <2>1. SameTarget(f', f) /\ f'.pend = NoApp
    BY <1>2, <1>7, <1>10 DEF SameTarget
  <2> QED BY <1>2, <1>9, <2>1, StillKeepsFirst DEF SameTarget
<1>11. CASE playbackIdleEventReady /\ f' = NewPending(g, a)
  <2> HIDE DEF g
  <2>1. f'.t = NoSession /\ f'.vol = f.vol /\ f'.was = f.was
    BY <1>2, <1>4, <1>11, NewPendingIsOff DEF SameTarget
  <2>2. f'.t.target < 0 /\ ~f'.t.burst
    BY <2>1, GoesIsEnough
  <2> QED BY <1>2, <1>8, <1>9, <1>11, <2>1, <2>2, StillKeepsFirst
<1> QED BY <1>6, <1>10, <1>11

(* The debounce is over.                                                    *)
LEMMA SwitchKeepsFirst ==
  ASSUME TypeOK, TypeOK', FirstOK, used'.idle = used.idle, maintainAppSwitch
  PROVE  FirstOK'
<1> DEFINE f1 == SaveOutgoing(f)
           f2 == [f1 EXCEPT !.cur = f.pend, !.curAuth = f.pendAuth, !.pend = NoApp,
                            !.pendAuth = "none", !.pendAllowed = TRUE, !.pendReconnect = None]
           f3 == rememberAppVolume(f2, f.pend, f2.vol)
           starts == setVolume(f2, f.pendReconnect, TRUE)
           restores == startRestoreForCurrentApp(f2)
<1>1. /\ f \in FirmwareState /\ f.pend # NoApp /\ f' = activatePendingApp(f)
      /\ Wire /\ toRx' = toRx
  BY DEF TypeOK, maintainAppSwitch, Becomes, Env, Wire
<1>2. f.t.target < 0 /\ ~f.t.burst /\ Still /\ used'.idle # 0 /\ (f.was \/ ~f.pendAllowed)
  BY <1>1 DEF FirstOK, Waiting
<1>3. f1 \in FirmwareState /\ SameTarget(f1, f)
  BY <1>1, SaveOutgoingType, TargetIsKept
<1>4. f2 \in FirmwareState /\ SameTarget(f2, f1) /\ f2.pend = NoApp /\ f2.cur = f.pend
  <2>1. f.pend \in MaybeApp /\ f.pendAuth \in Authority
    BY <1>1 DEF FirmwareState
  <2> HIDE DEF f1
  <2>2. f2 \in FirmwareState
    BY <1>3, <2>1, EmptyValues, AuthorityValues DEF FirmwareState
  <2>3. SameTarget(f2, f1) /\ f2.pend = NoApp /\ f2.cur = f.pend
    BY <1>3 DEF FirmwareState, SameTarget
  <2> QED BY <2>2, <2>3
<1>5. SameTarget(f2, f)
  <2> HIDE DEF f1, f2
  <2> QED BY <1>3, <1>4, OffIsEnough
<1>6. f' = f2 \/ f' = cancelVolumeRestore(f3)
      \/ (f.pendAllowed /\ f.pendReconnect >= 0 /\ f' = starts)
      \/ (f.pendAllowed /\ f' = restores)
  BY <1>1, Zenon DEF activatePendingApp
<1>7. CASE f' = f2
  <2> HIDE DEF f2
  <2> QED BY <1>1, <1>2, <1>4, <1>5, <1>7, StillKeepsFirst DEF SameTarget
<1>8. CASE f' = cancelVolumeRestore(f3)
  <2>1. f.pend \in Apps /\ f2.vol \in MaybeLevel
    <3> HIDE DEF f2
    <3> QED BY <1>1, <1>4 DEF FirmwareState, MaybeApp
  <2> HIDE DEF f2
  <2>2. f3 \in FirmwareState /\ SameTarget(f3, f2) /\ f3.pend = f2.pend
    <3>1. f3.pend = f2.pend
      BY <1>4 DEF rememberAppVolume, FirmwareState
    <3> QED BY <1>4, <2>1, <3>1, RowType, TargetIsKept
  <2> HIDE DEF f3
  <2>3. f'.t = NoSession /\ f'.vol = f.vol /\ f'.was = f.was /\ f'.pend = NoApp
    BY <1>4, <1>5, <1>8, <2>2, CancelIsOff, EndsAlone DEF SameOwner, SameTarget
  <2>4. f'.t.target < 0 /\ ~f'.t.burst
    BY <2>3, GoesIsEnough
  <2> QED BY <1>1, <1>2, <2>3, <2>4, StillKeepsFirst
<1>9. ASSUME NEW level \in Level, f.pendAllowed, f' = setVolume(f2, level, TRUE) PROVE FirstOK'
  <2> HIDE DEF f2
  <2>1. \/ SameTarget(f', f2) /\ f'.pend = f2.pend
        \/ Fresh(f', f2)
    BY <1>4, <1>9, setVolumeStarts
  <2> QED BY <1>1, <1>2, <1>4, <1>5, <1>9, <2>1, StillKeepsFirst DEF SameTarget, Fresh
<1>10. CASE f.pendAllowed /\ f.pendReconnect >= 0 /\ f' = starts
  <2>1. f.pendReconnect \in Level
    BY <1>1, <1>10 DEF FirmwareState, MaybeLevel, None
  <2> HIDE DEF f2
  <2> QED BY <1>9, <1>10, <2>1
<1>11. CASE f.pendAllowed /\ f' = restores
  <2> HIDE DEF f2
  <2>1. \/ f' = f2 \/ f' = cancelVolumeRestore(f2)
        \/ /\ f2.cur # NoApp /\ ~(f2.saved[f2.cur] < 0)
           /\ f' = setVolume(f2, f2.saved[f2.cur], TRUE)
    BY <1>11, Zenon DEF startRestoreForCurrentApp
  <2>2. CASE f' = f2
    BY <1>1, <1>2, <1>4, <1>5, <2>2, StillKeepsFirst DEF SameTarget
  <2>3. CASE f' = cancelVolumeRestore(f2)
    <3>1. f'.t = NoSession /\ f'.vol = f.vol /\ f'.was = f.was /\ f'.pend = NoApp
      BY <1>4, <1>5, <2>3, CancelIsOff, EndsAlone DEF SameOwner, SameTarget
    <3>2. f'.t.target < 0 /\ ~f'.t.burst
      BY <3>1, GoesIsEnough
    <3> QED BY <1>1, <1>2, <3>1, <3>2, StillKeepsFirst
  <2>4. ASSUME f2.cur # NoApp, ~(f2.saved[f2.cur] < 0) PROVE f2.saved[f2.cur] \in Level
    <3>1. f2.cur \in Apps /\ f2.saved \in [Apps -> MaybeLevel]
      BY <1>4, <2>4 DEF FirmwareState, MaybeApp
    <3>2. f2.saved[f2.cur] \in MaybeLevel
      BY <3>1
    <3> QED BY <2>4, <3>2 DEF MaybeLevel, Level, None
  <2> QED BY <1>9, <1>11, <2>1, <2>2, <2>3, <2>4
<1> QED BY <1>6, <1>7, <1>8, <1>10, <1>11

-----------------------------------------------------------------------------
(* The commands of the restore.                                             *)

(* What a target says of the state it runs in.                              *)
LEMMA TargetRuns ==
  ASSUME TypeOK, FirstOK, f.t.target >= 0
  PROVE  /\ f.t \in Session /\ f.t.target \in Level /\ ~(f.t.target < 0)
         /\ f.t.auto /\ f.gen # 0 /\ OnCourse(f.t) /\ ~Waiting /\ f.was
         /\ used.idle # 0 /\ f.pend = NoApp
<1>1. f.t \in Session /\ f.t.target \in Level /\ ~(f.t.target < 0)
  BY DEF TypeOK, FirmwareState, Session, MaybeLevel, Level, None
<1> QED BY <1>1 DEF FirstOK, Waiting

(* The target goes on over an unchanged receiver.                           *)
LEMMA TargetKeepsFirst ==
  ASSUME TypeOK, TypeOK', FirstOK, Wire, used'.idle = used.idle, f.t.target >= 0,
         f'.cur = f.cur, f'.pend = f.pend, f'.vol = f.vol, f'.was = f.was, f'.gen = f.gen,
         f'.t.target >= 0, f'.t.auto, OnCourse(f.t)'
  PROVE  FirstOK'
<1>1. LevelIsHeard'
  BY DEF FirstOK, LevelIsHeard, Wire
<1>2. ~(f'.t.target < 0)
  BY DEF TypeOK, FirmwareState, Session, MaybeLevel, Level, None
<1> QED BY <1>1, <1>2, TargetRuns DEF FirstOK, Waiting

(* It goes on to another phase, with at most a poll.                        *)
LEMMA PhaseKeepsFirst ==
  ASSUME TypeOK, TypeOK', FirstOK, Wire, used'.idle = used.idle, f.t.target >= 0,
         Fewer(toRx', toRx), NEW p, f' = [f EXCEPT !.t.phase = p],
         p \in {"needFreshStatus", "waitFreshStatus", "waitAutomaticUnmute"}
           => Still /\ ~f.t.burst /\ ~f.t.ext,
         p \in {"ready", "waitConfirmation"} => Still /\ f.t.obs = rx.vol /\ ~f.t.ext,
         p = "ready" => ~f.t.burst,
         p # "settling"
  PROVE  FirstOK'
<1>1. /\ f \in FirmwareState /\ f.t \in Session /\ f.t.auto /\ OnCourse(f.t)
      /\ toRx \in Seq(Command) /\ toRx' \in Seq(Command) /\ rx.vol \in Level
  BY TargetRuns DEF TypeOK, Receiver
<1> DEFINE s == [f.t EXCEPT !.phase = p]
<1>2. f' = [f EXCEPT !.t = s]
  BY <1>1 DEF FirmwareState
<1>3. /\ s.phase = p /\ s.target = f.t.target /\ s.auto = f.t.auto /\ s.obs = f.t.obs
      /\ s.dir = f.t.dir /\ s.burst = f.t.burst /\ s.ext = f.t.ext /\ s.start = f.t.start
      /\ s.planned = f.t.planned /\ s.sent = f.t.sent
  BY <1>1 DEF Session
<1> HIDE DEF s
<1>4. /\ f'.t = s /\ f'.cur = f.cur /\ f'.pend = f.pend /\ f'.vol = f.vol /\ f'.was = f.was
      /\ f'.gen = f.gen
  BY <1>1, <1>2 DEF FirmwareState
<1>5. Still => Still'
  BY <1>4 DEF Still, Fewer, Wire
<1>6. Steady(s, Still', rx'.vol) /\ Settles(s, f'.vol)
  BY <1>3, <1>5 DEF Steady, Settles, Wire
<1>7. GainsBounded => BurstOK(s, rx'.vol, toRx')
  <2>1. GainsBounded => BurstOK(f.t, rx.vol, toRx)
    BY <1>1 DEF OnCourse
  <2>2. f.t.start \in MaybeLevel
    BY <1>1 DEF Session
  <2>3. GainsBounded => BurstOK(f.t, rx.vol, toRx')
    BY <1>1, <2>1, <2>2, BurstStaysOK
  <2> QED BY <1>3, <2>3 DEF BurstOK, Wire
<1>8. OnCourse(f.t)'
  BY <1>4, <1>6, <1>7 DEF OnCourse
<1> QED BY <1>1, <1>3, <1>4, <1>8, TargetKeepsFirst

(* It fails or is reached.                                                  *)
LEMMA EndKeepsFirst ==
  ASSUME TypeOK, TypeOK', FirstOK, Wire, used'.idle = used.idle, toRx' = toRx,
         NEW g, g \in FirmwareState, g.t = f.t, g.cur = f.cur, g.pend = f.pend,
         g.vol = f.vol, g.gen = f.gen, g.was = f.was, g.pendAllowed = f.pendAllowed,
         f' \in {failVolumeRestore(g), completeVolumeRestore(g)}
  PROVE  FirstOK'
<1>1. Goes(g, f)
  BY DEF Goes
<1>2. Goes(f', g)
  BY EndsGo
<1>3. Fewer(toRx', toRx)
  BY FewerClicks DEF TypeOK
<1> QED BY <1>1, <1>2, <1>3, GoesIsEnough, FirmwareGoes

(* Nothing in flight: the level that was heard is that of the receiver.     *)
LEMMA QuietIsStill ==
  ASSUME TypeOK, FirstOK, link, f.was, Quiescent, f.vol >= 0
  PROVE  Still /\ f.vol = rx.vol
<1>1. NoClicks(toRx) /\ AllAt(fromRx, rx.vol) /\ NoVolumes(fromRx)
  BY DEF Quiescent, NoClicks, AllAt, NoVolumes
<1>2. f.vol = rx.vol
  BY <1>1 DEF FirstOK, LevelIsHeard
<1> QED BY <1>1, <1>2 DEF Still

(* The polls of the restore: a target that has settled stands still.        *)
LEMMA PollsKeepFirst ==
  ASSUME TypeOK, TypeOK', ExtOK(f), FirstOK, ~SlowLink, used'.idle = used.idle,
         RequestFreshStatus \/ RequestMovementStatus \/ Settled
  PROVE  FirstOK'
<1>f. f \in FirmwareState /\ toRx \in Seq(Command)
  BY DEF TypeOK
<1>p. Fewer(toRx, toRx) /\ Fewer(toRx \o <<GetStatus>>, toRx)
  <2>1. GetStatus \in Command /\ ~IsClick(GetStatus)
    BY CommandTypes DEF GetStatus, IsClick
  <2> QED BY <1>f, <2>1, FewerClicks
<1>r. f.t.target >= 0 /\ link
  BY DEF RequestFreshStatus, RequestMovementStatus, Settled, Driving, RestoreRuns
<1>c. f.was /\ OnCourse(f.t)
  BY <1>r, TargetRuns
<1>s. ASSUME NEW p, Sends(<<GetStatus>>, [f EXCEPT !.t.phase = p], failVolumeRestore(f))
      PROVE  /\ Wire
             /\ \/ f' = [f EXCEPT !.t.phase = p] /\ Fewer(toRx', toRx)
                \/ f' = failVolumeRestore(f) /\ toRx' = toRx
  BY <1>p, <1>s DEF Sends, Env, Wire
<1>e. ASSUME Wire, toRx' = toRx, f' = failVolumeRestore(f) PROVE FirstOK'
  BY <1>f, <1>e, EndKeepsFirst
<1>1. CASE RequestFreshStatus
  <2>1. Still /\ ~f.t.burst /\ ~f.t.ext
    BY <1>1, <1>c DEF RequestFreshStatus, OnCourse, Steady
  <2>2. Sends(<<GetStatus>>, [f EXCEPT !.t.phase = "waitFreshStatus"], failVolumeRestore(f))
    BY <1>1 DEF RequestFreshStatus
  <2> QED BY <1>e, <1>r, <1>s, <2>1, <2>2, PhaseKeepsFirst
<1>2. CASE RequestMovementStatus
  <2>1. Sends(<<GetStatus>>, [f EXCEPT !.t.phase = "waitMovementStatus"], failVolumeRestore(f))
    BY <1>2 DEF RequestMovementStatus
  <2> QED BY <1>e, <1>r, <1>s, <2>1, PhaseKeepsFirst
<1>3. CASE Settled
  <2>1. f.t.phase = "settling" /\ Quiescent
    BY <1>3 DEF Settled, Driving, Overdue
  <2>2. f.t.obs = f.vol /\ f.vol >= 0 /\ ~f.t.ext
    BY <1>c, <2>1 DEF OnCourse, Settles, ExtOK
  <2>3. Still /\ f.t.obs = rx.vol
    BY <1>c, <1>r, <2>1, <2>2, QuietIsStill
  <2>4. CASE ~f.t.burst /\ Becomes([f EXCEPT !.t.phase = "ready"])
    <3>1. f' = [f EXCEPT !.t.phase = "ready"] /\ Wire /\ toRx' = toRx
      BY <2>4 DEF Becomes, Env, Wire
    <3> QED BY <1>p, <1>r, <2>2, <2>3, <2>4, <3>1, PhaseKeepsFirst
  <2>5. CASE Sends(<<GetStatus>>, [f EXCEPT !.t.phase = "waitConfirmation"],
                   failVolumeRestore(f))
    BY <1>e, <1>r, <1>s, <2>2, <2>3, <2>5, PhaseKeepsFirst
  <2> QED BY <1>3, <2>4, <2>5, Zenon DEF Settled
<1> QED BY <1>1, <1>2, <1>3

(* A click in the direction of the target is one that goes its way.         *)
LEMMA ClickGoes ==
  ASSUME NEW dir \in Direction, NEW goal \in MaybeLevel, NEW by \in MaybeApp, TypeOK
  PROVE  LET c == Click(dir > 0, goal, by)
         IN /\ c \in Command /\ IsClick(c) /\ c.kind = Way(dir)
            /\ ClickCount(toRx \o <<c>>) = ClickCount(toRx) + 1
            /\ Toward(toRx, dir) => Toward(toRx \o <<c>>, dir)
<1> DEFINE c == Click(dir > 0, goal, by)
<1>1. c.kind = Way(dir)
  BY DEF Click, Way
<1>2. c \in Command /\ IsClick(c)
  <2> DEFINE up == dir > 0
  <2>1. up \in BOOLEAN
    OBVIOUS
  <2> HIDE DEF up
  <2>2. Click(up, goal, by) \in Command /\ IsClick(Click(up, goal, by))
    BY <2>1, ClickIsCommand
  <2> QED BY <2>2 DEF up
<1> HIDE DEF c
<1>3. toRx \in Seq(Command) /\ toRx \o <<c>> = Append(toRx, c)
  BY <1>2, OneMore DEF TypeOK
<1>4. ClickCount(Append(toRx, c)) = ClickCount(toRx) + 1
  BY <1>2, <1>3, OneClickSent
<1>5. Toward(toRx, dir) => Toward(Append(toRx, c), dir)
  BY <1>1, <1>2, <1>3, OneWay
<1> QED BY <1>1, <1>2, <1>3, <1>4, <1>5 DEF c

(* The first click from where the receiver stands, of one or of a burst     *)
(* that even its strongest clicks cannot take past the target.              *)
LEMMA FirstClickKeepsFirst ==
  ASSUME TypeOK, TypeOK', FirstOK, Wire, used'.idle = used.idle, f.t.target >= 0,
         Still, ~f.t.burst, ~f.t.ext,
         NEW t \in Session, t.target = f.t.target, t.auto = f.t.auto, ~t.burst, ~t.ext,
         t.planned = f.t.planned, t.sent = f.t.sent,
         NEW dir, dir = volumeDirection(rx.vol, f.t.target), dir # 0,
         NEW clicks \in 0..MaxClicks,
         clicks * WorstRaw <= Distance(rx.vol, f.t.target),
         NEW by \in MaybeApp, toRx' = toRx \o <<Click(dir > 0, f.t.target, by)>>,
         f'.t = Clicked(t, rx.vol, dir, clicks),
         f'.cur = f.cur, f'.pend = f.pend, f'.vol = f.vol, f'.was = f.was, f'.gen = f.gen
  PROVE  FirstOK'
<1> DEFINE s == Clicked(t, rx.vol, dir, clicks)
<1>1. /\ f.t.target \in Level /\ rx.vol \in Level /\ f.t.auto /\ OnCourse(f.t)
      /\ rx' = rx /\ NoClicks(toRx) /\ toRx \in Seq(Command) /\ dir \in {1, -1}
      /\ dir \in Direction
  <2>1. /\ f.t.target \in Level /\ rx.vol \in Level /\ f.t.auto /\ OnCourse(f.t)
        /\ rx' = rx /\ NoClicks(toRx) /\ toRx \in Seq(Command)
    BY TargetRuns DEF TypeOK, Receiver, Still, Wire
  <2>2. dir \in {1, -1} /\ dir \in Direction
    BY DEF volumeDirection, Direction
  <2> QED BY <2>1, <2>2
<1>2. clicks \in Nat
  BY VolumeAssumption
<1>3. /\ s.target = f.t.target /\ s.auto = f.t.auto /\ ~s.ext
      /\ s.phase \in {"waitMovement", "waitBurstSecond"}
      /\ IF clicks = 0
         THEN ~s.burst /\ s.planned = f.t.planned /\ s.sent = f.t.sent
         ELSE /\ s.start = rx.vol /\ s.planned = clicks /\ s.sent = 1 /\ s.dir = dir
  <2>1. CASE clicks = 0
    BY <2>1 DEF Clicked, Session
  <2>2. CASE clicks # 0
    BY <2>2 DEF Clicked, Session
  <2> QED BY <2>1, <2>2
<1> HIDE DEF s
<1>4. Steady(s, Still', rx'.vol) /\ Settles(s, f'.vol)
  BY <1>3 DEF Steady, Settles
<1>5. GainsBounded => BurstOK(s, rx.vol, toRx')
  <2>1. CASE clicks = 0
    BY <1>1, <1>3, <2>1 DEF OnCourse, BurstOK
  <2>2. CASE clicks # 0
    <3>1. s.sent <= s.planned
      BY <1>2, <1>3, <2>2
    <3>2. Toward(toRx', dir) /\ ClickCount(toRx') = 1
      <4>1. ClickCount(toRx) = 0 /\ Toward(toRx, dir)
        BY <1>1, ClicksCount, OneWay
      <4>2. f.t.target \in MaybeLevel
        BY <1>1 DEF MaybeLevel
      <4> QED BY <1>1, <4>1, <4>2, ClickGoes
    <3>3. dir * (rx.vol - rx.vol) + Reach(ClickCount(toRx')) <= Reach(1)
      <4>1. rx.vol - rx.vol = 0 /\ dir * 0 = 0
        BY <1>1 DEF Level
      <4>2. Reach(1) \in Nat
        BY ReachGrows
      <4> QED BY <3>2, <4>1, <4>2
    <3>4. Reach(clicks) <= dir * (f.t.target - rx.vol)
      <4> DEFINE v == rx.vol
                 w == f.t.target
      <4>1. v \in Nat /\ w \in Nat
        BY <1>1, VolumeAssumption DEF Level
      <4>2. dir = (IF v < w THEN 1 ELSE IF v > w THEN -1 ELSE 0)
        BY DEF volumeDirection
      <4>3. Distance(v, w) = IF v < w THEN w - v ELSE v - w
        BY DEF Distance
      <4>4. Reach(clicks) = clicks * WorstRaw
        BY <1>2, VolumeAssumption DEF Reach
      <4>5. Reach(clicks) <= Distance(v, w)
        BY <4>4
      <4>6. Reach(clicks) \in Nat
        BY <1>2, ReachGrows
      <4> HIDE DEF v, w
      <4>7. dir * (w - v) = Distance(v, w)
        BY <1>1, <4>1, <4>2, <4>3
      <4> QED BY <4>5, <4>6, <4>7 DEF v, w
    <3> QED BY <1>1, <1>3, <2>2, <3>1, <3>2, <3>3, <3>4 DEF BurstOK
  <2> QED BY <2>1, <2>2
<1>6. OnCourse(f.t)'
  BY <1>1, <1>4, <1>5 DEF OnCourse, s
<1>7. f'.t.target >= 0 /\ f'.t.auto
  BY <1>1, <1>3 DEF s
<1> QED BY <1>6, <1>7, TargetKeepsFirst

(* How many clicks a burst has is a count it can have.                      *)
LEMMA CountIsSafe ==
  ASSUME NEW d \in Nat, NEW delta \in Nat, NEW clicks \in Nat
  PROVE  LET n == volumeRapidClickCount(d, delta, clicks)
         IN n \in 0..MaxClicks /\ n * WorstRaw <= d
<1> DEFINE n == volumeRapidClickCount(d, delta, clicks)
<1>1. n \in {0} \cup ProbeClicks..MaxClicks /\ n * WorstRaw <= d
  BY RapidClickCountIsSafe
<1> HIDE DEF n
<1>2. n \in 0..MaxClicks
  BY <1>1, VolumeAssumption
<1> QED BY <1>1, <1>2 DEF n

(* The click that starts a muted restore.                                   *)
LEMMA MuteCycleKeepsFirst ==
  ASSUME TypeOK, TypeOK', FirstOK, used'.idle = used.idle, StartMuteCycle
  PROVE  FirstOK'
<1> DEFINE dir    == volumeDirection(f.vol, f.t.target)
           clicks == volumeRapidClickCount(Distance(f.vol, f.t.target), 0, 0)
           armed  == armAutomaticRemuteRecovery(f, TRUE)
           unset  == armAutomaticRemuteRecovery(f, FALSE)
           t      == [armed.t EXCEPT !.obs = f.vol]
           s      == Clicked(t, f.vol, dir, clicks)
           done   == [armed EXCEPT !.muteKnown = FALSE, !.t = s]
           c      == Click(dir > 0, f.t.target, NoApp)
<1>1. /\ f \in FirmwareState /\ f.t.target >= 0 /\ f.t.phase = "waitAutomaticUnmute"
      /\ f.vol \in MaybeLevel
  BY DEF StartMuteCycle, RestoreRuns, TypeOK, FirmwareState
<1>2. f.t \in Session /\ f.t.target \in Level /\ f.t.auto /\ Still /\ ~f.t.burst /\ ~f.t.ext
  BY <1>1, TargetRuns DEF OnCourse, Steady
<1>3. ASSUME NEW ok \in BOOLEAN
      PROVE  LET g == armAutomaticRemuteRecovery(f, ok)
             IN /\ g \in FirmwareState /\ g.t = f.t /\ g.cur = f.cur /\ g.pend = f.pend
                /\ g.vol = f.vol /\ g.gen = f.gen /\ g.was = f.was
                /\ g.pendAllowed = f.pendAllowed
  <2>1. LET g == armAutomaticRemuteRecovery(f, ok)
        IN /\ g.t = f.t /\ g.cur = f.cur /\ g.pend = f.pend
           /\ g.vol = f.vol /\ g.gen = f.gen /\ g.was = f.was
           /\ g.pendAllowed = f.pendAllowed
    BY <1>1 DEF armAutomaticRemuteRecovery, FirmwareState
  <2> QED BY <1>1, <2>1, armAutomaticRemuteRecoveryType
<1>4. ASSUME Wire, toRx' = toRx, NEW g \in {f, armed, unset},
             f' \in {failVolumeRestore(g), completeVolumeRestore(g)}
      PROVE  FirstOK'
  <2>1. /\ g \in FirmwareState /\ g.t = f.t /\ g.cur = f.cur /\ g.pend = f.pend
        /\ g.vol = f.vol /\ g.gen = f.gen /\ g.was = f.was /\ g.pendAllowed = f.pendAllowed
    BY <1>1, <1>3, <1>4
  <2> QED BY <1>4, <2>1, EndKeepsFirst
<1>5. ASSUME Wire, toRx' = toRx \o <<c>>, f' = done, ~MuteCycleRefused, dir # 0
      PROVE  FirstOK'
  <2>1. f.vol \in Level /\ f.vol = rx.vol
    BY <1>1, <1>2, <1>5 DEF MuteCycleRefused, Still, MaybeLevel, Level, None
  <2>2. /\ t \in Session /\ t.target = f.t.target /\ t.auto = f.t.auto /\ ~t.burst /\ ~t.ext
        /\ t.planned = f.t.planned /\ t.sent = f.t.sent
    <3>1. armed.t = f.t
      BY <1>3
    <3> HIDE DEF armed
    <3> QED BY <1>1, <1>2, <3>1 DEF Session
  <2>3. Distance(f.vol, f.t.target) \in Nat
    BY <1>1, <1>2, DistanceType DEF MaybeLevel
  <2>4. clicks \in 0..MaxClicks /\ clicks * WorstRaw <= Distance(f.vol, f.t.target)
    BY <2>3, CountIsSafe
  <2>5. /\ f'.t = s /\ f'.cur = f.cur /\ f'.pend = f.pend /\ f'.vol = f.vol
        /\ f'.was = f.was /\ f'.gen = f.gen
    <3>1. armed \in FirmwareState
      BY <1>3
    <3>2. /\ done.t = s /\ done.cur = armed.cur /\ done.pend = armed.pend
          /\ done.vol = armed.vol /\ done.was = armed.was /\ done.gen = armed.gen
      <4> HIDE DEF s, armed
      <4> QED BY <3>1 DEF FirmwareState
    <3>3. /\ armed.cur = f.cur /\ armed.pend = f.pend
          /\ armed.vol = f.vol /\ armed.was = f.was /\ armed.gen = f.gen
      BY <1>3
    <3> HIDE DEF done, s, armed
    <3> QED BY <1>5, <3>2, <3>3
  <2>6. s = Clicked(t, rx.vol, dir, clicks) /\ dir = volumeDirection(rx.vol, f.t.target)
    BY <2>1
  <2>7. NoApp \in MaybeApp /\ clicks * WorstRaw <= Distance(rx.vol, f.t.target)
    BY <2>1, <2>4 DEF MaybeApp
  <2>8. toRx' = toRx \o <<Click(dir > 0, f.t.target, NoApp)>>
    BY <1>5
  <2> HIDE DEF c, dir, clicks, t, s, done, armed
  <2> QED BY <1>1, <1>2, <1>5, <2>2, <2>4, <2>5, <2>6, <2>7, <2>8, FirstClickKeepsFirst
<1>6. \/ Becomes(failVolumeRestore(f)) \/ Becomes(completeVolumeRestore(f))
      \/ /\ ~MuteCycleRefused /\ dir # 0
         /\ Sends(<<c>>, done, failVolumeRestore(armed))
      \/ f' = failVolumeRestore(unset) /\ UNCHANGED <<toRx, Env>>
  BY Zenon DEF StartMuteCycle
<1> HIDE DEF c, dir, clicks, t, s, done, armed, unset
<1>7. ASSUME NEW g, Becomes(g) PROVE f' = g /\ toRx' = toRx /\ Wire
  BY <1>7 DEF Becomes, Env, Wire
<1>8. UNCHANGED <<toRx, Env>> => toRx' = toRx /\ Wire
  BY DEF Env, Wire
<1>9. ASSUME Sends(<<c>>, done, failVolumeRestore(armed))
      PROVE  /\ Wire
             /\ \/ f' = done /\ toRx' = toRx \o <<c>>
                \/ f' = failVolumeRestore(armed) /\ toRx' = toRx
  BY <1>9 DEF Sends, Env, Wire
<1> QED BY <1>4, <1>5, <1>6, <1>7, <1>8, <1>9

(* The next click, or burst, from where the target has stopped.             *)
LEMMA NextClickKeepsFirst ==
  ASSUME TypeOK, TypeOK', FirstOK, used'.idle = used.idle, NextClick
  PROVE  FirstOK'
<1> DEFINE dir    == volumeDirection(f.t.obs, f.t.target)
           turned == f.t.dir # 0 /\ dir # f.t.dir
           clicks == IF f.t.coarse
                     THEN volumeRapidClickCount(Distance(f.t.obs, f.t.target),
                                                f.t.delta, f.t.clicks)
                     ELSE 0
           rev    == f.t.reversed \/ turned
           t      == [f.t EXCEPT !.reversed = rev]
           s      == Clicked(t, f.t.obs, dir, clicks)
           by     == IF f.t.auto THEN NoApp ELSE f.cur
           c      == Click(dir > 0, f.t.target, by)
<1>1. f \in FirmwareState /\ f.t.target >= 0 /\ f.t.phase = "ready"
  BY DEF NextClick, Driving, RestoreRuns, TypeOK
<1>2. /\ f.t \in Session /\ f.t.target \in Level /\ f.t.auto /\ Still /\ ~f.t.burst /\ ~f.t.ext
      /\ f.t.obs = rx.vol /\ rx.vol \in Level
  BY <1>1, TargetRuns DEF OnCourse, Steady, TypeOK, Receiver
<1>3. by \in MaybeApp
  BY <1>1 DEF FirmwareState, MaybeApp
<1>4. clicks \in 0..MaxClicks /\ clicks * WorstRaw <= Distance(f.t.obs, f.t.target)
  <2> DEFINE d == Distance(f.t.obs, f.t.target)
             n == volumeRapidClickCount(d, f.t.delta, f.t.clicks)
  <2>1. d \in Nat
    BY <1>2, DistanceType DEF MaybeLevel
  <2>2. f.t.delta \in Nat /\ f.t.clicks \in Nat
    BY <1>2, VolumeAssumption DEF Session
  <2>3. n \in 0..MaxClicks /\ n * WorstRaw <= d
    <3> HIDE DEF d
    <3> QED BY <2>1, <2>2, CountIsSafe
  <2>4. 0 \in 0..MaxClicks /\ 0 * WorstRaw <= d
    <3> HIDE DEF d
    <3> QED BY <2>1, VolumeAssumption
  <2>5. clicks \in {n, 0}
    BY Zenon
  <2> HIDE DEF n, clicks
  <2> QED BY <2>3, <2>4, <2>5
<1>5. /\ t \in Session /\ t.target = f.t.target /\ t.auto = f.t.auto /\ ~t.burst /\ ~t.ext
      /\ t.planned = f.t.planned /\ t.sent = f.t.sent
  <2>1. rev \in BOOLEAN
    BY <1>2 DEF Session
  <2> HIDE DEF rev
  <2> QED BY <1>2, <2>1 DEF Session
<1>6. /\ s = Clicked(t, rx.vol, dir, clicks) /\ dir = volumeDirection(rx.vol, f.t.target)
      /\ clicks * WorstRaw <= Distance(rx.vol, f.t.target)
  BY <1>2, <1>4
<1>7. ASSUME Wire, toRx' = toRx, f' \in {failVolumeRestore(f), completeVolumeRestore(f)}
      PROVE  FirstOK'
  BY <1>1, <1>7, EndKeepsFirst
<1>8. ASSUME Wire, toRx' = toRx \o <<c>>, f' = [f EXCEPT !.t = s], dir # 0
      PROVE  FirstOK'
  <2>1. /\ f'.t = s /\ f'.cur = f.cur /\ f'.pend = f.pend /\ f'.vol = f.vol
        /\ f'.was = f.was /\ f'.gen = f.gen
    <3> HIDE DEF s
    <3> QED BY <1>1, <1>8 DEF FirmwareState
  <2>2. toRx' = toRx \o <<Click(dir > 0, f.t.target, by)>>
    BY <1>8
  <2> HIDE DEF c, dir, clicks, t, s, by
  <2> QED BY <1>1, <1>2, <1>3, <1>4, <1>5, <1>6, <1>8, <2>1, <2>2, FirstClickKeepsFirst
<1>9. \/ Becomes(completeVolumeRestore(f)) \/ Becomes(failVolumeRestore(f))
      \/ dir # 0 /\ Sends(<<c>>, [f EXCEPT !.t = s], failVolumeRestore(f))
  BY Zenon DEF NextClick
<1> HIDE DEF c, dir, s
<1>10. ASSUME NEW g, Becomes(g) PROVE f' = g /\ toRx' = toRx /\ Wire
  BY <1>10 DEF Becomes, Env, Wire
<1>11. ASSUME Sends(<<c>>, [f EXCEPT !.t = s], failVolumeRestore(f))
       PROVE  /\ Wire
              /\ \/ f' = [f EXCEPT !.t = s] /\ toRx' = toRx \o <<c>>
                 \/ f' = failVolumeRestore(f) /\ toRx' = toRx
  BY <1>11 DEF Sends, Env, Wire
<1> QED BY <1>7, <1>8, <1>9, <1>10, <1>11

(* The next click of a burst adds what it can do to what the burst can do;  *)
(* an extension is a burst of one click.                                    *)
LEMMA BurstClickKeepsFirst ==
  ASSUME TypeOK, TypeOK', FirstOK, used'.idle = used.idle, BurstClick
  PROVE  FirstOK'
<1> DEFINE x     == [f.t EXCEPT !.burst = TRUE, !.start = f.t.obs, !.planned = 1,
                                !.sent = 0, !.ext = FALSE]
           t     == IF f.t.ext THEN x ELSE f.t
           sent  == t.sent + 1
           phase == IF sent >= t.planned THEN "waitMovement" ELSE t.phase
           s     == [t EXCEPT !.steps = t.steps + 1, !.sent = sent, !.phase = phase]
           by    == IF t.auto THEN NoApp ELSE f.cur
           c     == Click(t.dir > 0, t.target, by)
           unset == [f EXCEPT !.t = t]
           done  == [f EXCEPT !.t = s]
<1>1. f \in FirmwareState /\ f.t.target >= 0 /\ f.t.phase = "waitBurstSecond"
  BY DEF BurstClick, Driving, RestoreRuns, TypeOK
<1>2. /\ f.t \in Session /\ f.t.target \in Level /\ f.t.auto /\ OnCourse(f.t)
      /\ rx.vol \in Level /\ f.t.start \in MaybeLevel
  BY <1>1, TargetRuns DEF TypeOK, Receiver, Session
<1>3. /\ x \in Session /\ x.target = f.t.target /\ x.auto = f.t.auto /\ x.phase = f.t.phase
      /\ ~x.ext /\ x.planned = 1 /\ x.sent = 0 /\ x.dir = f.t.dir
  <2>1. f.t.obs \in MaybeLevel /\ 0 \in 0..MaxClicks \cup {1} /\ 1 \in 0..MaxClicks \cup {1}
    BY <1>2, VolumeAssumption DEF Session
  <2>2. x \in Session
    BY <1>2, <2>1 DEF Session
  <2>3. /\ x.target = f.t.target /\ x.auto = f.t.auto /\ x.phase = f.t.phase
        /\ ~x.ext /\ x.planned = 1 /\ x.sent = 0 /\ x.dir = f.t.dir
    BY <1>2 DEF Session
  <2> QED BY <2>2, <2>3
<1>4. /\ t \in Session /\ t.target = f.t.target /\ t.auto = f.t.auto
      /\ t.phase = f.t.phase /\ t.dir = f.t.dir /\ ~t.ext
      /\ IF f.t.ext THEN t.planned = 1 /\ t.sent = 0 ELSE t = f.t
  <2>1. t = IF f.t.ext THEN x ELSE f.t
    OBVIOUS
  <2> HIDE DEF x, t
  <2> QED BY <1>2, <1>3, <2>1
<1>5. /\ t.sent \in Nat /\ t.planned \in Nat
  <2> HIDE DEF t
  <2> QED BY <1>4, VolumeAssumption DEF Session
<1>6. /\ s.target = t.target /\ s.auto = t.auto /\ s.phase = phase /\ s.dir = t.dir
      /\ s.burst = t.burst /\ s.ext = t.ext /\ s.start = t.start /\ s.planned = t.planned
      /\ s.sent = sent
  <2> HIDE DEF t, sent, phase
  <2> QED BY <1>4 DEF Session
<1>7. phase \in {"waitMovement", "waitBurstSecond"}
  <2>1. phase \in {"waitMovement", t.phase}
    BY Zenon
  <2> HIDE DEF phase, t
  <2> QED BY <1>1, <1>4, <2>1
<1>8. /\ unset \in FirmwareState /\ unset.t = t /\ unset.cur = f.cur /\ unset.pend = f.pend
      /\ unset.vol = f.vol /\ unset.gen = f.gen /\ unset.was = f.was
      /\ unset.pendAllowed = f.pendAllowed
  <2> HIDE DEF t
  <2>1. unset \in FirmwareState
    BY <1>1, <1>4, SessionUpdate
  <2>2. /\ unset.t = t /\ unset.cur = f.cur /\ unset.pend = f.pend
        /\ unset.vol = f.vol /\ unset.gen = f.gen /\ unset.was = f.was
        /\ unset.pendAllowed = f.pendAllowed
    BY <1>1 DEF FirmwareState
  <2> QED BY <2>1, <2>2
<1>9. /\ done.t = s /\ done.cur = f.cur /\ done.pend = f.pend
      /\ done.vol = f.vol /\ done.gen = f.gen /\ done.was = f.was
  <2> HIDE DEF s
  <2> QED BY <1>1 DEF FirmwareState
<1>10. by \in MaybeApp
  <2> HIDE DEF t
  <2> QED BY <1>1 DEF FirmwareState, MaybeApp
<1> HIDE DEF x, t, s, sent, phase, unset, done
(* It ends.                                                                 *)
<1>11. ASSUME Wire, toRx' = toRx, NEW g \in {f, unset}, f' = failVolumeRestore(g)
       PROVE  FirstOK'
  <2>1. Goes(f', f)
    <3>1. g \in FirmwareState
      BY <1>1, <1>8, <1>11
    <3>2. f'.t = NoSession /\ SameOwner(f', g) /\ f'.vol = g.vol
      BY <1>11, <3>1, HowTargetsEnd, EndsAlone DEF SameEar
    <3> QED BY <1>8, <1>11, <3>2 DEF Goes, SameOwner
  <2>2. Fewer(toRx', toRx)
    BY <1>11, FewerClicks DEF TypeOK
  <2> QED BY <1>11, <2>1, <2>2, FirmwareGoes
(* It has been sent.                                                        *)
<1>12. ASSUME Wire, toRx' = toRx, f' = [f EXCEPT !.t.phase = "waitMovement"]
       PROVE  FirstOK'
  <2>1. Fewer(toRx', toRx)
    BY <1>12, FewerClicks DEF TypeOK
  <2> QED BY <1>1, <1>12, <2>1, PhaseKeepsFirst
(* Its next click.                                                          *)
<1>13. ASSUME Wire, toRx' = toRx \o <<c>>, f' = done, t.sent < t.planned
       PROVE  FirstOK'
  <2>1. Steady(s, Still', rx'.vol) /\ Settles(s, f'.vol)
    BY <1>6, <1>7 DEF Steady, Settles
  <2>2. ASSUME GainsBounded PROVE BurstOK(s, rx.vol, toRx')
    <3>1. s.sent <= s.planned
      BY <1>5, <1>6, <1>13 DEF sent
    <3>2. ASSUME s.burst \/ s.ext, s.planned > 1
          PROVE  /\ s.dir \in {1, -1} /\ Toward(toRx', s.dir)
                 /\ s.dir * (rx.vol - s.start) + Reach(ClickCount(toRx')) <= Reach(s.sent)
                 /\ Reach(s.planned) <= s.dir * (s.target - s.start)
      <4>1. t = f.t /\ t.burst /\ BurstOK(t, rx.vol, toRx)
        BY <1>2, <1>4, <1>6, <2>2, <3>2 DEF OnCourse
      <4> DEFINE far == t.dir * (rx.vol - t.start)
      <4>2. /\ t.dir \in {1, -1} /\ Toward(toRx, t.dir)
            /\ far + Reach(ClickCount(toRx)) <= Reach(t.sent)
            /\ Reach(t.planned) <= t.dir * (t.target - t.start)
        BY <1>6, <3>2, <4>1 DEF BurstOK
      <4>3. ClickCount(toRx') = ClickCount(toRx) + 1 /\ Toward(toRx', t.dir)
        <5>1. t.dir \in Direction /\ t.target \in MaybeLevel
          BY <1>4 DEF Session
        <5> QED BY <1>10, <1>13, <4>2, <5>1, ClickGoes
      <4>4. far \in Int
        <5> DEFINE d == rx.vol - t.start
        <5>1. d \in Int
          BY <1>2, <4>1, VolumeAssumption DEF Level, MaybeLevel, None
        <5>2. t.dir = 1 \/ t.dir = -1
          BY <4>2
        <5> HIDE DEF d
        <5>3. t.dir * d \in Int
          BY <5>1, <5>2
        <5> QED BY <5>3 DEF d
      <4>5. /\ Reach(ClickCount(toRx)) \in Nat /\ Reach(t.sent) \in Nat
            /\ Reach(ClickCount(toRx')) = Reach(ClickCount(toRx)) + WorstRaw
            /\ Reach(s.sent) = Reach(t.sent) + WorstRaw
        <5>1. ClickCount(toRx) \in Nat
          BY ClicksCount DEF TypeOK
        <5>2. s.sent = t.sent + 1
          BY <1>6 DEF sent
        <5> QED BY <1>5, <4>3, <5>1, <5>2, ReachGrows
      <4> HIDE DEF far
      <4>6. far + Reach(ClickCount(toRx')) <= Reach(s.sent)
        BY <4>2, <4>4, <4>5, VolumeAssumption
      <4>7. far = s.dir * (rx.vol - s.start)
        BY <1>6 DEF far
      <4> QED BY <1>6, <4>2, <4>3, <4>6, <4>7
    <3> QED BY <3>1, <3>2 DEF BurstOK
  <2>3. rx' = rx
    BY <1>13 DEF Wire
  <2>4. OnCourse(f.t)'
    BY <1>9, <1>13, <2>1, <2>2, <2>3 DEF OnCourse, GainsBounded
  <2>5. f'.t.target >= 0 /\ f'.t.auto
    BY <1>1, <1>2, <1>4, <1>6, <1>9, <1>13
  <2> QED BY <1>1, <1>9, <1>13, <2>4, <2>5, TargetKeepsFirst
<1>14. \/ Becomes([f EXCEPT !.t.phase = "waitMovement"]) \/ Becomes(failVolumeRestore(f))
       \/ ~(t.sent >= t.planned) /\ Sends(<<c>>, done, failVolumeRestore(unset))
  BY Zenon DEF BurstClick, t, x, s, sent, phase, done, unset
<1>15. ~(t.sent >= t.planned) => t.sent < t.planned
  BY <1>5
<1> HIDE DEF c
<1>16. ASSUME NEW g, Becomes(g) PROVE f' = g /\ toRx' = toRx /\ Wire
  BY <1>16 DEF Becomes, Env, Wire
<1>17. ASSUME Sends(<<c>>, done, failVolumeRestore(unset))
       PROVE  /\ Wire
              /\ \/ f' = done /\ toRx' = toRx \o <<c>>
                 \/ f' = failVolumeRestore(unset) /\ toRx' = toRx
  BY <1>17 DEF Sends, Env, Wire
<1> QED BY <1>11, <1>12, <1>13, <1>14, <1>15, <1>16, <1>17

(* Every step up to the first event keeps the invariant of the first        *)
(* target.                                                                  *)
LEMMA FirstIsKept ==
  ASSUME TypeOK, TypeOK', OwnerOK(f), ExtOK(f), FirstOK, ~SlowLink,
         FirstComes \/ OnlyLoop
  PROVE  FirstOK'
<1>1. CASE FirstComes
  BY <1>1, ComingKeepsFirst
<1>2. CASE OnlyLoop
  <2>1. used'.idle = used.idle
    BY <1>2 DEF OnlyLoop
  <2>2. CASE ReadDenon
    BY <2>1, <2>2, MuteReportKeepsFirst, VolumeReportKeepsFirst
  <2>3. CASE maintainAppSwitch
    BY <2>1, <2>3, SwitchKeepsFirst
  <2>4. CASE RequestFreshStatus \/ RequestMovementStatus \/ Settled
    BY <2>1, <2>4, PollsKeepFirst
  <2>5. CASE StartMuteCycle \/ BurstClick \/ NextClick
    BY <2>1, <2>5, MuteCycleKeepsFirst, BurstClickKeepsFirst, NextClickKeepsFirst
  <2>6. CASE ReceiverObeys
    BY <2>6, ReceiverKeepsFirst
  <2>7. CASE LinkUp \/ LinkDown \/ PowerLoss
    BY <2>1, <2>7, LinkKeepsFirst
  <2>8. CASE \/ maintainManualMuteLock \/ maintainAutomaticRemute \/ RestoreDeadline
             \/ ResponseTimeout \/ LeaseEnds \/ SeesConnected \/ SeesDisconnected \/ StatusPoll
             \/ LeaseExpires \/ LearningCooldownEnds \/ UNCHANGED vars
    BY <2>1, <2>8, QuietStepsKeepFirst
  <2> QED BY <1>2, <2>2, <2>3, <2>4, <2>5, <2>6, <2>7, <2>8 DEF OnlyLoop, Loop, Restore
<1> QED BY <1>1, <1>2

(* The invariant of the first target holds until the second event, or a     *)
(* user's hand.                                                             *)
LEMMA FirstIsRight ==
  ASSUME ~SlowLink
  PROVE  Spec => [](FirstEvent => FirstOK)
<1>1. Init => FirstOK
  <2> SUFFICES ASSUME Init PROVE FirstOK
    OBVIOUS
  <2>1. ~link /\ used.idle = 0 /\ toRx = <<>> /\ fromRx = <<>>
    BY BoundNames DEF Init
  <2>2. /\ f.t = NoSession /\ f.cur = NoApp /\ f.pend = NoApp /\ f.vol = None
        /\ ~f.was
    BY DEF Init, Boot
  <2>3. NoSession.target < 0 /\ ~NoSession.burst
    BY DEF NoSession, None
  <2>4. Still
    BY <2>1, <2>2 DEF Still, NoClicks, AllAt
  <2>5. ~(f.t.target >= 0)
    BY <2>2 DEF NoSession, None
  <2> QED BY <2>1, <2>2, <2>3, <2>4, <2>5 DEF FirstOK, LevelIsHeard
<1>2. /\ TypeOK /\ TypeOK' /\ OwnerOK(f) /\ ExtOK(f)
      /\ (FirstEvent => FirstOK) /\ [Next]_vars
      => (FirstEvent => FirstOK)'
  <2> SUFFICES ASSUME TypeOK, TypeOK', OwnerOK(f), ExtOK(f), FirstEvent => FirstOK,
                      [Next]_vars, FirstEvent'
               PROVE  FirstOK'
    OBVIOUS
  <2> QED BY FirstCounts, FirstIsKept
<1> QED BY <1>1, <1>2, TypeCorrect, OwnerIsKept, ExtIsKept, PTL DEF Spec

-----------------------------------------------------------------------------
(* The theorems.                                                            *)

(* A burst of planned clicks never takes the receiver past the first        *)
(* target, in whatever order its clicks and their reports arrive, when no   *)
(* click is stronger than the code assumes at worst (volumeRapidClickCount, *)
(* canSendVolumeBurstCommand).                                              *)
THEOREM PlannedBurstsStopShort ==
  ASSUME ~SlowLink, \A gain \in Gains : gain <= WorstRaw
  PROVE  Spec => []PlannedBurstStopsShort
<1>1. TypeOK /\ (FirstEvent => FirstOK) => PlannedBurstStopsShort
  <2> SUFFICES ASSUME TypeOK, FirstOK, f.t.burst, f.t.planned > 1
               PROVE  ~Beyond(rx.vol, f.t.target, f.t.dir)
    BY DEF PlannedBurstStopsShort
  <2> DEFINE s == f.t
             n == ClickCount(toRx)
  <2>1. f.t.target >= 0 /\ f.t.target \in Level /\ OnCourse(f.t)
    <3>1. f.t.target \in MaybeLevel /\ ~(f.t.target < 0)
      BY DEF FirstOK, TypeOK, FirmwareState, Session
    <3>2. f.t.target >= 0
      BY <3>1, VolumeAssumption DEF MaybeLevel, Level, None
    <3> QED BY <3>2, TargetRuns
  <2>2. /\ s.sent <= s.planned /\ s.dir \in {1, -1}
        /\ s.dir * (rx.vol - s.start) + Reach(n) <= Reach(s.sent)
        /\ Reach(s.planned) <= s.dir * (s.target - s.start)
    BY <2>1 DEF OnCourse, BurstOK, GainsBounded
  <2>3. n \in Nat /\ s.sent \in Nat /\ s.planned \in Nat
    <3>1. n \in Nat
      BY ClicksCount DEF TypeOK
    <3>2. f.t.sent \in 0..MaxClicks \cup {1} /\ f.t.planned \in 0..MaxClicks \cup {1}
      BY DEF TypeOK, FirmwareState, Session
    <3> QED BY <3>1, <3>2, VolumeAssumption
  <2>4. Reach(n) >= 0 /\ Reach(n) \in Int /\ Reach(s.sent) \in Int /\ Reach(s.planned) \in Int
        /\ Reach(s.sent) <= Reach(s.planned)
    BY <2>2, <2>3, ReachGrows
  <2>5. rx.vol \in Int /\ s.target \in Int /\ s.start \in Int
    <3>1. rx.vol \in Level /\ f.t.start \in MaybeLevel
      BY DEF TypeOK, Receiver, FirmwareState, Session
    <3> QED BY <2>1, <3>1, VolumeAssumption DEF MaybeLevel, Level, None
  <2> HIDE DEF s, n
  <2>6. CASE s.dir = 1
    <3>1. rx.vol <= s.target
      BY <2>2, <2>4, <2>5, <2>6
    <3> QED BY <2>5, <2>6, <3>1 DEF Beyond, s
  <2>7. CASE s.dir = -1
    <3>1. rx.vol >= s.target
      BY <2>2, <2>4, <2>5, <2>7
    <3> QED BY <2>5, <2>7, <3>1 DEF Beyond, s
  <2> QED BY <2>2, <2>6, <2>7
<1> QED BY <1>1, TypeCorrect, FirstIsRight, PTL

(* The step that declares a target reached ends it under its generation,    *)
(* without a failure.                                                       *)
LEMMA CompletionEnds ==
  ASSUME TypeOK, FirstOK, Completes
  PROVE  /\ f.t \in Session /\ f.t.target \in Level /\ f.t.target >= 0 /\ f.gen # 0
         /\ OnCourse(f.t) /\ f.was /\ f.pend = NoApp
         /\ ~(f.t.target < 0) /\ ~Off(f', f) /\ f'.t.target # f.t.target
         /\ f'.gen = f.gen /\ f'.quiet /\ link /\ ~LeaseLost
         /\ \A g \in FirmwareState : f' # failVolumeRestore(g)
<1>1. f.t.target >= 0 /\ f'.t.target < 0 /\ f'.gen = f.gen /\ f'.quiet /\ link /\ ~LeaseLost
  BY DEF Completes
<1>2. /\ f.t \in Session /\ f.t.target \in Level /\ ~(f.t.target < 0)
      /\ f.gen # 0 /\ OnCourse(f.t) /\ f.was /\ f.pend = NoApp
  BY <1>1, TargetRuns
<1>3. ~Off(f', f) /\ f'.t.target # f.t.target
  BY <1>1, <1>2 DEF Off
<1>4. \A g \in FirmwareState : f' # failVolumeRestore(g)
  BY <1>1, HowTargetsEnd
<1> QED BY <1>1, <1>2, <1>3, <1>4

(* A report completes a target where the receiver stands: a mute report     *)
(* ends none but by calling it off.                                         *)
LEMMA FeedbackCompletes ==
  ASSUME TypeOK, FirstOK, Completes, ReadDenon
  PROVE  rx.vol = f.t.target /\ NoClicks(toRx)
<1> DEFINE r == Head(fromRx)
<1>t. f \in FirmwareState /\ fromRx \in Seq(Report) /\ fromRx # <<>>
  BY DEF TypeOK, ReadDenon
<1>r. r \in Report
  BY <1>t, HeadTailProperties
<1>1. ASSUME r.kind # "volume" PROVE FALSE
  <2>1. \E ok \in BOOLEAN : f' = observeMute(f, r.on, ok)
    BY <1>1, Zenon DEF ReadDenon
  <2> HIDE DEF r
  <2>2. r.on \in BOOLEAN
    BY <1>r, <1>1 DEF Report
  <2>3. Off(f', f)
    BY <1>t, <2>1, <2>2, observeMuteKeeps DEF Keeps
  <2> QED BY <2>3, CompletionEnds
<1>2. ASSUME r.kind = "volume" PROVE rx.vol = f.t.target /\ NoClicks(toRx)
  <2>1. f' = observeVolume(f, r.raw)
    BY <1>2 DEF ReadDenon
  <2>2. AllAt(fromRx, rx.vol) => r.raw = rx.vol
    BY <1>t, <1>2, OneLevelRead
  <2> HIDE DEF r
  <2>3. r.raw \in Level
    BY <1>r, <1>2 DEF Report
  <2>4. \/ f.t.target < 0
        \/ f'.t = NoSession /\ ~f'.quiet
        \/ Reached(f', f.t, r.raw)
        \/ Hears(f'.t, f.t, r.raw)
    BY <1>t, <2>1, <2>3, observeVolumeTakes
  <2>5. Reached(f', f.t, r.raw)
    BY <2>4, CompletionEnds DEF Hears
  <2>6. Still
    BY <2>5, CompletionEnds DEF OnCourse, Steady, Reached
  <2> QED BY <2>2, <2>5, <2>6 DEF Still, Reached
<1> QED BY <1>1, <1>2

(* The two places where the loop finds its target reached: before the first *)
(* click of a muted restore, and before the next click of any restore.      *)
LEMMA ClicksComplete ==
  ASSUME TypeOK, FirstOK, Completes, StartMuteCycle \/ NextClick
  PROVE  rx.vol = f.t.target /\ NoClicks(toRx)
<1>t. f \in FirmwareState
  BY DEF TypeOK
<1>b. ASSUME NEW g, Becomes(g) PROVE f' = g
  BY <1>b DEF Becomes
<1>s. ASSUME NEW cmds, NEW g, NEW h, Sends(cmds, g, h) PROVE f' = g \/ f' = h
  BY <1>s DEF Sends
<1>f. ~Becomes(failVolumeRestore(f)) /\ f' # failVolumeRestore(f)
  BY <1>t, <1>b, CompletionEnds
<1>k. ASSUME NEW t, t.target = f.t.target, NEW raw, NEW dir, NEW clicks, t \in Session
      PROVE  Clicked(t, raw, dir, clicks).target = f.t.target
  <2> DEFINE g == [t EXCEPT !.cmd = raw, !.dir = dir, !.steps = t.steps + 1]
             m == [g EXCEPT !.phase = "waitMovement"]
             b == [g EXCEPT !.burst = TRUE, !.start = raw, !.planned = clicks, !.sent = 1,
                            !.phase = "waitBurstSecond"]
  <2>1. m.target = f.t.target /\ b.target = f.t.target
    BY <1>k DEF Session
  <2>2. Clicked(t, raw, dir, clicks) \in {m, b}
    BY Zenon DEF Clicked
  <2> HIDE DEF m, b
  <2> QED BY <2>1, <2>2
<1>1. CASE StartMuteCycle
  <2> DEFINE dir    == volumeDirection(f.vol, f.t.target)
             clicks == volumeRapidClickCount(Distance(f.vol, f.t.target), 0, 0)
             armed  == armAutomaticRemuteRecovery(f, TRUE)
             unset  == armAutomaticRemuteRecovery(f, FALSE)
             t      == [armed.t EXCEPT !.obs = f.vol]
             s      == Clicked(t, f.vol, dir, clicks)
             done   == [armed EXCEPT !.muteKnown = FALSE, !.t = s]
             c      == Click(dir > 0, f.t.target, NoApp)
  <2>1. \/ Becomes(failVolumeRestore(f))
        \/ ~MuteCycleRefused /\ dir = 0
        \/ Sends(<<c>>, done, failVolumeRestore(armed))
        \/ f' = failVolumeRestore(unset)
    BY <1>1, Zenon DEF StartMuteCycle
  <2>2. armed \in FirmwareState /\ unset \in FirmwareState /\ armed.t = f.t
    <3>1. armed.t = f.t
      BY <1>t DEF armAutomaticRemuteRecovery, FirmwareState
    <3> QED BY <1>t, <3>1, armAutomaticRemuteRecoveryType
  <2>3. done.t.target = f.t.target
    <3>1. t \in Session /\ t.target = f.t.target
      <4>1. f.vol \in MaybeLevel /\ f.t \in Session
        BY <1>t DEF FirmwareState
      <4> HIDE DEF armed
      <4> QED BY <2>2, <4>1 DEF Session
    <3> HIDE DEF t, dir, clicks
    <3>2. s.target = f.t.target
      BY <1>k, <3>1
    <3> HIDE DEF s, armed
    <3> QED BY <2>2, <3>2 DEF FirmwareState
  <2> HIDE DEF armed, unset, done, c
  <2>4. f' # failVolumeRestore(armed) /\ f' # failVolumeRestore(unset) /\ f' # done
    BY <2>2, <2>3, CompletionEnds
  <2>5. ~MuteCycleRefused /\ dir = 0
    <3> HIDE DEF dir
    <3> QED BY <1>s, <1>f, <2>1, <2>4
  <2>6. f.vol >= 0 /\ f.vol \in Level
    BY <1>t, <2>5 DEF MuteCycleRefused, FirmwareState, MaybeLevel, Level, None
  <2>7. Still
    BY <1>1, CompletionEnds DEF StartMuteCycle, OnCourse, Steady
  <2>8. f.vol = rx.vol
    BY <2>6, <2>7 DEF Still, None
  <2>9. f.vol = f.t.target
    BY <2>5, <2>6, CompletionEnds, VolumeAssumption DEF volumeDirection, Level
  <2> QED BY <2>7, <2>8, <2>9 DEF Still
<1>2. CASE NextClick
  <2> DEFINE dir    == volumeDirection(f.t.obs, f.t.target)
             turned == f.t.dir # 0 /\ dir # f.t.dir
             clicks == IF f.t.coarse
                       THEN volumeRapidClickCount(Distance(f.t.obs, f.t.target),
                                                  f.t.delta, f.t.clicks)
                       ELSE 0
             rev    == f.t.reversed \/ turned
             t      == [f.t EXCEPT !.reversed = rev]
             s      == Clicked(t, f.t.obs, dir, clicks)
             done   == [f EXCEPT !.t = s]
             c      == Click(dir > 0, f.t.target, IF f.t.auto THEN NoApp ELSE f.cur)
  <2>1. \/ dir = 0
        \/ Becomes(failVolumeRestore(f))
        \/ Sends(<<c>>, done, failVolumeRestore(f))
    BY <1>2, Zenon DEF NextClick
  <2>2. done.t.target = f.t.target
    <3>1. t \in Session /\ t.target = f.t.target
      <4>1. f.t \in Session /\ rev \in BOOLEAN
        BY <1>t DEF FirmwareState, Session
      <4> HIDE DEF rev
      <4> QED BY <4>1 DEF Session
    <3> HIDE DEF t, dir, clicks
    <3>2. s.target = f.t.target
      BY <1>k, <3>1
    <3> HIDE DEF s
    <3> QED BY <1>t, <3>2 DEF FirmwareState
  <2> HIDE DEF done, c
  <2>3. dir = 0
    <3> HIDE DEF dir
    <3> QED BY <1>s, <1>f, <2>1, <2>2, CompletionEnds
  <2>4. Still /\ f.t.obs = rx.vol /\ rx.vol \in Level
    BY <1>2, CompletionEnds DEF NextClick, Driving, OnCourse, Steady, TypeOK, Receiver
  <2>5. f.t.obs = f.t.target
    BY <2>3, <2>4, CompletionEnds, VolumeAssumption DEF volumeDirection, Level
  <2> QED BY <2>4, <2>5 DEF Still
<1> QED BY <1>1, <1>2

(* Nothing else completes a target.                                         *)
LEMMA RestCompletesNothing ==
  ASSUME TypeOK, OwnerOK(f), FirstOK, Next,
         ~ReadDenon, ~StartMuteCycle, ~NextClick
  PROVE  ~Completes
<1> SUFFICES ASSUME Completes PROVE FALSE
  OBVIOUS
<1>t. f \in FirmwareState
  BY DEF TypeOK
<1>b. ASSUME NEW g, Becomes(g) PROVE f' = g
  BY <1>b DEF Becomes
<1>s. ASSUME NEW cmds, NEW g, NEW h, Sends(cmds, g, h) PROVE f' = g \/ f' = h
  BY <1>s DEF Sends
<1>f. ~Becomes(failVolumeRestore(f)) /\ f' # failVolumeRestore(f)
  BY <1>t, <1>b, CompletionEnds
<1>k. ASSUME NEW g, g.t.target = f.t.target PROVE f' # g
  BY <1>k, CompletionEnds
<1>p. ASSUME NEW p PROVE f' # [f EXCEPT !.t.phase = p]
  <2>1. [f EXCEPT !.t.phase = p].t.target = f.t.target
    BY <1>t DEF FirmwareState, Session
  <2> QED BY <1>k, <2>1
<1>1. ~HomeAssistant
  BY RequestsAreOff, CompletionEnds
<1>2. ~WebUser
  BY CompletionEnds DEF WebUser, SendVolume, SendTargetVolume, ManualAllowed
<1>3. ~(maintainAppSwitch \/ SeesConnected \/ SeesDisconnected \/ LeaseEnds)
  BY CompletionEnds DEF maintainAppSwitch, SeesConnected, SeesDisconnected, LeaseEnds
<1>4. ~(RestoreDeadline \/ ResponseTimeout)
  BY <1>f DEF RestoreDeadline, ResponseTimeout
<1>5. ~(maintainManualMuteLock \/ maintainAutomaticRemute \/ StatusPoll
        \/ LeaseExpires \/ LearningCooldownEnds)
  <2> DEFINE a == [f EXCEPT !.autoFb = FALSE, !.lockRaw = f.vol]
             b == [f EXCEPT !.remConf = TRUE, !.muteKnown = FALSE]
             c == [f EXCEPT !.sess = TRUE]
             d == [f EXCEPT !.curAuth = "stale"]
             e == [f EXCEPT !.pendAuth = "stale"]
             g == [f EXCEPT !.quiet = TRUE]
  <2>1. a.t = f.t /\ b.t = f.t /\ c.t = f.t /\ d.t = f.t /\ e.t = f.t /\ g.t = f.t
    BY <1>t DEF FirmwareState
  <2>2. /\ maintainManualMuteLock => Becomes(a)
        /\ maintainAutomaticRemute => Sends(<<MuteOn>>, b, f)
        /\ StatusPoll => \E cmds : Sends(cmds, c, c)
        /\ LeaseExpires => Becomes(d) \/ Becomes(e)
        /\ LearningCooldownEnds => Becomes(g)
    BY Zenon DEF maintainManualMuteLock, maintainAutomaticRemute, StatusPoll, LeaseExpires,
                 LearningCooldownEnds
  <2> HIDE DEF a, b, c, d, e, g
  <2> QED BY <1>b, <1>s, <1>k, <2>1, <2>2
<1>6. ~(RequestFreshStatus \/ RequestMovementStatus \/ Settled)
  <2>1. RequestFreshStatus \/ RequestMovementStatus \/ Settled =>
          \E p : \/ Becomes([f EXCEPT !.t.phase = p])
                 \/ Sends(<<GetStatus>>, [f EXCEPT !.t.phase = p], failVolumeRestore(f))
    BY Zenon DEF RequestFreshStatus, RequestMovementStatus, Settled
  <2> QED BY <1>b, <1>s, <1>f, <1>p, <2>1
<1>7. ~BurstClick
  <2> DEFINE x     == [f.t EXCEPT !.burst = TRUE, !.start = f.t.obs, !.planned = 1,
                                  !.sent = 0, !.ext = FALSE]
             t     == IF f.t.ext THEN x ELSE f.t
             sent  == t.sent + 1
             phase == IF sent >= t.planned THEN "waitMovement" ELSE t.phase
             s     == [t EXCEPT !.steps = t.steps + 1, !.sent = sent, !.phase = phase]
             c     == Click(t.dir > 0, t.target, IF t.auto THEN NoApp ELSE f.cur)
             unset == [f EXCEPT !.t = t]
             done  == [f EXCEPT !.t = s]
  <2>1. t \in Session /\ t.target = f.t.target
    <3>1. f.t.obs \in MaybeLevel /\ 0 \in 0..MaxClicks \cup {1} /\ 1 \in 0..MaxClicks \cup {1}
      BY <1>t, VolumeAssumption DEF FirmwareState, Session
    <3>2. x \in Session /\ x.target = f.t.target
      BY <1>t, <3>1 DEF FirmwareState, Session
    <3>3. f.t \in Session /\ t \in {x, f.t}
      BY <1>t, Zenon DEF FirmwareState
    <3> HIDE DEF x, t
    <3> QED BY <3>2, <3>3
  <2>2. unset \in FirmwareState
    <3> HIDE DEF t
    <3> QED BY <1>t, <2>1, SessionUpdate
  <2>3. done.t.target = f.t.target
    <3> HIDE DEF t, sent, phase
    <3>1. s.target = f.t.target
      BY <2>1 DEF Session
    <3> HIDE DEF s
    <3> QED BY <1>t, <3>1 DEF FirmwareState
  <2>4. BurstClick => \/ Becomes([f EXCEPT !.t.phase = "waitMovement"])
                      \/ Becomes(failVolumeRestore(f))
                      \/ Sends(<<c>>, done, failVolumeRestore(unset))
    BY Zenon DEF BurstClick
  <2> HIDE DEF c, unset, done
  <2>5. f' # failVolumeRestore(unset)
    BY <2>2, CompletionEnds
  <2> QED BY <1>b, <1>s, <1>f, <1>k, <1>p, <2>3, <2>4, <2>5
<1>8. ~(ReceiverObeys \/ UseRemote \/ LinkUp \/ LinkDown)
  BY <1>k DEF ReceiverObeys, UseRemote, LinkUp, LinkDown, Outside
<1>9. ~PowerLoss
  <2>1. \A nv, saved : Boot(nv, saved).gen = 0
    BY DEF Boot
  <2> QED BY <2>1, CompletionEnds DEF PowerLoss
<1> QED BY <1>1, <1>2, <1>3, <1>4, <1>5, <1>6, <1>7, <1>8, <1>9
        DEF Next, Loop, Restore, World

(* A target that is declared reached is reached, with no click left that    *)
(* would take the receiver elsewhere (completeVolumeRestore), by the first  *)
(* event, as long as nobody else touches the volume.                        *)
THEOREM CompletionsAreExact == ASSUME ~SlowLink PROVE Spec => CompletionIsExact
<1>1. TypeOK /\ OwnerOK(f) /\ (FirstEvent => FirstOK) /\ [Next]_vars
      => [Completes /\ FirstEvent
            => rx.vol = f.t.target /\ \A i \in DOMAIN toRx : ~IsClick(toRx[i])]_vars
  <2> SUFFICES ASSUME TypeOK, OwnerOK(f), FirstOK, Next, Completes
               PROVE  rx.vol = f.t.target /\ \A i \in DOMAIN toRx : ~IsClick(toRx[i])
    OBVIOUS
  <2> QED BY FeedbackCompletes, ClicksComplete, RestCompletesNothing DEF NoClicks
<1> QED BY <1>1, TypeCorrect, OwnerIsKept, FirstIsRight, PTL DEF Spec, CompletionIsExact
=============================================================================
