------------------------ MODULE GpsDisciplineProofs ------------------------
(***************************************************************************)
(* Proofs about the three parts of components/gps: the discipline, for any *)
(* number of units to a second, any limits and windows, any faults and any *)
(* time; the handoff of the pulse (Seqlock), for any number of words and   *)
(* of attempts; and the satellite table (SkyTable), for any receiver, any  *)
(* sky and any sentences lost.                                             *)
(***************************************************************************)
EXTENDS GpsDiscipline, Seqlock, SkyTable, SequenceTheorems, FiniteSetTheorems, TLAPS

-----------------------------------------------------------------------------
(* The inductive invariant.                                                *)

\* The edge before the one in hand, when that is a second later, and otherwise
\* the last one.
Previous == IF pc \in {"idle", "hold"} THEN edge ELSE edge - U

\* Nothing is in hand, or the edge of a second.
OnSecond == pc \in {"idle", "hold"} \/ (edge % U) = 0

\* The handler is done with an edge before time passes.
EdgeInv ==
  /\ pending # 0 => pc = "idle" /\ pending = now /\ ~swept
  /\ pc # "idle" => edge = now /\ ~swept
  /\ edge <= now

\* A clock that is right has been set, and every pulse skipped since was
\* labelled wrong.
LateInv == sysErr = 0 => gpsLock /\ mispairStreak <= lateRun

\* Pulses labelled right are skipped while they disagree with the clock, and
\* put it right with the first that is not.
HealInv ==
  /\ mispairStreak = 0 /\ rightRun > 0 => sysErr = 0 /\ gpsLock
  /\ mispairStreak > 0 => rightRun <= mispairStreak
  /\ mispairStreak > 0 /\ rightRun > 0 => gpsLock /\ 2 * Abs(sysErr) > U

\* Pulses labelled right one after the other are a second apart, and what the
\* handler remembers of the last is of the last.
RunInv ==
  rightRun > 0 /\ OnSecond =>
    /\ (Previous % U) = 0
    /\ prevPpsCapValue = Cap(Previous) /\ prevPpsMonotonicUs \in {0, Previous}
    /\ mispairStreak = 0 => lastPps = Previous
    /\ pc = "idle" /\ pending = 0 => now < Previous + U
    /\ pending # 0 /\ (pending % U) = 0 => pending = Previous + U

\* The last n samples of the ring are of the timeline of the previous edge.
Alike(n) ==
  /\ n <= Len(fitRing)
  /\ \A i \in 1..Len(fitRing) : i > Len(fitRing) - n => fitRing[i] = tickExt - Previous
  /\ n > 0 => tickInit /\ tickLastRaw = Cap(Previous)

\* Every accepted pulse of such a run but the first, which closes a gap, adds a
\* sample to the timeline; where two were skipped before, the third starts it.
SampleInv ==
  rightRun > 0 /\ mispairStreak = 0 /\ OnSecond =>
    \/ Alike(Least(rightRun - 1, FitWin))
    \/ Alike(rightRun - 2) /\ Len(fitRing) = rightRun - 2

\* The fit after a window of them.
ValidInv ==
  rightRun = RightCap =>
    fitValid /\ \A i \in 1..Len(fitRing) : fitRing[i] = fitRing[1]

\* Between calls a fit is of an anchor that is not old.
HoldInv ==
  /\ holdover => ~fitValid
  /\ swept /\ gpsLock /\ now - lastPps > FreshPps => holdover

\* An accepted label ends a holdover, and while right ones are accepted none begins.
ResumeInv == mispairStreak = 0 /\ rightRun > 0 => ~holdover

IInv ==
  /\ TypeOK /\ EdgeInv /\ LateInv /\ HealInv /\ RunInv /\ SampleInv /\ ValidInv /\ HoldInv
  /\ ResumeInv

-----------------------------------------------------------------------------
(* Arithmetic.                                                             *)

\* Division with remainder ...
LEMMA Divided ==
  ASSUME NEW m \in Nat \ {0}, NEW a \in Int
  PROVE  \E q \in Int, r \in 0..(m - 1) : a = q * m + r /\ (a % m) = r
<1>1. (a % m) \in 0..(m - 1) /\ a = (a \div m) * m + (a % m) /\ (a \div m) \in Int
  OBVIOUS
<1>2. QED
  BY <1>1

\* ... is unique.
LEMMA Remainder ==
  ASSUME NEW m \in Nat \ {0}, NEW a \in Int, NEW q \in Int, NEW r \in 0..(m - 1), a = q * m + r
  PROVE  (a % m) = r
OBVIOUS

\* A multiple that is not zero is at least the number away from it.
LEMMA Multiples ==
  ASSUME NEW m \in Nat \ {0}, NEW k \in Int, k # 0 PROVE k * m >= m \/ k * m <= -m
OBVIOUS

\* Differences of multiples.
LEMMA Products ==
  ASSUME NEW m \in Int, NEW j \in Int, NEW k \in Int
  PROVE  j * m - k * m = (j - k) * m /\ (j + 1) * m = j * m + m
OBVIOUS

\* The remainder of a number in the first negative period.
LEMMA Reduced ==
  ASSUME NEW m \in Nat \ {0}, NEW d \in Int, NEW r \in 0..(m - 1), d = r \/ d = r - m
  PROVE  (d % m) = r
<1>1. 0 * m + r = r /\ (-1) * m + r = r - m
  OBVIOUS
<1>2. QED
  BY <1>1, Remainder

\* A second later is a second again.
LEMMA NextSecond ==
  ASSUME NEW m \in Nat \ {0}, NEW a \in Int PROVE ((a + m) % m) = (a % m)
<1>1. PICK q \in Int, r \in 0..(m - 1) : a = q * m + r /\ (a % m) = r
  BY Divided
<1>2. PICK b \in Int, p \in Int : b = a + m /\ b = p * m + r
  BY <1>1, Products
<1>3. (b % m) = r
  BY <1>2, Remainder
<1>4. QED
  BY <1>1, <1>2, <1>3, Zenon

\* Seconds less than a second apart are the same.
LEMMA SameSecond ==
  ASSUME NEW m \in Nat \ {0}, NEW a \in Int, NEW b \in Int,
         (a % m) = 0, (b % m) = 0, a < b + m, b < a + m
  PROVE  a = b
<1>1. PICK j \in Int, k \in Int : a = j * m /\ b = k * m
  BY Divided
<1>2. b - a = (k - j) * m
  BY <1>1, Products
<1>3. k - j # 0 => b - a >= m \/ b - a <= -m
  BY <1>1, <1>2, Multiples
<1>4. QED
  BY <1>1, <1>3

\* The capture counter measures a second, whether it wraps in it or not.
LEMMA SecondMeasured ==
  ASSUME NEW e \in Nat PROVE CapDelta(Cap(e + U), Cap(e)) = U
<1>w. U \in Nat \ {0} /\ W \in Nat \ {0} /\ W > 2 * U
  BY UnitAssumption
<1>1. PICK q \in Int, r \in 0..(W - 1) : e = q * W + r /\ (e % W) = r
  BY <1>w, Divided
<1>2. PICK h \in Nat : h = W \div 2 /\ U + h < W
  BY <1>w
<1>3. PICK c \in 0..(W - 1) : c = ((e + U) % W) /\ (c = r + U \/ c = r + U - W)
  <2>1. CASE r + U < W
    <3>1. e + U = q * W + (r + U) /\ r + U \in 0..(W - 1)
      BY <1>w, <1>1, <2>1
    <3>2. ((e + U) % W) = r + U
      BY <1>w, <1>1, <3>1, Remainder
    <3>3. QED
      BY <3>1, <3>2
  <2>2. CASE r + U >= W
    <3>1. PICK b \in Int, p \in Int, s \in 0..(W - 1) :
                 b = e + U /\ b = p * W + s /\ s = r + U - W
      BY <1>w, <1>1, <2>2, Products
    <3>2. b = p * W + s
      BY <3>1
    <3>3. (b % W) = s
      BY <1>w, <3>2, Remainder
    <3>4. s = ((e + U) % W)
      BY <3>1, <3>3, Zenon
    <3>5. QED
      BY <3>1, <3>4
  <2>3. QED
    BY <1>w, <1>1, <2>1, <2>2
<1>4. PICK d \in Int : d = (c - r) + h /\ (d = U + h \/ d = U + h - W)
  <2> DEFINE d == (c - r) + h
  <2>1. d = U + h \/ d = U + h - W
    BY <1>w, <1>3
  <2>2. d \in Int
    BY <1>w
  <2>3. QED
    BY <2>1, <2>2, Zenon
<1>5. (d % W) = U + h
  BY <1>w, <1>2, <1>4, Reduced
<1>6. (d % W) - h = U
  BY <1>w, <1>5
<1>7. QED
  BY <1>1, <1>2, <1>3, <1>4, <1>6, Zenon DEF CapDelta, Cap

-----------------------------------------------------------------------------
(* Types.                                                                  *)

\* The constants.
LEMMA Numbers ==
  /\ U \in Nat \ {0} /\ W \in Nat \ {0} /\ W > 2 * U
  /\ FreshNmea \in Nat \ {0} /\ FreshPps \in Nat \ {0} /\ GapLimit \in Nat \ {0}
  /\ FitMin \in Nat \ {0} /\ Warmup \in Nat \ {0} /\ FitWin \in Nat /\ FitWin > FitMin
  /\ FreshPps > U /\ GapLimit > U
  /\ RmcMax \in Nat /\ RmcOnTime \in Nat /\ MaxFaults \in Nat
  /\ MaxTime \in Nat \ {0} /\ MinGood \in Nat \ {0} /\ Spurious \subseteq 1..(U - 1)
  /\ LateCap = 3 /\ RightCap = FitWin + 1 /\ RightCap \in Nat /\ RightCap >= 3
  /\ BootErr \in Int /\ BootErr # 0
BY UnitAssumption, LimitAssumption, EnvironmentAssumption DEF LateCap, RightCap, BootErr

\* The counter's values, and their differences.
LEMMA CapTypes ==
  /\ \A e \in Nat : Cap(e) \in 0..(W - 1)
  /\ \A a \in 0..(W - 1), b \in 0..(W - 1) : CapDelta(a, b) \in Int
<1>1. ASSUME NEW e \in Nat PROVE Cap(e) \in 0..(W - 1)
  BY Numbers, Divided DEF Cap
<1>2. ASSUME NEW a \in 0..(W - 1), NEW b \in 0..(W - 1) PROVE CapDelta(a, b) \in Int
  BY Numbers DEF CapDelta
<1>3. QED
  BY <1>1, <1>2

\* A ring takes a sample, and drops the oldest when it is full.
LEMMA Pushed ==
  ASSUME NEW ring \in Seq(Int), Len(ring) <= FitWin, NEW x \in Int
  PROVE  LET d == IF Len(ring) = FitWin THEN 1 ELSE 0
         IN  /\ Push(ring, x) \in Seq(Int)
             /\ Len(Push(ring, x)) = Len(ring) + 1 - d /\ Len(Push(ring, x)) <= FitWin
             /\ \A i \in 1..Len(Push(ring, x)) :
                  Push(ring, x)[i] = IF i + d <= Len(ring) THEN ring[i + d] ELSE x
<1> DEFINE d == IF Len(ring) = FitWin THEN 1 ELSE 0
           n == Len(ring)
           long == Append(ring, x)
           p == SubSeq(long, 1 + d, n + 1)
<1>1. d \in {0, 1} /\ n \in Nat /\ n + 1 - d <= FitWin /\ n + 1 - d >= 0
  BY Numbers
<1>2. p = Push(ring, x)
  <2>1. (IF Len(ring) = FitWin THEN 2 ELSE 1) = 1 + d
    OBVIOUS
  <2>2. QED
    BY <2>1 DEF Push
<1>3. /\ long \in Seq(Int) /\ Len(long) = n + 1
      /\ \A i \in 1..(n + 1) : long[i] \in Int /\ long[i] = IF i <= n THEN ring[i] ELSE x
  OBVIOUS
<1> HIDE DEF d, long, p
<1>n. n \in Nat
  OBVIOUS
<1> HIDE DEF n
<1>4. \A i \in (1 + d)..(n + 1) : long[i] \in Int
  BY <1>1, <1>3
<1>5. /\ p \in Seq(Int)
      /\ Len(p) = IF 1 + d <= n + 1 THEN (n + 1) - (1 + d) + 1 ELSE 0
      /\ \A i \in 1..((n + 1) - (1 + d) + 1) : p[i] = long[(1 + d) + i - 1]
  BY <1>1, <1>4, SubSeqProperties DEF p
<1>6. Len(p) = n + 1 - d
  BY <1>1, <1>5
<1>7. ASSUME NEW i \in 1..Len(p) PROVE p[i] = IF i + d <= n THEN ring[i + d] ELSE x
  <2>1. p[i] = long[(1 + d) + i - 1]
    BY <1>1, <1>5, <1>6
  <2>2. (1 + d) + i - 1 = i + d /\ i + d \in 1..(n + 1)
    BY <1>1, <1>6
  <2>3. QED
    BY <1>3, <2>1, <2>2
<1>8. QED
  BY <1>1, <1>2, <1>5, <1>6, <1>7 DEF d, n

\* What a tick of the clock brings.
LEMMA TickLeaves ==
  ASSUME WordsOK, NEW extra \in {0, 1}, TimePasses(extra)
  PROVE  /\ now' = now + 1 /\ now' \in 1..MaxTime /\ faults' \in 0..MaxFaults
         /\ pending = 0 /\ pc = "idle" /\ swept = TRUE
<1>1. /\ faults' = faults + extra + (IF now = rmc * U + RmcOnTime THEN 1 ELSE 0)
      /\ faults' <= MaxFaults
  BY DEF TimePasses
<1>2. (IF now = rmc * U + RmcOnTime THEN 1 ELSE 0) \in {0, 1}
  OBVIOUS
<1>3. faults' \in 0..MaxFaults
  BY <1>1, <1>2, Numbers DEF WordsOK
<1>4. now' = now + 1 /\ now < MaxTime /\ pending = 0 /\ pc = "idle"
  BY DEF TimePasses
<1>5. QED
  BY <1>3, <1>4, Numbers DEF WordsOK, TimePasses, FlagsOK

\* The steps before a pulse is settled, with the clock's own.
Before == Receiver \/ Uart \/ TakeEdge \/ ReadAge \/ ReadSecond

\* They leave clock, fit and statistics alone, and end a run of right labels at
\* most.
LEMMA BeforeLeaves ==
  ASSUME Before
  PROVE  /\ UNCHANGED <<sysErr, gpsLock, lastPps, holdover, mispairStreak>>
         /\ UNCHANGED <<prevPpsEdgeForOffset, prevPpsCapValue, prevPpsMonotonicUs>>
         /\ UNCHANGED <<tickInit, tickExt, tickLastRaw, fitRing, fitValid>>
         /\ UNCHANGED <<ppsIntervalMeanUs, statPpsCount, lateRun>>
         /\ rightRun' = rightRun \/ rightRun' = 0
<1> USE DEF taskVars, clockVars, trackVars, fitVars, statVars, runVars
<1>1. ASSUME NEW extra, TimePasses(extra)
      PROVE  UNCHANGED <<clockVars, holdover, trackVars, fitVars, statVars, lateRun>>
  BY <1>1 DEF TimePasses
<1>2. CASE PulseTick \/ QuietTick \/ SpuriousTick
  BY <1>1, <1>2 DEF PulseTick, QuietTick, SpuriousTick
<1>3. CASE MissedTick
  BY <1>1, <1>3 DEF MissedTick
<1>4. CASE NmeaLost \/ Uart
  BY <1>4 DEF NmeaLost, Uart, NmeaSecond, NmeaStamp
<1>5. CASE TakeEdge \/ ReadAge \/ ReadSecond
  BY <1>5 DEF TakeEdge, ReadAge, ReadSecond
<1>6. QED
  BY <1>2, <1>3, <1>4, <1>5 DEF Before, Receiver

\* What time and the words between the tasks are, in every step.
LEMMA WorldStep ==
  ASSUME TypeOK, [Next]_vars
  PROVE  /\ now' \in 1..MaxTime /\ pending' \in 0..MaxTime
         /\ rmc' \in Nat \ {0} /\ received' \in 0..MinGood /\ faults' \in 0..MaxFaults
         /\ lastNmeaUnixSec' \in Nat /\ lastNmeaUpdateUs' \in 0..MaxTime
         /\ edge' \in 0..MaxTime /\ ppsSec' \in Nat
<1> USE Numbers DEF WordsOK, envVars, uartVars, callVars
<1>w. WordsOK
  BY DEF TypeOK
<1>1. ASSUME NEW extra, TimePasses(extra)
      PROVE  UNCHANGED <<rmc, lastNmeaUnixSec, lastNmeaUpdateUs, edge, ppsSec>>
  BY <1>1 DEF TimePasses
<1>2. CASE PulseTick \/ SpuriousTick
  <2>1. PICK extra \in {0, 1} : TimePasses(extra)
    BY <1>2 DEF PulseTick, SpuriousTick
  <2>2. pending' = now + 1 /\ (received' = received \/ received' = Least(received + 1, MinGood))
    BY <1>2 DEF PulseTick, SpuriousTick
  <2>3. now' \in 1..MaxTime /\ now' = now + 1 /\ faults' \in 0..MaxFaults
    BY <1>w, <2>1, TickLeaves
  <2>4. pending' \in 0..MaxTime
    BY <2>2, <2>3
  <2>5. received' \in 0..MinGood
    BY <1>w, <2>2 DEF Least
  <2>6. QED
    BY <1>w, <1>1, <2>1, <2>3, <2>4, <2>5
<1>3. CASE MissedTick \/ QuietTick
  <2>1. PICK extra \in {0, 1} : TimePasses(extra)
    BY <1>3 DEF MissedTick, QuietTick
  <2>2. pending' = pending /\ (received' = received \/ received' = 0)
    BY <1>3 DEF MissedTick, QuietTick
  <2>3. now' \in 1..MaxTime /\ faults' \in 0..MaxFaults
    BY <1>w, <2>1, TickLeaves
  <2>4. received' \in 0..MinGood /\ pending' \in 0..MaxTime
    BY <1>w, <2>2
  <2>5. QED
    BY <1>w, <1>1, <2>1, <2>3, <2>4
<1>4. CASE NmeaLost
  BY <1>w, <1>4 DEF NmeaLost
<1>5. CASE NmeaSecond
  BY <1>w, <1>5 DEF NmeaSecond
<1>6. CASE NmeaStamp
  BY <1>w, <1>6 DEF NmeaStamp
<1>7. CASE TakeEdge
  BY <1>w, <1>7 DEF TakeEdge
<1>8. CASE ReadAge \/ ReadSecond
  <2>1. /\ UNCHANGED <<now, pending, rmc, received, faults, lastNmeaUnixSec>>
        /\ UNCHANGED <<lastNmeaUpdateUs, edge>>
        /\ ppsSec' = ppsSec \/ ppsSec' = lastNmeaUnixSec + 1
    BY <1>8 DEF ReadAge, ReadSecond
  <2>2. QED
    BY <1>w, <2>1
<1>9. CASE Accept \/ SkipMispair \/ StaleNmea \/ Hold
  BY <1>w, <1>9 DEF Accept, SkipMispair, StaleNmea, Hold
<1>10. CASE UNCHANGED vars
  BY <1>w, <1>10 DEF vars
<1>11. QED
  BY <1>2, <1>3, <1>4, <1>5, <1>6, <1>7, <1>8, <1>9, <1>10
  DEF Next, Receiver, Uart, Discipline

\* What the fit does with a pulse: an outlier is not sampled, and a restart
\* empties the ring first.
LEMMA FitLeaves ==
  ASSUME WordsOK, UpdateFit
  PROVE  LET ring == IF Restart THEN <<>> ELSE fitRing
         IN  /\ Outlier =>
                  fitRing' = ring /\ tickExt' = tickExt /\ tickLastRaw' = tickLastRaw
             /\ ~Outlier =>
                  /\ tickInit' = TRUE /\ tickLastRaw' = Cap(edge)
                  /\ tickInit /\ ~Restart =>
                       tickExt' = tickExt + CapDelta(Cap(edge), tickLastRaw)
                  /\ tickExt' \in Int /\ fitRing' = Push(ring, tickExt' - U * ppsSec)
                  /\ fitValid' \in FitSolve(fitRing')
             /\ ring \in Seq(Int) /\ Len(ring) <= FitWin
<1> DEFINE ring == IF Restart THEN <<>> ELSE fitRing
<1>1. ring \in Seq(Int) /\ Len(ring) <= FitWin
  BY Numbers DEF WordsOK
<1>e. edge \in Nat /\ tickLastRaw \in 0..(W - 1) /\ tickExt \in Int
  BY Numbers DEF WordsOK
<1>2. CapDelta(Cap(edge), tickLastRaw) \in Int
  BY <1>e, CapTypes
<1> HIDE DEF ring
<1>3. CASE Outlier
  BY <1>1, <1>3 DEF UpdateFit, ring
<1>4. CASE ~Outlier
  <2>1. /\ tickInit' = TRUE /\ tickLastRaw' = Cap(edge)
        /\ tickExt' = IF tickInit /\ ~Restart
                      THEN tickExt + CapDelta(Cap(edge), tickLastRaw) ELSE 0
        /\ fitRing' = Push(ring, tickExt' - U * ppsSec)
        /\ fitValid' \in FitSolve(fitRing')
    BY <1>4 DEF UpdateFit, ring
  <2>2. tickExt' \in Int
    BY <1>2, <1>e, <2>1
  <2>3. QED
    BY <1>1, <1>4, <2>1, <2>2 DEF ring
<1>5. QED
  BY <1>3, <1>4

\* The words an accepted pulse leaves to the next.
LEMMA AcceptLeaves ==
  ASSUME WordsOK, Accept
  PROVE  /\ sysErr' = ppsSec * U - edge /\ lastPps' = edge /\ gpsLock' = TRUE
         /\ holdover' = FALSE /\ mispairStreak' = 0 /\ prevPpsEdgeForOffset' = edge
         /\ prevPpsCapValue' = Cap(edge) /\ prevPpsMonotonicUs' \in {0, edge}
         /\ pc = "settle" /\ pc' = "hold" /\ (Mispair => Persistent)
         /\ UNCHANGED <<now, pending, edge, ppsSec, swept, fresh, raced, uart>>
         /\ UpdateFit /\ CountLabel
         /\ ppsIntervalMeanUs' \in Int /\ statPpsCount' \in 0..(Warmup + 1)
<1>1. UpdateStats
  BY DEF Accept
<1>e. edge \in Nat /\ prevPpsCapValue \in 0..(W - 1)
  BY Numbers DEF WordsOK
<1>2. CapDelta(Cap(edge), prevPpsCapValue) \in Int
  BY <1>e, CapTypes
<1>3. ppsIntervalMeanUs' \in Int /\ prevPpsMonotonicUs' \in {0, edge}
  BY <1>1, <1>2 DEF UpdateStats, WordsOK
<1>4. statPpsCount' \in 0..(Warmup + 1) /\ prevPpsCapValue' = Cap(edge)
  BY <1>1, Numbers DEF UpdateStats, WordsOK, Least
<1>5. UNCHANGED <<now, pending, edge, ppsSec, swept, fresh, raced, uart>>
  BY DEF Accept, envVars, uartVars
<1>6. QED
  BY <1>3, <1>4, <1>5 DEF Accept

\* A label lengthens one run and ends the other.
LEMMA LabelLeaves ==
  ASSUME WordsOK, CountLabel
  PROVE  /\ lateRun' \in 0..LateCap /\ rightRun' \in 0..RightCap
         /\ LabelledRight => rightRun' = Least(rightRun + 1, RightCap) /\ lateRun' = 0
         /\ ~LabelledRight => rightRun' = 0 /\ lateRun' = Least(lateRun + 1, LateCap)
BY Numbers DEF CountLabel, Least, WordsOK

\* A skipped pulse is remembered as the last, and nothing else.
LEMMA SkipLeaves ==
  ASSUME WordsOK, SkipMispair
  PROVE  /\ mispairStreak' = mispairStreak + 1 /\ mispairStreak \in {0, 1} /\ Mispair
         /\ prevPpsCapValue' = Cap(edge) /\ prevPpsMonotonicUs' = edge /\ CountLabel
         /\ pc = "settle" /\ pc' = "hold"
         /\ UNCHANGED <<now, pending, edge, ppsSec, swept, fresh, raced, uart>>
         /\ UNCHANGED <<sysErr, gpsLock, lastPps, holdover, prevPpsEdgeForOffset>>
         /\ UNCHANGED <<tickInit, tickExt, tickLastRaw, fitRing, fitValid>>
         /\ UNCHANGED <<ppsIntervalMeanUs, statPpsCount>>
<1>1. mispairStreak \in {0, 1}
  BY DEF SkipMispair, Persistent, WordsOK
<1>2. QED
  BY <1>1 DEF SkipMispair, envVars, uartVars, clockVars, fitVars, statVars

\* What a pulse without a fresh sentence leaves.
LEMMA StaleLeaves ==
  ASSUME StaleNmea
  PROVE  /\ mispairStreak' = 0 /\ prevPpsCapValue' = 0 /\ prevPpsEdgeForOffset' = 0
         /\ lateRun' = 0 /\ rightRun' = 0 /\ fitRing' = <<>>
         /\ fitValid' = FALSE /\ tickInit' = FALSE /\ pc = "settle" /\ pc' = "hold"
         /\ UNCHANGED <<now, pending, edge, ppsSec, swept, fresh, raced, uart>>
         /\ UNCHANGED <<sysErr, gpsLock, lastPps, holdover, prevPpsMonotonicUs>>
         /\ UNCHANGED <<tickExt, tickLastRaw, ppsIntervalMeanUs, statPpsCount>>
BY DEF StaleNmea, envVars, uartVars, clockVars, statVars

\* What the end of loop() leaves.
LEMMA HoldLeaves ==
  ASSUME Hold
  PROVE  /\ pc \in {"idle", "hold"} /\ (pc = "idle" => pending = 0 /\ ~swept)
         /\ pc' = "idle" /\ swept' = TRUE
         /\ holdover' = (holdover \/ HoldoverBegins)
         /\ fitValid' = (fitValid /\ ~HoldoverBegins)
         /\ UNCHANGED <<now, pending, edge, ppsSec, fresh, raced, uart>>
         /\ UNCHANGED <<sysErr, gpsLock, lastPps, mispairStreak, lateRun, rightRun>>
         /\ UNCHANGED <<prevPpsEdgeForOffset, prevPpsCapValue, prevPpsMonotonicUs>>
         /\ UNCHANGED <<tickInit, tickExt, tickLastRaw, fitRing>>
         /\ UNCHANGED <<ppsIntervalMeanUs, statPpsCount>>
BY DEF Hold, envVars, uartVars, clockVars, trackVars, statVars, runVars

\* Every action leaves the words in their ranges.
LEMMA WordsStep ==
  ASSUME TypeOK, [Next]_vars PROVE WordsOK'
<1>w. WordsOK
  BY DEF TypeOK
<1> DEFINE TaskOK ==
      /\ sysErr' \in Int /\ lastPps' \in 0..MaxTime
      /\ mispairStreak' \in 0..2 /\ prevPpsEdgeForOffset' \in 0..MaxTime
      /\ prevPpsCapValue' \in 0..(W - 1) /\ prevPpsMonotonicUs' \in 0..MaxTime
      /\ tickExt' \in Int /\ tickLastRaw' \in 0..(W - 1)
      /\ fitRing' \in Seq(Int) /\ Len(fitRing') <= FitWin
      /\ ppsIntervalMeanUs' \in Int /\ statPpsCount' \in 0..(Warmup + 1)
      /\ lateRun' \in 0..LateCap /\ rightRun' \in 0..RightCap
<1>n. edge \in 0..MaxTime /\ edge \in Nat /\ ppsSec \in Nat
  BY <1>w, Numbers DEF WordsOK
<1>e. edge \in 0..MaxTime /\ edge \in Nat /\ ppsSec \in Nat /\ Cap(edge) \in 0..(W - 1)
  BY <1>n, CapTypes
<1>1. ASSUME Before \/ Hold \/ UNCHANGED vars PROVE TaskOK
  <2>1. /\ UNCHANGED <<sysErr, lastPps, mispairStreak>>
        /\ UNCHANGED <<prevPpsEdgeForOffset, prevPpsCapValue, prevPpsMonotonicUs>>
        /\ UNCHANGED <<tickExt, tickLastRaw, fitRing, ppsIntervalMeanUs, statPpsCount, lateRun>>
        /\ rightRun' = rightRun \/ rightRun' = 0
    BY <1>1, BeforeLeaves, HoldLeaves
    DEF vars, taskVars, clockVars, trackVars, fitVars, statVars, runVars
  <2>2. QED
    BY <1>w, <2>1, Numbers DEF WordsOK
<1>2. ASSUME Accept PROVE TaskOK
  <2>1. tickExt' \in Int /\ tickLastRaw' \in 0..(W - 1)
    BY <1>w, <1>e, <1>2, AcceptLeaves, FitLeaves DEF WordsOK
  <2>2. fitRing' \in Seq(Int) /\ Len(fitRing') <= FitWin
    <3> DEFINE ring == IF Restart THEN <<>> ELSE fitRing
               x == tickExt' - U * ppsSec
    <3>1. ring \in Seq(Int) /\ Len(ring) <= FitWin
      BY <1>w, <1>2, AcceptLeaves, FitLeaves
    <3>2. x \in Int
      BY <1>e, <2>1, Numbers
    <3>3. fitRing' = ring \/ fitRing' = Push(ring, x)
      BY <1>w, <1>2, AcceptLeaves, FitLeaves
    <3> HIDE DEF ring, x
    <3>4. Push(ring, x) \in Seq(Int) /\ Len(Push(ring, x)) <= FitWin
      BY <3>1, <3>2, Pushed
    <3>5. QED
      BY <3>1, <3>3, <3>4
  <2>3. sysErr' \in Int
    BY <1>w, <1>e, <1>2, AcceptLeaves, Numbers
  <2>4. /\ lastPps' \in 0..MaxTime /\ mispairStreak' \in 0..2
        /\ prevPpsEdgeForOffset' \in 0..MaxTime /\ prevPpsCapValue' \in 0..(W - 1)
        /\ prevPpsMonotonicUs' \in 0..MaxTime
    BY <1>w, <1>e, <1>2, AcceptLeaves, Numbers
  <2>5. /\ ppsIntervalMeanUs' \in Int /\ statPpsCount' \in 0..(Warmup + 1)
        /\ lateRun' \in 0..LateCap /\ rightRun' \in 0..RightCap
    BY <1>w, <1>2, AcceptLeaves, LabelLeaves
  <2>6. QED
    BY <2>1, <2>2, <2>3, <2>4, <2>5
<1>3. ASSUME SkipMispair PROVE TaskOK
  <2>1. lateRun' \in 0..LateCap /\ rightRun' \in 0..RightCap
    BY <1>w, <1>3, SkipLeaves, LabelLeaves
  <2>2. /\ mispairStreak' \in 0..2 /\ prevPpsCapValue' \in 0..(W - 1)
        /\ prevPpsMonotonicUs' \in 0..MaxTime
    BY <1>w, <1>e, <1>3, SkipLeaves
  <2>3. /\ UNCHANGED <<sysErr, lastPps, prevPpsEdgeForOffset>>
        /\ UNCHANGED <<tickExt, tickLastRaw, fitRing, ppsIntervalMeanUs, statPpsCount>>
    BY <1>w, <1>3, SkipLeaves
  <2>4. QED
    BY <1>w, <2>1, <2>2, <2>3 DEF WordsOK
<1>4. ASSUME StaleNmea PROVE TaskOK
  <2>1. fitRing' \in Seq(Int) /\ Len(fitRing') <= FitWin
    BY <1>4, StaleLeaves, Numbers
  <2>2. QED
    BY <1>w, <1>4, <2>1, StaleLeaves, Numbers DEF WordsOK
<1>5. TaskOK
  BY <1>1, <1>2, <1>3, <1>4 DEF Next, Discipline, Before
<1>6. QED
  BY <1>5, WorldStep DEF WordsOK

\* Every action leaves the flags and places what they are.
LEMMA FlagsStep ==
  ASSUME TypeOK, [Next]_vars PROVE FlagsOK'
<1>w. WordsOK /\ FlagsOK
  BY DEF TypeOK
<1>1. CASE Before
  <2>1. /\ gpsLock' \in BOOLEAN /\ holdover' \in BOOLEAN
        /\ tickInit' \in BOOLEAN /\ fitValid' \in BOOLEAN
    BY <1>w, <1>1, BeforeLeaves DEF FlagsOK
  <2>2. /\ pc' \in {"idle", "age", "second", "settle", "hold"} /\ uart' \in {"idle", "stamp"}
        /\ swept' \in BOOLEAN /\ fresh' \in BOOLEAN /\ raced' \in BOOLEAN
    <3> USE <1>w DEF FlagsOK, callVars, uartVars
    <3>1. ASSUME NEW extra, TimePasses(extra)
          PROVE  UNCHANGED <<pc, uart, fresh, raced>> /\ swept' = FALSE
      BY <3>1 DEF TimePasses
    <3>2. CASE PulseTick \/ MissedTick \/ QuietTick \/ SpuriousTick
      <4>1. PICK extra : TimePasses(extra)
        BY <3>2 DEF PulseTick, MissedTick, QuietTick, SpuriousTick
      <4>2. QED
        BY <3>1, <4>1
    <3>3. CASE NmeaLost \/ NmeaSecond \/ NmeaStamp
      BY <3>3 DEF NmeaLost, NmeaSecond, NmeaStamp
    <3>4. CASE TakeEdge \/ ReadAge \/ ReadSecond
      BY <3>4 DEF TakeEdge, ReadAge, ReadSecond
    <3>5. QED
      BY <1>1, <3>2, <3>3, <3>4 DEF Before, Receiver, Uart
  <2>3. QED
    BY <2>1, <2>2 DEF FlagsOK
<1>2. CASE Accept
  <2>1. UpdateFit /\ UNCHANGED <<swept, fresh, raced, uart>>
    BY <1>w, <1>2, AcceptLeaves
  <2>2. gpsLock' = TRUE /\ holdover' = FALSE /\ pc' = "hold"
    BY <1>2 DEF Accept
  <2>3. tickInit' \in BOOLEAN /\ fitValid' \in BOOLEAN
    BY <1>w, <2>1 DEF UpdateFit, FitSolve, FlagsOK
  <2>4. QED
    BY <1>w, <2>1, <2>2, <2>3, Zenon DEF FlagsOK
<1>3. CASE SkipMispair
  BY <1>w, <1>3, SkipLeaves, Zenon DEF FlagsOK
<1>4. CASE StaleNmea
  BY <1>w, <1>4, StaleLeaves, Zenon DEF FlagsOK
<1>5. CASE Hold
  <2>1. holdover' \in BOOLEAN /\ fitValid' \in BOOLEAN
    BY <1>w, <1>5, HoldLeaves DEF HoldoverBegins, FlagsOK
  <2>2. QED
    BY <1>w, <1>5, <2>1, HoldLeaves, Zenon DEF FlagsOK
<1>6. CASE UNCHANGED vars
  BY <1>w, <1>6 DEF vars, FlagsOK, uartVars, callVars, taskVars, clockVars, fitVars
<1>7. QED
  BY <1>1, <1>2, <1>3, <1>4, <1>5, <1>6 DEF Next, Discipline, Before

\* So the types are inductive by themselves.
LEMMA TypeStep ==
  ASSUME TypeOK, [Next]_vars PROVE TypeOK'
BY WordsStep, FlagsStep DEF TypeOK

-----------------------------------------------------------------------------
(* The handler's place.                                                    *)

\* A unit has passed, and brought an edge, no second, or the end of a run.
Ticked ==
  /\ pc = "idle" /\ pc' = "idle" /\ pending = 0 /\ swept' = FALSE
  /\ edge' = edge /\ now' = now + 1
  /\ \/ /\ pending' = now'
     \/ /\ pending' = 0 /\ (now' % U) # 0
     \/ /\ pending' = 0 /\ rightRun' = 0

\* An edge is in hand.
Took ==
  /\ pc = "idle" /\ pc' = "age" /\ pending # 0 /\ pending' = 0 /\ edge' = pending
  /\ UNCHANGED <<swept, now, rightRun>>

\* Nothing of this has moved, or the handler by a read.
Stayed ==
  /\ \/ pc' = pc
     \/ pc \in {"age", "second"} /\ pc' \in {"second", "settle"}
  /\ UNCHANGED <<pending, edge, swept, now, rightRun>>

\* One of them is what a step before settling is.
LEMMA BeforeMoves ==
  ASSUME TypeOK, Before PROVE Ticked \/ Took \/ Stayed
<1>w. WordsOK
  BY DEF TypeOK
<1>1. ASSUME NEW extra \in {0, 1}, TimePasses(extra)
      PROVE  /\ pc = "idle" /\ pc' = "idle" /\ pending = 0 /\ swept' = FALSE
             /\ edge' = edge /\ now' = now + 1
  BY <1>w, <1>1, TickLeaves DEF TimePasses
<1>2. CASE PulseTick \/ SpuriousTick
  <2>1. PICK extra \in {0, 1} : TimePasses(extra)
    BY <1>2 DEF PulseTick, SpuriousTick
  <2>2. pending' = now + 1
    BY <1>2 DEF PulseTick, SpuriousTick
  <2>3. QED
    BY <1>1, <2>1, <2>2 DEF Ticked
<1>3. CASE MissedTick
  <2>1. PICK extra \in {0, 1} : TimePasses(extra)
    BY <1>3 DEF MissedTick
  <2>2. pending' = pending /\ rightRun' = 0
    BY <1>3 DEF MissedTick
  <2>3. QED
    BY <1>1, <2>1, <2>2 DEF Ticked
<1>4. CASE QuietTick
  <2>1. PICK extra \in {0, 1} : TimePasses(extra)
    BY <1>4 DEF QuietTick
  <2>2. pending' = pending /\ ((now + 1) % U) # 0
    BY <1>4 DEF QuietTick
  <2>3. QED
    BY <1>1, <2>1, <2>2, Zenon DEF Ticked
<1>5. CASE NmeaLost \/ Uart
  BY <1>5 DEF NmeaLost, Uart, NmeaSecond, NmeaStamp, Stayed, callVars, envVars, taskVars, runVars
<1>6. CASE TakeEdge
  BY <1>6 DEF TakeEdge, Took, envVars, taskVars, runVars
<1>7. CASE ReadAge \/ ReadSecond
  BY <1>7 DEF ReadAge, ReadSecond, Stayed, envVars, taskVars, runVars
<1>8. QED
  BY <1>2, <1>3, <1>4, <1>5, <1>6, <1>7 DEF Before, Receiver

\* The handler is done with an edge within its unit.
LEMMA EdgeStep ==
  ASSUME TypeOK, EdgeInv, [Next]_vars PROVE EdgeInv'
<1>w. WordsOK
  BY DEF TypeOK
<1>1. CASE Ticked
  <2>1. edge' <= now'
    BY <1>w, <1>1, Numbers DEF Ticked, EdgeInv, WordsOK
  <2>2. QED
    BY <1>1, <2>1 DEF Ticked, EdgeInv
<1>2. CASE Took
  <2>1. edge' = now' /\ now' \in Nat
    BY <1>w, <1>2, Numbers DEF Took, EdgeInv, WordsOK
  <2>2. QED
    BY <1>2, <2>1 DEF Took, EdgeInv
<1>3. CASE Stayed
  BY <1>3 DEF Stayed, EdgeInv
<1>4. CASE Accept \/ SkipMispair \/ StaleNmea
  <2>1. pc = "settle" /\ pc' = "hold" /\ UNCHANGED <<now, pending, edge, swept>>
    BY <1>w, <1>4, AcceptLeaves, SkipLeaves, StaleLeaves
  <2>2. QED
    BY <2>1 DEF EdgeInv
<1>5. CASE Hold
  BY <1>5, HoldLeaves DEF EdgeInv
<1>6. CASE UNCHANGED vars
  BY <1>6 DEF vars, EdgeInv, envVars, callVars
<1>7. QED
  BY <1>1, <1>2, <1>3, <1>4, <1>5, <1>6, BeforeMoves DEF Next, Discipline, Before

-----------------------------------------------------------------------------
(* The clock.                                                              *)

\* The absolute value, in the terms the comparisons need.
LEMMA Absolute ==
  ASSUME NEW x \in Int PROVE Abs(x) \in Nat /\ (Abs(x) = x \/ Abs(x) = -x) /\ (x = 0 <=> Abs(x) = 0)
BY DEF Abs

\* A wrong label is a second off at least: a clock that is right contradicts it,
\* if the edge is a second's.
LEMMA WrongLabelContradicts ==
  ASSUME NEW s \in Int, NEW e \in Int, (e % U) = 0, s * U # e
  PROVE  2 * Abs(s * U - (e + 0)) > U
<1>1. PICK k \in Int : e = k * U
  BY Divided, Numbers
<1>2. s * U - e = (s - k) * U
  BY <1>1, Products, Numbers
<1>3. PICK d \in Int : d = s * U - e /\ d # 0
  <2>1. s * U \in Int
    BY Numbers
  <2>2. QED
    BY <2>1
<1>4. s - k # 0 => d >= U \/ d <= -U
  BY <1>2, <1>3, Multiples, Numbers
<1>5. s - k # 0
  BY <1>1
<1>6. Abs(d) >= U
  BY <1>3, <1>4, <1>5, Absolute, Numbers
<1>7. 2 * Abs(d) > U
  BY <1>3, <1>6, Absolute, Numbers
<1>8. s * U - (e + 0) = d
  BY <1>3, Numbers
<1>9. QED
  BY <1>7, <1>8

\* A clock that is right agrees with a right label.
LEMMA RightLabelAgrees ==
  ASSUME WordsOK, LabelledRight
  PROVE  Mispair <=> gpsLock /\ 2 * Abs(sysErr) > U
<1>1. PICK x \in Int : x = ppsSec * U - (edge + sysErr) /\ x = -sysErr
  BY Numbers DEF WordsOK, LabelledRight
<1>2. Abs(x) = Abs(sysErr)
  <2>1. sysErr \in Int
    BY DEF WordsOK
  <2>2. \A y \in Int : Abs(-y) = Abs(y)
    BY DEF Abs
  <2>3. QED
    BY <1>1, <2>1, <2>2
<1>3. QED
  BY <1>1, <1>2 DEF Mispair

\* Wrong labels put no right clock wrong but by persisting.
LEMMA LateStep ==
  ASSUME TypeOK, LateInv, [Next]_vars PROVE LateInv'
<1>w. WordsOK
  BY DEF TypeOK
<1>1. CASE Before \/ Hold \/ UNCHANGED vars
  <2>1. UNCHANGED <<sysErr, gpsLock, mispairStreak, lateRun>>
    BY <1>1, BeforeLeaves, HoldLeaves DEF vars, taskVars, clockVars, trackVars, runVars
  <2>2. QED
    BY <2>1 DEF LateInv
<1>2. CASE Accept
  <2>1. gpsLock' = TRUE /\ mispairStreak' = 0 /\ lateRun' \in 0..LateCap
    BY <1>w, <1>2, AcceptLeaves, LabelLeaves
  <2>2. QED
    BY <2>1, Numbers DEF LateInv
<1>3. CASE SkipMispair
  <2>1. SUFFICES ASSUME sysErr' = 0 PROVE gpsLock' /\ mispairStreak' <= lateRun'
    BY DEF LateInv
  <2>2. /\ sysErr = 0 /\ gpsLock' = gpsLock /\ mispairStreak' = mispairStreak + 1
        /\ Mispair /\ mispairStreak \in {0, 1}
    BY <1>w, <1>3, <2>1, SkipLeaves
  <2>3. gpsLock /\ mispairStreak <= lateRun
    BY <2>2 DEF LateInv
  <2>4. ~LabelledRight
    BY <1>w, <2>2, RightLabelAgrees, Absolute, Numbers
  <2>5. lateRun' = Least(lateRun + 1, LateCap)
    BY <1>w, <1>3, <2>4, SkipLeaves, LabelLeaves
  <2>6. mispairStreak' <= lateRun'
    BY <1>w, <2>2, <2>3, <2>5, Numbers DEF Least, WordsOK
  <2>7. QED
    BY <2>2, <2>3, <2>6
<1>4. CASE StaleNmea
  BY <1>4, StaleLeaves DEF LateInv
<1>5. QED
  BY <1>1, <1>2, <1>3, <1>4 DEF Next, Discipline, Before

\* Right labels are accepted by a clock that is right, and skipped one after the
\* other by one that is not.
LEMMA HealStep ==
  ASSUME TypeOK, HealInv, [Next]_vars PROVE HealInv'
<1>w. WordsOK
  BY DEF TypeOK
<1>1. CASE Before \/ Hold \/ UNCHANGED vars
  <2>1. UNCHANGED <<sysErr, gpsLock, mispairStreak>> /\ (rightRun' = rightRun \/ rightRun' = 0)
    BY <1>1, BeforeLeaves, HoldLeaves DEF vars, taskVars, clockVars, trackVars, runVars
  <2>2. mispairStreak \in 0..2
    BY <1>w DEF WordsOK
  <2>3. QED
    BY <2>1, <2>2 DEF HealInv
<1>2. CASE Accept
  <2>1. gpsLock' = TRUE /\ mispairStreak' = 0 /\ sysErr' = ppsSec * U - edge
    BY <1>w, <1>2, AcceptLeaves
  <2>2. CASE LabelledRight
    <3>1. sysErr' = 0
      BY <1>w, <2>1, <2>2, Numbers DEF LabelledRight, WordsOK
    <3>2. QED
      BY <2>1, <3>1 DEF HealInv
  <2>3. CASE ~LabelledRight
    <3>1. rightRun' = 0
      BY <1>w, <1>2, <2>3, AcceptLeaves, LabelLeaves
    <3>2. QED
      BY <2>1, <3>1 DEF HealInv
  <2>4. QED
    BY <2>2, <2>3
<1>3. CASE SkipMispair
  <2>1. /\ UNCHANGED <<sysErr, gpsLock>> /\ mispairStreak' = mispairStreak + 1
        /\ Mispair /\ mispairStreak \in {0, 1} /\ CountLabel
    BY <1>w, <1>3, SkipLeaves
  <2>2. CASE LabelledRight
    <3>1. gpsLock /\ 2 * Abs(sysErr) > U
      BY <1>w, <2>1, <2>2, RightLabelAgrees
    <3>2. sysErr # 0
      BY <3>1, Absolute, Numbers
    <3>3. rightRun <= mispairStreak
      BY <1>w, <2>1, <3>2 DEF HealInv, WordsOK
    <3>4. rightRun' <= mispairStreak'
      BY <1>w, <2>1, <2>2, <3>3, LabelLeaves, Numbers DEF Least, WordsOK
    <3>5. QED
      BY <2>1, <3>1, <3>4 DEF HealInv
  <2>3. CASE ~LabelledRight
    <3>1. rightRun' = 0
      BY <1>w, <2>1, <2>3, LabelLeaves
    <3>2. QED
      BY <2>1, <3>1 DEF HealInv
  <2>4. QED
    BY <2>2, <2>3
<1>4. CASE StaleNmea
  BY <1>4, StaleLeaves DEF HealInv
<1>5. QED
  BY <1>1, <1>2, <1>3, <1>4 DEF Next, Discipline, Before

\* A right clock goes wrong only by an edge that is no second's, or with the
\* third wrong label in a row.
LEMMA GoesWrong ==
  ASSUME TypeOK, LateInv, [Next]_vars, sysErr = 0, sysErr' # 0, (edge % U) = 0
  PROVE  lateRun' = LateCap
<1>w. WordsOK
  BY DEF TypeOK
<1>1. Accept
  <2>1. Before \/ SkipMispair \/ StaleNmea \/ Hold \/ UNCHANGED vars => UNCHANGED sysErr
    BY <1>w, BeforeLeaves, SkipLeaves, StaleLeaves, HoldLeaves DEF vars, taskVars, clockVars
  <2>2. QED
    BY <2>1 DEF Next, Discipline, Before
<1>2. sysErr' = ppsSec * U - edge /\ (Mispair => Persistent) /\ CountLabel
  BY <1>w, <1>1, AcceptLeaves
<1>n. ppsSec \in Int /\ edge \in Int /\ ppsSec * U \in Int
  BY <1>w, Numbers DEF WordsOK
<1>3. ppsSec * U # edge
  BY <1>2, <1>n
<1>4. gpsLock /\ mispairStreak <= lateRun
  BY DEF LateInv
<1>5. Mispair
  BY <1>3, <1>4, <1>n, WrongLabelContradicts DEF Mispair
<1>6. mispairStreak = 2
  BY <1>w, <1>2, <1>5 DEF Persistent, WordsOK
<1>7. lateRun' = Least(lateRun + 1, LateCap)
  BY <1>w, <1>2, <1>3, LabelLeaves DEF LabelledRight
<1>8. QED
  BY <1>w, <1>4, <1>6, <1>7, Numbers DEF Least, WordsOK

-----------------------------------------------------------------------------
(* Runs of right labels.                                                   *)

\* A right label is of an edge that is a second's.
LEMMA RightIsSecond ==
  ASSUME WordsOK, LabelledRight PROVE (edge % U) = 0
<1>1. edge = ppsSec * U + 0 /\ ppsSec \in Int /\ edge \in Int
  BY Numbers DEF WordsOK, LabelledRight
<1>2. QED
  BY <1>1, Remainder, Numbers

\* Until the next edge is settled, the previous one stays the previous one.
LEMMA PreviousStays ==
  ASSUME TypeOK, EdgeInv, RunInv, Before \/ Hold \/ UNCHANGED vars, rightRun' > 0, OnSecond'
  PROVE  OnSecond /\ Previous' = Previous /\ rightRun' = rightRun
<1>w. WordsOK
  BY DEF TypeOK
<1>1. rightRun' = rightRun
  <2>1. rightRun' = rightRun \/ rightRun' = 0
    BY BeforeLeaves, HoldLeaves, Zenon DEF vars, taskVars, runVars
  <2>2. QED
    BY <2>1
<1>2. CASE Ticked
  BY <1>1, <1>2 DEF Ticked, Previous, OnSecond
<1>3. CASE Took
  <2>1. (pending % U) = 0 /\ OnSecond /\ Previous = edge /\ Previous' = pending - U
    BY <1>3 DEF Took, Previous, OnSecond
  <2>2. pending = edge + U
    BY <1>1, <1>3, <2>1 DEF Took, RunInv
  <2>3. QED
    BY <1>w, <1>1, <2>1, <2>2, Numbers DEF WordsOK
<1>4. CASE Stayed
  BY <1>1, <1>4 DEF Stayed, Previous, OnSecond
<1>5. CASE Hold \/ UNCHANGED vars
  BY <1>1, <1>5, HoldLeaves DEF Previous, OnSecond, vars, callVars
<1>6. QED
  BY <1>2, <1>3, <1>4, <1>5, BeforeMoves

\* The pulses of a run are a second apart.
LEMMA RunStep ==
  ASSUME TypeOK, EdgeInv, RunInv, [Next]_vars PROVE RunInv'
<1>w. WordsOK
  BY DEF TypeOK
<1>1. SUFFICES ASSUME rightRun' > 0, OnSecond' PROVE RunInv'
  BY DEF RunInv
<1>2. CASE Before \/ Hold \/ UNCHANGED vars
  <2>1. OnSecond /\ Previous' = Previous /\ rightRun > 0
    BY <1>1, <1>2, PreviousStays
  <2>2. UNCHANGED <<prevPpsCapValue, prevPpsMonotonicUs, mispairStreak, lastPps>>
    BY <1>2, BeforeLeaves, HoldLeaves DEF vars, taskVars, clockVars, trackVars
  <2>3. /\ (Previous' % U) = 0
        /\ prevPpsCapValue' = Cap(Previous') /\ prevPpsMonotonicUs' \in {0, Previous'}
        /\ mispairStreak' = 0 => lastPps' = Previous'
    BY <2>1, <2>2 DEF RunInv
  <2>4. /\ pc' = "idle" /\ pending' = 0 => now' < Previous' + U
        /\ pending' # 0 /\ (pending' % U) = 0 => pending' = Previous' + U
    <3>1. CASE Ticked
      <4>1. Previous = edge /\ now < edge + U /\ (edge % U) = 0
        BY <2>1, <3>1 DEF Ticked, Previous, RunInv
      <4>2. edge \in Int /\ now \in Int /\ now' = now + 1 /\ edge <= now /\ U \in Nat \ {0}
        BY <1>w, <3>1, Numbers DEF Ticked, EdgeInv, WordsOK
      <4>3. PICK second \in Int : second = edge + U /\ (second % U) = 0
        <5>1. edge \in Int /\ U \in Nat \ {0} /\ edge + U \in Int
          BY <4>2
        <5>2. ((edge + U) % U) = 0
          BY <4>1, <5>1, NextSecond, Zenon
        <5>3. QED
          BY <5>1, <5>2, Zenon
      <4>4. (now' % U) = 0 => now' = second
        <5>1. now' \in Int /\ now' < second + U /\ second < now' + U
          BY <4>1, <4>2, <4>3
        <5>2. QED
          BY <4>2, <4>3, <5>1, SameSecond
      <4>5. (now' % U) # 0 => now' < second
        <5>1. now' <= second
          BY <4>1, <4>2, <4>3
        <5>2. now' = second => (now' % U) = 0
          BY <4>3, Zenon
        <5>3. QED
          BY <4>2, <4>3, <5>1, <5>2
      <4>6. rightRun' # 0
        BY <1>1
      <4>7. pending' # 0 \/ ((now' % U) # 0 /\ pending' = 0)
        BY <3>1, <4>6, <4>2, <1>w DEF Ticked, WordsOK
      <4>8. pending' # 0 => pending' = now'
        BY <3>1 DEF Ticked
      <4>9. QED
        BY <2>1, <4>1, <4>3, <4>4, <4>5, <4>7, <4>8
    <3>2. CASE Took \/ Stayed
      BY <2>1, <3>2 DEF Took, Stayed, RunInv
    <3>3. CASE Hold
      <4>1. pc' = "idle" /\ pending' = pending /\ now' = now /\ (pc = "idle" \/ pc = "hold")
            /\ Previous = edge
        BY <3>3, HoldLeaves DEF Previous
      <4>2. pc = "hold" => pending = 0 /\ now < edge + U
        BY <1>w, Numbers DEF EdgeInv, WordsOK
      <4>3. QED
        BY <2>1, <4>1, <4>2 DEF RunInv
    <3>4. CASE UNCHANGED vars
      BY <2>1, <3>4 DEF RunInv, vars, callVars, envVars
    <3>5. QED
      BY <1>2, <3>1, <3>2, <3>3, <3>4, BeforeMoves
  <2>5. QED
    BY <2>3, <2>4 DEF RunInv
<1>3. CASE Accept \/ SkipMispair
  <2>1. /\ pc = "settle" /\ pc' = "hold" /\ CountLabel /\ UNCHANGED <<edge, pending>>
        /\ prevPpsCapValue' = Cap(edge) /\ prevPpsMonotonicUs' \in {0, edge}
        /\ mispairStreak' = 0 => lastPps' = edge
    <3>1. CASE Accept
      BY <1>w, <3>1, AcceptLeaves
    <3>2. CASE SkipMispair
      <4>1. mispairStreak' # 0
        BY <1>w, <3>2, SkipLeaves
      <4>2. QED
        BY <1>w, <3>2, <4>1, SkipLeaves
    <3>3. QED
      BY <1>3, <3>1, <3>2
  <2>2. LabelledRight
    BY <1>w, <1>1, <2>1, LabelLeaves
  <2>3. (edge % U) = 0 /\ pending' = 0 /\ Previous' = edge
    BY <1>w, <2>1, <2>2, RightIsSecond DEF EdgeInv, Previous
  <2>4. QED
    BY <2>1, <2>3 DEF RunInv
<1>4. CASE StaleNmea
  BY <1>1, <1>4, StaleLeaves
<1>5. QED
  BY <1>2, <1>3, <1>4 DEF Next, Discipline, Before

\* In a run, a pulse that is accepted passes the interval gate, and starts the
\* timeline over only when two were skipped before it.
LEMMA InRun ==
  ASSUME TypeOK, EdgeInv, HealInv, RunInv, Accept, LabelledRight, rightRun > 0
  PROVE  /\ ~Outlier /\ Previous = edge - U /\ Previous \in Nat /\ OnSecond
         /\ Restart => mispairStreak = 2 /\ rightRun <= 2
         /\ ~Restart => mispairStreak = 0
<1>w. WordsOK
  BY DEF TypeOK
<1>1. pc = "settle" /\ (Mispair => Persistent)
  BY <1>w, AcceptLeaves
<1>2. (edge % U) = 0 /\ OnSecond /\ Previous = edge - U
  BY <1>w, <1>1, RightIsSecond DEF OnSecond, Previous
<1>3. PICK e \in Nat : edge = e + U /\ Previous = e
  <2>1. edge \in Nat /\ edge >= 1 /\ U \in Nat \ {0}
    BY <1>w, <1>1, Numbers DEF EdgeInv, WordsOK
  <2>2. (0 % U) = 0
    <3>1. 0 * U + 0 = 0
      BY <2>1
    <3>2. QED
      BY <2>1, <3>1, Remainder
  <2>3. edge >= U
    <3>1. SUFFICES ASSUME edge < U PROVE FALSE
      BY <2>1
    <3>2. edge = 0
      BY <1>2, <2>1, <2>2, <3>1, SameSecond
    <3>3. QED
      BY <2>1, <3>2
  <2>4. QED
    BY <1>2, <2>1, <2>3
<1>4. CapDelta(Cap(edge), prevPpsCapValue) = U
  <2>1. CapDelta(Cap(e + U), Cap(e)) = U
    BY SecondMeasured
  <2>2. prevPpsCapValue = Cap(e)
    BY <1>2, <1>3 DEF RunInv
  <2>3. QED
    BY <1>3, <2>1, <2>2
<1>5. ~Outlier
  BY <1>4, Numbers DEF Outlier
<1>6. ~(prevPpsMonotonicUs # 0 /\ edge - prevPpsMonotonicUs > GapLimit)
  <2>1. prevPpsMonotonicUs \in {0, e}
    BY <1>2, <1>3 DEF RunInv
  <2>2. QED
    BY <1>3, <2>1, Numbers
<1>7. Restart <=> Mispair
  BY <1>6 DEF Restart
<1>8. Restart => mispairStreak = 2 /\ rightRun <= 2
  BY <1>w, <1>1, <1>7 DEF Persistent, HealInv, WordsOK
<1>9. ~Restart => mispairStreak = 0
  BY <1>w, <1>7, RightLabelAgrees DEF HealInv, WordsOK
<1>10. QED
  BY <1>2, <1>3, <1>5, <1>8, <1>9

-----------------------------------------------------------------------------
(* The fit.                                                                *)

\* An accepted pulse of a run adds its sample.
LEMMA Sampled ==
  ASSUME TypeOK, EdgeInv, HealInv, RunInv, Accept, LabelledRight, rightRun > 0
  PROVE  /\ tickInit' = TRUE /\ tickLastRaw' = Cap(edge) /\ tickExt' \in Int
         /\ Previous' = edge /\ pc' = "hold" /\ mispairStreak' = 0
         /\ fitRing' = Push(IF Restart THEN <<>> ELSE fitRing, tickExt' - edge)
         /\ fitValid' \in FitSolve(fitRing')
         /\ tickInit /\ tickLastRaw = Cap(Previous) /\ ~Restart => tickExt' = tickExt + U
<1>w. WordsOK
  BY DEF TypeOK
<1>1. UpdateFit /\ pc' = "hold" /\ edge' = edge /\ mispairStreak' = 0
  BY <1>w, AcceptLeaves
<1>2. ~Outlier /\ Previous = edge - U /\ Previous \in Nat
  BY InRun
<1>3. U * ppsSec = edge
  BY <1>w, Numbers DEF LabelledRight, WordsOK
<1>4. /\ tickInit' = TRUE /\ tickLastRaw' = Cap(edge) /\ tickExt' \in Int
      /\ fitRing' = Push(IF Restart THEN <<>> ELSE fitRing, tickExt' - edge)
      /\ fitValid' \in FitSolve(fitRing')
      /\ tickInit /\ ~Restart => tickExt' = tickExt + CapDelta(Cap(edge), tickLastRaw)
  BY <1>w, <1>1, <1>2, <1>3, FitLeaves
<1>5. CapDelta(Cap(edge), Cap(Previous)) = U
  <2>1. PICK e \in Nat : e = Previous /\ edge = e + U
    BY <1>w, <1>2, Numbers DEF WordsOK
  <2>2. CapDelta(Cap(e + U), Cap(e)) = U
    BY SecondMeasured
  <2>3. QED
    BY <2>1, <2>2, Zenon
<1>6. Previous' = edge
  BY <1>1 DEF Previous
<1>7. QED
  BY <1>1, <1>4, <1>5, <1>6

\* With it one more sample of the ring is of the timeline, while there is room.
LEMMA Grown ==
  ASSUME TypeOK, EdgeInv, HealInv, RunInv, Accept, LabelledRight, rightRun > 0,
         ~Restart, NEW n \in Nat, n <= FitWin, Alike(n)
  PROVE  /\ Alike(Least(n + 1, FitWin))'
         /\ Len(fitRing) < FitWin => Len(fitRing') = Len(fitRing) + 1
<1>w. WordsOK
  BY DEF TypeOK
<1> DEFINE d == IF Len(fitRing) = FitWin THEN 1 ELSE 0
           l == Len(fitRing)
           x == tickExt' - edge
           m == Least(n + 1, FitWin)
<1>1. /\ tickInit' = TRUE /\ tickLastRaw' = Cap(edge) /\ tickExt' \in Int
      /\ Previous' = edge /\ fitRing' = Push(fitRing, x)
      /\ tickInit /\ tickLastRaw = Cap(Previous) => tickExt' = tickExt + U
      /\ Previous = edge - U
  BY Sampled, InRun
<1>2. /\ fitRing \in Seq(Int) /\ l \in Nat /\ l <= FitWin /\ edge \in Int /\ tickExt \in Int
      /\ x \in Int /\ U \in Int /\ FitWin \in Nat
  BY <1>w, <1>1, Numbers DEF WordsOK
<1>3. /\ d \in {0, 1} /\ (d = 1 <=> l = FitWin) /\ Len(fitRing') = l + 1 - d
      /\ \A i \in 1..Len(fitRing') : fitRing'[i] = IF i + d <= l THEN fitRing[i + d] ELSE x
  <2> HIDE DEF x
  <2>1. LET g == IF Len(fitRing) = FitWin THEN 1 ELSE 0
        IN  /\ Len(Push(fitRing, x)) = Len(fitRing) + 1 - g
            /\ \A i \in 1..Len(Push(fitRing, x)) :
                 Push(fitRing, x)[i] = IF i + g <= Len(fitRing) THEN fitRing[i + g] ELSE x
    BY <1>2, Pushed
  <2>2. QED
    BY <1>1, <1>2, <2>1
<1>4. m \in Nat /\ m <= FitWin /\ m <= n + 1
  BY <1>2 DEF Least
<1>5. n <= l /\ \A i \in 1..l : i > l - n => fitRing[i] = tickExt - Previous
  BY DEF Alike
<1>6. n > 0 => tickExt - Previous = x
  BY <1>1, <1>2 DEF Alike
<1> HIDE DEF d, l, x, m
<1>7. m <= Len(fitRing')
  BY <1>2, <1>3, <1>4, <1>5
<1>8. ASSUME NEW i \in 1..Len(fitRing'), i > Len(fitRing') - m PROVE fitRing'[i] = x
  <2>1. CASE i + d <= l
    <3>1. i + d \in 1..l /\ i + d > l - n /\ n > 0
      BY <1>2, <1>3, <1>4, <1>8, <2>1
    <3>2. fitRing[i + d] = x
      BY <1>5, <1>6, <3>1
    <3>3. QED
      BY <1>3, <2>1, <3>2
  <2>2. CASE ~(i + d <= l)
    BY <1>3, <2>2
  <2>3. QED
    BY <2>1, <2>2
<1>9. Alike(m)'
  BY <1>1, <1>7, <1>8 DEF Alike, x, m
<1>10. l < FitWin => Len(fitRing') = l + 1
  BY <1>2, <1>3
<1>11. QED
  BY <1>9, <1>10 DEF m, l

\* A run fills the ring with samples of one timeline.
LEMMA SampleStep ==
  ASSUME TypeOK, EdgeInv, HealInv, RunInv, SampleInv, [Next]_vars PROVE SampleInv'
<1>w. WordsOK
  BY DEF TypeOK
<1>1. SUFFICES ASSUME rightRun' > 0, mispairStreak' = 0, OnSecond' PROVE SampleInv'
  BY DEF SampleInv
<1>2. CASE Before \/ Hold \/ UNCHANGED vars
  <2>1. OnSecond /\ Previous' = Previous /\ rightRun' = rightRun
    BY <1>1, <1>2, PreviousStays
  <2>2. UNCHANGED <<mispairStreak, tickInit, tickExt, tickLastRaw, fitRing>>
    BY <1>2, BeforeLeaves, HoldLeaves DEF vars, taskVars, trackVars, fitVars
  <2>3. QED
    BY <1>1, <2>1, <2>2 DEF SampleInv, Alike
<1>3. CASE Accept
  <2>1. CountLabel
    BY <1>w, <1>3, AcceptLeaves
  <2>2. LabelledRight /\ rightRun' = Least(rightRun + 1, RightCap)
    BY <1>w, <1>1, <2>1, LabelLeaves
  <2>n. rightRun \in 0..RightCap /\ fitRing \in Seq(Int) /\ Len(fitRing) \in Nat
        /\ fitRing' \in Seq(Int) /\ Len(fitRing') \in Nat
    <3>1. WordsOK'
      BY WordsStep
    <3>2. rightRun \in 0..RightCap /\ fitRing \in Seq(Int) /\ fitRing' \in Seq(Int)
      BY <1>w, <3>1 DEF WordsOK
    <3>3. QED
      BY <3>2
  <2>3. CASE rightRun = 0
    <3>1. rightRun' = 1 /\ Least(rightRun' - 1, FitWin) = 0
      BY <2>2, <2>3, Numbers DEF Least
    <3>2. Alike(0)'
      BY <2>n DEF Alike
    <3>3. QED
      BY <3>1, <3>2 DEF SampleInv
  <2>4. CASE rightRun > 0 /\ Restart
    <3>1. rightRun \in {1, 2}
      BY <1>3, <2>2, <2>4, <2>n, InRun
    <3>2. /\ tickInit' = TRUE /\ tickLastRaw' = Cap(edge) /\ tickExt' \in Int
          /\ Previous' = edge /\ fitRing' = Push(<<>>, tickExt' - edge)
      BY <1>3, <2>2, <2>4, Sampled
    <3>3. tickExt' - edge \in Int /\ FitWin # 0 /\ <<>> \in Seq(Int) /\ Len(<<>>) = 0 /\ 0 <= FitWin
      BY <1>w, <3>2, Numbers DEF WordsOK
    <3>4. Len(fitRing') = 1 /\ fitRing'[1] = tickExt' - edge
      <4>1. PICK x \in Int : x = tickExt' - edge /\ fitRing' = Push(<<>>, x)
        BY <3>2, <3>3
      <4>2. LET g == IF Len(<<>>) = FitWin THEN 1 ELSE 0
            IN  /\ Len(Push(<<>>, x)) = Len(<<>>) + 1 - g
                /\ \A i \in 1..Len(Push(<<>>, x)) :
                     Push(<<>>, x)[i] = IF i + g <= Len(<<>>) THEN <<>>[i + g] ELSE x
        BY <3>3, Pushed
      <4>3. Len(Push(<<>>, x)) = 1 /\ Push(<<>>, x)[1] = x
        BY <3>3, <4>2
      <4>4. QED
        BY <4>1, <4>3
    <3>5. Alike(1)'
      BY <3>2, <3>4 DEF Alike
    <3>6. CASE rightRun = 1
      <4>1. Least(rightRun' - 1, FitWin) = 1
        BY <2>2, <3>6, Numbers DEF Least
      <4>2. QED
        BY <3>5, <4>1 DEF SampleInv
    <3>7. CASE rightRun = 2
      <4>1. rightRun' - 2 = 1
        BY <2>2, <3>7, Numbers DEF Least
      <4>2. QED
        BY <3>4, <3>5, <4>1 DEF SampleInv
    <3>8. QED
      BY <3>1, <3>6, <3>7
  <2>5. CASE rightRun > 0 /\ ~Restart
    <3>1. mispairStreak = 0 /\ OnSecond
      BY <1>3, <2>2, <2>5, InRun
    <3>2. CASE Alike(Least(rightRun - 1, FitWin))
      <4>1. PICK n \in Nat : n = Least(rightRun - 1, FitWin) /\ n <= FitWin
        BY <2>5, <2>n, Numbers DEF Least
      <4>2. Alike(n)
        BY <3>2, <4>1
      <4>3. Alike(Least(n + 1, FitWin))'
        BY <1>3, <2>2, <2>5, <4>1, <4>2, Grown
      <4>4. Least(n + 1, FitWin) = Least(rightRun' - 1, FitWin)
        BY <2>2, <2>5, <2>n, <4>1, Numbers DEF Least
      <4>5. QED
        BY <4>3, <4>4 DEF SampleInv
    <3>3. CASE Alike(rightRun - 2) /\ Len(fitRing) = rightRun - 2
      <4>1. PICK n \in Nat : n = rightRun - 2 /\ n < FitWin /\ n <= FitWin
        BY <2>n, <3>3, Numbers
      <4>a. Alike(n) /\ Len(fitRing) = n
        BY <3>3, <4>1
      <4>2. Alike(Least(n + 1, FitWin))' /\ Len(fitRing') = n + 1
        BY <1>3, <2>2, <2>5, <4>1, <4>a, Grown
      <4>3. Least(n + 1, FitWin) = n + 1
        BY <4>1, Numbers DEF Least
      <4>4. CASE rightRun < RightCap
        <5>1. rightRun' - 2 = n + 1
          BY <2>2, <2>n, <4>1, <4>4, Numbers DEF Least
        <5>2. QED
          BY <4>2, <4>3, <5>1 DEF SampleInv
      <4>5. CASE rightRun = RightCap
        <5>1. Least(rightRun' - 1, FitWin) = n + 1
          BY <2>2, <4>1, <4>5, Numbers DEF Least
        <5>2. QED
          BY <4>2, <4>3, <5>1 DEF SampleInv
      <4>6. QED
        BY <2>n, <4>4, <4>5, Numbers
    <3>4. QED
      BY <2>5, <3>1, <3>2, <3>3 DEF SampleInv
  <2>6. QED
    BY <2>n, <2>3, <2>4, <2>5
<1>4. CASE SkipMispair
  <2>1. mispairStreak' # 0
    BY <1>w, <1>4, SkipLeaves
  <2>2. QED
    BY <1>1, <2>1
<1>5. CASE StaleNmea
  BY <1>1, <1>5, StaleLeaves
<1>6. QED
  BY <1>2, <1>3, <1>4, <1>5 DEF Next, Discipline, Before

\* A window of them gives a valid fit, which stands while the run goes on.
LEMMA ValidStep ==
  ASSUME TypeOK, EdgeInv, HealInv, RunInv, SampleInv, ValidInv, [Next]_vars PROVE ValidInv'
<1>w. WordsOK
  BY DEF TypeOK
<1>1. SUFFICES ASSUME rightRun' = RightCap
               PROVE  fitValid' /\ \A i \in 1..Len(fitRing') : fitRing'[i] = fitRing'[1]
  BY DEF ValidInv
<1>2. CASE Before \/ UNCHANGED vars
  <2>1. UNCHANGED <<fitRing, fitValid>> /\ (rightRun' = rightRun \/ rightRun' = 0)
    BY <1>2, BeforeLeaves DEF vars, taskVars, fitVars, runVars
  <2>2. rightRun = RightCap
    BY <1>1, <2>1, Numbers
  <2>3. QED
    BY <2>1, <2>2, Zenon DEF ValidInv
<1>3. CASE Hold
  <2>1. rightRun = RightCap /\ fitRing' = fitRing /\ fitValid' = (fitValid /\ ~HoldoverBegins)
    BY <1>1, <1>3, HoldLeaves
  <2>2. OnSecond /\ Previous = edge /\ rightRun > 0 /\ mispairStreak = 0
    <3>1. pc \in {"idle", "hold"}
      BY <1>3, HoldLeaves
    <3>2. mispairStreak = 0
      BY <1>w, <2>1, Numbers DEF HealInv, WordsOK
    <3>3. QED
      BY <2>1, <3>1, <3>2, Numbers DEF OnSecond, Previous
  <2>3. lastPps = edge /\ now < edge + U
    <3>1. pc = "idle" => pending = 0
      BY <1>3, HoldLeaves
    <3>2. pc # "idle" => now < edge + U
      BY <1>w, Numbers DEF EdgeInv, WordsOK
    <3>3. QED
      BY <2>2, <3>1, <3>2 DEF RunInv
  <2>4. ~HoldoverBegins
    BY <1>w, <2>3, Numbers DEF HoldoverBegins, WordsOK
  <2>5. QED
    BY <2>1, <2>4, Zenon DEF ValidInv
<1>4. CASE Accept
  <2>1. LabelledRight /\ rightRun > 0
    <3>1. CountLabel
      BY <1>w, <1>4, AcceptLeaves
    <3>2. QED
      BY <1>w, <1>1, <3>1, LabelLeaves, Numbers DEF Least, WordsOK
  <2>2. /\ pc' = "hold" /\ mispairStreak' = 0 /\ tickExt' \in Int
        /\ fitValid' \in FitSolve(fitRing')
    BY <1>4, <2>1, Sampled
  <2>3. OnSecond' /\ rightRun' > 0
    BY <1>1, <2>2, Numbers DEF OnSecond
  <2>4. SampleInv' /\ WordsOK'
    BY SampleStep, WordsStep
  <2>5. PICK n \in Nat : Alike(n)' /\ Len(fitRing') = n /\ n >= FitMin
    <3>1. Least(rightRun' - 1, FitWin) = FitWin
      BY <1>1, Numbers DEF Least
    <3>2. CASE Alike(Least(rightRun - 1, FitWin))'
      <4>1. Alike(FitWin)' /\ FitWin <= Len(fitRing')
        BY <3>1, <3>2 DEF Alike
      <4>2. Len(fitRing') = FitWin
        BY <2>4, <4>1, Numbers DEF WordsOK
      <4>3. QED
        BY <4>1, <4>2, Numbers
    <3>3. CASE (Alike(rightRun - 2) /\ Len(fitRing) = rightRun - 2)'
      <4>1. PICK n \in Nat : n = rightRun' - 2 /\ n >= FitMin
        BY <1>1, Numbers
      <4>2. Alike(n)' /\ Len(fitRing') = n
        BY <3>3, <4>1
      <4>3. QED
        BY <4>1, <4>2
    <3>4. QED
      BY <2>2, <2>3, <2>4, <3>2, <3>3 DEF SampleInv
  <2>6. \A i \in 1..Len(fitRing') : fitRing'[i] = fitRing'[1]
    <3>1. \A i \in 1..Len(fitRing') : i > Len(fitRing') - n => fitRing'[i] = tickExt' - Previous'
      BY <2>5 DEF Alike
    <3>2. n \in Nat /\ n >= 1
      BY <2>5, Numbers
    <3>3. QED
      BY <2>5, <3>1, <3>2
  <2>7. ~(Len(fitRing') < FitMin)
    BY <2>5, Numbers
  <2>8. FitSolve(fitRing') = {TRUE}
    BY <2>6, <2>7 DEF FitSolve
  <2>9. QED
    BY <2>2, <2>6, <2>8
<1>5. CASE SkipMispair \/ StaleNmea
  <2>1. rightRun' <= 2
    <3>1. HealInv' /\ WordsOK'
      BY HealStep, WordsStep
    <3>2. mispairStreak' \in 0..2 /\ rightRun' \in Nat
      BY <3>1, Numbers DEF WordsOK
    <3>3. mispairStreak' > 0 => rightRun' <= mispairStreak'
      BY <3>1 DEF HealInv
    <3>4. CASE SkipMispair
      <4>1. mispairStreak' = mispairStreak + 1
        BY <3>4 DEF SkipMispair
      <4>2. mispairStreak \in 0..2
        BY <1>w DEF WordsOK
      <4>3. mispairStreak' > 0
        BY <4>1, <4>2
      <4>4. QED
        BY <3>2, <3>3, <4>3
    <3>5. CASE StaleNmea
      BY <3>5 DEF StaleNmea
    <3>6. QED
      BY <1>5, <3>4, <3>5
  <2>2. QED
    BY <1>1, <2>1, Numbers
<1>6. QED
  BY <1>2, <1>3, <1>4, <1>5 DEF Next, Discipline, Before

\* The end of every call looks at the age of the anchor.
LEMMA HoldStep ==
  ASSUME TypeOK, EdgeInv, HoldInv, [Next]_vars PROVE HoldInv'
<1>w. WordsOK /\ FlagsOK
  BY DEF TypeOK
<1>1. CASE Before
  <2>1. UNCHANGED <<holdover, fitValid, gpsLock, lastPps>>
    BY <1>1, BeforeLeaves
  <2>2. swept' = FALSE \/ UNCHANGED <<swept, now>>
    BY <1>1, BeforeMoves DEF Ticked, Took, Stayed
  <2>3. QED
    BY <2>1, <2>2 DEF HoldInv
<1>2. CASE Accept
  <2>1. holdover' = FALSE /\ ~swept'
    BY <1>w, <1>2, AcceptLeaves DEF EdgeInv
  <2>2. QED
    BY <2>1 DEF HoldInv
<1>3. CASE SkipMispair
  <2>1. UNCHANGED <<holdover, fitValid>> /\ ~swept'
    BY <1>w, <1>3, SkipLeaves DEF EdgeInv
  <2>2. QED
    BY <2>1, Zenon DEF HoldInv
<1>4. CASE StaleNmea
  <2>1. fitValid' = FALSE /\ ~swept'
    BY <1>4, StaleLeaves DEF EdgeInv
  <2>2. QED
    BY <2>1 DEF HoldInv
<1>5. CASE Hold
  <2>1. /\ holdover' = (holdover \/ HoldoverBegins) /\ fitValid' = (fitValid /\ ~HoldoverBegins)
        /\ UNCHANGED <<now, lastPps, gpsLock>>
    BY <1>5, HoldLeaves
  <2>2. holdover' => ~fitValid'
    BY <2>1, Zenon DEF HoldInv
  <2>3. gpsLock' /\ now' - lastPps' > FreshPps => holdover'
    BY <2>1 DEF HoldoverBegins
  <2>4. QED
    BY <2>2, <2>3, Zenon DEF HoldInv
<1>6. CASE UNCHANGED vars
  BY <1>6 DEF vars, HoldInv, taskVars, clockVars, fitVars, callVars, envVars
<1>7. QED
  BY <1>1, <1>2, <1>3, <1>4, <1>5, <1>6 DEF Next, Discipline, Before

\* The anchor of a run of right labels is less than a second old, which is younger
\* than what begins a holdover.
LEMMA ResumeStep ==
  ASSUME TypeOK, EdgeInv, RunInv, ResumeInv, [Next]_vars PROVE ResumeInv'
<1>w. WordsOK
  BY DEF TypeOK
<1>1. CASE Before \/ UNCHANGED vars
  <2>1. /\ UNCHANGED <<holdover, mispairStreak>>
        /\ rightRun' = rightRun \/ rightRun' = 0
    BY <1>1, BeforeLeaves DEF vars, taskVars, trackVars, runVars
  <2>2. QED
    BY <2>1 DEF ResumeInv
<1>2. CASE Accept
  <2>1. holdover' = FALSE
    BY <1>w, <1>2, AcceptLeaves
  <2>2. QED
    BY <2>1 DEF ResumeInv
<1>3. CASE SkipMispair
  <2>1. mispairStreak' = mispairStreak + 1 /\ mispairStreak \in {0, 1}
    BY <1>w, <1>3, SkipLeaves
  <2>2. mispairStreak' # 0
    BY <2>1
  <2>3. QED
    BY <2>2 DEF ResumeInv
<1>4. CASE StaleNmea
  <2>1. rightRun' = 0
    BY <1>4, StaleLeaves
  <2>2. QED
    BY <2>1 DEF ResumeInv
<1>5. CASE Hold
  <2>1. /\ holdover' = (holdover \/ HoldoverBegins)
        /\ UNCHANGED <<mispairStreak, rightRun>>
        /\ pc \in {"idle", "hold"} /\ (pc = "idle" => pending = 0)
    BY <1>5, HoldLeaves
  <2>2. SUFFICES ASSUME mispairStreak = 0, rightRun > 0 PROVE ~HoldoverBegins
    BY <2>1 DEF ResumeInv
  <2>3. lastPps = edge /\ (pc = "idle" => now < edge + U)
    BY <2>1, <2>2 DEF RunInv, OnSecond, Previous
  <2>4. pc = "hold" => edge = now
    BY DEF EdgeInv
  <2>5. now \in Int /\ edge \in Int /\ lastPps \in Int
    BY <1>w, Numbers DEF WordsOK
  <2>6. now < lastPps + U
    BY <2>1, <2>3, <2>4, <2>5, Numbers
  <2>7. ~(now - lastPps > FreshPps)
    BY <2>5, <2>6, Numbers
  <2>8. QED
    BY <2>7 DEF HoldoverBegins
<1>6. QED
  BY <1>1, <1>2, <1>3, <1>4, <1>5 DEF Next, Discipline, Before

-----------------------------------------------------------------------------
(* The theorems.                                                           *)

\* Nothing has been received, and the clock is of 1970.
LEMMA Initially == ASSUME Init PROVE IInv
<1> USE Numbers DEF Init
<1>1. WordsOK
  <2>1. <<>> \in Seq(Int) /\ Len(<<>>) = 0
    OBVIOUS
  <2>2. QED
    BY <2>1 DEF WordsOK
<1>2. FlagsOK
  BY DEF FlagsOK
<1>3. EdgeInv /\ HoldInv
  BY DEF EdgeInv, HoldInv
<1>4. LateInv /\ HealInv
  BY DEF LateInv, HealInv
<1>5. RunInv /\ SampleInv /\ ValidInv
  BY DEF RunInv, SampleInv, ValidInv
<1>6. ResumeInv
  BY DEF ResumeInv
<1>7. QED
  BY <1>1, <1>2, <1>3, <1>4, <1>5, <1>6 DEF IInv, TypeOK

\* The invariant is inductive: whatever the receiver, the UART task, noise and
\* outages do, every step of the discipline keeps it.
THEOREM Inductive == Spec => []IInv
<1>1. Init => IInv
  BY Initially
<1>2. IInv /\ [Next]_vars => IInv'
  BY TypeStep, EdgeStep, LateStep, HealStep, RunStep, SampleStep, ValidStep, HoldStep,
     ResumeStep DEF IInv
<1>3. QED
  BY <1>1, <1>2, PTL DEF Spec

\* The discipline keeps to its types: no more than two pulses in a row are
\* skipped, and the ring holds no more than its window.
THEOREM TypeCorrect == Spec => []TypeOK
<1>1. IInv => TypeOK
  BY DEF IInv
<1>2. QED
  BY <1>1, Inductive, PTL

\* A clock that is right is put wrong by the edge of a second only with the third
\* label in a row that is wrong, however late, lost and raced the sentences are.
THEOREM ClockKept == Spec => WrongNeedsPersistence
<1>1. IInv /\ [Next]_vars =>
        [sysErr = 0 /\ sysErr' # 0 /\ edge % U = 0 => lateRun' = LateCap]_vars
  BY GoesWrong DEF IInv
<1>2. QED
  BY <1>1, Inductive, PTL DEF Spec, WrongNeedsPersistence

\* Three right labels in a row put the clock right, give the lock and end the
\* holdover, whatever went before.
THEOREM ClockHealed == Spec => []RightLabelsHeal
<1>1. ASSUME IInv, rightRun >= 3 PROVE mispairStreak = 0 /\ rightRun > 0
  BY <1>1 DEF IInv, TypeOK, WordsOK, HealInv
<1>2. IInv => RightLabelsHeal
  BY <1>1 DEF IInv, HealInv, ResumeInv, RightLabelsHeal
<1>3. QED
  BY <1>2, Inductive, PTL

\* A window of right labels and one more give a fit of one timeline, whatever the
\* ring held before; and no fit outlives its anchor's freshness.
THEOREM FitKept == Spec => []FitFollowsPulses
<1>1. IInv => FitFollowsPulses
  BY Zenon DEF IInv, ValidInv, HoldInv, FitFollowsPulses
<1>2. QED
  BY <1>1, Inductive, PTL

-----------------------------------------------------------------------------
(* The handoff of the pulse.                                               *)
(*                                                                         *)
(* The discipline takes edge and counter of a pulse in one step (TakeEdge).*)
(* The interrupt publishes them word by word: Seqlock.  Its theorems hold  *)
(* for any set of words, attempts per call and number of publications.     *)

\* Every word stays in the range its declaration gives it.
THEOREM HandoffTypes == HandoffSpec => []HandoffTypeOK
<1> USE TriesAssumption, BoundAssumption DEF HandoffTypeOK
<1>1. HandoffInit => HandoffTypeOK
  <2> SUFFICES ASSUME HandoffInit PROVE HandoffTypeOK
    OBVIOUS
  <2>1. /\ seq = 0 /\ published = 0 /\ tries = 0 /\ seen = 0 /\ s1 = 0
        /\ toStore = {} /\ toCopy = {} /\ isr = "idle" /\ reader = "wait"
    BY DEF HandoffInit
  <2>2. mem \in [Fields -> Nat]
    BY DEF HandoffInit
  <2>3. copy \in [Fields -> Nat]
    BY DEF HandoffInit
  <2>4. taken \in [Fields -> Nat]
    BY DEF HandoffInit
  <2>5. QED
    BY <2>1, <2>2, <2>3, <2>4
<1>2. HandoffTypeOK /\ [HandoffNext]_handoffVars => HandoffTypeOK'
  <2> SUFFICES ASSUME HandoffTypeOK, [HandoffNext]_handoffVars PROVE HandoffTypeOK'
    OBVIOUS
  <2> USE DEF readerVars, writerVars
  <2>1. CASE BeginPublish
    BY <2>1 DEF BeginPublish
  <2>2. ASSUME NEW f \in Fields, StoreField(f) PROVE HandoffTypeOK'
    BY <2>2 DEF StoreField
  <2>3. CASE EndPublish
    BY <2>3 DEF EndPublish
  <2>4. CASE Wake \/ GiveUp
    BY <2>4 DEF Wake, GiveUp
  <2>5. CASE LoadOdd \/ LoadSeen \/ LoadFresh
    BY <2>5 DEF LoadOdd, LoadSeen, LoadFresh
  <2>6. ASSUME NEW f \in Fields, CopyField(f) PROVE HandoffTypeOK'
    BY <2>6 DEF CopyField
  <2>7. CASE TakeCopy
    BY <2>7 DEF TakeCopy
  <2>8. CASE Retry
    BY <2>8 DEF Retry
  <2>9. CASE UNCHANGED handoffVars
    BY <2>9 DEF handoffVars
  <2>10. QED
    BY <2>1, <2>2, <2>3, <2>4, <2>5, <2>6, <2>7, <2>8, <2>9
       DEF HandoffNext, Interrupt, Task
<1>3. QED
  BY <1>1, <1>2, PTL DEF HandoffSpec

\* The interrupt alone keeps the counter and the words in step.
LEMMA HandoffWriter == HandoffSpec => [](CounterInv /\ StoreInv)
<1> USE TriesAssumption, BoundAssumption DEF CounterInv, StoreInv
<1>1. HandoffInit => CounterInv /\ StoreInv
  <2> SUFFICES ASSUME HandoffInit PROVE CounterInv /\ StoreInv
    OBVIOUS
  <2>1. seq = 0 /\ published = 0 /\ toStore = {} /\ isr = "idle"
    BY DEF HandoffInit
  <2>2. \A f \in Fields : mem[f] = 0
    BY DEF HandoffInit
  <2>3. QED
    BY <2>1, <2>2
<1>2. HandoffTypeOK /\ CounterInv /\ StoreInv /\ [HandoffNext]_handoffVars
        => (CounterInv /\ StoreInv)'
  <2> SUFFICES ASSUME HandoffTypeOK, CounterInv, StoreInv, [HandoffNext]_handoffVars
               PROVE  CounterInv' /\ StoreInv'
    OBVIOUS
  <2> USE DEF HandoffTypeOK
  <2>1. CASE BeginPublish
    BY <2>1 DEF BeginPublish
  <2>2. ASSUME NEW f \in Fields, StoreField(f) PROVE CounterInv' /\ StoreInv'
    BY <2>2 DEF StoreField
  <2>3. CASE EndPublish
    BY <2>3 DEF EndPublish
  <2>4. CASE UNCHANGED writerVars
    BY <2>4 DEF writerVars
  <2>5. QED
    BY <2>1, <2>2, <2>3, <2>4
       DEF HandoffNext, Interrupt, Task, Wake, GiveUp, LoadOdd, LoadSeen, LoadFresh,
           CopyField, TakeCopy, Retry, handoffVars
<1>3. QED
  BY <1>1, <1>2, HandoffTypes, PTL DEF HandoffSpec

\* What the reader knows about its copy while the counter has not moved.
LEMMA HandoffReader == HandoffSpec => [](CopyInv /\ SeenInv /\ NoTornSnapshot)
<1> USE TriesAssumption, BoundAssumption DEF CopyInv, SeenInv, NoTornSnapshot, Odd
<1>1. HandoffInit => CopyInv /\ SeenInv /\ NoTornSnapshot
  <2> SUFFICES ASSUME HandoffInit PROVE CopyInv /\ SeenInv /\ NoTornSnapshot
    OBVIOUS
  <2>1. seq = 0 /\ seen = 0 /\ reader = "wait"
    BY DEF HandoffInit
  <2>2. \A f \in Fields : taken[f] = 0
    BY DEF HandoffInit
  <2>3. QED
    BY <2>1, <2>2
<1>2. /\ HandoffTypeOK /\ CounterInv /\ StoreInv
      /\ CopyInv /\ SeenInv /\ NoTornSnapshot
      /\ [HandoffNext]_handoffVars
      => (CopyInv /\ SeenInv /\ NoTornSnapshot)'
  <2> SUFFICES ASSUME HandoffTypeOK, CounterInv, StoreInv, CopyInv, SeenInv,
                      NoTornSnapshot, [HandoffNext]_handoffVars
               PROVE  CopyInv' /\ SeenInv' /\ NoTornSnapshot'
    OBVIOUS
  <2> USE DEF HandoffTypeOK
  <2>1. CASE BeginPublish \/ EndPublish
    BY <2>1 DEF BeginPublish, EndPublish, readerVars
  <2>2. ASSUME NEW f \in Fields, StoreField(f)
        PROVE  CopyInv' /\ SeenInv' /\ NoTornSnapshot'
    BY <2>2 DEF StoreField, readerVars
  <2>3. CASE Wake \/ GiveUp \/ LoadOdd \/ LoadSeen \/ Retry
    BY <2>3 DEF Wake, GiveUp, LoadOdd, LoadSeen, Retry, writerVars
  <2>4. CASE LoadFresh
    BY <2>4 DEF LoadFresh, writerVars
  <2>5. ASSUME NEW f \in Fields, CopyField(f)
        PROVE  CopyInv' /\ SeenInv' /\ NoTornSnapshot'
    <3>1. SeenInv' /\ NoTornSnapshot'
      BY <2>5 DEF CopyField, writerVars
    <3>2. ASSUME seq = s1 PROVE 2 * mem[f] = s1
      BY <3>2, <2>5 DEF CopyField, CounterInv, StoreInv
    <3>3. CopyInv'
      BY <2>5, <3>2 DEF CopyField, writerVars
    <3>4. QED
      BY <3>1, <3>3
  <2>6. CASE TakeCopy
    BY <2>6 DEF TakeCopy, writerVars
  <2>7. CASE UNCHANGED handoffVars
    BY <2>7 DEF handoffVars, readerVars, writerVars
  <2>8. QED
    BY <2>1, <2>2, <2>3, <2>4, <2>5, <2>6, <2>7 DEF HandoffNext, Interrupt, Task
<1>3. QED
  BY <1>1, <1>2, HandoffTypes, HandoffWriter, PTL DEF HandoffSpec

\* The strengthened invariant holds in every reachable state.
THEOREM HandoffInvariant == HandoffSpec => []HandoffIInv
<1>1. HandoffTypeOK /\ CounterInv /\ StoreInv /\ CopyInv /\ SeenInv /\ NoTornSnapshot
        => HandoffIInv
  BY DEF HandoffIInv
<1>2. QED
  BY <1>1, HandoffTypes, HandoffWriter, HandoffReader, PTL

\* No call of the task ever takes a torn snapshot: the words it uses were all
\* stored by the publication whose counter value it records.
THEOREM HandoffTornFree == HandoffSpec => []NoTornSnapshot
  BY HandoffReader, PTL

\* Snapshots are consumed in the order they were published, each at most once.
THEOREM HandoffMonotone == HandoffSpec => NeverGoesBack
<1>1. HandoffIInv /\ [HandoffNext]_handoffVars => [seen' # seen => seen' > seen]_handoffVars
  <2> SUFFICES ASSUME HandoffIInv, HandoffNext, seen' # seen PROVE seen' > seen
    BY DEF handoffVars, readerVars, writerVars
  <2>1. TakeCopy
    BY DEF HandoffNext, Interrupt, Task, BeginPublish, StoreField, EndPublish, Wake,
           GiveUp, LoadOdd, LoadSeen, LoadFresh, CopyField, Retry, readerVars
  <2>2. QED
    BY <2>1 DEF TakeCopy, HandoffIInv, HandoffTypeOK, CopyInv, SeenInv
<1>2. QED
  BY <1>1, HandoffInvariant, PTL DEF HandoffSpec, NeverGoesBack

\* The handoff implements the atomic snapshot.  The field that stands for the
\* whole snapshot in the mapping exists because there is a field.
THEOREM HandoffRefinement == HandoffSpec => AbstractSpec
<1> DEFINE w == CHOOSE f \in Fields : TRUE
<1>w. w \in Fields
  BY FieldsAssumption
<1> HIDE DEF w
<1> USE DEF Abstract!Next, Abstract!vars
<1>1. HandoffInit => Abstract!Init
  <2> SUFFICES ASSUME HandoffInit PROVE Abstract!Init
    OBVIOUS
  <2>1. isr = "idle" /\ published = 0 /\ taken[w] = 0
    BY <1>w DEF HandoffInit
  <2>2. QED
    BY <2>1 DEF Abstract!Init, w
<1>2. HandoffIInv /\ [HandoffNext]_handoffVars => [Abstract!Next]_(Abstract!vars)
  <2> SUFFICES ASSUME HandoffIInv, [HandoffNext]_handoffVars
               PROVE  [Abstract!Next]_(Abstract!vars)
    OBVIOUS
  <2> USE DEF HandoffIInv, HandoffTypeOK
  <2>1. CASE BeginPublish
    BY <2>1 DEF BeginPublish, readerVars
  <2>2. CASE EndPublish
    BY <2>2 DEF EndPublish, readerVars, Abstract!Publish
  <2>3. CASE TakeCopy
    <3>1. isr = "idle" /\ seq = 2 * published
      BY <2>3 DEF TakeCopy, CounterInv, CopyInv, Odd
    <3>2. 2 * copy[w] = seq /\ taken' = copy
      BY <2>3, <1>w DEF TakeCopy, CopyInv
    <3>3. copy[w] = published
      BY <3>1, <3>2, <1>w
    <3>4. UNCHANGED <<isr, published>>
      BY <2>3 DEF TakeCopy, writerVars
    <3>5. QED
      BY <3>1, <3>2, <3>3, <3>4 DEF Abstract!Take, w
  <2>4. CASE UNCHANGED <<isr, published, taken>>
    BY <2>4
  <2>5. QED
    BY <2>1, <2>2, <2>3, <2>4
       DEF HandoffNext, Interrupt, Task, StoreField, Wake, GiveUp, LoadOdd, LoadSeen,
           LoadFresh, CopyField, Retry, readerVars, writerVars, handoffVars
<1>3. QED
  BY <1>1, <1>2, HandoffInvariant, PTL DEF HandoffSpec, AbstractSpec, Abstract!Spec

-----------------------------------------------------------------------------
(* The satellite table.                                                    *)

\* The satellite the receiver's cycle has come to.
Reached == IF place \in {"gsa", "gsv"} THEN nth ELSE says.from

\* Every satellite before i is of this talker or an earlier one, the others of
\* this or a later one.
Divides(i) == \A j \in DOMAIN sky :
                IF j < i THEN sky[j].talker <= says.talker ELSE says.talker <= sky[j].talker

\* Where the task is and what it heard belong together, and a sentence is about a
\* talker and begins where the one before ended.
SaysInv ==
  /\ place = "gsa" => says.kind = "GSA"
  /\ place = "gsv" => says.kind = "GSV"
  /\ Copying => says.kind = "none"
  /\ says.kind \in {"GSA", "GSV"} =>
       says.talker \in DOMAIN Talkers /\ Reached \in 1..(Len(sky) + 1) /\ Divides(Reached)
  /\ says.kind \notin {"GSA", "GSV"} => says.talker = 0 /\ says.from = 1

\* The satellites of this cycle that GSV has named so far, and that GSA has.
Viewed == CASE says.kind = "GSV" -> Reached - 1
            [] says.kind = "RMC" -> Len(sky)
            [] OTHER -> 0
Named == CASE says.kind = "GSA" -> Reached - 1
           [] says.kind \in {"GSV", "RMC"} -> Len(sky)
           [] OTHER -> 0

AsFit(n) == IF n < MaxSats THEN n ELSE MaxSats

\* While nothing was lost, the sweep collected is the satellites named so far.
BuildInv ==
  clean /\ ~Copying =>
    /\ Len(satBuild) = AsFit(Viewed)
    /\ \A k \in DOMAIN satBuild : satBuild[k] = Entry(sky[k])

\* And the list of the used ones is those of them that are used; the list has
\* room for every one that has room in the table.
UsedInv ==
  clean /\ ~Copying =>
    /\ Len(usedIds) <= Named
    /\ combined \/ \A u \in DOMAIN usedIds :
                     \E i \in 1..Named : sky[i].used /\ usedIds[u] = Identity(sky[i])
    /\ combined \/ \A i \in 1..AsFit(Named) :
                     sky[i].used => \E u \in DOMAIN usedIds : usedIds[u] = Identity(sky[i])

\* The table is what the sky of the last sweep shows.
Shows(table) ==
  /\ Len(table) = AsFit(Len(sky))
  /\ \A k \in DOMAIN table :
       /\ table[k].sat = Entry(sky[k]).sat /\ table[k].cn0 = Entry(sky[k]).cn0
       /\ combined \/ table[k].used = sky[k].used

\* A commit of a whole cycle publishes the sky, and has published it in the end.
CommitInv ==
  whole =>
    /\ says.kind = "none" /\ place \in {"listen", "head", "tail", "count"}
    /\ Copying => Shows(satBuild)
    /\ place = "listen" /\ sky # <<>> => Shows(shown)

\* How far the copy is, in heads and in tails.
HeadCopied(k) ==
  Copying /\ k \in DOMAIN satBuild /\ (place = "count" \/ k < nth \/ (place = "tail" /\ k = nth))
TailCopied(k) ==
  Copying /\ k \in DOMAIN satBuild /\ (place = "count" \/ k < nth)

\* Every word is of the sweep being published where it was copied, and otherwise
\* of the one published last.
TableInv ==
  /\ satPubN = Len(shown)
  /\ Copying => satBuild # <<>>
  /\ place \in {"head", "tail"} => nth \in DOMAIN satBuild
  /\ \A k \in DOMAIN satBuild :
       /\ HeadCopied(k) => satPub[k].sat = satBuild[k].sat /\ satPub[k].cn0 = satBuild[k].cn0
       /\ TailCopied(k) => satPub[k].used = satBuild[k].used
  /\ \A k \in DOMAIN shown :
       /\ ~HeadCopied(k) => satPub[k].sat = shown[k].sat /\ satPub[k].cn0 = shown[k].cn0
       /\ ~TailCopied(k) => satPub[k].used = shown[k].used

\* The talkers whose runs were summed in this cycle.
Summed == CASE says.kind = "GSV" -> says.talker - 1
            [] says.kind \in {"RMC", "none"} -> Len(Talkers)
            [] OTHER -> 0

\* A total is the last summed talker's that is counted under it.
Counted(n) ==
  \A t \in 1..n : \/ \E later \in 1..n :
                       later > t /\ Total(Talkers[later]) = Total(Talkers[t])
                  \/ qSats[Total(Talkers[t])] = Cardinality(InView(t))

SumsInv ==
  /\ whole \/ (clean /\ says.kind \in {"GSA", "GSV", "RMC"}) => qSatsUsed = Cardinality(InUse)
  /\ whole \/ (clean /\ says.kind \in {"GSV", "RMC"}) => Counted(Summed)

SkyIInv == SkyTypeOK /\ SaysInv /\ BuildInv /\ UsedInv /\ CommitInv /\ TableInv /\ SumsInv

-----------------------------------------------------------------------------
(* Types.                                                                  *)

\* What the assumption says of the sky in view.
LEMMA SkyFacts ==
  ASSUME sky \in Skies
  PROVE  /\ sky \in Seq(Sights) /\ Len(sky) \in Nat /\ DOMAIN sky = 1..Len(sky)
         /\ \A i \in DOMAIN sky : sky[i] \in Sights
         /\ \A i, j \in DOMAIN sky : i < j => sky[i].talker <= sky[j].talker
         /\ \A i, j \in DOMAIN sky : Identity(sky[i]) = Identity(sky[j]) => i = j
         /\ Talkers \in Seq(STRING) /\ Len(Talkers) \in Nat \ {0}
         /\ DOMAIN Talkers = 1..Len(Talkers)
<1>1. sky \in Seq(Sights)
  BY SkyAssumption
<1>2. Len(sky) \in Nat /\ DOMAIN sky = 1..Len(sky) /\ \A i \in DOMAIN sky : sky[i] \in Sights
  BY <1>1
<1>3. \A i, j \in DOMAIN sky :
        i < j => sky[i].talker <= sky[j].talker /\ Identity(sky[i]) # Identity(sky[j])
  BY SkyAssumption
<1>4. \A i, j \in DOMAIN sky : Identity(sky[i]) = Identity(sky[j]) => i = j
  <2> SUFFICES ASSUME NEW i \in DOMAIN sky, NEW j \in DOMAIN sky,
                      Identity(sky[i]) = Identity(sky[j]), i # j
               PROVE  FALSE
    OBVIOUS
  <2>1. i < j \/ j < i
    BY <1>2
  <2>2. QED
    BY <2>1, <1>3
<1>5. /\ Talkers \in Seq(STRING) /\ Len(Talkers) \in Nat \ {0}
      /\ DOMAIN Talkers = 1..Len(Talkers)
  BY SkyAssumption
<1>6. QED
  BY <1>1, <1>2, <1>3, <1>4, <1>5

\* An id always names a satellite.
LEMMA SvidType ==
  ASSUME NEW talker, NEW id \in Nat PROVE Svid(Sys(talker), id) \in Systems \X Nat
<1>1. Sys(talker) \in Systems
  BY DEF Sys, Systems
<1> DEFINE sys == Sys(talker)
<1>2. sys \in Systems
  BY <1>1
<1> HIDE DEF sys
<1>3. Byte(id) \in Nat /\ (id >= 65 => Byte(id - 64) \in Nat)
  BY DEF Byte
<1>4. Svid(sys, id) \in Systems \X Nat
  BY <1>2, <1>3 DEF Svid, Systems
<1>5. QED
  BY <1>4 DEF sys

\* And a sight an entry of the table.
LEMMA EntryType ==
  ASSUME SkyTypeOK, NEW s \in Sights
  PROVE  /\ Identity(s) \in Systems \X Nat /\ Entry(s) \in Entries
         /\ Entry(s).sat = Identity(s) /\ ~Entry(s).used
<1>1. s.talker \in DOMAIN Talkers /\ s.id \in Nat /\ s.used \in BOOLEAN
  BY DEF Sights
<1>3. Identity(s) \in Systems \X Nat
  BY <1>1, SvidType DEF Identity
<1>4. sweep \in Nat
  BY SkyAssumption DEF SkyTypeOK
<1>5. QED
  BY <1>1, <1>3, <1>4 DEF Entry, Entries

\* Every talker is counted under a total.
LEMMA TotalType ==
  ASSUME NEW talker PROVE Total(talker) \in Totals
  BY DEF Total, Sys, Totals

\* The sums of a sky are numbers.
LEMMA SumTypes ==
  ASSUME sky \in Skies, NEW t PROVE Cardinality(InView(t)) \in Nat /\ Cardinality(InUse) \in Nat
<1>1. DOMAIN sky = 1..Len(sky) /\ Len(sky) \in Nat
  BY SkyFacts
<1>2. IsFiniteSet(DOMAIN sky)
  BY <1>1, FS_Interval
<1>3. InView(t) \subseteq DOMAIN sky /\ InUse \subseteq DOMAIN sky
  BY DEF InView, InUse
<1>4. QED
  BY <1>2, <1>3, FS_Subset, FS_CardinalityType

\* What follows a sentence is a sentence.
LEMMA FollowingType ==
  ASSUME SkyTypeOK, NEW i \in Nat \ {0} PROVE Following(i) \in Sentences
<1>1. says.talker \in Nat
  BY DEF SkyTypeOK, Sentences
<1>2. QED
  BY <1>1 DEF Following, Says, Sentences

\* A satellite recorded leaves the table within its bounds.
LEMMA RecordTypes ==
  ASSUME SkyTypeOK, NEW e \in Entries
  PROVE  SatRecord(satBuild, e) \in Seq(Entries) /\ Len(SatRecord(satBuild, e)) <= MaxSats
<1>1. satBuild \in Seq(Entries) /\ Len(satBuild) <= MaxSats /\ MaxSats \in Nat
  BY SkyAssumption DEF SkyTypeOK
<1>2. Append(satBuild, e) \in Seq(Entries) /\ Len(Append(satBuild, e)) = Len(satBuild) + 1
  BY <1>1
<1>3. Len(satBuild) \in Nat
  BY <1>1
<1>4. QED
  BY <1>1, <1>2, <1>3 DEF SatRecord

\* So is a satellite named as used.
LEMMA NameTypes ==
  ASSUME SkyTypeOK, NEW sat \in Systems \X Nat
  PROVE  /\ UsedRecord(usedIds, sat) \in Seq(Systems \X Nat)
         /\ Len(UsedRecord(usedIds, sat)) <= MaxSats
<1>1. usedIds \in Seq(Systems \X Nat) /\ Len(usedIds) <= MaxSats /\ MaxSats \in Nat
  BY SkyAssumption DEF SkyTypeOK
<1>2. /\ Append(usedIds, sat) \in Seq(Systems \X Nat)
      /\ Len(Append(usedIds, sat)) = Len(usedIds) + 1
  BY <1>1
<1>3. Len(usedIds) \in Nat
  BY <1>1
<1>4. QED
  BY <1>1, <1>2, <1>3 DEF UsedRecord

\* Marking changes the marks only.
LEMMA MarkedTypes ==
  ASSUME SkyTypeOK
  PROVE  /\ Marked \in Seq(Entries) /\ Len(Marked) = Len(satBuild)
         /\ \A k \in DOMAIN satBuild :
              /\ Marked[k].sat = satBuild[k].sat /\ Marked[k].cn0 = satBuild[k].cn0
              /\ Marked[k].used <=> satBuild[k].used
                                    \/ \E u \in DOMAIN usedIds : usedIds[u] = satBuild[k].sat
<1> DEFINE By(k) == \E u \in DOMAIN usedIds : usedIds[u] = satBuild[k].sat
<1>1. satBuild \in Seq(Entries) /\ Len(satBuild) \in Nat /\ DOMAIN satBuild = 1..Len(satBuild)
  BY DEF SkyTypeOK
<1>2. Marked = [k \in 1..Len(satBuild) |-> [satBuild[k] EXCEPT !.used = @ \/ By(k)]]
  BY <1>1, Zenon DEF Marked
<1> HIDE DEF By
<1>3. ASSUME NEW k \in 1..Len(satBuild)
      PROVE  /\ [satBuild[k] EXCEPT !.used = @ \/ By(k)] \in Entries
             /\ [satBuild[k] EXCEPT !.used = @ \/ By(k)].sat = satBuild[k].sat
             /\ [satBuild[k] EXCEPT !.used = @ \/ By(k)].cn0 = satBuild[k].cn0
             /\ [satBuild[k] EXCEPT !.used = @ \/ By(k)].used <=> satBuild[k].used \/ By(k)
  <2>1. satBuild[k] \in Entries
    BY <1>1
  <2> DEFINE e == satBuild[k]
             b == e.used \/ By(k)
  <2>2. e \in Entries
    BY <2>1
  <2>3. b \in BOOLEAN
    OBVIOUS
  <2>4. [satBuild[k] EXCEPT !.used = @ \/ By(k)] = [e EXCEPT !.used = b]
    OBVIOUS
  <2>5. b <=> satBuild[k].used \/ By(k)
    OBVIOUS
  <2> HIDE DEF e, b
  <2>6. /\ [e EXCEPT !.used = b] \in Entries /\ [e EXCEPT !.used = b].sat = e.sat
        /\ [e EXCEPT !.used = b].cn0 = e.cn0 /\ [e EXCEPT !.used = b].used = b
    BY <2>2, <2>3 DEF Entries
  <2>7. QED
    BY <2>4, <2>5, <2>6 DEF e
<1> DEFINE F(k) == [satBuild[k] EXCEPT !.used = @ \/ By(k)]
<1>4. Marked = [k \in 1..Len(satBuild) |-> F(k)]
  BY <1>2
<1>5. \A k \in 1..Len(satBuild) :
         /\ F(k) \in Entries /\ F(k).sat = satBuild[k].sat /\ F(k).cn0 = satBuild[k].cn0
         /\ F(k).used <=> satBuild[k].used \/ By(k)
  BY <1>3
<1> HIDE DEF F
<1>6. Marked \in [1..Len(satBuild) -> Entries]
  BY <1>4, <1>5
<1>7. Marked \in Seq(Entries) /\ Len(Marked) = Len(satBuild)
  BY <1>1, <1>6, LenProperties, SeqDef
<1>8. QED
  BY <1>1, <1>4, <1>5, <1>7 DEF By

\* Every action leaves the state well typed.
LEMMA SkyTypeStep ==
  ASSUME SkyTypeOK, SaysInv, TableInv, [SkyNext]_skyVars PROVE SkyTypeOK'
<1> USE DEF receiverVars, buildVars, tableVars, totalVars, historyVars
<1>f. /\ sky \in Seq(Sights) /\ Len(sky) \in Nat /\ DOMAIN sky = 1..Len(sky)
      /\ \A i \in DOMAIN sky : sky[i] \in Sights
      /\ Talkers \in Seq(STRING) /\ Len(Talkers) \in Nat \ {0}
      /\ DOMAIN Talkers = 1..Len(Talkers)
  BY SkyFacts DEF SkyTypeOK
<1>m. MaxSats \in Nat \ {0} /\ MaxSweeps \in Nat \ {0} /\ MaxLost \in Nat /\ PerLine \in Nat \ {0}
  BY SkyAssumption
<1>t. says.talker \in Nat /\ says.from \in Nat \ {0}
  BY DEF SkyTypeOK, Sentences
<1>1. CASE ParseGga
  <2>0. sky \in Skies
    BY DEF SkyTypeOK
  <2>1. qSatsUsed' \in Nat /\ says' \in Sentences
    BY <1>1, <2>0, SumTypes, FollowingType DEF ParseGga
  <2>2. QED
    BY <1>1, <2>1 DEF ParseGga, SkyTypeOK
<1>2. CASE ParseGsa
  BY <1>2, <1>t DEF ParseGsa, SkyTypeOK
<1>3. CASE RecordUsed
  <2> DEFINE talker == IF combined THEN "GN" ELSE Talkers[says.talker]
  <2>1. nth \in DOMAIN sky
    BY <1>3 DEF RecordUsed, Holds, InView
  <2>2. sky[nth].id \in Nat
    BY <1>f, <2>1 DEF Sights
  <2>3. Svid(Sys(talker), sky[nth].id) \in Systems \X Nat
    BY <2>2, SvidType
  <2> DEFINE sat == Svid(Sys(talker), sky[nth].id)
  <2>4. usedIds' = IF sky[nth].used THEN UsedRecord(usedIds, sat) ELSE usedIds
    BY <1>3 DEF RecordUsed
  <2>5. sat \in Systems \X Nat
    BY <2>3
  <2> HIDE DEF sat
  <2>6. /\ UsedRecord(usedIds, sat) \in Seq(Systems \X Nat)
        /\ Len(UsedRecord(usedIds, sat)) <= MaxSats
    BY <2>5, NameTypes
  <2>7. usedIds' \in Seq(Systems \X Nat) /\ Len(usedIds') <= MaxSats
    BY <2>4, <2>6 DEF SkyTypeOK
  <2>8. /\ nth' = nth + 1
        /\ UNCHANGED <<receiverVars, says, satBuild, place, tableVars, totalVars, historyVars>>
    BY <1>3 DEF RecordUsed
  <2>9. QED
    BY <2>7, <2>8 DEF SkyTypeOK
<1>4. CASE ParsedGsa
  <2>1. nth \in Nat \ {0}
    BY <1>4, <1>f DEF ParsedGsa, SaysInv, Reached
  <2>2. says' \in Sentences
    BY <1>4, <2>1, FollowingType DEF ParsedGsa
  <2>3. QED
    BY <1>4, <2>2 DEF ParsedGsa, SkyTypeOK
<1>5. CASE ParseGsv
  <2>1. says.talker \in DOMAIN Talkers
    BY <1>5 DEF ParseGsv, Hears, SaysInv
  <2>2. gsvTalker' \in Names
    BY <1>5, <2>1 DEF ParseGsv, Names
  <2>3. gsvTracked' \in Nat
    BY <1>5 DEF ParseGsv, SkyTypeOK
  <2>4. /\ place' = "gsv" /\ nth' = says.from
        /\ UNCHANGED <<receiverVars, says, buildVars, tableVars, qSatsUsed, qSats,
                       qSatsTracked, historyVars>>
    BY <1>5 DEF ParseGsv
  <2>5. QED
    BY <2>2, <2>3, <2>4, <1>t DEF SkyTypeOK
<1>6. CASE RecordSat
  <2>1. nth \in DOMAIN sky
    BY <1>6 DEF RecordSat, Holds, InView
  <2>2. Entry(sky[nth]) \in Entries
    BY <1>f, <2>1, EntryType
  <2>3. satBuild' \in Seq(Entries) /\ Len(satBuild') <= MaxSats
    BY <1>6, <2>2, RecordTypes DEF RecordSat
  <2>4. gsvTracked' \in Nat
    BY <1>6 DEF RecordSat, SkyTypeOK
  <2>5. /\ nth' = nth + 1
        /\ UNCHANGED <<receiverVars, says, usedIds, place, tableVars, gsvTalker, qSatsUsed,
                       qSats, qSatsTracked, historyVars>>
    BY <1>6 DEF RecordSat
  <2>6. QED
    BY <2>3, <2>4, <2>5 DEF SkyTypeOK
<1>7. CASE ParsedGsv
  <2>1. nth \in Nat \ {0}
    BY <1>7, <1>f DEF ParsedGsv, SaysInv, Reached
  <2>2. says' \in Sentences
    BY <1>7, <2>1, FollowingType DEF ParsedGsv
  <2> DEFINE name == Total(Talkers[says.talker])
             n    == Cardinality(InView(says.talker))
  <2>3. name \in Totals /\ n \in Nat
    BY TotalType, SumTypes DEF SkyTypeOK
  <2>4. qSats' = qSats \/ qSats' = [qSats EXCEPT ![name] = n]
    BY <1>7 DEF ParsedGsv
  <2> HIDE DEF name, n
  <2>5. qSats' \in [Totals -> Nat]
    BY <2>3, <2>4 DEF SkyTypeOK
  <2>6. qSatsTracked' \in Nat
    BY <1>7 DEF ParsedGsv, SkyTypeOK
  <2>7. /\ place' = "listen" /\ nth' = 0
        /\ UNCHANGED <<receiverVars, buildVars, tableVars, gsvTalker, gsvTracked, qSatsUsed,
                       historyVars>>
    BY <1>7 DEF ParsedGsv
  <2>8. QED
    BY <2>2, <2>5, <2>6, <2>7 DEF SkyTypeOK
<1>8. CASE ParseRmcVoid
  <2>1. says' \in Sentences
    BY <1>8, FollowingType DEF ParseRmcVoid
  <2>2. QED
    BY <1>8, <2>1 DEF ParseRmcVoid, SkyTypeOK
<1>9. CASE SatCommitCycle
  <2>1. says' \in Sentences
    BY <1>9, FollowingType DEF SatCommitCycle
  <2>2. satBuild' \in Seq(Entries) /\ Len(satBuild') <= MaxSats
    BY <1>9, <1>m, MarkedTypes DEF SatCommitCycle, Cleared, SkyTypeOK
  <2>3. usedIds' \in Seq(Systems \X Nat) /\ Len(usedIds') <= MaxSats
    BY <1>9, <1>m DEF SatCommitCycle, Cleared, SkyTypeOK
  <2>4. place' \in {"listen", "head"} /\ nth' \in Nat
    BY <1>9 DEF SatCommitCycle, Hears, SkyTypeOK
  <2>5. clean' = TRUE /\ whole' = clean
        /\ UNCHANGED <<receiverVars, tableVars, totalVars, shown>>
    BY <1>9 DEF SatCommitCycle
  <2>6. QED
    BY <2>1, <2>2, <2>3, <2>4, <2>5 DEF SkyTypeOK
<1>10. CASE CopyHead
  <2>1. nth \in 1..MaxSats /\ satBuild[nth] \in Entries
    BY <1>10, <1>m DEF CopyHead, TableInv, SkyTypeOK
  <2> DEFINE e == [satPub[nth] EXCEPT !.sat = satBuild[nth].sat, !.cn0 = satBuild[nth].cn0]
  <2>2. e \in Entries
    BY <2>1 DEF SkyTypeOK, Entries
  <2>3. satPub' = [satPub EXCEPT ![nth] = e]
    BY <1>10, <2>1 DEF CopyHead, SkyTypeOK
  <2> HIDE DEF e
  <2>4. satPub' \in [1..MaxSats -> Entries]
    BY <2>2, <2>3 DEF SkyTypeOK
  <2>5. place' = "tail" /\ UNCHANGED <<receiverVars, says, buildVars, nth, satPubN, totalVars,
                                       historyVars>>
    BY <1>10 DEF CopyHead
  <2>6. QED
    BY <2>4, <2>5 DEF SkyTypeOK
<1>11. CASE CopyTail
  <2>1. nth \in 1..MaxSats /\ satBuild[nth] \in Entries
    BY <1>11, <1>m DEF CopyTail, TableInv, SkyTypeOK
  <2> DEFINE e == [satPub[nth] EXCEPT !.used = satBuild[nth].used]
  <2>2. e \in Entries
    BY <2>1 DEF SkyTypeOK, Entries
  <2>3. satPub' = [satPub EXCEPT ![nth] = e]
    BY <1>11, <2>1 DEF CopyTail, SkyTypeOK
  <2> HIDE DEF e
  <2>4. satPub' \in [1..MaxSats -> Entries]
    BY <2>2, <2>3 DEF SkyTypeOK
  <2>5. /\ place' \in {"head", "count"} /\ nth' \in Nat
        /\ UNCHANGED <<receiverVars, says, buildVars, satPubN, totalVars, historyVars>>
    BY <1>11 DEF CopyTail, SkyTypeOK
  <2>6. QED
    BY <2>4, <2>5 DEF SkyTypeOK
<1>12. CASE PublishCount
  BY <1>12, <1>m DEF PublishCount, Cleared, SkyTypeOK
<1>13. CASE NextCycle
  <2>1. says' \in Sentences
    BY <1>13 DEF NextCycle, Says, Sentences
  <2>2. sweep' \in 1..MaxSweeps
    BY <1>13, <1>m DEF NextCycle, SkyTypeOK
  <2>3. /\ sky' \in Skies /\ fix' \in BOOLEAN /\ whole' = FALSE
        /\ UNCHANGED <<combined, lost, buildVars, place, nth, tableVars, totalVars, clean, shown>>
    BY <1>13 DEF NextCycle
  <2>4. QED
    BY <2>1, <2>2, <2>3 DEF SkyTypeOK
<1>14. CASE Loses
  <2>1. says' \in Sentences
    BY <1>14, <1>t, <1>f, FollowingType DEF Loses
  <2>2. lost' \in 0..MaxLost
    BY <1>14, <1>m DEF Loses, SkyTypeOK
  <2>3. /\ clean' = FALSE
        /\ UNCHANGED <<sweep, sky, fix, combined, buildVars, place, nth, tableVars, totalVars,
                       whole, shown>>
    BY <1>14 DEF Loses
  <2>4. QED
    BY <2>1, <2>2, <2>3 DEF SkyTypeOK
<1>15. CASE UNCHANGED skyVars
  BY <1>15 DEF skyVars, SkyTypeOK
<1>16. QED
  BY <1>1, <1>2, <1>3, <1>4, <1>5, <1>6, <1>7, <1>8, <1>9, <1>10, <1>11, <1>12, <1>13, <1>14,
     <1>15 DEF SkyNext, UartTask

-----------------------------------------------------------------------------
(* The receiver's cycle.                                                   *)

\* After a sentence that ended before satellite i, the next one begins there, and
\* what was named is the satellites before it.
LEMMA NextSentence ==
  ASSUME SkyTypeOK, SaysInv, says.kind \in {"GSA", "GSV"},
         NEW i \in 1..(Len(sky) + 1), Divides(i), ~Holds(i),
         says' = Following(i), place' = "listen", sky' = sky
  PROVE  /\ SaysInv' /\ says'.kind \notin {"none", "GGA"}
         /\ says.kind = "GSV" => says'.kind # "GSA"
         /\ Viewed' = (IF says.kind = "GSV" THEN i - 1 ELSE 0)
         /\ Named' = (IF says.kind = "GSA" THEN i - 1 ELSE Len(sky))
         /\ Summed' = (IF says.kind = "GSA" THEN 0
                       ELSE IF i \in InView(says.talker) THEN says.talker - 1 ELSE says.talker)
<1>f. /\ sky \in Seq(Sights) /\ Len(sky) \in Nat /\ DOMAIN sky = 1..Len(sky)
      /\ \A j \in DOMAIN sky : sky[j] \in Sights
      /\ \A j, k \in DOMAIN sky : j < k => sky[j].talker <= sky[k].talker
      /\ Len(Talkers) \in Nat \ {0} /\ DOMAIN Talkers = 1..Len(Talkers)
  BY SkyFacts DEF SkyTypeOK
<1>s. \A j \in DOMAIN sky : sky[j].talker \in 1..Len(Talkers)
  BY <1>f DEF Sights
<1> DEFINE t == says.talker
<1>t. t \in 1..Len(Talkers)
  BY <1>f DEF SaysInv
<1>d. \A j \in DOMAIN sky : IF j < i THEN sky[j].talker <= t ELSE t <= sky[j].talker
  BY DEF Divides
<1>n. InView(t) = {j \in DOMAIN sky : sky[j].talker = t}
  BY DEF InView
<1>h. says.kind = "GSA" => i \notin InView(t)
  BY DEF Holds
<1> HIDE DEF t
<1>1. ASSUME i \notin InView(t)
      PROVE  \A j \in DOMAIN sky : IF j < i THEN sky[j].talker <= t ELSE t + 1 <= sky[j].talker
  <2>1. i \in DOMAIN sky => t + 1 <= sky[i].talker
    BY <1>1, <1>d, <1>n, <1>s, <1>t
  <2>2. ASSUME NEW j \in DOMAIN sky, ~(j < i) PROVE t + 1 <= sky[j].talker
    <3>1. i \in DOMAIN sky /\ (j = i \/ i < j)
      BY <1>f, <2>2
    <3>2. i < j => sky[i].talker <= sky[j].talker
      BY <3>1, <1>f
    <3>3. sky[i].talker \in Nat /\ sky[j].talker \in Nat
      BY <3>1, <1>s
    <3>4. QED
      BY <2>1, <3>1, <3>2, <3>3, <1>t
  <2>3. QED
    BY <2>2, <1>d
<1>2. ASSUME i \notin InView(t), t = Len(Talkers) PROVE i = Len(sky) + 1
  <2>1. i \notin DOMAIN sky
    BY <1>1, <1>2, <1>s, <1>t
  <2>2. QED
    BY <2>1, <1>f
<1>3. \A j \in DOMAIN sky : 1 <= j /\ 1 <= sky[j].talker
  BY <1>s, <1>f
<1>4. CASE says.kind = "GSA" /\ t < Len(Talkers)
  <2>1. says'.kind = "GSA" /\ says'.talker = t + 1 /\ says'.from = i
    BY <1>4 DEF Following, Says, t
  <2>2. \A j \in DOMAIN sky : IF j < i THEN sky[j].talker <= t ELSE t + 1 <= sky[j].talker
    BY <1>1, <1>4, <1>h, Zenon
  <2>3. t + 1 \in DOMAIN Talkers
    BY <1>4, <1>f, <1>t
  <2>4. Divides(i)'
    BY <1>f, <1>s, <1>t, <2>1, <2>2 DEF Divides
  <2>5. SaysInv'
    BY <1>f, <2>1, <2>3, <2>4 DEF SaysInv, Reached, Copying
  <2>6. Named' = i - 1 /\ Viewed' = 0 /\ Summed' = 0
    BY <1>t, <2>1 DEF Named, Viewed, Summed, Reached
  <2>7. QED
    BY <1>4, <2>1, <2>5, <2>6
<1>5. CASE says.kind = "GSA" /\ t = Len(Talkers)
  <2>1. says'.kind = "GSV" /\ says'.talker = 1 /\ says'.from = 1
    BY <1>5, <1>t DEF Following, Says, t
  <2>2. SaysInv' /\ Named' = Len(sky) /\ Viewed' = 0 /\ Summed' = 0
    BY <1>3, <1>f, <2>1 DEF SaysInv, Named, Viewed, Summed, Reached, Divides, Copying
  <2>3. QED
    BY <1>2, <1>5, <1>f, <1>h, <2>1, <2>2
<1>6. CASE says.kind = "GSV" /\ i \in InView(t)
  <2>1. says'.kind = "GSV" /\ says'.talker = t /\ says'.from = i
    BY <1>6 DEF Following, Says, t
  <2>2. SaysInv' /\ Named' = Len(sky) /\ Viewed' = i - 1 /\ Summed' = t - 1
    BY <1>d, <1>f, <1>t, <2>1 DEF SaysInv, Named, Viewed, Summed, Reached, Divides, Copying
  <2>3. QED
    BY <1>6, <2>1, <2>2 DEF t
<1>7. CASE says.kind = "GSV" /\ i \notin InView(t) /\ t < Len(Talkers)
  <2>1. says'.kind = "GSV" /\ says'.talker = t + 1 /\ says'.from = i
    BY <1>7 DEF Following, Says, t
  <2>2. \A j \in DOMAIN sky : IF j < i THEN sky[j].talker <= t ELSE t + 1 <= sky[j].talker
    BY <1>1, <1>7, Zenon
  <2>3. t + 1 \in DOMAIN Talkers
    BY <1>7, <1>f, <1>t
  <2>4. Divides(i)'
    BY <1>f, <1>s, <1>t, <2>1, <2>2 DEF Divides
  <2>5. SaysInv'
    BY <1>f, <2>1, <2>3, <2>4 DEF SaysInv, Reached, Copying
  <2>6. Named' = Len(sky) /\ Viewed' = i - 1 /\ Summed' = t
    BY <1>t, <2>1 DEF Named, Viewed, Summed, Reached
  <2>7. QED
    BY <1>7, <2>1, <2>5, <2>6 DEF t
<1>8. CASE says.kind = "GSV" /\ i \notin InView(t) /\ t = Len(Talkers)
  <2>1. says'.kind = "RMC" /\ says'.talker = 0 /\ says'.from = 1
    BY <1>8 DEF Following, Says, t
  <2>2. SaysInv' /\ Named' = Len(sky) /\ Viewed' = Len(sky) /\ Summed' = t
    BY <1>8, <2>1 DEF SaysInv, Named, Viewed, Summed, Reached, Copying
  <2>3. QED
    BY <1>2, <1>8, <1>f, <2>1, <2>2 DEF t
<1>9. QED
  BY <1>4, <1>5, <1>6, <1>7, <1>8, <1>t

\* A sentence ends somewhere in the sky: the satellites it holds are the
\* talker's own.
LEMMA EndDivides ==
  ASSUME SkyTypeOK, SaysInv, place = "listen", says.kind \in {"GSA", "GSV"},
         NEW i \in says.from..(Len(sky) + 1), EndsAt(i)
  PROVE  i \in 1..(Len(sky) + 1) /\ Divides(i) /\ ~Holds(i)
<1>1. DOMAIN sky = 1..Len(sky) /\ Len(sky) \in Nat
  BY SkyFacts DEF SkyTypeOK
<1>2. says.from \in 1..(Len(sky) + 1) /\ Divides(says.from)
  BY DEF SaysInv, Reached
<1>3. \A j \in DOMAIN sky : says.from <= j /\ j < i => sky[j].talker = says.talker
  BY <1>1, <1>2 DEF EndsAt, Holds, InView
<1>4. \A j \in DOMAIN sky : sky[j].talker \in Nat
  BY SkyFacts DEF SkyTypeOK, Sights
<1>5. says.talker \in Nat
  BY DEF SkyTypeOK, Sentences
<1>6. Divides(i)
  BY <1>1, <1>2, <1>3, <1>4, <1>5 DEF Divides
<1>7. QED
  BY <1>1, <1>2, <1>6 DEF EndsAt

\* Past a satellite that the sentence holds.
LEMMA PastDivides ==
  ASSUME SkyTypeOK, NEW i \in Nat, Divides(i), Holds(i)
  PROVE  i \in 1..Len(sky) /\ Divides(i + 1)
<1>1. DOMAIN sky = 1..Len(sky) /\ Len(sky) \in Nat
  BY SkyFacts DEF SkyTypeOK
<1>2. i \in DOMAIN sky /\ sky[i].talker = says.talker
  BY DEF Holds, InView
<1>3. says.talker \in Nat
  BY DEF SkyTypeOK, Sentences
<1>4. QED
  BY <1>1, <1>2, <1>3 DEF Divides

\* The end of a sentence names nobody new.
LEMMA ParsedLeaves ==
  ASSUME SkyTypeOK, SaysInv, ParsedGsa \/ ParsedGsv
  PROVE  /\ SaysInv' /\ Viewed' = Viewed /\ Named' = Named
         /\ says'.kind \in {"GSA", "GSV", "RMC"} /\ (ParsedGsv => says'.kind # "GSA")
         /\ place' = "listen" /\ sky' = sky
         /\ ParsedGsa => says.kind = "GSA" /\ Summed' = 0
         /\ ParsedGsv => /\ says.kind = "GSV"
                         /\ Summed' = IF nth \in InView(says.talker) THEN says.talker - 1
                                      ELSE says.talker
<1>1. /\ says' = Following(nth) /\ place' = "listen" /\ sky' = sky /\ ~Holds(nth)
      /\ place \in {"gsa", "gsv"}
  BY DEF ParsedGsa, ParsedGsv, receiverVars
<1>2. (ParsedGsa => says.kind = "GSA") /\ (ParsedGsv => says.kind = "GSV")
  BY DEF ParsedGsa, ParsedGsv, SaysInv
<1>3. nth \in 1..(Len(sky) + 1) /\ Divides(nth) /\ Reached = nth
  BY <1>1, <1>2 DEF SaysInv, Reached
<1>4. /\ SaysInv' /\ says'.kind \notin {"none", "GGA"} /\ (says.kind = "GSV" => says'.kind # "GSA")
      /\ Viewed' = (IF says.kind = "GSV" THEN nth - 1 ELSE 0)
      /\ Named' = (IF says.kind = "GSA" THEN nth - 1 ELSE Len(sky))
      /\ Summed' = (IF says.kind = "GSA" THEN 0
                    ELSE IF nth \in InView(says.talker) THEN says.talker - 1 ELSE says.talker)
  BY <1>1, <1>2, <1>3, NextSentence
<1>5. Viewed = (IF says.kind = "GSV" THEN nth - 1 ELSE 0)
  BY <1>2, <1>3 DEF Viewed
<1>6. Named = (IF says.kind = "GSA" THEN nth - 1 ELSE Len(sky))
  BY <1>2, <1>3 DEF Named
<1>7. says'.kind \in {"GGA", "GSA", "GSV", "RMC", "none"}
  <2>1. nth \in Nat \ {0}
    BY <1>3, SkyFacts DEF SkyTypeOK
  <2>2. says' \in Sentences
    BY <1>1, <2>1, FollowingType
  <2>3. QED
    BY <2>2 DEF Sentences
<1>8. QED
  BY <1>1, <1>2, <1>4, <1>5, <1>6, <1>7

\* The beginning of a sentence names nobody.
LEMMA ParseLeaves ==
  ASSUME SkyTypeOK, SaysInv, ParseGsa \/ ParseGsv
  PROVE  /\ SaysInv' /\ Viewed' = Viewed /\ Named' = Named /\ Summed' = Summed
         /\ place \notin {"head", "tail", "count"} /\ place' \notin {"head", "tail", "count"}
<1>1. /\ place = "listen" /\ nth' = says.from /\ says' = says /\ sky' = sky
      /\ \/ says.kind = "GSA" /\ place' = "gsa"
         \/ says.kind = "GSV" /\ place' = "gsv"
  BY DEF ParseGsa, ParseGsv, Hears, receiverVars
<1>2. Reached' = Reached
  BY <1>1 DEF Reached
<1>3. SaysInv'
  BY <1>1, <1>2 DEF SaysInv, Divides, Copying
<1>4. QED
  BY <1>1, <1>2, <1>3 DEF Viewed, Named, Summed

\* A field read names one satellite more.
LEMMA RecordLeaves ==
  ASSUME SkyTypeOK, SaysInv, RecordUsed \/ RecordSat
  PROVE  /\ SaysInv' /\ Summed' = Summed /\ sky' = sky /\ says' = says /\ place' = place
         /\ nth \in DOMAIN sky /\ sky[nth].talker = says.talker /\ sky[nth] \in Sights
         /\ RecordUsed => /\ place = "gsa" /\ Viewed = 0 /\ Viewed' = 0
                          /\ Named = nth - 1 /\ Named' = nth
         /\ RecordSat => /\ place = "gsv" /\ Viewed = nth - 1 /\ Viewed' = nth
                         /\ Named = Len(sky) /\ Named' = Len(sky)
<1>1. /\ nth' = nth + 1 /\ says' = says /\ sky' = sky /\ place' = place /\ Holds(nth)
      /\ (RecordUsed => place = "gsa") /\ (RecordSat => place = "gsv")
  BY DEF RecordUsed, RecordSat, receiverVars
<1>2. /\ DOMAIN sky = 1..Len(sky) /\ Len(sky) \in Nat /\ nth \in Nat
      /\ \A j \in DOMAIN sky : sky[j] \in Sights
  BY SkyFacts DEF SkyTypeOK
<1>3. /\ (place = "gsa" => says.kind = "GSA") /\ (place = "gsv" => says.kind = "GSV")
      /\ place \in {"gsa", "gsv"}
  BY <1>1 DEF SaysInv
<1>4. Reached = nth /\ Reached' = nth + 1 /\ Divides(nth) /\ says.talker \in DOMAIN Talkers
  BY <1>1, <1>3 DEF Reached, SaysInv
<1>5. nth \in 1..Len(sky) /\ Divides(nth + 1)
  BY <1>1, <1>2, <1>4, PastDivides
<1>6. Divides(nth)'
  BY <1>1, <1>2, <1>5 DEF Divides
<1>7. SaysInv'
  BY <1>1, <1>2, <1>3, <1>4, <1>5, <1>6 DEF SaysInv, Copying
<1>8. sky[nth].talker = says.talker
  BY <1>1 DEF Holds, InView
<1>9. place = "gsa" => Viewed = 0 /\ Viewed' = 0 /\ Named = nth - 1 /\ Named' = nth
  BY <1>1, <1>2, <1>3, <1>4 DEF Viewed, Named
<1>10. place = "gsv" => /\ Viewed = nth - 1 /\ Viewed' = nth
                        /\ Named = Len(sky) /\ Named' = Len(sky)
  BY <1>1, <1>2, <1>3, <1>4 DEF Viewed, Named
<1>11. Summed' = Summed
  BY <1>1 DEF Summed
<1>12. QED
  BY <1>1, <1>2, <1>5, <1>7, <1>8, <1>9, <1>10, <1>11

\* A sentence lost is skipped.
LEMMA LosesLeaves ==
  ASSUME SkyTypeOK, SaysInv, Loses
  PROVE  /\ SaysInv' /\ clean' = FALSE /\ place = "listen" /\ place' = "listen" /\ sky' = sky
         /\ says.kind # "none"
<1>1. /\ place = "listen" /\ place' = "listen" /\ sky' = sky /\ clean' = FALSE
      /\ says.kind # "none"
      /\ \E i \in says.from..(Len(sky) + 1) : EndsAt(i) /\ says' = Following(i)
  BY DEF Loses
<1>2. Len(Talkers) \in Nat \ {0} /\ DOMAIN Talkers = 1..Len(Talkers)
  BY SkyFacts DEF SkyTypeOK
<1>3. says.kind \in {"GGA", "GSA", "GSV", "RMC", "none"}
  BY DEF SkyTypeOK, Sentences
<1>4. CASE says.kind = "GGA"
  <2>1. says'.kind = "GSA" /\ says'.talker = 1 /\ says'.from = 1
    BY <1>1, <1>4 DEF Following, Says
  <2>2. \A j \in DOMAIN sky : 1 <= j /\ 1 <= sky[j].talker
    BY SkyFacts DEF SkyTypeOK, Sights
  <2>3. DOMAIN sky = 1..Len(sky) /\ Len(sky) \in Nat
    BY SkyFacts DEF SkyTypeOK
  <2>4. SaysInv'
    BY <1>1, <1>2, <2>1, <2>2, <2>3 DEF SaysInv, Reached, Divides, Copying
  <2>5. QED
    BY <1>1, <2>4
<1>5. CASE says.kind = "RMC"
  <2>1. says'.kind = "none" /\ says'.talker = 0 /\ says'.from = 1
    BY <1>1, <1>5 DEF Following, Says
  <2>2. SaysInv'
    BY <1>1, <2>1 DEF SaysInv, Copying
  <2>3. QED
    BY <1>1, <2>2
<1>6. CASE says.kind \in {"GSA", "GSV"}
  <2>1. PICK i \in says.from..(Len(sky) + 1) : EndsAt(i) /\ says' = Following(i)
    BY <1>1
  <2>2. i \in 1..(Len(sky) + 1) /\ Divides(i) /\ ~Holds(i)
    BY <1>1, <1>6, <2>1, EndDivides
  <2>3. SaysInv'
    BY <1>1, <1>6, <2>1, <2>2, NextSentence
  <2>4. QED
    BY <1>1, <2>3
<1>7. QED
  BY <1>1, <1>3, <1>4, <1>5, <1>6

\* The rest of the cycle: GGA, the RMC and what follows it.
LEMMA GgaLeaves ==
  ASSUME SkyTypeOK, SaysInv, ParseGga
  PROVE  /\ SaysInv' /\ says.kind = "GGA" /\ says'.kind = "GSA" /\ says'.from = 1
         /\ place = "listen" /\ place' = "listen"
<1>1. /\ place = "listen" /\ place' = "listen" /\ sky' = sky
      /\ says.kind = "GGA" /\ says' = Following(1)
  BY DEF ParseGga, Hears, receiverVars
<1>2. says'.kind = "GSA" /\ says'.talker = 1 /\ says'.from = 1
  BY <1>1 DEF Following, Says
<1>3. \A j \in DOMAIN sky : 1 <= j /\ 1 <= sky[j].talker
  BY SkyFacts DEF SkyTypeOK, Sights
<1>4. /\ DOMAIN sky = 1..Len(sky) /\ Len(sky) \in Nat
      /\ Len(Talkers) \in Nat \ {0} /\ DOMAIN Talkers = 1..Len(Talkers)
  BY SkyFacts DEF SkyTypeOK
<1>5. SaysInv'
  BY <1>1, <1>2, <1>3, <1>4 DEF SaysInv, Reached, Divides, Copying
<1>6. QED
  BY <1>1, <1>2, <1>5

\* The cycle's end and beginning.
LEMMA CycleLeaves ==
  ASSUME SkyTypeOK, SaysInv, ParseRmcVoid \/ SatCommitCycle \/ NextCycle
  PROVE  /\ SaysInv' /\ place = "listen" /\ says'.kind \in {"GGA", "none"}
         /\ NextCycle => place' = "listen" /\ says'.kind = "GGA"
         /\ ~NextCycle => says.kind = "RMC" /\ says'.kind = "none"
<1>1. /\ place = "listen" /\ place' \in {"listen", "head"}
      /\ NextCycle => place' = "listen" /\ says' = Says("GGA", 0, 1)
      /\ ParseRmcVoid \/ SatCommitCycle => says.kind = "RMC" /\ says' = Following(1)
      /\ place' = "head" => SatCommitCycle
  BY DEF ParseRmcVoid, SatCommitCycle, NextCycle, Hears
<1>2. /\ NextCycle => says'.kind = "GGA" /\ says'.talker = 0 /\ says'.from = 1
      /\ ParseRmcVoid \/ SatCommitCycle =>
           says'.kind = "none" /\ says'.talker = 0 /\ says'.from = 1
  BY <1>1 DEF Following, Says
<1>3. SaysInv'
  BY <1>1, <1>2 DEF SaysInv, Copying
<1>4. QED
  BY <1>1, <1>2, <1>3

\* A copy under way hears nothing.
LEMMA CopyLeaves ==
  ASSUME SkyTypeOK, SaysInv, CopyHead \/ CopyTail \/ PublishCount
  PROVE  SaysInv' /\ says' = says /\ says.kind = "none" /\ Copying /\ sky' = sky
<1>1. /\ Copying /\ place' \in {"listen", "head", "tail", "count"}
      /\ says' = says /\ sky' = sky
  BY DEF CopyHead, CopyTail, PublishCount, Copying, receiverVars
<1>2. says.kind = "none" /\ says.talker = 0 /\ says.from = 1
  BY <1>1 DEF SaysInv
<1>3. SaysInv'
  BY <1>1, <1>2 DEF SaysInv, Copying
<1>4. QED
  BY <1>1, <1>2, <1>3

\* Every sentence begins where the one before ended, heard or lost, and divides
\* the sky between the talkers done with and those to come.
LEMMA SaysStep ==
  ASSUME SkyTypeOK, SaysInv, [SkyNext]_skyVars PROVE SaysInv'
<1>1. CASE UNCHANGED skyVars
  BY <1>1 DEF skyVars, receiverVars, SaysInv, Reached, Divides, Copying
<1>2. QED
  BY <1>1, ParsedLeaves, ParseLeaves, RecordLeaves, LosesLeaves, GgaLeaves, CycleLeaves,
     CopyLeaves DEF SkyNext, UartTask

-----------------------------------------------------------------------------
(* The sweep collected.                                                    *)

\* What a parser's steps leave of the sweep and of the receiver's view.
LEMMA SweepLeaves ==
  ASSUME ParseGga \/ ParseGsa \/ ParsedGsa \/ ParseGsv \/ ParsedGsv
  PROVE  /\ UNCHANGED <<sweep, sky, combined, satBuild, usedIds, satPub, satPubN, shown,
                        clean, whole>>
         /\ ~Copying /\ ~Copying'
<1> USE DEF receiverVars, buildVars, tableVars, historyVars, Hears, Copying
<1>1. CASE ParseGga
  BY <1>1 DEF ParseGga
<1>2. CASE ParseGsa
  BY <1>2 DEF ParseGsa
<1>3. CASE ParsedGsa
  BY <1>3 DEF ParsedGsa
<1>4. CASE ParseGsv
  BY <1>4 DEF ParseGsv
<1>5. CASE ParsedGsv
  BY <1>5 DEF ParsedGsv
<1>6. QED
  BY <1>1, <1>2, <1>3, <1>4, <1>5

\* They name nobody.
LEMMA SweepKept ==
  ASSUME SkyTypeOK, SaysInv, ParseGga \/ ParseGsa \/ ParsedGsa \/ ParseGsv \/ ParsedGsv
  PROVE  Viewed' = Viewed /\ Named' = Named
<1>1. CASE ParseGga
  <2>1. /\ says.kind = "GGA" /\ says'.kind = "GSA" /\ says'.from = 1
        /\ place' = "listen"
    BY <1>1, GgaLeaves
  <2>2. QED
    BY <2>1 DEF Viewed, Named, Reached
<1>2. QED
  BY <1>1, ParsedLeaves, ParseLeaves

\* An entry depends on its sight and on the sweep.
LEMMA EntryKept ==
  ASSUME sweep' = sweep, NEW s PROVE Entry(s)' = Entry(s)
  BY DEF Entry, Identity

\* A satellite GSV names goes to the end of the table while it has room, and is
\* never in it already; what is lost ends the claim until the next commit.
LEMMA BuildStep ==
  ASSUME SkyTypeOK, SaysInv, BuildInv, [SkyNext]_skyVars PROVE BuildInv'
<1>m. MaxSats \in Nat \ {0} /\ AsFit(0) = 0
  BY SkyAssumption DEF AsFit
<1>f. /\ Len(sky) \in Nat /\ DOMAIN sky = 1..Len(sky)
      /\ \A j \in DOMAIN sky : sky[j] \in Sights
      /\ \A i, j \in DOMAIN sky : Identity(sky[i]) = Identity(sky[j]) => i = j
  BY SkyFacts DEF SkyTypeOK
<1>t. satBuild \in Seq(Entries)
  BY DEF SkyTypeOK
<1>1. CASE UNCHANGED <<satBuild, sky, sweep, clean>> /\ Viewed' = Viewed /\ ~Copying
  BY <1>1, EntryKept DEF BuildInv, AsFit
<1>2. CASE satBuild' = <<>> /\ Viewed' = 0
  BY <1>2, <1>m DEF BuildInv, AsFit
<1>3. CASE ~clean' \/ Copying'
  BY <1>3 DEF BuildInv
<1>4. CASE ParseGga \/ ParseGsa \/ ParsedGsa \/ ParseGsv \/ ParsedGsv
  BY <1>4, <1>1, SweepLeaves, SweepKept
<1>5. CASE RecordUsed
  <2>1. Viewed' = 0 /\ Viewed = 0 /\ place = "gsa"
    BY <1>5, RecordLeaves
  <2>2. UNCHANGED <<satBuild, sky, sweep, clean>>
    BY <1>5 DEF RecordUsed, receiverVars, historyVars
  <2>3. QED
    BY <1>1, <2>1, <2>2 DEF Copying
<1>6. CASE RecordSat
  <2>1. /\ Viewed = nth - 1 /\ Viewed' = nth /\ nth \in DOMAIN sky /\ place = "gsv"
        /\ place' = "gsv"
    BY <1>6, RecordLeaves
  <2>2. /\ UNCHANGED <<sky, sweep, clean>>
        /\ satBuild' = SatRecord(satBuild, Entry(sky[nth]))
    BY <1>6 DEF RecordSat, receiverVars, historyVars
  <2> SUFFICES ASSUME clean PROVE BuildInv'
    BY <1>3, <2>2
  <2>3. Len(satBuild) = AsFit(nth - 1) /\ \A k \in DOMAIN satBuild : satBuild[k] = Entry(sky[k])
    BY <2>1 DEF BuildInv, Copying
  <2>4. CASE Len(satBuild) >= MaxSats
    <3>1. satBuild' = satBuild
      BY <2>2, <2>4 DEF SatRecord
    <3>2. AsFit(nth) = AsFit(nth - 1)
      BY <2>1, <2>3, <2>4, <1>f, <1>m DEF AsFit
    <3>3. QED
      BY <2>1, <2>2, <2>3, <3>1, <3>2, EntryKept DEF BuildInv, AsFit
  <2>5. CASE Len(satBuild) < MaxSats
    <3> DEFINE e == Entry(sky[nth])
    <3>1. Len(satBuild) = nth - 1 /\ AsFit(nth) = nth
      BY <2>1, <2>3, <2>5, <1>f, <1>m DEF AsFit
    <3>2. e \in Entries /\ e.sat = Identity(sky[nth])
      BY <2>1, <1>f, EntryType
    <3>3. ASSUME NEW k \in DOMAIN satBuild PROVE satBuild[k].sat # e.sat
      <4>1. k \in DOMAIN sky /\ k # nth
        BY <1>f, <1>t, <2>1, <3>1
      <4>2. satBuild[k].sat = Identity(sky[k])
        BY <2>3, <4>1, <1>f, EntryType
      <4>3. QED
        BY <3>2, <4>1, <4>2, <1>f, <2>1
    <3>4. satBuild' = Append(satBuild, e)
      <4>1. ~(Len(satBuild) >= MaxSats)
        BY <2>5, <3>1, <2>1, <1>f, <1>m
      <4>2. QED
        BY <2>2, <3>3, <4>1 DEF SatRecord
    <3> HIDE DEF e
    <3>5. Len(satBuild') = nth /\ DOMAIN satBuild' = 1..nth
      BY <1>f, <1>t, <2>1, <3>1, <3>2, <3>4
    <3>6. ASSUME NEW k \in 1..nth PROVE satBuild'[k] = Entry(sky[k])
      <4>1. k # nth => satBuild'[k] = satBuild[k] /\ k \in DOMAIN satBuild
        BY <1>f, <1>t, <2>1, <3>1, <3>2, <3>4
      <4>2. k = nth => satBuild'[k] = e
        BY <1>f, <1>t, <2>1, <3>1, <3>2, <3>4
      <4>3. QED
        BY <2>3, <4>1, <4>2 DEF e
    <3>7. QED
      BY <2>1, <2>2, <3>1, <3>5, <3>6, EntryKept DEF BuildInv, AsFit
  <2>6. QED
    BY <2>4, <2>5, <1>t, <1>m
<1>7. CASE ParseRmcVoid \/ Loses
  BY <1>7, <1>3 DEF ParseRmcVoid, Loses
<1>8. CASE SatCommitCycle
  <2>1. says'.kind = "none"
    BY <1>8, CycleLeaves DEF SatCommitCycle, NextCycle, Hears
  <2>2. Viewed' = 0
    BY <2>1 DEF Viewed
  <2>3. satBuild' = <<>> \/ Copying'
    BY <1>8 DEF SatCommitCycle, Cleared, Copying
  <2>4. QED
    BY <1>2, <1>3, <2>2, <2>3
<1>9. CASE CopyHead \/ CopyTail
  BY <1>9, <1>3 DEF CopyHead, CopyTail, Copying
<1>10. CASE PublishCount
  <2>1. says'.kind = "none"
    BY <1>10, CopyLeaves
  <2>2. QED
    BY <1>2, <1>10, <2>1 DEF PublishCount, Cleared, Viewed
<1>11. CASE NextCycle
  <2>1. /\ says.kind = "none" /\ says'.kind = "GGA" /\ place = "listen"
        /\ satBuild' = satBuild /\ clean' = clean
    BY <1>11, CycleLeaves DEF NextCycle, Hears, buildVars
  <2>2. Viewed = 0 /\ Viewed' = 0
    BY <2>1 DEF Viewed
  <2>3. clean => satBuild = <<>>
    BY <1>m, <1>t, <2>1, <2>2 DEF BuildInv, Copying
  <2>4. QED
    BY <1>2, <1>3, <2>1, <2>2, <2>3 DEF SkyTypeOK
<1>12. CASE UNCHANGED skyVars
  BY <1>12 DEF skyVars, receiverVars, buildVars, historyVars, BuildInv, Viewed, Reached, Copying,
               AsFit, Entry, Identity
<1>13. QED
  BY <1>4, <1>5, <1>6, <1>7, <1>8, <1>9, <1>10, <1>11, <1>12 DEF SkyNext, UartTask

\* The list of the used ones, likewise.
LEMMA UsedStep ==
  ASSUME SkyTypeOK, SaysInv, UsedInv, [SkyNext]_skyVars PROVE UsedInv'
<1>m. MaxSats \in Nat \ {0} /\ AsFit(0) = 0
  BY SkyAssumption DEF AsFit
<1>f. /\ Len(sky) \in Nat /\ DOMAIN sky = 1..Len(sky)
      /\ \A j \in DOMAIN sky : sky[j] \in Sights
  BY SkyFacts DEF SkyTypeOK
<1>t. usedIds \in Seq(Systems \X Nat)
  BY DEF SkyTypeOK
<1>1. CASE UNCHANGED <<usedIds, sky, combined, clean>> /\ Named' = Named /\ ~Copying
  BY <1>1 DEF UsedInv, AsFit
<1>2. CASE usedIds' = <<>> /\ Named' = 0
  BY <1>2, <1>m DEF UsedInv, AsFit
<1>3. CASE ~clean' \/ Copying'
  BY <1>3 DEF UsedInv
<1>4. CASE ParseGga \/ ParseGsa \/ ParsedGsa \/ ParseGsv \/ ParsedGsv
  BY <1>4, <1>1, SweepLeaves, SweepKept
<1>5. CASE RecordSat
  <2>1. Named' = Named /\ place = "gsv"
    BY <1>5, RecordLeaves
  <2>2. UNCHANGED <<usedIds, sky, combined, clean>>
    BY <1>5 DEF RecordSat, receiverVars, historyVars
  <2>3. QED
    BY <1>1, <2>1, <2>2 DEF Copying
<1>6. CASE RecordUsed
  <2>1. /\ Named = nth - 1 /\ Named' = nth /\ nth \in DOMAIN sky /\ place = "gsa"
        /\ sky[nth].talker = says.talker
    BY <1>6, RecordLeaves
  <2> DEFINE talker == IF combined THEN "GN" ELSE Talkers[says.talker]
             sat    == Svid(Sys(talker), sky[nth].id)
  <2>2. /\ UNCHANGED <<sky, combined, clean>>
        /\ usedIds' = IF sky[nth].used THEN UsedRecord(usedIds, sat) ELSE usedIds
    BY <1>6 DEF RecordUsed, receiverVars, historyVars
  <2>3. sat \in Systems \X Nat
    BY <1>f, <2>1, SvidType DEF Sights
  <2>4. combined \/ sat = Identity(sky[nth])
    BY <2>1 DEF Identity
  <2> SUFFICES ASSUME clean PROVE UsedInv'
    BY <1>3, <2>2
  <2>5. /\ Len(usedIds) <= nth - 1
        /\ combined \/ \A u \in DOMAIN usedIds :
                         \E i \in 1..(nth - 1) : sky[i].used /\ usedIds[u] = Identity(sky[i])
        /\ combined \/ \A i \in 1..AsFit(nth - 1) :
                         sky[i].used => \E u \in DOMAIN usedIds : usedIds[u] = Identity(sky[i])
    BY <2>1 DEF UsedInv, Copying
  <2>6. Len(usedIds) \in Nat /\ DOMAIN usedIds = 1..Len(usedIds)
    BY <1>t
  <2> HIDE DEF sat
  <2>7. nth \in Nat \ {0} /\ nth <= Len(sky)
    BY <2>1, <1>f
  <2>8. CASE usedIds' = usedIds /\ (sky[nth].used => Len(usedIds) >= MaxSats)
    <3>1. ASSUME NEW i \in 1..AsFit(nth), sky[i].used PROVE i \in 1..AsFit(nth - 1)
      BY <1>m, <2>5, <2>6, <2>7, <2>8, <3>1 DEF AsFit
    <3>2. 1..(nth - 1) \subseteq 1..nth
      BY <2>7
    <3>3. combined \/ \A u \in DOMAIN usedIds :
                        \E i \in 1..nth : sky[i].used /\ usedIds[u] = Identity(sky[i])
      BY <2>5, <3>2
    <3>4. combined \/ \A i \in 1..AsFit(nth) :
                         sky[i].used => \E u \in DOMAIN usedIds : usedIds[u] = Identity(sky[i])
      BY <2>5, <3>1
    <3>5. Len(usedIds) <= nth
      BY <2>5, <2>6, <2>7
    <3>6. QED
      BY <2>1, <2>2, <2>8, <3>3, <3>4, <3>5 DEF UsedInv, AsFit
  <2>9. CASE sky[nth].used /\ usedIds' = Append(usedIds, sat)
    <3>1. /\ Len(usedIds') = Len(usedIds) + 1 /\ DOMAIN usedIds' = 1..(Len(usedIds) + 1)
          /\ \A u \in DOMAIN usedIds : usedIds'[u] = usedIds[u]
          /\ usedIds'[Len(usedIds) + 1] = sat
      BY <1>t, <2>3, <2>9
    <3>2. Len(usedIds') <= nth
      BY <2>5, <2>6, <2>7, <3>1
    <3>3. ASSUME ~combined, NEW u \in DOMAIN usedIds'
          PROVE  \E i \in 1..nth : sky[i].used /\ usedIds'[u] = Identity(sky[i])
      <4>1. CASE u = Len(usedIds) + 1
        BY <2>4, <2>7, <2>9, <3>1, <3>3, <4>1
      <4>2. CASE u \in DOMAIN usedIds
        <5>1. PICK i \in 1..(nth - 1) : sky[i].used /\ usedIds[u] = Identity(sky[i])
          BY <2>5, <3>3, <4>2
        <5>2. i \in 1..nth
          BY <2>7
        <5>3. QED
          BY <3>1, <4>2, <5>1, <5>2
      <4>3. QED
        BY <2>6, <3>1, <4>1, <4>2
    <3>4. ASSUME ~combined, NEW i \in 1..AsFit(nth), sky[i].used
          PROVE  \E u \in DOMAIN usedIds' : usedIds'[u] = Identity(sky[i])
      <4>1. CASE i = nth
        <5>1. Len(usedIds) + 1 \in DOMAIN usedIds'
          BY <2>6, <3>1
        <5>2. QED
          BY <2>4, <3>1, <3>4, <4>1, <5>1
      <4>2. CASE i # nth
        <5>1. i \in 1..AsFit(nth - 1)
          BY <1>m, <2>7, <4>2 DEF AsFit
        <5>2. PICK u \in DOMAIN usedIds : usedIds[u] = Identity(sky[i])
          BY <2>5, <3>4, <5>1
        <5>3. u \in DOMAIN usedIds'
          BY <2>6, <3>1
        <5>4. QED
          BY <3>1, <5>2, <5>3
      <4>3. QED
        BY <4>1, <4>2
    <3>5. combined \/ \A u \in DOMAIN usedIds' :
                        \E i \in 1..nth : sky[i].used /\ usedIds'[u] = Identity(sky[i])
      BY <3>3
    <3>6. combined \/ \A i \in 1..AsFit(nth) :
                        sky[i].used => \E u \in DOMAIN usedIds' : usedIds'[u] = Identity(sky[i])
      BY <3>4
    <3>7. QED
      BY <2>1, <2>2, <3>2, <3>5, <3>6 DEF UsedInv, AsFit
  <2>10. CASE ~sky[nth].used
    BY <2>2, <2>8, <2>10
  <2>11. CASE sky[nth].used /\ Len(usedIds) < MaxSats
    BY <2>2, <2>9, <2>11 DEF UsedRecord
  <2>12. CASE sky[nth].used /\ ~(Len(usedIds) < MaxSats)
    <3>1. Len(usedIds) >= MaxSats
      BY <1>m, <2>6, <2>12
    <3>2. usedIds' = usedIds
      BY <2>2, <2>12 DEF UsedRecord
    <3>3. QED
      BY <2>8, <3>1, <3>2
  <2>13. QED
    BY <2>10, <2>11, <2>12
<1>7. CASE ParseRmcVoid \/ Loses
  BY <1>7, <1>3 DEF ParseRmcVoid, Loses
<1>8. CASE SatCommitCycle
  <2>1. says'.kind = "none"
    BY <1>8, CycleLeaves DEF SatCommitCycle, NextCycle, Hears
  <2>2. Named' = 0
    BY <2>1 DEF Named
  <2>3. usedIds' = <<>> \/ Copying'
    BY <1>8 DEF SatCommitCycle, Cleared, Copying
  <2>4. QED
    BY <1>2, <1>3, <2>2, <2>3
<1>9. CASE CopyHead \/ CopyTail
  BY <1>9, <1>3 DEF CopyHead, CopyTail, Copying
<1>10. CASE PublishCount
  <2>1. says'.kind = "none"
    BY <1>10, CopyLeaves
  <2>2. QED
    BY <1>2, <1>10, <2>1 DEF PublishCount, Cleared, Named
<1>11. CASE NextCycle
  <2>1. /\ says.kind = "none" /\ says'.kind = "GGA" /\ place = "listen"
        /\ usedIds' = usedIds /\ clean' = clean
    BY <1>11, CycleLeaves DEF NextCycle, Hears, buildVars
  <2>2. Named = 0 /\ Named' = 0
    BY <2>1 DEF Named
  <2>3. clean => usedIds = <<>>
    BY <1>t, <2>1, <2>2 DEF UsedInv, Copying
  <2>4. QED
    BY <1>2, <1>3, <2>1, <2>2, <2>3
<1>12. CASE UNCHANGED skyVars
  BY <1>12 DEF skyVars, receiverVars, buildVars, historyVars, UsedInv, Named, Reached, Copying,
               AsFit, Identity
<1>13. QED
  BY <1>4, <1>5, <1>6, <1>7, <1>8, <1>9, <1>10, <1>11, <1>12 DEF SkyNext, UartTask

-----------------------------------------------------------------------------
(* The commit.                                                             *)

\* A sweep heard whole, once marked, is what the sky shows.
LEMMA MarkedShows ==
  ASSUME SkyTypeOK, BuildInv, UsedInv, clean, ~Copying, says.kind = "RMC"
  PROVE  Shows(Marked)
<1>f. /\ Len(sky) \in Nat /\ DOMAIN sky = 1..Len(sky)
      /\ \A j \in DOMAIN sky : sky[j] \in Sights
      /\ \A i, j \in DOMAIN sky : Identity(sky[i]) = Identity(sky[j]) => i = j
  BY SkyFacts DEF SkyTypeOK
<1>m. MaxSats \in Nat \ {0}
  BY SkyAssumption
<1>t. satBuild \in Seq(Entries) /\ DOMAIN satBuild = 1..Len(satBuild)
  BY DEF SkyTypeOK
<1>1. /\ Len(satBuild) = AsFit(Len(sky))
      /\ \A k \in DOMAIN satBuild : satBuild[k] = Entry(sky[k])
  BY DEF BuildInv, Viewed
<1>2. DOMAIN satBuild \subseteq DOMAIN sky
  BY <1>f, <1>m, <1>t, <1>1 DEF AsFit
<1>3. /\ Len(Marked) = Len(satBuild) /\ DOMAIN Marked = DOMAIN satBuild
      /\ \A k \in DOMAIN satBuild :
           /\ Marked[k].sat = satBuild[k].sat /\ Marked[k].cn0 = satBuild[k].cn0
           /\ Marked[k].used <=> satBuild[k].used
                                 \/ \E u \in DOMAIN usedIds : usedIds[u] = satBuild[k].sat
  <2>1. Marked \in Seq(Entries) /\ Len(Marked) = Len(satBuild)
    BY MarkedTypes
  <2>2. DOMAIN Marked = DOMAIN satBuild
    BY <2>1, <1>t
  <2>3. QED
    BY <2>1, <2>2, MarkedTypes
<1>4. ASSUME ~combined, NEW k \in DOMAIN satBuild
      PROVE  (\E u \in DOMAIN usedIds : usedIds[u] = Identity(sky[k])) <=> sky[k].used
  <2>1. k \in DOMAIN sky /\ k \in 1..AsFit(Len(sky))
    BY <1>1, <1>2, <1>4, <1>t
  <2>2. sky[k].used => \E u \in DOMAIN usedIds : usedIds[u] = Identity(sky[k])
    BY <1>4, <2>1 DEF UsedInv, Named
  <2>3. ASSUME NEW u \in DOMAIN usedIds, usedIds[u] = Identity(sky[k]) PROVE sky[k].used
    <3>1. PICK i \in 1..Len(sky) : sky[i].used /\ usedIds[u] = Identity(sky[i])
      BY <1>4 DEF UsedInv, Named
    <3>2. i = k
      BY <1>f, <2>1, <2>3, <3>1
    <3>3. QED
      BY <3>1, <3>2
  <2>4. QED
    BY <2>2, <2>3
<1>5. ASSUME NEW k \in DOMAIN satBuild
      PROVE  /\ Marked[k].sat = Entry(sky[k]).sat /\ Marked[k].cn0 = Entry(sky[k]).cn0
             /\ combined \/ Marked[k].used = sky[k].used
  <2>1. sky[k] \in Sights /\ satBuild[k] = Entry(sky[k])
    BY <1>1, <1>2, <1>f
  <2>2. satBuild[k].sat = Identity(sky[k]) /\ ~satBuild[k].used
    BY <2>1, EntryType
  <2>3. Marked[k].sat = Entry(sky[k]).sat /\ Marked[k].cn0 = Entry(sky[k]).cn0
    BY <1>3, <2>1
  <2>4. Marked[k].used <=> \E u \in DOMAIN usedIds : usedIds[u] = Identity(sky[k])
    BY <1>3, <2>2
  <2>5. Marked[k].used \in BOOLEAN /\ sky[k].used \in BOOLEAN
    <3>1. Marked \in Seq(Entries)
      BY MarkedTypes
    <3>2. Marked[k] \in Entries
      BY <1>3, <3>1
    <3>3. QED
      BY <2>1, <3>2 DEF Entries, Sights
  <2>6. ~combined => (Marked[k].used <=> sky[k].used)
    BY <1>4, <2>4
  <2>7. ~combined => Marked[k].used = sky[k].used
    BY <2>5, <2>6
  <2>8. QED
    BY <2>3, <2>7
<1>6. QED
  BY <1>1, <1>3, <1>5 DEF Shows

\* What a table shows depends on the receiver's sky and sweep only.
LEMMA ShowsKept ==
  ASSUME sky' = sky, sweep' = sweep, combined' = combined, NEW table, Shows(table),
         NEW other, other = table
  PROVE  /\ Len(other) = AsFit(Len(sky'))
         /\ \A k \in DOMAIN other :
              /\ other[k].sat = Entry(sky[k])'.sat /\ other[k].cn0 = Entry(sky[k])'.cn0
              /\ combined' \/ other[k].used = sky'[k].used
  BY EntryKept DEF Shows

\* A commit of a whole cycle publishes what the sky shows.
LEMMA CommitStep ==
  ASSUME SkyTypeOK, SaysInv, BuildInv, UsedInv, CommitInv, [SkyNext]_skyVars PROVE CommitInv'
<1>m. MaxSats \in Nat \ {0}
  BY SkyAssumption
<1>f. sky \in Seq(Sights) /\ Len(sky) \in Nat
  BY SkyFacts DEF SkyTypeOK
<1>b. whole \in BOOLEAN /\ clean \in BOOLEAN /\ satBuild \in Seq(Entries)
  BY DEF SkyTypeOK
<1>1. CASE ~whole'
  BY <1>1 DEF CommitInv
<1>2. CASE whole' = whole /\ (says.kind # "none" \/ place \in {"gsa", "gsv"})
  BY <1>1, <1>2 DEF CommitInv
<1>3. CASE ParseGga \/ ParseGsa \/ ParsedGsa \/ ParseGsv \/ ParsedGsv
  <2>1. whole' = whole
    BY <1>3, SweepLeaves
  <2>2. says.kind # "none" \/ place \in {"gsa", "gsv"}
    BY <1>3 DEF ParseGga, ParseGsa, ParsedGsa, ParseGsv, ParsedGsv, Hears
  <2>3. QED
    BY <1>2, <2>1, <2>2
<1>4. CASE RecordUsed \/ RecordSat
  BY <1>4, <1>2 DEF RecordUsed, RecordSat, historyVars
<1>5. CASE ParseRmcVoid \/ NextCycle
  BY <1>5, <1>1 DEF ParseRmcVoid, NextCycle
<1>6. CASE Loses
  BY <1>6, <1>2 DEF Loses
<1>7. CASE SatCommitCycle
  <2>1. /\ says.kind = "RMC" /\ place = "listen" /\ whole' = clean /\ shown' = shown
        /\ UNCHANGED <<sky, sweep, combined>>
    BY <1>7 DEF SatCommitCycle, Hears, receiverVars
  <2>2. says'.kind = "none"
    BY <1>7, <2>1, CycleLeaves DEF NextCycle, Hears
  <2> SUFFICES ASSUME clean PROVE CommitInv'
    BY <1>1, <2>1
  <2>3. Len(satBuild) = AsFit(Len(sky))
    BY <2>1 DEF BuildInv, Viewed, Copying
  <2>4. Shows(Marked)
    BY <2>1, MarkedShows DEF Copying
  <2>5. CASE satBuild = <<>>
    <3>1. Len(sky) = 0
      BY <1>m, <1>f, <2>3, <2>5 DEF AsFit
    <3>2. sky' = <<>>
      BY <1>f, <2>1, <3>1
    <3>3. place' = "listen"
      BY <1>7, <2>1, <2>5 DEF SatCommitCycle
    <3>4. QED
      BY <2>2, <3>2, <3>3 DEF CommitInv, Copying
  <2>6. CASE satBuild # <<>>
    <3>1. place' = "head" /\ satBuild' = Marked
      BY <1>7, <2>6 DEF SatCommitCycle
    <3>2. Shows(satBuild)'
      BY <2>1, <2>4, <3>1, ShowsKept DEF Shows, AsFit
    <3>3. QED
      BY <2>2, <3>1, <3>2 DEF CommitInv
  <2>7. QED
    BY <2>5, <2>6
<1>8. CASE CopyHead \/ CopyTail
  <2>1. /\ Copying' /\ satBuild' = satBuild /\ whole' = whole
        /\ UNCHANGED <<sky, sweep, combined>>
    BY <1>8 DEF CopyHead, CopyTail, Copying, buildVars, historyVars, receiverVars
  <2>2. says'.kind = "none" /\ Copying
    BY <1>8, CopyLeaves
  <2> SUFFICES ASSUME whole PROVE CommitInv'
    BY <1>1, <2>1
  <2>3. Shows(satBuild)
    BY <2>2 DEF CommitInv
  <2>4. Shows(satBuild)'
    BY <2>1, <2>3, ShowsKept DEF Shows, AsFit
  <2>5. QED
    BY <2>1, <2>2, <2>4 DEF CommitInv, Copying
<1>9. CASE PublishCount
  <2>1. /\ place' = "listen" /\ shown' = satBuild /\ whole' = whole
        /\ UNCHANGED <<sky, sweep, combined>>
    BY <1>9 DEF PublishCount, receiverVars
  <2>2. says'.kind = "none" /\ Copying
    BY <1>9, CopyLeaves
  <2> SUFFICES ASSUME whole PROVE CommitInv'
    BY <1>1, <2>1
  <2>3. Shows(satBuild)
    BY <2>2 DEF CommitInv
  <2>4. Shows(shown)'
    BY <2>1, <2>3, ShowsKept DEF Shows, AsFit
  <2>5. QED
    BY <2>1, <2>2, <2>4 DEF CommitInv, Copying
<1>10. CASE UNCHANGED skyVars
  BY <1>10 DEF skyVars, receiverVars, buildVars, historyVars, CommitInv, Copying, Shows, AsFit,
               Entry, Identity
<1>11. QED
  BY <1>3, <1>4, <1>5, <1>6, <1>7, <1>8, <1>9, <1>10 DEF SkyNext, UartTask

-----------------------------------------------------------------------------
(* The table.                                                              *)

\* A step of the copy writes one word of the entry at hand, and the count is
\* published when every word was.
LEMMA TableStep ==
  ASSUME SkyTypeOK, SaysInv, TableInv, [SkyNext]_skyVars PROVE TableInv'
<1>m. MaxSats \in Nat \ {0}
  BY SkyAssumption
<1>t. /\ satBuild \in Seq(Entries) /\ DOMAIN satBuild = 1..Len(satBuild) /\ Len(satBuild) \in Nat
      /\ Len(satBuild) <= MaxSats
      /\ shown \in Seq(Entries) /\ DOMAIN shown = 1..Len(shown) /\ Len(shown) \in Nat
      /\ Len(shown) <= MaxSats
      /\ satPub \in [1..MaxSats -> Entries] /\ nth \in Nat
  BY DEF SkyTypeOK
<1>1. CASE ~Copying /\ ~Copying' /\ UNCHANGED <<satPub, satPubN, shown>>
  <2>1. \A k : ~HeadCopied(k) /\ ~TailCopied(k) /\ ~HeadCopied(k)' /\ ~TailCopied(k)'
    BY <1>1 DEF HeadCopied, TailCopied
  <2>2. place' \notin {"head", "tail"}
    BY <1>1 DEF Copying
  <2>3. QED
    BY <1>1, <2>1, <2>2 DEF TableInv
<1>2. CASE ParseGga \/ ParseGsa \/ ParsedGsa \/ ParseGsv \/ ParsedGsv
  BY <1>2, <1>1, SweepLeaves
<1>3. CASE RecordUsed \/ RecordSat
  BY <1>3, <1>1 DEF RecordUsed, RecordSat, tableVars, historyVars, Copying
<1>4. CASE ParseRmcVoid \/ NextCycle \/ Loses
  BY <1>4, <1>1 DEF ParseRmcVoid, NextCycle, Loses, Hears, tableVars, Copying
<1>5. CASE SatCommitCycle
  <2>1. place = "listen" /\ UNCHANGED <<satPub, satPubN, shown>>
    BY <1>5 DEF SatCommitCycle, Hears, tableVars
  <2>2. CASE satBuild = <<>>
    BY <1>1, <1>5, <2>1, <2>2 DEF SatCommitCycle, Copying
  <2>3. CASE satBuild # <<>>
    <3>1. satBuild' = Marked /\ place' = "head" /\ nth' = 1
      BY <1>5, <2>3 DEF SatCommitCycle
    <3>2. Marked \in Seq(Entries) /\ Len(Marked) = Len(satBuild)
      BY MarkedTypes
    <3>3. /\ DOMAIN satBuild' = 1..Len(satBuild) /\ Len(satBuild) # 0
          /\ Len(satBuild') = Len(satBuild)
      BY <1>t, <2>3, <3>1, <3>2
    <3>4. \A k \in Nat \ {0} : ~HeadCopied(k)' /\ ~TailCopied(k)'
      BY <3>1 DEF HeadCopied, TailCopied
    <3>5. \A k : ~HeadCopied(k) /\ ~TailCopied(k)
      BY <2>1 DEF HeadCopied, TailCopied, Copying
    <3>6. nth' \in DOMAIN satBuild' /\ satBuild' # <<>>
      BY <1>t, <3>1, <3>2, <3>3
    <3>7. \A k \in DOMAIN shown : k \in Nat \ {0}
      BY <1>t
    <3>8. \A k \in DOMAIN satBuild' : k \in Nat \ {0}
      BY <1>t, <3>3
    <3>9. QED
      BY <2>1, <3>4, <3>5, <3>6, <3>7, <3>8 DEF TableInv
  <2>4. QED
    BY <2>2, <2>3
<1>6. CASE CopyHead
  <2>1. /\ place = "head" /\ place' = "tail" /\ UNCHANGED <<satBuild, nth, satPubN, shown>>
        /\ satPub' = [satPub EXCEPT ![nth].sat = satBuild[nth].sat,
                                    ![nth].cn0 = satBuild[nth].cn0]
    BY <1>6 DEF CopyHead, buildVars, historyVars
  <2>2. nth \in DOMAIN satBuild /\ satBuild # <<>>
    BY <2>1 DEF TableInv, Copying
  <2>3. \A k \in 1..MaxSats :
          /\ satPub'[k].used = satPub[k].used
          /\ k # nth => satPub'[k] = satPub[k]
          /\ k = nth => satPub'[k].sat = satBuild[k].sat /\ satPub'[k].cn0 = satBuild[k].cn0
    BY <1>t, <2>1, <2>2 DEF Entries
  <2>4. \A k : /\ HeadCopied(k) <=> k \in DOMAIN satBuild /\ k < nth
               /\ HeadCopied(k)' <=> k \in DOMAIN satBuild /\ (k < nth \/ k = nth)
               /\ TailCopied(k)' <=> TailCopied(k)
    BY <2>1 DEF HeadCopied, TailCopied, Copying
  <2>5. DOMAIN satBuild \subseteq 1..MaxSats /\ DOMAIN shown \subseteq 1..MaxSats
    BY <1>t, <1>m
  <2>6. ASSUME NEW k \in DOMAIN satBuild
        PROVE  /\ HeadCopied(k)' => satPub'[k].sat = satBuild[k].sat
                                    /\ satPub'[k].cn0 = satBuild[k].cn0
               /\ TailCopied(k)' => satPub'[k].used = satBuild[k].used
    BY <2>3, <2>4, <2>5 DEF TableInv
  <2>7. ASSUME NEW k \in DOMAIN shown
        PROVE  /\ ~HeadCopied(k)' => satPub'[k].sat = shown[k].sat /\ satPub'[k].cn0 = shown[k].cn0
               /\ ~TailCopied(k)' => satPub'[k].used = shown[k].used
    BY <2>2, <2>3, <2>4, <2>5 DEF TableInv
  <2>8. nth' \in DOMAIN satBuild' /\ satPubN' = Len(shown') /\ satBuild' # <<>>
    BY <2>1, <2>2 DEF TableInv
  <2>9. \A k \in DOMAIN satBuild' :
          /\ HeadCopied(k)' => satPub'[k].sat = satBuild'[k].sat
                               /\ satPub'[k].cn0 = satBuild'[k].cn0
          /\ TailCopied(k)' => satPub'[k].used = satBuild'[k].used
    BY <2>1, <2>6
  <2>10. \A k \in DOMAIN shown' :
          /\ ~HeadCopied(k)' => satPub'[k].sat = shown'[k].sat /\ satPub'[k].cn0 = shown'[k].cn0
          /\ ~TailCopied(k)' => satPub'[k].used = shown'[k].used
    BY <2>1, <2>7
  <2>11. QED
    BY <2>8, <2>9, <2>10, Zenon DEF TableInv
<1>7. CASE CopyTail
  <2>1. /\ place = "tail" /\ UNCHANGED <<satBuild, satPubN, shown>>
        /\ satPub' = [satPub EXCEPT ![nth].used = satBuild[nth].used]
        /\ \/ place' = "head" /\ nth' = nth + 1 /\ nth < Len(satBuild)
           \/ place' = "count" /\ ~(nth < Len(satBuild))
    BY <1>7 DEF CopyTail, More, buildVars, historyVars
  <2>2. nth \in DOMAIN satBuild /\ satBuild # <<>>
    BY <2>1 DEF TableInv, Copying
  <2>3. \A k \in 1..MaxSats :
          /\ satPub'[k].sat = satPub[k].sat /\ satPub'[k].cn0 = satPub[k].cn0
          /\ k # nth => satPub'[k] = satPub[k]
          /\ k = nth => satPub'[k].used = satBuild[k].used
    BY <1>t, <2>1, <2>2 DEF Entries
  <2>4. \A k \in DOMAIN satBuild :
          /\ HeadCopied(k) <=> (k < nth \/ k = nth)
          /\ TailCopied(k) <=> k < nth
          /\ HeadCopied(k)' <=> (k < nth \/ k = nth)
          /\ TailCopied(k)' <=> (k < nth \/ k = nth)
    <3>1. ASSUME NEW k \in DOMAIN satBuild
          PROVE  /\ HeadCopied(k) <=> (k < nth \/ k = nth)
                 /\ TailCopied(k) <=> k < nth
      BY <2>1 DEF HeadCopied, TailCopied, Copying
    <3>2. ASSUME NEW k \in DOMAIN satBuild
          PROVE  /\ HeadCopied(k)' <=> (k < nth \/ k = nth)
                 /\ TailCopied(k)' <=> (k < nth \/ k = nth)
      <4>1. k \in Nat /\ k <= Len(satBuild)
        BY <1>t
      <4>2. CASE place' = "head" /\ nth' = nth + 1
        BY <1>t, <2>1, <4>1, <4>2 DEF HeadCopied, TailCopied, Copying
      <4>3. CASE place' = "count" /\ ~(nth < Len(satBuild))
        BY <1>t, <2>1, <4>1, <4>3 DEF HeadCopied, TailCopied, Copying
      <4>4. QED
        BY <2>1, <4>2, <4>3
    <3>3. QED
      BY <3>1, <3>2
  <2>5. DOMAIN satBuild \subseteq 1..MaxSats /\ DOMAIN shown \subseteq 1..MaxSats
    BY <1>t, <1>m
  <2>6. \A k : k \notin DOMAIN satBuild =>
               ~HeadCopied(k) /\ ~TailCopied(k) /\ ~HeadCopied(k)' /\ ~TailCopied(k)'
    BY <2>1 DEF HeadCopied, TailCopied
  <2>7. ASSUME NEW k \in DOMAIN satBuild
        PROVE  /\ HeadCopied(k)' => satPub'[k].sat = satBuild[k].sat
                                    /\ satPub'[k].cn0 = satBuild[k].cn0
               /\ TailCopied(k)' => satPub'[k].used = satBuild[k].used
    BY <2>3, <2>4, <2>5 DEF TableInv
  <2>8. ASSUME NEW k \in DOMAIN shown
        PROVE  /\ ~HeadCopied(k)' => satPub'[k].sat = shown[k].sat /\ satPub'[k].cn0 = shown[k].cn0
               /\ ~TailCopied(k)' => satPub'[k].used = shown[k].used
    BY <2>2, <2>3, <2>4, <2>5, <2>6 DEF TableInv
  <2>9. place' = "head" => nth' \in DOMAIN satBuild'
    BY <1>t, <2>1, <2>2
  <2>10. place' # "tail"
    BY <2>1
  <2>11. QED
    BY <2>1, <2>2, <2>7, <2>8, <2>9, <2>10 DEF TableInv
<1>8. CASE PublishCount
  <2>1. /\ place = "count" /\ place' = "listen" /\ satPubN' = Len(satBuild) /\ shown' = satBuild
        /\ satBuild' = <<>> /\ satPub' = satPub
    BY <1>8 DEF PublishCount, Cleared
  <2>2. \A k \in DOMAIN satBuild : HeadCopied(k) /\ TailCopied(k)
    BY <2>1 DEF HeadCopied, TailCopied, Copying
  <2>3. \A k : ~HeadCopied(k)' /\ ~TailCopied(k)'
    BY <2>1 DEF HeadCopied, TailCopied, Copying
  <2>4. QED
    BY <2>1, <2>2, <2>3 DEF TableInv, Copying
<1>9. CASE UNCHANGED skyVars
  BY <1>9 DEF skyVars, buildVars, tableVars, historyVars, TableInv, HeadCopied, TailCopied, Copying
<1>10. QED
  BY <1>2, <1>3, <1>4, <1>5, <1>6, <1>7, <1>8, <1>9 DEF SkyNext, UartTask

-----------------------------------------------------------------------------
(* The totals.                                                             *)

\* What the totals of a sky depend on.
LEMMA SumsKept ==
  ASSUME sky' = sky PROVE InUse' = InUse /\ \A t : InView(t)' = InView(t)
  BY DEF InUse, InView

\* Totals that nothing writes keep what they say of the same talkers.
LEMMA CountedKept ==
  ASSUME sky' = sky, qSats' = qSats, NEW n, Counted(n), NEW m, m = n
  PROVE  \A t \in 1..m : \/ \E later \in 1..m :
                              later > t /\ Total(Talkers[later]) = Total(Talkers[t])
                         \/ qSats'[Total(Talkers[t])] = Cardinality(InView(t)')
  BY SumsKept DEF Counted

\* The last sentence of a run puts its total right, and spoils none but those
\* counted under the same one.
LEMMA SumsStep ==
  ASSUME SkyTypeOK, SaysInv, CommitInv, SumsInv, [SkyNext]_skyVars PROVE SumsInv'
<1>b. whole \in BOOLEAN /\ clean \in BOOLEAN
  BY DEF SkyTypeOK
<1>f. Len(Talkers) \in Nat \ {0} /\ DOMAIN Talkers = 1..Len(Talkers)
  BY SkyFacts DEF SkyTypeOK
<1>1. CASE ~whole' /\ (~clean' \/ says'.kind \in {"GGA", "none"})
  BY <1>1 DEF SumsInv
<1>2. CASE UNCHANGED <<sky, says, qSatsUsed, qSats, clean, whole>>
  <2>1. Summed' = Summed /\ says'.kind = says.kind
    BY <1>2 DEF Summed
  <2>2. Counted(Summed) => Counted(Summed)'
    BY <1>2, <2>1, CountedKept DEF Counted
  <2>3. QED
    BY <1>2, <2>1, <2>2, SumsKept DEF SumsInv
<1>3. CASE ParseGga
  <2>1. says.kind = "GGA" /\ says'.kind = "GSA"
    BY <1>3, GgaLeaves
  <2>2. whole' = whole /\ ~whole
    BY <1>3, <2>1 DEF ParseGga, historyVars, CommitInv
  <2>3. qSatsUsed' = Cardinality(InUse)'
    BY <1>3, SumsKept DEF ParseGga, receiverVars
  <2>4. QED
    BY <2>1, <2>2, <2>3 DEF SumsInv
<1>4. CASE ParseGsa \/ RecordUsed \/ ParseGsv \/ RecordSat
  BY <1>4, <1>2 DEF ParseGsa, RecordUsed, ParseGsv, RecordSat, receiverVars, totalVars,
                    historyVars
<1>5. CASE ParsedGsa
  <2>1. says.kind = "GSA" /\ Summed' = 0 /\ says'.kind \in {"GSA", "GSV", "RMC"}
    BY <1>5, ParsedLeaves
  <2>2. /\ UNCHANGED <<sky, qSatsUsed, clean>> /\ whole' = whole /\ ~whole
    BY <1>5, <2>1 DEF ParsedGsa, receiverVars, totalVars, historyVars, CommitInv
  <2>3. Counted(Summed)'
    BY <2>1 DEF Counted
  <2>4. QED
    BY <2>1, <2>2, <2>3, SumsKept DEF SumsInv
<1>6. CASE ParsedGsv
  <2> DEFINE t == says.talker
  <2>1. /\ says.kind = "GSV" /\ says'.kind \in {"GSV", "RMC"}
        /\ Summed' = IF nth \in InView(t) THEN t - 1 ELSE t
    BY <1>6, ParsedLeaves
  <2>2. /\ UNCHANGED <<sky, qSatsUsed, clean>> /\ whole' = whole /\ ~whole
    BY <1>6, <2>1 DEF ParsedGsv, receiverVars, historyVars, CommitInv
  <2>3. t \in 1..Len(Talkers) /\ Summed = t - 1
    BY <1>f, <2>1 DEF SaysInv, Summed
  <2> SUFFICES ASSUME clean PROVE SumsInv'
    BY <1>1, <2>2
  <2>4. qSatsUsed = Cardinality(InUse) /\ Counted(t - 1)
    BY <2>1, <2>3 DEF SumsInv
  <2>5. CASE nth \in InView(t)
    <3>1. qSats' = qSats
      BY <1>6, <2>5 DEF ParsedGsv
    <3>2. Counted(Summed)'
      BY <2>1, <2>2, <2>4, <2>5, <3>1, CountedKept DEF Counted
    <3>3. QED
      BY <2>2, <2>4, <3>2, SumsKept DEF SumsInv
  <2>6. CASE nth \notin InView(t)
    <3> DEFINE n == Cardinality(InView(t))
               own == Total(Talkers[t])
    <3>1. qSats' = [qSats EXCEPT ![own] = n]
      BY <1>6, <2>6 DEF ParsedGsv
    <3>2. own \in Totals /\ qSats \in [Totals -> Nat]
      BY TotalType DEF SkyTypeOK
    <3>3. qSats'[own] = n /\ \A s \in Totals : s # own => qSats'[s] = qSats[s]
      BY <3>1, <3>2
    <3> HIDE DEF t
    <3>4. ASSUME NEW x \in 1..t
          PROVE  \/ \E later \in 1..t : later > x /\ Total(Talkers[later]) = Total(Talkers[x])
                 \/ qSats'[Total(Talkers[x])] = Cardinality(InView(x))
      <4>1. CASE x = t
        BY <3>3, <4>1
      <4>2. CASE x # t /\ Total(Talkers[x]) = own
        BY <2>3, <4>2
      <4>3. CASE x # t /\ Total(Talkers[x]) # own
        <5>1. x \in 1..(t - 1) /\ 1..(t - 1) \subseteq 1..t
          BY <2>3, <4>3
        <5>2. qSats'[Total(Talkers[x])] = qSats[Total(Talkers[x])]
          BY <3>3, <4>3, TotalType
        <5>3. QED
          BY <2>4, <5>1, <5>2 DEF Counted
      <4>4. QED
        BY <4>1, <4>2, <4>3
    <3>5. Counted(Summed)'
      BY <2>1, <2>2, <2>6, <3>4, SumsKept DEF Counted
    <3>6. QED
      BY <2>2, <2>4, <3>5, SumsKept DEF SumsInv
  <2>7. QED
    BY <2>5, <2>6
<1>7. CASE ParseRmcVoid
  BY <1>7, <1>1 DEF ParseRmcVoid
<1>8. CASE NextCycle
  <2>1. says'.kind = "GGA" /\ whole' = FALSE
    BY <1>8, CycleLeaves DEF NextCycle
  <2>2. QED
    BY <1>1, <2>1
<1>9. CASE Loses
  <2>1. clean' = FALSE /\ says.kind # "none" /\ whole' = whole
    BY <1>9 DEF Loses
  <2>2. ~whole'
    BY <2>1 DEF CommitInv
  <2>3. QED
    BY <1>1, <2>1, <2>2
<1>10. CASE SatCommitCycle
  <2>1. says.kind = "RMC" /\ whole' = clean /\ UNCHANGED <<sky, qSatsUsed, qSats>>
    BY <1>10 DEF SatCommitCycle, Hears, receiverVars, totalVars
  <2>2. says'.kind = "none"
    BY <1>10, <2>1, CycleLeaves DEF NextCycle, Hears
  <2>3. Summed = Len(Talkers) /\ Summed' = Len(Talkers)
    BY <2>1, <2>2 DEF Summed
  <2> SUFFICES ASSUME clean PROVE SumsInv'
    BY <1>1, <2>1, <2>2
  <2>4. qSatsUsed = Cardinality(InUse) /\ Counted(Len(Talkers))
    BY <2>1, <2>3 DEF SumsInv
  <2>5. Counted(Summed)'
    BY <2>1, <2>3, <2>4, CountedKept DEF Counted
  <2>6. QED
    BY <2>1, <2>4, <2>5, SumsKept DEF SumsInv
<1>11. CASE CopyHead \/ CopyTail \/ PublishCount
  BY <1>11, <1>2 DEF CopyHead, CopyTail, PublishCount, receiverVars, totalVars, historyVars
<1>12. CASE UNCHANGED skyVars
  BY <1>12, <1>2 DEF skyVars, receiverVars, totalVars, historyVars
<1>13. QED
  BY <1>3, <1>4, <1>5, <1>6, <1>7, <1>8, <1>9, <1>10, <1>11, <1>12 DEF SkyNext, UartTask

-----------------------------------------------------------------------------
\* It all holds when the device starts.
LEMMA SkyInitially == ASSUME SkyInit PROVE SkyIInv
<1>m. /\ MaxSats \in Nat \ {0} /\ MaxSweeps \in Nat \ {0} /\ MaxLost \in Nat
      /\ Combined \subseteq BOOLEAN
  BY SkyAssumption
<1>1. /\ sweep = 1 /\ sky \in Skies /\ fix \in BOOLEAN /\ combined \in Combined /\ lost = 0
      /\ satBuild = <<>> /\ usedIds = <<>> /\ shown = <<>>
      /\ place = "listen" /\ nth = 0 /\ satPubN = 0 /\ gsvTalker = "" /\ gsvTracked = 0
      /\ qSatsUsed = 0 /\ qSatsTracked = 0 /\ clean = TRUE /\ whole = FALSE
  BY DEF SkyInit
<1>2. says = Says("GGA", 0, 1)
  BY DEF SkyInit
<1>3. says \in Sentences /\ says.kind = "GGA" /\ says.talker = 0 /\ says.from = 1
  BY <1>2 DEF Says, Sentences
<1>4. satPub \in [1..MaxSats -> Entries] /\ qSats \in [Totals -> Nat]
  <2>1. NoSatellite \in Entries
    BY DEF NoSatellite, Entries, Systems
  <2>2. satPub = [k \in 1..MaxSats |-> NoSatellite] /\ qSats = [s \in Totals |-> 0]
    BY DEF SkyInit
  <2>3. QED
    BY <2>1, <2>2
<1>5. gsvTalker \in Names
  BY <1>1 DEF Names
<1>e. /\ <<>> \in Seq(Entries) /\ <<>> \in Seq(Systems \X Nat)
      /\ Len(<<>>) = 0 /\ DOMAIN <<>> = {}
  OBVIOUS
<1>6. SkyTypeOK
  <2>1. /\ sweep \in 1..MaxSweeps /\ lost \in 0..MaxLost /\ satPubN \in 0..MaxSats
        /\ Len(satBuild) <= MaxSats /\ Len(usedIds) <= MaxSats /\ Len(shown) <= MaxSats
    <3>1. sweep \in 1..MaxSweeps
      <4>1. sweep = 1
        BY <1>1
      <4>2. QED
        BY <1>m, <4>1
    <3>2. lost \in 0..MaxLost
      <4>1. lost = 0
        BY <1>1
      <4>2. QED
        BY <1>m, <4>1
    <3>3. satPubN \in 0..MaxSats
      <4>1. satPubN = 0
        BY <1>1
      <4>2. QED
        BY <1>m, <4>1
    <3>4. Len(satBuild) = 0 /\ Len(usedIds) = 0 /\ Len(shown) = 0
      BY <1>1, <1>e
    <3>5. QED
      BY <1>m, <3>1, <3>2, <3>3, <3>4
  <2>2. combined \in BOOLEAN /\ clean \in BOOLEAN /\ whole \in BOOLEAN
    BY <1>m, <1>1
  <2>3. satBuild \in Seq(Entries) /\ shown \in Seq(Entries) /\ usedIds \in Seq(Systems \X Nat)
    BY <1>1, <1>e
  <2>4. QED
    BY <1>1, <1>3, <1>4, <1>5, <2>1, <2>2, <2>3 DEF SkyTypeOK
<1>7. SaysInv
  BY <1>1, <1>3 DEF SaysInv, Copying
<1>8. BuildInv /\ UsedInv
  <2>1. Viewed = 0 /\ Named = 0 /\ AsFit(0) = 0 /\ 1..0 = {}
    BY <1>m, <1>3 DEF Viewed, Named, AsFit
  <2>2. BuildInv
    BY <1>1, <1>e, <2>1 DEF BuildInv
  <2>3. UsedInv
    <3>1. Len(usedIds) = 0 /\ DOMAIN usedIds = {}
      BY <1>1, <1>e
    <3>2. Len(usedIds) <= Named
      BY <2>1, <3>1
    <3>3. 1..AsFit(Named) = {}
      BY <2>1
    <3>4. QED
      BY <3>1, <3>2, <3>3 DEF UsedInv
  <2>4. QED
    BY <2>2, <2>3
<1>9. CommitInv /\ TableInv /\ SumsInv
  <2>1. ~Copying /\ CommitInv /\ SumsInv
    BY <1>1, <1>3 DEF CommitInv, SumsInv, Copying
  <2>2. TableInv
    BY <1>1, <1>e, <2>1 DEF TableInv
  <2>3. QED
    BY <2>1, <2>2
<1>10. QED
  BY <1>6, <1>7, <1>8, <1>9 DEF SkyIInv

\* The strengthened invariant holds in every reachable state, for any receiver.
THEOREM SkyInductive == SkySpec => []SkyIInv
<1>1. SkyInit => SkyIInv
  BY SkyInitially
<1>2. SkyIInv /\ [SkyNext]_skyVars => SkyIInv'
  BY SkyTypeStep, SaysStep, BuildStep, UsedStep, CommitStep, TableStep, SumsStep DEF SkyIInv
<1>3. QED
  BY <1>1, <1>2, PTL DEF SkySpec

\* Every word stays in the range its declaration gives it, and neither list
\* outgrows its array.
THEOREM SkyTypeCorrect == SkySpec => []SkyTypeOK
<1>1. SkyIInv => SkyTypeOK
  BY DEF SkyIInv
<1>2. QED
  BY <1>1, SkyInductive, PTL

\* A cycle heard whole puts table, marks and totals right, whatever was lost
\* before it and however large sky and table are.
THEOREM SkyHealed == SkySpec => []SweepHeals
<1>1. SkyIInv => SweepHeals
  <2> SUFFICES ASSUME SkyIInv, whole, place = "listen"
               PROVE  /\ sky # <<>> =>
                           /\ satPubN = AsFit(Len(sky))
                           /\ \A k \in 1..AsFit(Len(sky)) :
                                /\ [GetSatellites[k] EXCEPT !.used = FALSE] = Entry(sky[k])
                                /\ combined \/ GetSatellites[k].used = sky[k].used
                      /\ \A t \in DOMAIN Talkers :
                           \/ \E later \in DOMAIN Talkers :
                                later > t /\ Total(Talkers[later]) = Total(Talkers[t])
                           \/ qSats[Total(Talkers[t])] = Cardinality(InView(t))
                      /\ qSatsUsed = Cardinality(InUse)
    BY DEF SweepHeals, AsFit
  <2>f. /\ Len(sky) \in Nat /\ DOMAIN sky = 1..Len(sky)
        /\ \A j \in DOMAIN sky : sky[j] \in Sights
        /\ Len(Talkers) \in Nat \ {0} /\ DOMAIN Talkers = 1..Len(Talkers)
    BY SkyFacts DEF SkyIInv, SkyTypeOK
  <2>m. MaxSats \in Nat \ {0}
    BY SkyAssumption
  <2>t. SkyTypeOK /\ TableInv /\ CommitInv /\ SumsInv
    BY DEF SkyIInv
  <2>1. ASSUME sky # <<>>
        PROVE  /\ satPubN = AsFit(Len(sky))
               /\ \A k \in 1..AsFit(Len(sky)) :
                    /\ [GetSatellites[k] EXCEPT !.used = FALSE] = Entry(sky[k])
                    /\ combined \/ GetSatellites[k].used = sky[k].used
    <3>1. Shows(shown)
      BY <2>1, <2>t DEF CommitInv
    <3>2. satPubN = AsFit(Len(sky)) /\ Len(shown) = AsFit(Len(sky)) /\ Len(shown) \in Nat
          /\ DOMAIN shown = 1..AsFit(Len(sky)) /\ AsFit(Len(sky)) <= MaxSats
      BY <2>t, <3>1 DEF Shows, TableInv, SkyTypeOK
    <3>3. ASSUME NEW k \in 1..AsFit(Len(sky))
          PROVE  /\ [GetSatellites[k] EXCEPT !.used = FALSE] = Entry(sky[k])
                 /\ combined \/ GetSatellites[k].used = sky[k].used
      <4>1. GetSatellites[k] = satPub[k]
        BY <3>2, <3>3 DEF GetSatellites
      <4>2. k \in DOMAIN shown /\ k \in 1..MaxSats /\ k \in DOMAIN sky
        BY <2>f, <2>m, <3>2, <3>3 DEF AsFit
      <4>3. ~HeadCopied(k) /\ ~TailCopied(k)
        BY DEF HeadCopied, TailCopied, Copying
      <4>4. /\ satPub[k].sat = shown[k].sat /\ satPub[k].cn0 = shown[k].cn0
            /\ satPub[k].used = shown[k].used
        BY <2>t, <4>2, <4>3 DEF TableInv
      <4>5. /\ shown[k].sat = Entry(sky[k]).sat /\ shown[k].cn0 = Entry(sky[k]).cn0
            /\ combined \/ shown[k].used = sky[k].used
        BY <3>1, <4>2 DEF Shows
      <4>6. satPub[k] \in Entries
        BY <2>t, <4>2 DEF SkyTypeOK
      <4> DEFINE e == satPub[k]
                 g == Entry(sky[k])
      <4>7. g \in Entries /\ g.used = FALSE
        <5>1. g \in Entries /\ ~g.used
          BY <2>f, <2>t, <4>2, EntryType
        <5>2. QED
          BY <5>1 DEF Entries
      <4>8. e \in Entries /\ e.sat = g.sat /\ e.cn0 = g.cn0
        BY <4>4, <4>5, <4>6
      <4> HIDE DEF e, g
      <4>9. [e EXCEPT !.used = FALSE] = g
        BY <4>7, <4>8 DEF Entries
      <4>10. QED
        BY <4>1, <4>4, <4>5, <4>9 DEF e, g
    <3>4. QED
      BY <3>2, <3>3
  <2>2. Counted(Len(Talkers)) /\ qSatsUsed = Cardinality(InUse)
    BY <2>t DEF SumsInv, CommitInv, Summed
  <2>3. QED
    BY <2>1, <2>2, <2>f DEF Counted
<1>2. QED
  BY <1>1, SkyInductive, PTL

\* No read, wherever it preempts the UART task, returns a word of an older sweep
\* or one that was never written.
THEOREM SkySeenRecent == SkySpec => []SeenIsRecent
<1>1. SkyIInv => SeenIsRecent
  <2> DEFINE recent(k) ==
        {t \in {shown} \cup IF Copying THEN {satBuild} ELSE {} : k <= Len(t)}
  <2> SUFFICES ASSUME SkyIInv, NEW k \in 1..satPubN
               PROVE  /\ \E t \in recent(k) : /\ GetSatellites[k].sat = t[k].sat
                                              /\ GetSatellites[k].cn0 = t[k].cn0
                      /\ \E t \in recent(k) : GetSatellites[k].used = t[k].used
    BY Zenon DEF SeenIsRecent
  <2>1. SkyTypeOK /\ TableInv
    BY DEF SkyIInv
  <2>2. GetSatellites[k] = satPub[k]
    BY DEF GetSatellites
  <2>3. k \in DOMAIN shown /\ k <= Len(shown) /\ (k \in DOMAIN satBuild => k <= Len(satBuild))
    BY <2>1 DEF TableInv, SkyTypeOK
  <2>4. shown \in recent(k) /\ (HeadCopied(k) \/ TailCopied(k) => satBuild \in recent(k))
    BY <2>3 DEF HeadCopied, TailCopied
  <2> HIDE DEF recent
  <2>5. \E t \in recent(k) : satPub[k].sat = t[k].sat /\ satPub[k].cn0 = t[k].cn0
    <3>1. CASE HeadCopied(k)
      BY <2>1, <2>4, <3>1 DEF TableInv, HeadCopied
    <3>2. CASE ~HeadCopied(k)
      BY <2>1, <2>3, <2>4, <3>2 DEF TableInv
    <3>3. QED
      BY <3>1, <3>2
  <2>6. \E t \in recent(k) : satPub[k].used = t[k].used
    <3>1. CASE TailCopied(k)
      BY <2>1, <2>4, <3>1 DEF TableInv, TailCopied
    <3>2. CASE ~TailCopied(k)
      BY <2>1, <2>3, <2>4, <3>2 DEF TableInv
    <3>3. QED
      BY <3>1, <3>2
  <2>7. QED
    BY <2>2, <2>5, <2>6
<1>2. QED
  BY <1>1, SkyInductive, PTL
=============================================================================
