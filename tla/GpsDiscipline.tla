---------------------------- MODULE GpsDiscipline ----------------------------
(***************************************************************************)
(* The discipline of the system clock by the GPS pulse, after              *)
(* components/gps/gps.cpp: uart_task stamps the receiver's RMC sentences,  *)
(* the capture interrupt publishes the pulse edge, and the discipline task *)
(* (loop and handle_pps_deferred) pairs the two, guards the pair, sets the *)
(* clock, moves the anchor and keeps the frequency fit.                    *)
(*                                                                         *)
(* Time is counted in units, U to a second; true GPS second s begins at    *)
(* unit s * U, which is when its pulse is due.  The capture counter wraps  *)
(* every W units and, as 2^32 ticks of 80 MHz are not a whole number of    *)
(* seconds, W is no multiple of U.                                         *)
(***************************************************************************)
EXTENDS Integers, Sequences, FiniteSets

CONSTANTS
  U,            \* units per second
  W,            \* units until the capture counter wraps (53.687 s)
  FreshNmea,    \* an RMC stamp is fresh below this age (1.5 s)
  FreshPps,     \* holdover begins past this time without discipline (kFreshPpsUs)
  GapLimit,     \* a longer gap restarts the tick timeline (20 s)
  FitWin,       \* length of the fit ring (kFitWin)
  FitMin,       \* samples a fit needs (kFitMinSamples)
  Warmup,       \* pulse count at which the statistics restart (kWarmup)
  RmcMax,       \* an RMC sentence comes at most this late after its second
  RmcOnTime,    \* a sentence that comes later than this is a fault
  MinGood,      \* pulses received between two outages of the pulse
  Spurious,     \* units of a second at which noise may fire the capture
  MaxTime,      \* bound on time
  MaxFaults     \* bound on outages, lost or late sentences and noise edges

ASSUME UnitAssumption == U \in Nat \ {0} /\ W \in Nat /\ W > 2 * U /\ W % U # 0
ASSUME LimitAssumption ==
  /\ {FreshNmea, FreshPps, GapLimit, FitMin, Warmup} \subseteq Nat \ {0}
  /\ FitWin \in Nat /\ FitWin > FitMin
  /\ FreshNmea > U /\ FreshPps > U /\ GapLimit > U
ASSUME EnvironmentAssumption ==
  /\ {RmcMax, RmcOnTime, MaxFaults} \subseteq Nat
  /\ RmcOnTime <= RmcMax /\ {MinGood, MaxTime} \subseteq Nat \ {0}
  /\ Spurious \subseteq 1..(U - 1)

VARIABLES
  now,                  \* esp_timer_get_time()
  pending,              \* edge published and not yet consumed, 0 when none
  swept,                \* loop() ran in this unit
  rmc,                  \* next second whose sentence is still to come
  received,             \* pulses received since the last outage, up to MinGood
  faults,
  uart,                 \* "idle", or "stamp" between the two words of a sentence
  lastNmeaUnixSec, lastNmeaUpdateUs,
  pc,                   \* the handler's place
  edge,                 \* ppsEdgeCapture of the pulse in hand
  fresh,                \* outcome of the age test
  ppsSec,               \* the second the handler gives the pulse
  raced,                \* a sentence was stamped after nowUs was read
  sysErr,               \* system clock minus true time, in units
  gpsLock, holdover,
  lastPps,              \* edge of the anchor (lastPpsMonotonicUs, lastGoodPpsUs)
  mispairStreak,
  prevPpsEdgeForOffset, prevPpsCapValue, prevPpsMonotonicUs,
  tickInit, tickExt, tickLastRaw,
  fitRing,              \* phases of the samples: tick minus GPS second
  fitValid,
  ppsIntervalMeanUs,
  statPpsCount,         \* counted up to Warmup + 1
  lateRun, rightRun     \* history: consecutive pulses labelled wrong, right

envVars   == <<now, rmc, received, faults>>
uartVars  == <<uart, lastNmeaUnixSec, lastNmeaUpdateUs>>
callVars  == <<pc, edge, fresh, ppsSec, raced, swept>>
clockVars == <<sysErr, gpsLock, lastPps>>
trackVars == <<mispairStreak, prevPpsEdgeForOffset, prevPpsCapValue, prevPpsMonotonicUs>>
fitVars   == <<tickInit, tickExt, tickLastRaw, fitRing, fitValid>>
statVars  == <<ppsIntervalMeanUs, statPpsCount>>
runVars   == <<lateRun, rightRun>>
taskVars  == <<clockVars, holdover, trackVars, fitVars, statVars, runVars>>
vars == <<envVars, pending, uartVars, callVars, taskVars>>

BootErr == -(4 * MaxTime)     \* the clock before the first discipline: 1970
LateCap == 3
RightCap == FitWin + 1

\* (int32_t)(a - b) on the capture counter.
CapDelta(a, b) == ((a - b + W \div 2) % W) - W \div 2
Cap(e) == e % W
Least(a, b) == IF a <= b THEN a ELSE b

Init ==
  /\ now = 1 /\ pending = 0 /\ swept = TRUE /\ rmc = 1
  /\ received = MinGood /\ faults = 0
  /\ uart = "idle" /\ lastNmeaUnixSec = 0 /\ lastNmeaUpdateUs = 0
  /\ pc = "idle" /\ edge = 0 /\ fresh = FALSE /\ ppsSec = 0 /\ raced = FALSE
  /\ sysErr = BootErr /\ gpsLock = FALSE /\ holdover = FALSE /\ lastPps = 0
  /\ mispairStreak = 0 /\ prevPpsEdgeForOffset = 0
  /\ prevPpsCapValue = 0 /\ prevPpsMonotonicUs = 0
  /\ tickInit = FALSE /\ tickExt = 0 /\ tickLastRaw = 0
  /\ fitRing = <<>> /\ fitValid = FALSE
  /\ ppsIntervalMeanUs = 0 /\ statPpsCount = 0
  /\ lateRun = 0 /\ rightRun = 0

-----------------------------------------------------------------------------
(* The receiver and the capture interrupt.                                 *)

\* Time passes when the handler has dealt with the last edge: it runs within
\* a millisecond of it, and within 50 ms without one.  A sentence that is not
\* in when its time is up is a fault, as is an outage that begins.
TimePasses(extra) ==
  /\ now < MaxTime /\ pending = 0 /\ pc = "idle" /\ swept /\ uart = "idle"
  /\ now < rmc * U + RmcMax
  /\ faults' = faults + extra + (IF now = rmc * U + RmcOnTime THEN 1 ELSE 0)
  /\ faults' <= MaxFaults
  /\ now' = now + 1 /\ swept' = FALSE
  /\ UNCHANGED <<rmc, uartVars, pc, edge, fresh, ppsSec, raced, clockVars, holdover,
                 trackVars, fitVars, statVars, lateRun>>

\* Pulses arrive on whole seconds ...
PulseTick ==
  /\ (now + 1) % U = 0
  /\ TimePasses(0)
  /\ pending' = now + 1 /\ received' = Least(received + 1, MinGood)
  /\ UNCHANGED rightRun

\* ... or fail to.
MissedTick ==
  /\ (now + 1) % U = 0
  /\ received \in {0, MinGood}
  /\ TimePasses(IF received = 0 THEN 0 ELSE 1)
  /\ received' = 0 /\ rightRun' = 0
  /\ UNCHANGED pending

QuietTick ==
  /\ (now + 1) % U # 0
  /\ TimePasses(0)
  /\ UNCHANGED <<pending, received, rightRun>>

\* Noise on the pulse line fires the capture between two seconds.
SpuriousTick ==
  /\ (now + 1) % U \in Spurious
  /\ TimePasses(1)
  /\ pending' = now + 1
  /\ UNCHANGED <<received, rightRun>>

\* uart_task, first word of a valid RMC sentence: the second it describes.
NmeaSecond ==
  /\ uart = "idle" /\ now > rmc * U
  /\ lastNmeaUnixSec' = rmc /\ rmc' = rmc + 1 /\ uart' = "stamp"
  /\ UNCHANGED <<now, pending, received, faults, lastNmeaUpdateUs, callVars, taskVars>>

\* Second word: when it came.
NmeaStamp ==
  /\ uart = "stamp"
  /\ lastNmeaUpdateUs' = now /\ uart' = "idle"
  /\ raced' = (raced \/ pc = "age")
  /\ UNCHANGED <<envVars, pending, lastNmeaUnixSec, pc, edge, fresh, ppsSec, swept,
                 taskVars>>

\* A sentence that is late never comes: lost, garbled, or void.
NmeaLost ==
  /\ uart = "idle" /\ now > rmc * U + RmcOnTime
  /\ rmc' = rmc + 1
  /\ UNCHANGED <<now, pending, received, faults, uartVars, callVars, taskVars>>

-----------------------------------------------------------------------------
(* The discipline task: handle_pps_deferred in the order of its reads.     *)

\* The snapshot of the edge is consumed and nowUs is read.
TakeEdge ==
  /\ pc = "idle" /\ pending # 0
  /\ edge' = pending /\ pending' = 0 /\ pc' = "age" /\ raced' = FALSE
  /\ UNCHANGED <<envVars, uartVars, fresh, ppsSec, swept, taskVars>>

\* ageUs is unsigned: a stamp younger than nowUs makes it huge.
ReadAge ==
  /\ pc = "age"
  /\ fresh' = (~raced /\ now - lastNmeaUpdateUs < FreshNmea)
  /\ pc' = "second"
  /\ UNCHANGED <<envVars, pending, uartVars, edge, ppsSec, raced, swept, taskVars>>

\* The sentence is taken to describe the second before the pulse.
ReadSecond ==
  /\ pc = "second"
  /\ fresh' = (fresh /\ lastNmeaUnixSec > 0)
  /\ ppsSec' = lastNmeaUnixSec + 1
  /\ pc' = "settle"
  /\ UNCHANGED <<envVars, pending, uartVars, edge, raced, swept, taskVars>>

Abs(x) == IF x < 0 THEN -x ELSE x

\* The pulse's second disagrees with the running clock by more than 0.5 s.
Mispair == gpsLock /\ 2 * Abs(ppsSec * U - (edge + sysErr)) > U

PersistentSooner == mispairStreak >= 1
PersistentLater  == mispairStreak >= 3

\* Two mispaired pulses have been skipped already.
Persistent == mispairStreak >= 2

\* The interval gate, 0.9 s to 1.1 s.
Outlier ==
  /\ prevPpsEdgeForOffset # 0
  /\ LET interval == CapDelta(Cap(edge), prevPpsCapValue)
     IN  10 * interval < 9 * U \/ 10 * interval > 11 * U

RestartNever == FALSE

\* The tick timeline and the fit start over.
Restart ==
  \/ Mispair
  \/ prevPpsMonotonicUs # 0 /\ edge - prevPpsMonotonicUs > GapLimit

LabelledRight == ppsSec * U = edge

CountLabel ==
  /\ lateRun'  = IF LabelledRight THEN 0 ELSE Least(lateRun + 1, LateCap)
  /\ rightRun' = IF LabelledRight THEN Least(rightRun + 1, RightCap) ELSE 0

Push(ring, sample) ==
  SubSeq(Append(ring, sample), IF Len(ring) = FitWin THEN 2 ELSE 1, Len(ring) + 1)

\* A line through samples of one timeline is accepted; whether the slope test
\* catches a ring that mixes timelines depends on where the break lies.
FitSolve(ring) ==
  CASE Len(ring) < FitMin -> {FALSE}
    [] \A i \in 1..Len(ring) : ring[i] = ring[1] -> {TRUE}
    [] OTHER -> BOOLEAN

\* Unwrap the counter onto the timeline, push the sample, solve.
UpdateFit ==
  LET init == tickInit /\ ~Restart
      ring == IF Restart THEN <<>> ELSE fitRing
  IN  IF Outlier
      THEN /\ tickInit' = init /\ fitRing' = ring
           /\ fitValid' = (fitValid /\ ~Restart)
           /\ UNCHANGED <<tickExt, tickLastRaw>>
      ELSE /\ tickInit' = TRUE
           /\ tickExt' = IF init THEN tickExt + CapDelta(Cap(edge), tickLastRaw) ELSE 0
           /\ tickLastRaw' = Cap(edge)
           /\ fitRing' = Push(ring, tickExt' - U * ppsSec)
           /\ fitValid' \in FitSolve(fitRing')

\* Interval statistics, restarted when the warm-up ends.
UpdateStats ==
  LET warm == statPpsCount + 1 = Warmup
      seed == IF prevPpsMonotonicUs # 0 /\ ~Outlier /\ ppsIntervalMeanUs = 0
              THEN CapDelta(Cap(edge), prevPpsCapValue) ELSE ppsIntervalMeanUs
  IN  /\ statPpsCount' = Least(statPpsCount + 1, Warmup + 1)
      /\ ppsIntervalMeanUs' = IF warm THEN 0 ELSE seed
      /\ prevPpsMonotonicUs' = IF warm THEN 0 ELSE edge
      /\ prevPpsCapValue' = Cap(edge)

\* The pulse disciplines the clock, the outlier included.
Accept ==
  /\ pc = "settle" /\ fresh /\ (Mispair => Persistent)
  /\ UpdateFit /\ UpdateStats /\ CountLabel
  /\ sysErr' = ppsSec * U - edge
  /\ lastPps' = edge /\ gpsLock' = TRUE /\ holdover' = FALSE
  /\ mispairStreak' = 0 /\ prevPpsEdgeForOffset' = edge
  /\ pc' = "hold"
  /\ UNCHANGED <<envVars, pending, uartVars, edge, fresh, ppsSec, raced, swept>>

\* Up to two pulses in a row that disagree with the clock are skipped.
SkipMispair ==
  /\ pc = "settle" /\ fresh /\ Mispair /\ ~Persistent
  /\ mispairStreak' = mispairStreak + 1
  /\ prevPpsCapValue' = Cap(edge) /\ prevPpsMonotonicUs' = edge
  /\ CountLabel /\ pc' = "hold"
  /\ UNCHANGED <<envVars, pending, uartVars, edge, fresh, ppsSec, raced, swept,
                 clockVars, holdover, prevPpsEdgeForOffset, fitVars, statVars>>

\* No fresh sentence: the clock is left alone and the timeline starts over.
StaleNmea ==
  /\ pc = "settle" /\ ~fresh
  /\ prevPpsEdgeForOffset' = 0 /\ prevPpsCapValue' = 0 /\ mispairStreak' = 0
  /\ fitRing' = <<>> /\ fitValid' = FALSE /\ tickInit' = FALSE
  /\ lateRun' = 0 /\ rightRun' = 0 /\ pc' = "hold"
  /\ UNCHANGED <<envVars, pending, uartVars, edge, fresh, ppsSec, raced, swept,
                 clockVars, holdover, prevPpsMonotonicUs, tickExt, tickLastRaw, statVars>>

\* No pulse has disciplined the clock for FreshPps.
HoldoverBegins == gpsLock /\ ~holdover /\ now - lastPps > FreshPps

\* The rest of loop(), after the handler or when there was no edge.
Hold ==
  /\ pc = "hold" \/ (pc = "idle" /\ pending = 0 /\ ~swept)
  /\ pc' = "idle" /\ swept' = TRUE
  /\ holdover' = (holdover \/ HoldoverBegins)
  /\ fitValid' = (fitValid /\ ~HoldoverBegins)
  /\ UNCHANGED <<envVars, pending, uartVars, edge, fresh, ppsSec, raced, clockVars,
                 trackVars, tickInit, tickExt, tickLastRaw, fitRing, statVars, runVars>>

-----------------------------------------------------------------------------
Receiver == PulseTick \/ MissedTick \/ QuietTick \/ SpuriousTick \/ NmeaLost
Uart == NmeaSecond \/ NmeaStamp
Discipline ==
  TakeEdge \/ ReadAge \/ ReadSecond \/ Accept \/ SkipMispair \/ StaleNmea \/ Hold

Next == Receiver \/ Uart \/ Discipline

Spec == Init /\ [][Next]_vars

-----------------------------------------------------------------------------
WordsOK ==
  /\ now \in 1..MaxTime /\ pending \in 0..MaxTime
  /\ rmc \in Nat \ {0} /\ received \in 0..MinGood /\ faults \in 0..MaxFaults
  /\ lastNmeaUnixSec \in Nat /\ lastNmeaUpdateUs \in 0..MaxTime
  /\ edge \in 0..MaxTime /\ ppsSec \in Nat /\ sysErr \in Int /\ lastPps \in 0..MaxTime
  /\ mispairStreak \in 0..2 /\ prevPpsEdgeForOffset \in 0..MaxTime
  /\ prevPpsCapValue \in 0..(W - 1) /\ prevPpsMonotonicUs \in 0..MaxTime
  /\ tickExt \in Int /\ tickLastRaw \in 0..(W - 1)
  /\ fitRing \in Seq(Int) /\ Len(fitRing) <= FitWin
  /\ ppsIntervalMeanUs \in Int /\ statPpsCount \in 0..(Warmup + 1)
  /\ lateRun \in 0..LateCap /\ rightRun \in 0..RightCap

FlagsOK ==
  /\ pc \in {"idle", "age", "second", "settle", "hold"} /\ uart \in {"idle", "stamp"}
  /\ swept \in BOOLEAN /\ fresh \in BOOLEAN /\ raced \in BOOLEAN
  /\ gpsLock \in BOOLEAN /\ holdover \in BOOLEAN
  /\ tickInit \in BOOLEAN /\ fitValid \in BOOLEAN

TypeOK == WordsOK /\ FlagsOK

\* The mispair guard: true pulses put a clock that is right wrong only when
\* three edges in a row were paired with the wrong sentence, however the late
\* and lost sentences, the missed pulses, the noise and the races of the UART
\* task fall.
WrongNeedsPersistence ==
  [][sysErr = 0 /\ sysErr' # 0 /\ edge % U = 0 => lateRun' = LateCap]_vars

\* The guard cannot lock the device to a wrong second: three rightly labelled
\* pulses in a row put the clock right, give the lock and end the holdover.
RightLabelsHeal ==
  rightRun >= 3 /\ pc = "idle" => sysErr = 0 /\ gpsLock /\ ~holdover

\* The fit follows the pulses.  Whatever happened before, samples of two
\* timelines in the ring included, one pulse to close the gap and a window of
\* good ones give a valid fit of one timeline; and between calls of loop() a fit
\* is valid only while its anchor is at most FreshPps old, after which hardware
\* timestamps stand down and holdover is declared.
FitFollowsPulses ==
  /\ rightRun = RightCap /\ pc = "idle" =>
       fitValid /\ \A i \in 1..Len(fitRing) : fitRing[i] = fitRing[1]
  /\ swept /\ gpsLock /\ now - lastPps > FreshPps => holdover /\ ~fitValid

=============================================================================
