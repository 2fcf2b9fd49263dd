-------------------------- MODULE ServedTimeProofs --------------------------
(***************************************************************************)
(* Proofs about served time, for any second, low half, handler delay and   *)
(* trims, and any number of pulses and requests.                           *)
(***************************************************************************)
EXTENDS ServedTime, TLAPS

-----------------------------------------------------------------------------
(* Arithmetic of seconds and halves.                                       *)

\* Quotient and remainder of the integers, as the conversions use them.
LEMMA Division ==
  ASSUME NEW a \in Int, NEW b \in Nat \ {0}
  PROVE  /\ a \div b \in Int /\ a % b \in 0..(b - 1)
         /\ a = b * (a \div b) + (a % b)
BY SMT

\* A product grows with its factor.
LEMMA Scaled ==
  ASSUME NEW a \in Int, NEW b \in Int, NEW c \in Nat \ {0}, a <= b
  PROVE  a * c <= b * c /\ a * c \in Int /\ b * c \in Int
BY SMT

\* Division by a second or by a low half keeps the order.
LEMMA DivisionMonotone ==
  ASSUME NEW a \in Int, NEW b \in Int, NEW c \in Nat \ {0}, a <= b
  PROVE  a \div c <= b \div c
<1>1. a \div c \in Int /\ b \div c \in Int
  BY Division
<1>2. SUFFICES ASSUME b \div c <= a \div c - 1 PROVE FALSE
  BY <1>1
<1>3. c * (b \div c) <= c * (a \div c) - c
  <2>1. (b \div c) * c <= (a \div c - 1) * c
    BY <1>1, <1>2, Scaled
  <2>2. QED
    BY <2>1, <1>1
<1>4. a = c * (a \div c) + (a % c) /\ a % c \in 0..(c - 1)
  BY Division
<1>5. b = c * (b \div c) + (b % c) /\ b % c \in 0..(c - 1)
  BY Division
<1>6. c * (a \div c) \in Int /\ c * (b \div c) \in Int
  BY <1>1
<1>7. QED
  BY <1>3, <1>4, <1>5, <1>6

\* A timer value whose halves belong to one pulse is the pulse's; one whose low
\* half is of the later pulse is no larger than that pulse's.
LEMMA WordValue ==
  ASSUME NEW w \in [Halves -> Nat]
  PROVE  /\ Word(w) \in Int
         /\ High(w["lo"]) = High(w["hi"]) => Word(w) = w["lo"]
         /\ w["hi"] <= w["lo"] => Word(w) <= w["lo"]
<1> DEFINE lo == w["lo"]
           hi == w["hi"]
<1>1. lo \in Int /\ hi \in Int
  BY DEF Halves
<1>2. Half \in Nat \ {0}
  BY HalfAssumption
<1>3. /\ High(lo) \in Int /\ High(hi) \in Int /\ lo % Half \in 0..(Half - 1)
      /\ lo = Half * High(lo) + (lo % Half)
  BY <1>1, <1>2, Division DEF High
<1>4. Word(w) = High(hi) * Half + (lo % Half)
  BY DEF Word
<1>5. hi <= lo => High(hi) * Half <= High(lo) * Half
  <2>1. hi <= lo => High(hi) <= High(lo)
    BY <1>1, <1>2, DivisionMonotone DEF High
  <2>2. QED
    BY <2>1, <1>2, <1>3, Scaled
<1>6. High(hi) * Half \in Int /\ High(lo) * Half = Half * High(lo)
  BY <1>2, <1>3
<1>7. QED
  <2> HIDE DEF lo, hi
  <2>1. Word(w) \in Int /\ (High(lo) = High(hi) => Word(w) = lo)
    BY <1>1, <1>2, <1>3, <1>4, <1>6
  <2>2. hi <= lo => Word(w) <= lo
    BY <1>1, <1>2, <1>3, <1>4, <1>5, <1>6
  <2>3. QED
    BY <2>1, <2>2 DEF lo, hi

\* What the pulse's second is worth: the trimmed edge, less the fraction; and so
\* the edge itself, up to a trim ahead or a second borrowed.
LEMMA SecondOfEdge ==
  ASSUME NEW e \in Nat, e % U = 0
  PROVE  LET s == ((e + PpsCal) \div U) * U
         IN  /\ s \in Int /\ s + ((e + PpsCal) % U) = e + PpsCal
             /\ s >= e - Lag /\ s <= e + Positive(PpsCal)
<1> DEFINE q == (e + PpsCal) \div U
           r == (e + PpsCal) % U
           k == e \div U
<1>1. U \in Nat \ {0} /\ PpsCal \in (-U)..U
  BY UnitAssumption, CalAssumption
<1>2. q \in Int /\ r \in 0..(U - 1) /\ e + PpsCal = U * q + r
  <2>1. e + PpsCal \in Int
    BY <1>1
  <2>2. QED
    BY <1>1, <2>1, Division
<1>3. k \in Int /\ e = U * k
  <2>1. k \in Int /\ e = U * k + (e % U)
    BY <1>1, Division
  <2>2. U * k \in Int
    BY <1>1, <2>1
  <2>3. QED
    BY <2>1, <2>2
<1> HIDE DEF q, r, k
<1>4. q * U = U * q /\ q * U \in Int /\ U * k \in Int
  BY <1>1, <1>2, <1>3
<1>5. q * U + r = e + PpsCal
  BY <1>1, <1>2, <1>4
<1>6. q * U >= e - Lag
  <2>1. CASE PpsCal >= 0
    <3>1. k <= q
      <4>1. e <= e + PpsCal
        BY <1>1, <2>1
      <4>2. QED
        BY <1>1, <4>1, DivisionMonotone DEF q, k
    <3>2. k * U <= q * U
      BY <1>1, <1>2, <1>3, <3>1, Scaled
    <3>3. k * U = U * k
      BY <1>1, <1>3
    <3>4. Lag = 0
      BY <1>1, <2>1 DEF Lag
    <3>5. QED
      BY <1>3, <1>4, <3>2, <3>3, <3>4
  <2>2. CASE PpsCal < 0
    <3>1. q * U > e + PpsCal - U
      BY <1>1, <1>2, <1>4, <1>5
    <3>2. k - 1 <= q
      <4>1. SUFFICES ASSUME q <= k - 2 PROVE FALSE
        BY <1>2, <1>3
      <4>2. q * U <= (k - 2) * U
        BY <1>1, <1>2, <1>3, <4>1, Scaled
      <4>3. (k - 2) * U = U * k - 2 * U
        BY <1>1, <1>3
      <4>4. QED
        BY <1>1, <1>3, <1>4, <3>1, <4>2, <4>3
    <3>3. (k - 1) * U <= q * U
      BY <1>1, <1>2, <1>3, <3>2, Scaled
    <3>4. (k - 1) * U = U * k - U
      BY <1>1, <1>3
    <3>5. Lag = U
      BY <2>2 DEF Lag
    <3>6. QED
      BY <1>1, <1>3, <1>4, <3>3, <3>4, <3>5
  <2>3. QED
    BY <1>1, <2>1, <2>2
<1>7. q * U <= e + Positive(PpsCal)
  BY <1>1, <1>2, <1>4, <1>5 DEF Positive
<1>8. QED
  BY <1>4, <1>5, <1>6, <1>7 DEF q, r

-----------------------------------------------------------------------------
(* The inductive invariant: the discipline task, then the NTP task.        *)

\* The second stored last, in units.
SecUnits == lastPpsSec1900 * U

\* A pulse is on a whole second, in the past, and its handler ends in time.
PulseInv ==
  /\ edge <= now /\ edge % U = 0
  /\ store # "none" => now <= edge + Delay

\* A half that is not of the pulse in hand is of an older one, and so is then
\* the other half, or it is of the pulse in hand.
HalvesInv ==
  /\ \A h \in Halves : lastPpsMonotonicUs[h] <= edge
  /\ \A h, g \in Halves :
       lastPpsMonotonicUs[h] # edge => lastPpsMonotonicUs[h] <= lastPpsMonotonicUs[g]
  /\ store \in {"none", "anchor"} => \A h \in Halves : lastPpsMonotonicUs[h] = edge
  /\ store \in {"sec", "frac"} => lastPpsMonotonicUs["lo"] = lastPpsMonotonicUs["hi"]
  /\ store = "mono" => \A h \in Halves \ toStore : lastPpsMonotonicUs[h] = edge

\* The second stored is never older than a timer value stored, and once the
\* words of a pulse are whole it is no newer either.
SecondInv ==
  /\ store = "frac" => lastPpsSec1900 = (edge + PpsCal) \div U
  /\ store \in {"frac", "mono", "anchor"} =>
       SecUnits >= edge - Lag /\ SecUnits <= edge + Positive(PpsCal)
  /\ store \in {"mono", "anchor"} => SecUnits + lastPpsFrac = edge + PpsCal
  /\ gpsLock =>
       /\ \A h \in Halves : SecUnits >= lastPpsMonotonicUs[h] - Lag
       /\ store \in {"none", "sec"} =>
            SecUnits <= lastPpsMonotonicUs["lo"] + Positive(PpsCal)
       /\ anchor.time = anchor.edge + PpsCal

\* The halves the conversion under way has loaded.
Loaded ==
  IF pc \in {"sec2", "sec3", "write2", "write3"} THEN Halves
  ELSE IF pc \in {"mono2", "mono3"} THEN Halves \ toLoad ELSE {}

\* The instant a conversion was asked for: of the prediction, when it was made.
Asked == IF pc \in {"capture", "mono2", "sec2", "write2"} THEN t2us ELSE t3us

\* What was loaded is no newer than the second, and than what is stored unless it
\* is of the pulse in hand.  Whatever is newer than a low half that was loaded
\* was not stored yet when the request came, or just then.
LoadInv ==
  /\ pc # "idle" => gpsLock
  /\ pc \notin {"mono2", "mono3"} => toLoad = Halves
  /\ t2us <= now /\ t3us <= now
  /\ \A h \in Loaded :
       /\ mono[h] <= edge /\ SecUnits >= mono[h] - Lag
       /\ mono[h] # edge => \A g \in Halves : mono[h] <= lastPpsMonotonicUs[g]
  /\ "lo" \in Loaded =>
       /\ mono["lo"] < edge => Asked <= edge + Delay
       /\ mono["lo"] < lastPpsMonotonicUs["hi"] =>
            Asked <= lastPpsMonotonicUs["hi"] + Delay
  /\ Loaded = Halves /\ mono["lo"] < mono["hi"] => Asked <= mono["hi"] + Delay
  /\ pc \in {"sec2", "sec3", "write2", "write3"} /\ ~torn =>
       High(mono["lo"]) = High(mono["hi"])
  /\ pc \in {"write2", "write3"} => \A h \in Halves : sec * U >= mono[h] - Lag

\* Without a race everything loaded is of one pulse.
RaceInv ==
  ~raced =>
    /\ ~torn
    /\ pc \in {"mono2", "mono3", "sec2", "sec3"} /\ Loaded # {} =>
         /\ store \in {"none", "anchor", "sec"}
         /\ \A h \in Loaded : mono[h] = lastPpsMonotonicUs[h]
    /\ pc \in {"write2", "write3"} =>
         mono["lo"] = mono["hi"] /\ sec * U <= mono["lo"] + Positive(PpsCal)

\* The request's own values: the instants it converts, and its capture.  The
\* prediction is no longer than a send has taken.
RequestInv ==
  /\ pc \in {"capture", "mono2", "sec2", "write2"} => at = t2us
  /\ pc \in {"mono3", "sec3", "write3"} => at = t3us + txCorrection
  /\ rxCap # 0 => rxCap = t2us
  /\ cap # 0 => cap = t2us + PpsCal
  /\ pc = "idle" => cap = 0
  /\ pc \in {"idle", "capture", "mono2", "sec2", "write2", "reply"} => t3us = 0
  /\ txCorrection <= longest

Slack == Behind + (IF torn THEN Delay ELSE 0)

ReplyInv ==
  /\ pc \in {"reply", "mono3", "sec3", "write3", "send"} => t2 + Slack >= t2us
  /\ pc = "reply" /\ ~raced => t2 <= now + Ahead
  /\ pc \in {"mono3", "sec3", "write3"} /\ ~raced => t2 <= t3us + Ahead
  /\ pc = "send" /\ ~raced => t2 <= now + Ahead

DisciplineInv == PulseInv /\ HalvesInv /\ SecondInv

IInv ==
  /\ TypeOK /\ DisciplineInv /\ LoadInv /\ RaceInv /\ RequestInv /\ ReplyInv
  /\ NeverSlow /\ ReplyOrdered

-----------------------------------------------------------------------------
(* The steps of a call around its conversions.                             *)

Around ==
  \/ Receive \/ Capture \/ WriteT2 \/ RejectCapture \/ Reply \/ ReplyInterleaved
  \/ WriteT3 \/ WriteT3Fallback \/ Sent \/ FallBack \/ FallBackInterleaved \/ Unsent

Conversion == LoadSec \/ \E h \in Halves : LoadMono(h)

\* A call is made of them and of its conversions.
LEMMA ServeSplit == Serve => Around \/ Conversion
BY DEF Serve, Around, Conversion

\* They leave the anchor alone, and nothing is loaded before them or after.
LEMMA AroundLeaves ==
  ASSUME Around
  PROVE  /\ UNCHANGED <<now, disciplineVars, toLoad>>
         /\ pc \notin {"mono2", "mono3", "sec2", "sec3"}
         /\ pc' \in {"capture", "mono2", "reply", "mono3", "send", "idle"}
         /\ t2us' \in {0, t2us, now} /\ t3us' \in {0, t3us, now}
         /\ (raced' = raced /\ torn' = torn) \/ (raced' = FALSE /\ torn' = FALSE)
         /\ pc = "idle" => gpsLock
<1>1. CASE Receive \/ Capture \/ WriteT2 \/ RejectCapture
  BY <1>1 DEF Receive, Capture, WriteT2, RejectCapture, Converted
<1>2. CASE Reply \/ FallBack
  BY <1>2 DEF Reply, FallBack, Predict
<1>3. CASE ReplyInterleaved \/ FallBackInterleaved
  BY <1>3 DEF ReplyInterleaved, FallBackInterleaved
<1>4. CASE WriteT3 \/ WriteT3Fallback
  BY <1>4 DEF WriteT3, WriteT3Fallback, Converted, sendVars
<1>5. CASE Sent \/ Unsent
  BY <1>5 DEF Sent, Unsent, Returns
<1>6. QED
  BY <1>1, <1>2, <1>3, <1>4, <1>5 DEF Around

\* A conversion changes nothing but what it loads.
LEMMA ConversionLeaves ==
  ASSUME Conversion
  PROVE  /\ UNCHANGED <<now, disciplineVars, t2us, rxCap, at, cap, t2, t3, t3us, sendVars>>
         /\ \/ pc \in {"mono2", "sec2"} /\ pc' \in {"mono2", "sec2", "write2"}
            \/ pc \in {"mono3", "sec3"} /\ pc' \in {"mono3", "sec3", "write3"}
BY DEF Conversion, LoadSec, LoadMono

-----------------------------------------------------------------------------
(* Type correctness.                                                       *)

\* The conversion yields an integer.
LEMMA ConversionType ==
  ASSUME TypeOK
  PROVE  Word(mono) \in Int /\ sec * U \in Int /\ Extrapolated \in Int
<1>1. U \in Nat /\ sec \in Int /\ at \in Nat
  BY UnitAssumption DEF TypeOK, WordsOK
<1>2. Word(mono) \in Int
  BY WordValue DEF TypeOK, WordsOK
<1>3. QED
  BY <1>1, <1>2 DEF Extrapolated

\* The average of the spans of the sends is no longer than the longest of them.
LEMMA SpanLearned ==
  ASSUME WordsOK, Sent
  PROVE  /\ txCorrection' \in Nat /\ longest' \in Nat
         /\ txCorrection <= longest => txCorrection' <= longest'
<1> DEFINE span == now - txStart
<1>1. /\ now \in Nat /\ txStart \in 0..now /\ txCorrection \in Nat /\ longest \in Nat
  BY DEF WordsOK
<1>2. span \in Nat
  BY <1>1
<1>3. txCorrection' \in Averaged(span) /\ longest' = Greater(longest, span)
  BY DEF Sent
<1> HIDE DEF span
<1>4. \/ txCorrection' = span
      \/ txCorrection' \in Lesser(txCorrection, span)..Greater(txCorrection, span)
  BY <1>3 DEF Averaged
<1>5. QED
  BY <1>1, <1>2, <1>3, <1>4 DEF Lesser, Greater

\* Every word keeps the range its declaration gives it, the fraction that of a
\* second.
THEOREM TypeCorrect == Spec => []TypeOK
<1>1. Init => TypeOK
  <2> SUFFICES ASSUME Init PROVE TypeOK
    OBVIOUS
  <2>1. FlagsOK
    BY DEF Init, FlagsOK
  <2>2. Whole(0) \in [Halves -> Nat]
    BY DEF Whole
  <2>3. [edge |-> 0, time |-> 0] \in [edge : Nat, time : Int]
    OBVIOUS
  <2>4. /\ now \in Nat /\ pulses \in 0..MaxPulses /\ edge \in Nat
        /\ lastPpsSec1900 \in Int /\ lastPpsFrac \in 0..(U - 1)
        /\ t2us \in Nat /\ rxCap \in Nat /\ at \in Nat /\ sec \in Int
        /\ cap \in Int /\ t2 \in Int /\ t3 \in Int /\ t3us \in Nat
        /\ txStart \in 0..now /\ txCorrection \in Nat /\ longest \in Nat
    BY UnitAssumption DEF Init
  <2>5. /\ store \in Stores /\ pc \in Places /\ toStore \subseteq Halves
        /\ toLoad \in (SUBSET Halves) \ {{}}
        /\ lastPpsMonotonicUs = Whole(0) /\ mono = Whole(0)
        /\ anchor = [edge |-> 0, time |-> 0]
    BY DEF Init, Stores, Places, Halves
  <2>6. QED
    BY <2>1, <2>2, <2>3, <2>4, <2>5 DEF TypeOK, WordsOK
<1>2. FlagsOK /\ [Next]_vars => FlagsOK'
  <2> SUFFICES ASSUME FlagsOK, [Next]_vars PROVE FlagsOK'
    OBVIOUS
  <2> USE DEF FlagsOK
  <2>1. CASE Tick \/ Discipline \/ UNCHANGED vars
    BY <2>1 DEF Discipline, Tick, Pulse, StoreSec, StoreFrac, StoreMono, PublishAnchor,
                LoseFit, vars, disciplineVars, serveVars, sendVars
  <2>2. CASE Conversion
    BY <2>2 DEF Conversion, LoadMono, LoadSec, disciplineVars, sendVars
  <2>3. CASE Around
    <3>1. gpsLock' = gpsLock /\ fitValid' = fitValid
      BY <2>3, AroundLeaves DEF disciplineVars
    <3>2. raced' \in BOOLEAN /\ torn' \in BOOLEAN
      BY <2>3, AroundLeaves
    <3>3. late' \in BOOLEAN /\ txCorrectionSeeded' \in BOOLEAN
      BY <2>3 DEF Around, Receive, Capture, WriteT2, RejectCapture, Reply, ReplyInterleaved,
                  WriteT3, WriteT3Fallback, Sent, FallBack, FallBackInterleaved, Unsent,
                  Predict, Returns, sendVars
    <3>4. QED
      BY <3>1, <3>2, <3>3
  <2>4. QED
    BY <2>1, <2>2, <2>3, ServeSplit DEF Next
<1>3. TypeOK /\ [Next]_vars => WordsOK'
  <2> SUFFICES ASSUME TypeOK, [Next]_vars PROVE WordsOK'
    OBVIOUS
  <2>u. U \in Nat \ {0} /\ PpsCal \in Int /\ ServeCal \in Int
    BY UnitAssumption, CalAssumption
  <2>w. WordsOK
    BY DEF TypeOK
  <2> USE <2>w DEF WordsOK
  <2>1. CASE Tick
    BY <2>1 DEF Tick, disciplineVars, serveVars, sendVars
  <2>2. CASE Pulse
    <3>1. /\ now' = now /\ store' \in Stores /\ edge' \in Nat /\ pulses' \in 0..MaxPulses
      BY <2>2, UnitAssumption DEF Pulse, Stores
    <3>2. QED
      BY <2>2, <3>1 DEF Pulse, serveVars, sendVars
  <2>3. CASE StoreSec
    <3>1. (edge + PpsCal) \div U \in Int
      BY <2>u, Division
    <3>2. QED
      BY <2>3, <3>1 DEF StoreSec, serveVars, sendVars, Stores
  <2>4. CASE StoreFrac
    <3>1. (edge + PpsCal) % U \in 0..(U - 1)
      BY <2>u, Division
    <3>2. QED
      BY <2>4, <3>1 DEF StoreFrac, serveVars, sendVars, Stores
  <2>5. ASSUME NEW h \in Halves, StoreMono(h) PROVE WordsOK'
    BY <2>5 DEF StoreMono, serveVars, sendVars, Stores
  <2>6. CASE PublishAnchor
    <3>1. lastPpsSec1900 * U + lastPpsFrac \in Int
      BY <2>u
    <3>2. QED
      BY <2>6, <3>1 DEF PublishAnchor, serveVars, sendVars, Stores
  <2>7. CASE LoseFit
    BY <2>7 DEF LoseFit, serveVars, sendVars
  <2>8. CASE Receive
    <3>1. rxCap' \in Nat /\ pc' \in Places
      BY <2>8 DEF Receive, Places
    <3>2. QED
      BY <2>8, <3>1 DEF Receive, disciplineVars, sendVars
  <2>9. CASE Capture
    <3>1. cap' \in Int /\ pc' \in Places
      BY <2>9 DEF Capture, Places
    <3>2. QED
      BY <2>9, <3>1 DEF Capture, disciplineVars, sendVars
  <2>10. ASSUME NEW h \in Halves, LoadMono(h) PROVE WordsOK'
    <3>1. toLoad' \in (SUBSET Halves) \ {{}}
      <4>1. CASE toLoad = {h}
        BY <2>10, <4>1 DEF LoadMono, Halves
      <4>2. CASE toLoad # {h}
        <5>1. toLoad' = toLoad \ {h} /\ h \in toLoad
          BY <2>10, <4>2 DEF LoadMono
        <5>2. toLoad' # {}
          BY <4>2, <5>1
        <5>3. QED
          BY <5>1, <5>2
      <4>3. QED
        BY <4>1, <4>2
    <3>2. pc' \in Places
      BY <2>10 DEF LoadMono, Places
    <3>3. mono' \in [Halves -> Nat]
      BY <2>10 DEF LoadMono
    <3>4. QED
      BY <2>10, <3>1, <3>2, <3>3 DEF LoadMono, disciplineVars, sendVars
  <2>11. CASE LoadSec
    BY <2>11 DEF LoadSec, disciplineVars, sendVars, Places
  <2>c. Converted => mono' \in [Halves -> Nat] /\ sec' \in Int
    BY DEF Converted, Whole
  <2>12. CASE WriteT2 \/ RejectCapture
    <3>1. t2' \in Int /\ cap' \in Int
      BY <2>12, <2>u, ConversionType DEF WriteT2, RejectCapture
    <3>2. pc' \in Places
      BY <2>12 DEF WriteT2, RejectCapture, Places
    <3>3. QED
      BY <2>12, <2>c, <3>1, <3>2 DEF WriteT2, RejectCapture, disciplineVars, sendVars
  <2>13. CASE Reply \/ FallBack
    BY <2>13 DEF Reply, FallBack, Predict, disciplineVars, Places
  <2>i. CASE ReplyInterleaved \/ FallBackInterleaved
    BY <2>i DEF ReplyInterleaved, FallBackInterleaved, disciplineVars, Places
  <2>14. CASE WriteT3 \/ WriteT3Fallback
    <3>1. t3' \in Int
      BY <2>14, <2>u, ConversionType DEF WriteT3, WriteT3Fallback
    <3>2. pc' \in Places /\ txStart' \in Nat
      BY <2>14 DEF WriteT3, WriteT3Fallback, Places, sendVars
    <3>3. QED
      BY <2>14, <2>c, <3>1, <3>2 DEF WriteT3, WriteT3Fallback, disciplineVars, sendVars
  <2>s. CASE Sent \/ Unsent
    <3>1. txCorrection' \in Nat /\ longest' \in Nat
      BY <2>s, SpanLearned DEF Unsent
    <3>2. QED
      BY <2>s, <3>1 DEF Sent, Unsent, Returns, disciplineVars, Places
  <2>15. CASE UNCHANGED vars
    BY <2>15 DEF vars, disciplineVars, serveVars, sendVars
  <2>16. QED
    BY <2>1, <2>2, <2>3, <2>4, <2>5, <2>6, <2>7, <2>8, <2>9, <2>10, <2>11, <2>12,
       <2>13, <2>14, <2>15, <2>i, <2>s DEF Next, Discipline, Serve
<1>4. QED
  <2>1. TypeOK /\ [Next]_vars => TypeOK'
    BY <1>2, <1>3 DEF TypeOK
  <2>2. QED
    BY <1>1, <2>1, PTL DEF Spec

-----------------------------------------------------------------------------
(* The discipline task's part of the invariant.                            *)

\* The NTP task stores nothing of the anchor.
LEMMA ServeKeepsAnchor ==
  Serve \/ UNCHANGED vars => UNCHANGED <<now, disciplineVars>>
BY ServeSplit, AroundLeaves, ConversionLeaves DEF vars

\* Between pulses the three words stored stand for one edge; while a pulse is
\* handled the second is the first of them to move.
LEMMA DisciplineInvariant == Spec => []DisciplineInv
<1>u. /\ U \in Nat \ {0} /\ PpsCal \in Int /\ Delay \in Nat /\ Lag \in Int
      /\ Positive(PpsCal) \in Nat
  BY UnitAssumption, CalAssumption DEF Lag, Positive
<1>1. Init => DisciplineInv
  <2> SUFFICES ASSUME Init PROVE DisciplineInv
    OBVIOUS
  <2>1. 0 % U = 0
    BY <1>u
  <2>2. PulseInv
    BY <1>u, <2>1 DEF Init, PulseInv
  <2>3. HalvesInv
    BY DEF Init, HalvesInv, Whole, Halves
  <2>4. SecondInv
    BY DEF Init, SecondInv
  <2>5. QED
    BY <2>2, <2>3, <2>4 DEF DisciplineInv
<1>2. TypeOK /\ DisciplineInv /\ [Next]_vars => DisciplineInv'
  <2> SUFFICES ASSUME TypeOK, PulseInv, HalvesInv, SecondInv, [Next]_vars
               PROVE  PulseInv' /\ HalvesInv' /\ SecondInv'
    BY DEF DisciplineInv
  <2>w. WordsOK
    BY DEF TypeOK
  <2>p. SecUnits \in Int
    BY <1>u, <2>w DEF WordsOK, SecUnits
  <2>1. CASE Tick
    <3>1. UNCHANGED <<SecUnits, disciplineVars>>
      BY <2>1 DEF Tick, SecUnits, disciplineVars
    <3>2. PulseInv'
      BY <2>1, <1>u, <2>w DEF Tick, PulseInv, disciplineVars, WordsOK
    <3>3. HalvesInv' /\ SecondInv'
      BY <3>1 DEF HalvesInv, SecondInv, disciplineVars
    <3>4. QED
      BY <3>2, <3>3
  <2>2. CASE Pulse
    <3>1. PulseInv'
      BY <2>2, <1>u, <2>w DEF Pulse, PulseInv, WordsOK
    <3>2. HalvesInv'
      BY <2>2, <2>w DEF Pulse, PulseInv, HalvesInv, WordsOK, Halves
    <3>3. SecUnits' = SecUnits
      BY <2>2 DEF Pulse, SecUnits
    <3>4. SecondInv'
      BY <2>2, <3>3 DEF Pulse, SecondInv
    <3>5. QED
      BY <3>1, <3>2, <3>4
  <2>3. CASE StoreSec
    <3>1. PulseInv' /\ HalvesInv'
      BY <2>3 DEF StoreSec, PulseInv, HalvesInv
    <3>2. /\ SecUnits' >= edge - Lag /\ SecUnits' <= edge + Positive(PpsCal)
          /\ SecUnits' \in Int
      BY <2>3, <2>w, SecondOfEdge DEF StoreSec, PulseInv, SecUnits, WordsOK
    <3>3. \A h \in Halves : SecUnits' >= lastPpsMonotonicUs[h] - Lag
      BY <1>u, <2>w, <3>2 DEF HalvesInv, WordsOK, Halves
    <3>4. SecondInv'
      BY <2>3, <3>2, <3>3 DEF StoreSec, SecondInv
    <3>5. QED
      BY <3>1, <3>4
  <2>4. CASE StoreFrac
    <3>1. PulseInv' /\ HalvesInv'
      BY <2>4 DEF StoreFrac, PulseInv, HalvesInv
    <3>2. SecUnits' = SecUnits
      BY <2>4 DEF StoreFrac, SecUnits
    <3>3. SecUnits + lastPpsFrac' = edge + PpsCal
      BY <2>4, <2>w, SecondOfEdge DEF StoreFrac, SecondInv, SecUnits, PulseInv, WordsOK
    <3>4. SecondInv'
      BY <2>4, <3>2, <3>3 DEF StoreFrac, SecondInv
    <3>5. QED
      BY <3>1, <3>4
  <2>5. ASSUME NEW h \in Halves, StoreMono(h)
        PROVE  PulseInv' /\ HalvesInv' /\ SecondInv'
    <3>1. PulseInv'
      BY <2>5 DEF StoreMono, PulseInv
    <3>2. /\ lastPpsMonotonicUs' \in [Halves -> Nat]
          /\ lastPpsMonotonicUs'[h] = edge
          /\ \A g \in Halves \ {h} : lastPpsMonotonicUs'[g] = lastPpsMonotonicUs[g]
      BY <2>5, <2>w DEF StoreMono, WordsOK
    <3>3. HalvesInv'
      <4>1. store' = "anchor" => \A g \in Halves : lastPpsMonotonicUs'[g] = edge
        BY <2>5, <3>2 DEF StoreMono, HalvesInv
      <4>2. store' = "mono" => \A g \in Halves \ toStore' : lastPpsMonotonicUs'[g] = edge
        BY <2>5, <3>2 DEF StoreMono, HalvesInv
      <4>3. \A g \in Halves : lastPpsMonotonicUs'[g] <= edge
        BY <2>w, <3>2 DEF HalvesInv, WordsOK
      <4>4. \A g, k \in Halves :
              lastPpsMonotonicUs'[g] # edge => lastPpsMonotonicUs'[g] <= lastPpsMonotonicUs'[k]
        BY <2>w, <3>2, <4>3 DEF HalvesInv, WordsOK
      <4>5. edge' = edge /\ store' \in {"anchor", "mono"}
        BY <2>5 DEF StoreMono
      <4>6. QED
        BY <4>1, <4>2, <4>3, <4>4, <4>5 DEF HalvesInv
    <3>4. SecUnits' = SecUnits
      BY <2>5 DEF StoreMono, SecUnits
    <3>5. SecondInv'
      <4>1. SecUnits >= edge - Lag
        BY <2>5 DEF StoreMono, SecondInv
      <4>2. gpsLock => \A g \in Halves : SecUnits >= lastPpsMonotonicUs'[g] - Lag
        BY <3>2, <4>1 DEF SecondInv
      <4>3. QED
        BY <2>5, <3>4, <4>2 DEF StoreMono, SecondInv
    <3>6. QED
      BY <3>1, <3>3, <3>5
  <2>6. CASE PublishAnchor
    <3>1. PulseInv' /\ HalvesInv'
      BY <2>6 DEF PublishAnchor, PulseInv, HalvesInv, Halves
    <3>2. SecUnits' = SecUnits /\ edge' = edge /\ lastPpsMonotonicUs' = lastPpsMonotonicUs
      BY <2>6 DEF PublishAnchor, SecUnits
    <3>3. /\ \A h \in Halves : lastPpsMonotonicUs[h] = edge
          /\ SecUnits >= edge - Lag /\ SecUnits <= edge + Positive(PpsCal)
      BY <2>6 DEF PublishAnchor, HalvesInv, SecondInv
    <3>4. anchor'.time = anchor'.edge + PpsCal
      BY <2>6 DEF PublishAnchor, SecondInv, SecUnits
    <3>5. SecondInv'
      BY <2>6, <3>2, <3>3, <3>4 DEF PublishAnchor, SecondInv, Halves
    <3>6. QED
      BY <3>1, <3>5
  <2>7. CASE LoseFit
    <3>1. SecUnits' = SecUnits
      BY <2>7 DEF LoseFit, SecUnits
    <3>2. QED
      BY <2>7, <3>1 DEF LoseFit, PulseInv, HalvesInv, SecondInv
  <2>8. CASE Serve \/ UNCHANGED vars
    <3>1. UNCHANGED <<now, disciplineVars, SecUnits>>
      BY <2>8, ServeKeepsAnchor DEF disciplineVars, SecUnits
    <3>2. QED
      BY <3>1 DEF PulseInv, HalvesInv, SecondInv, disciplineVars
  <2>9. QED
    BY <2>1, <2>2, <2>3, <2>4, <2>5, <2>6, <2>7, <2>8 DEF Next, Discipline
<1>3. QED
  BY <1>1, <1>2, TypeCorrect, PTL DEF Spec

-----------------------------------------------------------------------------
(* What a conversion has loaded.                                           *)

\* Time and the discipline task change nothing of the request.
LEMMA DisciplineKeepsRequest ==
  Tick \/ Discipline \/ UNCHANGED vars =>
    UNCHANGED <<pc, t2us, rxCap, at, mono, toLoad, sec, cap, t2, t3, t3us, sendVars, torn>>
BY DEF Tick, Discipline, Pulse, StoreSec, StoreFrac, StoreMono, PublishAnchor, LoseFit,
       vars, serveVars

\* The lock is never lost.
LEMMA LockStays == [Next]_vars /\ gpsLock => gpsLock'
<1>1. Serve \/ UNCHANGED vars => gpsLock' = gpsLock
  BY ServeKeepsAnchor DEF disciplineVars
<1>2. QED
  BY <1>1 DEF Next, Tick, Discipline, Pulse, StoreSec, StoreFrac, StoreMono, PublishAnchor,
              LoseFit, disciplineVars

\* The second is never older than a half that was loaded, and a timer value torn
\* between two pulses is one of a request that came as the later was handled.
LEMMA LoadInvariant == Spec => []LoadInv
<1>u. /\ U \in Nat \ {0} /\ PpsCal \in Int /\ Delay \in Nat /\ Lag \in Int
      /\ Positive(PpsCal) \in Nat
  BY UnitAssumption, CalAssumption DEF Lag, Positive
<1>1. Init => LoadInv
  <2> SUFFICES ASSUME Init PROVE LoadInv
    OBVIOUS
  <2>1. Loaded = {}
    BY DEF Init, Loaded
  <2>2. pc = "idle" /\ toLoad = Halves /\ t2us = 0 /\ t3us = 0 /\ now = 2 * U
    BY DEF Init
  <2>3. t2us <= now /\ t3us <= now
    BY <1>u, <2>2
  <2>4. "lo" \in Halves
    BY DEF Halves
  <2>5. QED
    BY <2>1, <2>2, <2>3, <2>4 DEF LoadInv
<1>2. TypeOK /\ DisciplineInv /\ LoadInv /\ [Next]_vars => LoadInv'
  <2> SUFFICES ASSUME TypeOK, PulseInv, HalvesInv, SecondInv, LoadInv, [Next]_vars
               PROVE  LoadInv'
    BY DEF DisciplineInv
  <2>w. WordsOK
    BY DEF TypeOK
  <2>p. SecUnits \in Int
    BY <1>u, <2>w DEF WordsOK, SecUnits
  <2>l. pc # "idle" => gpsLock'
    BY LockStays DEF LoadInv
  <2>t. Asked <= now /\ Asked \in Nat
    BY <2>w DEF Asked, LoadInv, WordsOK
  <2>1. ASSUME UNCHANGED <<pc, t2us, t3us, mono, toLoad, sec, torn>>,
               UNCHANGED <<edge, SecUnits, lastPpsMonotonicUs>>, now' \in {now, now + 1}
        PROVE  LoadInv'
    <3>1. /\ Loaded' = Loaded /\ Asked' = Asked
          /\ t2us' <= now' /\ t3us' <= now'
      BY <2>1, <2>w DEF Loaded, Asked, LoadInv, WordsOK
    <3>2. QED
      BY <2>1, <2>l, <3>1 DEF LoadInv, High
  <2>2. CASE Tick \/ StoreFrac \/ PublishAnchor \/ LoseFit \/ UNCHANGED vars
    <3>1. UNCHANGED <<edge, SecUnits, lastPpsMonotonicUs>>
      BY <2>2 DEF Tick, StoreFrac, PublishAnchor, LoseFit, vars, disciplineVars, SecUnits
    <3>2. now' \in {now, now + 1}
      BY <2>2 DEF Tick, StoreFrac, PublishAnchor, LoseFit, vars
    <3>3. QED
      BY <2>1, <2>2, <3>1, <3>2, DisciplineKeepsRequest DEF Discipline
  <2>3. CASE Pulse
    <3>1. UNCHANGED <<pc, t2us, t3us, mono, toLoad, sec, torn, Loaded, Asked>>
      BY <2>3, DisciplineKeepsRequest DEF Discipline, Loaded, Asked
    <3>2. /\ UNCHANGED <<now, SecUnits, lastPpsMonotonicUs>>
          /\ edge' = now
      BY <2>3 DEF Pulse, SecUnits
    <3>3. \A g \in Halves : lastPpsMonotonicUs[g] = edge
      BY <2>3 DEF Pulse, HalvesInv
    <3>4. Loaded \subseteq Halves
      BY DEF Loaded
    <3>5. \A h \in Loaded : mono[h] <= edge' /\ mono[h] <= edge
      BY <2>w, <3>2, <3>4 DEF LoadInv, PulseInv, WordsOK
    <3>6. Asked <= edge' + Delay
      BY <1>u, <2>w, <2>t, <3>2 DEF WordsOK
    <3>7. QED
      BY <2>l, <3>1, <3>2, <3>3, <3>5, <3>6 DEF LoadInv, High
  <2>4. CASE StoreSec
    <3>1. UNCHANGED <<pc, t2us, t3us, mono, toLoad, sec, torn, Loaded, Asked>>
      BY <2>4, DisciplineKeepsRequest DEF Discipline, Loaded, Asked
    <3>2. UNCHANGED <<now, edge, lastPpsMonotonicUs>>
      BY <2>4 DEF StoreSec
    <3>3. SecUnits' >= edge - Lag /\ SecUnits' \in Int
      BY <2>4, <2>w, SecondOfEdge DEF StoreSec, PulseInv, SecUnits, WordsOK
    <3>4. Loaded \subseteq Halves
      BY DEF Loaded
    <3>5. \A h \in Loaded : SecUnits' >= mono[h] - Lag
      BY <1>u, <2>w, <3>3, <3>4 DEF LoadInv, WordsOK
    <3>6. QED
      BY <2>l, <3>1, <3>2, <3>5 DEF LoadInv, High
  <2>5. ASSUME NEW k \in Halves, StoreMono(k) PROVE LoadInv'
    <3>1. UNCHANGED <<pc, t2us, t3us, mono, toLoad, sec, torn, Loaded, Asked>>
      BY <2>5, DisciplineKeepsRequest DEF Discipline, Loaded, Asked
    <3>2. UNCHANGED <<now, edge, SecUnits>>
      BY <2>5 DEF StoreMono, SecUnits
    <3>3. \A g \in Halves : lastPpsMonotonicUs'[g] \in {lastPpsMonotonicUs[g], edge}
      BY <2>5, <2>w DEF StoreMono, WordsOK
    <3>4. Loaded \subseteq Halves
      BY DEF Loaded
    <3>5. \A h \in Loaded, g \in Halves :
            mono[h] # edge => mono[h] <= lastPpsMonotonicUs'[g]
      BY <3>3 DEF LoadInv
    <3>6. "lo" \in Loaded /\ mono["lo"] < lastPpsMonotonicUs'["hi"]
            => Asked <= lastPpsMonotonicUs'["hi"] + Delay
      BY <3>3 DEF LoadInv, Halves
    <3>7. QED
      BY <2>l, <3>1, <3>2, <3>5, <3>6 DEF LoadInv, High
  <2>6. CASE Around
    <3>1. toLoad = Halves /\ toLoad' = Halves
      BY <2>6, AroundLeaves DEF LoadInv
    <3>2. /\ pc' \in {"capture", "mono2", "reply", "mono3", "send", "idle"}
          /\ t2us' \in {0, t2us, now} /\ t3us' \in {0, t3us, now} /\ now' = now
      BY <2>6, AroundLeaves
    <3>3. Loaded' = {} /\ "lo" \in Halves
      BY <3>1, <3>2 DEF Loaded, Halves
    <3>4. t2us' <= now' /\ t3us' <= now'
      BY <2>w, <3>2 DEF LoadInv, WordsOK
    <3>5. gpsLock'
      BY <2>6, AroundLeaves, LockStays DEF LoadInv
    <3>6. QED
      BY <3>1, <3>2, <3>3, <3>4, <3>5 DEF LoadInv
  <2>8. ASSUME NEW k \in Halves, LoadMono(k) PROVE LoadInv'
    <3>1. /\ UNCHANGED <<now, t2us, t3us, sec, edge, SecUnits, lastPpsMonotonicUs, gpsLock>>
          /\ Asked' = Asked
      BY <2>8 DEF LoadMono, disciplineVars, SecUnits, Asked
    <3>2. /\ pc \in {"mono2", "mono3"} /\ k \in toLoad /\ gpsLock
          /\ Loaded = Halves \ toLoad
      BY <2>8 DEF LoadMono, Loaded, LoadInv
    <3>3. /\ mono'[k] = lastPpsMonotonicUs[k]
          /\ \A h \in Halves \ {k} : mono'[h] = mono[h]
      BY <2>8, <2>w DEF LoadMono, WordsOK
    <3>4. /\ Loaded' = Loaded \cup {k}
          /\ pc' \notin {"mono2", "mono3"} => toLoad' = Halves
          /\ pc' \notin {"write2", "write3"}
      <4>1. CASE toLoad = {k}
        <5>1. pc' \in {"sec2", "sec3"} /\ toLoad' = Halves
          BY <2>8, <4>1 DEF LoadMono
        <5>2. QED
          BY <3>2, <4>1, <5>1 DEF Loaded
      <4>2. CASE toLoad # {k}
        <5>1. pc' = pc /\ toLoad' = toLoad \ {k}
          BY <2>8, <4>2 DEF LoadMono
        <5>2. QED
          BY <3>2, <5>1 DEF Loaded
      <4>3. QED
        BY <4>1, <4>2
    <3>5. \A h \in Loaded' :
            /\ mono'[h] <= edge /\ SecUnits >= mono'[h] - Lag
            /\ mono'[h] # edge => \A g \in Halves : mono'[h] <= lastPpsMonotonicUs[g]
      <4>1. /\ lastPpsMonotonicUs[k] <= edge /\ SecUnits >= lastPpsMonotonicUs[k] - Lag
            /\ lastPpsMonotonicUs[k] # edge =>
                 \A g \in Halves : lastPpsMonotonicUs[k] <= lastPpsMonotonicUs[g]
        BY <3>2 DEF HalvesInv, SecondInv
      <4>2. \A h \in Loaded \ {k} : h \in Halves \ {k}
        BY <3>2
      <4>3. QED
        BY <3>3, <3>4, <4>1, <4>2 DEF LoadInv
    <3>6. ASSUME lastPpsMonotonicUs["lo"] < edge PROVE Asked <= edge + Delay
      <4>1. store # "none"
        BY <2>w, <3>6 DEF HalvesInv, WordsOK, Halves
      <4>2. QED
        BY <1>u, <2>w, <2>t, <4>1 DEF PulseInv, WordsOK
    <3>7. "lo" \in Loaded' =>
            /\ mono'["lo"] < edge => Asked <= edge + Delay
            /\ mono'["lo"] < lastPpsMonotonicUs["hi"] =>
                 Asked <= lastPpsMonotonicUs["hi"] + Delay
      <4>1. CASE k = "lo"
        <5>1. lastPpsMonotonicUs["lo"] < lastPpsMonotonicUs["hi"] =>
                lastPpsMonotonicUs["hi"] = edge
          BY <2>w DEF HalvesInv, WordsOK, Halves
        <5>2. QED
          BY <3>3, <3>6, <4>1, <5>1
      <4>2. CASE k # "lo"
        BY <3>3, <3>4, <4>2 DEF LoadInv, Halves
      <4>3. QED
        BY <4>1, <4>2
    <3>8. Loaded' = Halves /\ mono'["lo"] < mono'["hi"] => Asked <= mono'["hi"] + Delay
      <4>1. CASE k = "lo"
        <5> SUFFICES ASSUME Loaded' = Halves, mono'["lo"] < mono'["hi"]
                     PROVE  Asked <= mono'["hi"] + Delay
          OBVIOUS
        <5>1. /\ "hi" \in Loaded /\ mono'["hi"] = mono["hi"]
              /\ mono'["lo"] = lastPpsMonotonicUs["lo"]
          BY <3>3, <3>4, <4>1 DEF Halves
        <5>2. mono["hi"] = edge
          BY <2>w, <5>1 DEF LoadInv, WordsOK, Halves
        <5>3. QED
          BY <3>6, <5>1, <5>2
      <4>2. CASE k # "lo"
        BY <3>3, <3>4, <3>7, <4>2 DEF Halves
      <4>3. QED
        BY <4>1, <4>2
    <3>9. pc' \in {"sec2", "sec3"} /\ ~torn' => High(mono'["lo"]) = High(mono'["hi"])
      BY <2>8, <3>2 DEF LoadMono
    <3>10. QED
      BY <2>l, <3>1, <3>2, <3>4, <3>5, <3>7, <3>8, <3>9 DEF LoadInv
  <2>9. CASE LoadSec
    <3>1. /\ UNCHANGED <<now, t2us, t3us, mono, toLoad, torn, edge, SecUnits>>
          /\ UNCHANGED lastPpsMonotonicUs /\ Asked' = Asked
      BY <2>9 DEF LoadSec, disciplineVars, SecUnits, Asked
    <3>2. Loaded = Halves /\ Loaded' = Halves /\ pc # "idle" /\ toLoad = Halves
      BY <2>9 DEF LoadSec, Loaded, LoadInv
    <3>3. sec' * U = SecUnits
      BY <2>9 DEF LoadSec, SecUnits
    <3>4. pc \in {"sec2", "sec3"} /\ pc' \in {"write2", "write3"}
      BY <2>9 DEF LoadSec
    <3>5. QED
      BY <2>l, <3>1, <3>2, <3>3, <3>4 DEF LoadInv, High
  <2>10. QED
    BY <2>2, <2>3, <2>4, <2>5, <2>6, <2>8, <2>9, ServeSplit DEF Next, Discipline, Conversion
<1>3. QED
  BY <1>1, <1>2, TypeCorrect, DisciplineInvariant, PTL DEF Spec

-----------------------------------------------------------------------------
(* What a conversion makes of it.                                          *)

\* A conversion is behind its argument by no more than a borrowed second, unless
\* the timer value is torn: one too large is clamped, and the pulse it is torn with
\* was no further back than the handler's delay when the conversion was asked for.
LEMMA ConversionNotBehind ==
  ASSUME TypeOK, LoadInv, RequestInv, pc \in {"write2", "write3"}
  PROVE  /\ Extrapolated + Lag + (IF torn THEN Delay ELSE 0) >= Asked
         /\ ~torn => Extrapolated + Lag >= at
<1> DEFINE V == Word(mono)
           S == sec * U
           lo == mono["lo"]
           hi == mono["hi"]
<1>1. /\ Delay \in Nat /\ Lag \in Nat /\ at \in Nat /\ V \in Int /\ S \in Int
      /\ lo \in Nat /\ hi \in Nat
  BY UnitAssumption, CalAssumption, ConversionType DEF Lag, TypeOK, WordsOK, Halves
<1>2. Extrapolated = S + (IF at < V THEN 0 ELSE at - V)
  BY DEF Extrapolated
<1>3. S >= lo - Lag /\ S >= hi - Lag
  BY DEF LoadInv, Halves
<1>4. ~torn => V = lo
  BY WordValue DEF LoadInv, TypeOK, WordsOK
<1>5. hi <= lo => V <= lo
  BY WordValue DEF TypeOK, WordsOK
<1>6. lo < hi => Asked <= hi + Delay
  <2>1. Loaded = Halves
    BY DEF Loaded
  <2>2. QED
    BY <2>1 DEF LoadInv
<1>7. Asked <= at /\ Asked \in Nat
  BY DEF Asked, RequestInv, TypeOK, WordsOK
<1> HIDE DEF V, S, lo, hi
<1>8. CASE torn
  <2>1. CASE hi <= lo
    BY <1>1, <1>2, <1>3, <1>5, <1>7, <1>8, <2>1
  <2>2. CASE lo < hi
    BY <1>1, <1>2, <1>3, <1>6, <1>7, <1>8, <2>2
  <2>3. QED
    BY <1>1, <2>1, <2>2
<1>9. CASE ~torn
  BY <1>1, <1>2, <1>3, <1>4, <1>7, <1>9
<1>10. QED
  BY <1>8, <1>9

\* Without a race a conversion of an instant at most x to come is ahead of now by
\* no more than that and pps.cal.
LEMMA ConversionNotAhead ==
  ASSUME TypeOK, PulseInv, LoadInv, RaceInv, ~raced, pc \in {"write2", "write3"},
         NEW x \in Nat, at <= now + x
  PROVE  Extrapolated <= now + x + Positive(PpsCal)
<1> DEFINE V == Word(mono)
           S == sec * U
<1>1. Positive(PpsCal) \in Nat /\ at \in Nat /\ now \in Nat /\ V \in Int /\ S \in Int
  BY UnitAssumption, CalAssumption, ConversionType DEF Positive, TypeOK, WordsOK
<1>2. Extrapolated = S + (IF at < V THEN 0 ELSE at - V)
  BY DEF Extrapolated
<1>3. mono["lo"] = mono["hi"] /\ S <= mono["lo"] + Positive(PpsCal)
  BY DEF RaceInv
<1>4. V = mono["lo"]
  BY <1>3, WordValue DEF TypeOK, WordsOK
<1>5. V <= now
  <2>1. "lo" \in Loaded
    BY DEF Loaded, Halves
  <2>2. mono["lo"] <= edge /\ edge <= now
    BY <2>1 DEF LoadInv, PulseInv
  <2>3. QED
    BY <1>1, <1>4, <2>2 DEF TypeOK, WordsOK
<1> HIDE DEF V, S
<1>6. QED
  BY <1>1, <1>2, <1>3, <1>4, <1>5

-----------------------------------------------------------------------------
(* Races, and the request's own values.                                    *)

\* Unless a load fell among the stores of a pulse, what a conversion has loaded
\* is what is stored, and stays so until the second is loaded too.
LEMMA RaceInvariant == Spec => []RaceInv
<1>u. U \in Nat \ {0} /\ Positive(PpsCal) \in Nat
  BY UnitAssumption, CalAssumption DEF Positive
<1>1. Init => RaceInv
  BY DEF Init, RaceInv
<1>2. TypeOK /\ DisciplineInv /\ LoadInv /\ RaceInv /\ [Next]_vars => RaceInv'
  <2> SUFFICES ASSUME TypeOK, PulseInv, HalvesInv, SecondInv, LoadInv, RaceInv,
                      [Next]_vars
               PROVE  RaceInv'
    BY DEF DisciplineInv
  <2>w. WordsOK
    BY DEF TypeOK
  <2>1. CASE Tick \/ PublishAnchor \/ LoseFit \/ Pulse \/ UNCHANGED vars
    <3>1. UNCHANGED <<pc, mono, toLoad, sec, Loaded, torn>>
      BY <2>1, DisciplineKeepsRequest DEF Discipline, Loaded
    <3>2. UNCHANGED <<raced, lastPpsMonotonicUs>>
      BY <2>1 DEF Tick, PublishAnchor, LoseFit, Pulse, vars, disciplineVars
    <3>3. store' = store \/ store' \in {"none", "sec"}
      BY <2>1 DEF Tick, PublishAnchor, LoseFit, Pulse, vars, disciplineVars
    <3>4. QED
      BY <3>1, <3>2, <3>3 DEF RaceInv
  <2>2. CASE StoreSec
    <3>1. UNCHANGED <<pc, mono, toLoad, sec, Loaded, torn>>
      BY <2>2, DisciplineKeepsRequest DEF Discipline, Loaded
    <3>2. ~raced' => ~raced /\ pc \notin {"sec2", "sec3"} /\ toLoad = Halves
      BY <2>2 DEF StoreSec
    <3>3. QED
      BY <3>1, <3>2 DEF RaceInv, Loaded
  <2>3. CASE StoreFrac \/ (\E h \in Halves : StoreMono(h))
    <3>1. UNCHANGED <<pc, mono, toLoad, sec, Loaded, torn>>
      BY <2>3, DisciplineKeepsRequest DEF Discipline, Loaded
    <3>2. raced' = raced /\ store \in {"frac", "mono"}
      BY <2>3 DEF StoreFrac, StoreMono
    <3>3. QED
      BY <3>1, <3>2 DEF RaceInv
  <2>4. CASE Around
    <3>1. toLoad = Halves /\ toLoad' = Halves
      BY <2>4, AroundLeaves DEF LoadInv
    <3>2. pc' \in {"capture", "mono2", "reply", "mono3", "send", "idle"}
      BY <2>4, AroundLeaves
    <3>3. (raced' = raced /\ torn' = torn) \/ (raced' = FALSE /\ torn' = FALSE)
      BY <2>4, AroundLeaves
    <3>4. QED
      BY <3>1, <3>2, <3>3 DEF RaceInv, Loaded
  <2>5. ASSUME NEW k \in Halves, LoadMono(k) PROVE RaceInv'
    <3>1. UNCHANGED <<store, lastPpsMonotonicUs>>
      BY <2>5 DEF LoadMono, disciplineVars
    <3>2. /\ mono'[k] = lastPpsMonotonicUs[k]
          /\ \A h \in Halves \ {k} : mono'[h] = mono[h]
      BY <2>5, <2>w DEF LoadMono, WordsOK
    <3>3. ~raced' => ~raced /\ store \notin {"frac", "mono"}
      BY <2>5 DEF LoadMono
    <3>4. pc \in {"mono2", "mono3"} /\ pc' \notin {"write2", "write3"}
      BY <2>5 DEF LoadMono
    <3>5. \A h \in Loaded' \ {k} : h \in Loaded /\ h \in Halves \ {k}
      BY <2>5 DEF LoadMono, Loaded
    <3>6. store \in {"none", "sec", "frac", "mono", "anchor"}
      BY <2>w DEF WordsOK, Stores
    <3>7. ~raced' => \A h \in Loaded' : mono'[h] = lastPpsMonotonicUs[h]
      BY <3>2, <3>3, <3>4, <3>5 DEF RaceInv
    <3>8. ~raced' => ~torn'
      <4>1. CASE toLoad = {k}
        <5>1. Loaded' = Halves
          BY <2>5, <4>1 DEF LoadMono, Loaded
        <5>2. ~raced' => lastPpsMonotonicUs["lo"] = lastPpsMonotonicUs["hi"]
          BY <3>3, <3>6 DEF HalvesInv, Halves
        <5>3. ~raced' => mono'["lo"] = mono'["hi"]
          BY <3>7, <5>1, <5>2 DEF Halves
        <5>4. torn' = (torn \/ High(mono'["lo"]) # High(mono'["hi"]))
          BY <2>5, <4>1 DEF LoadMono
        <5>5. QED
          BY <3>3, <5>3, <5>4 DEF RaceInv
      <4>2. CASE toLoad # {k}
        BY <2>5, <3>3, <4>2 DEF LoadMono, RaceInv
      <4>3. QED
        BY <4>1, <4>2
    <3>9. QED
      BY <3>1, <3>3, <3>4, <3>6, <3>7, <3>8 DEF RaceInv
  <2>6. CASE LoadSec
    <3>1. UNCHANGED <<mono, raced, torn>> /\ sec' * U = SecUnits /\ gpsLock
      BY <2>6 DEF LoadSec, SecUnits, LoadInv
    <3>2. pc \in {"sec2", "sec3"} /\ pc' \in {"write2", "write3"} /\ Loaded = Halves
      BY <2>6 DEF LoadSec, Loaded
    <3>3. ASSUME ~raced
          PROVE  mono["lo"] = mono["hi"] /\ SecUnits <= mono["lo"] + Positive(PpsCal)
      <4>1. /\ store \in {"none", "anchor", "sec"}
            /\ mono["lo"] = lastPpsMonotonicUs["lo"]
            /\ mono["hi"] = lastPpsMonotonicUs["hi"]
        BY <3>2, <3>3 DEF RaceInv, Halves
      <4>2. lastPpsMonotonicUs["lo"] = lastPpsMonotonicUs["hi"]
        BY <4>1 DEF HalvesInv, Halves
      <4>3. SecUnits <= lastPpsMonotonicUs["lo"] + Positive(PpsCal)
        BY <3>1, <4>1 DEF HalvesInv, SecondInv, Halves
      <4>4. QED
        BY <4>1, <4>2, <4>3
    <3>4. QED
      BY <3>1, <3>2, <3>3 DEF RaceInv
  <2>7. QED
    BY <2>1, <2>2, <2>3, <2>4, <2>5, <2>6, ServeSplit DEF Next, Discipline, Conversion
<1>3. QED
  BY <1>1, <1>2, TypeCorrect, DisciplineInvariant, LoadInvariant, PTL DEF Spec

\* A conversion is of the request's arrival or of its send, its capture is its
\* arrival with the trim, and the prediction is bounded by what sends have taken.
LEMMA RequestInvariant == Spec => []RequestInv
<1>1. Init => RequestInv
  BY UnitAssumption DEF Init, RequestInv
<1>2. TypeOK /\ DisciplineInv /\ LoadInv /\ RequestInv /\ [Next]_vars => RequestInv'
  <2> SUFFICES ASSUME TypeOK, SecondInv, LoadInv, RequestInv, [Next]_vars
               PROVE  RequestInv'
    BY DEF DisciplineInv
  <2>w. WordsOK
    BY DEF TypeOK
  <2>1. CASE Tick \/ Discipline \/ UNCHANGED vars
    BY <2>1, DisciplineKeepsRequest DEF RequestInv, sendVars
  <2>2. CASE Receive
    BY <2>2 DEF Receive, RequestInv, sendVars
  <2>3. CASE Capture
    <3>1. anchor.time = anchor.edge + PpsCal
      BY <2>3 DEF Capture, LoadInv, SecondInv
    <3>2. cap' # 0 => cap' = t2us + PpsCal
      <4>1. cap' # 0 => rxCap # 0 /\ cap' = anchor.time + (rxCap - anchor.edge)
        BY <2>3 DEF Capture, Convertible
      <4>2. anchor.edge \in Int /\ t2us \in Int /\ PpsCal \in Int
        BY <2>w, CalAssumption DEF WordsOK
      <4>3. QED
        BY <3>1, <4>1, <4>2 DEF RequestInv
    <3>3. at = t2us \/ pc' # "mono2"
      BY <2>3 DEF Capture, RequestInv
    <3>4. QED
      BY <2>3, <3>2, <3>3 DEF Capture, RequestInv, sendVars
  <2>4. CASE Conversion
    BY <2>4, ConversionLeaves DEF RequestInv, sendVars
  <2>5. CASE WriteT2 \/ RejectCapture
    BY <2>5 DEF WriteT2, RejectCapture, RequestInv, sendVars
  <2>6. CASE Reply \/ FallBack
    BY <2>6 DEF Reply, FallBack, Predict, RequestInv
  <2>7. CASE ReplyInterleaved \/ FallBackInterleaved
    BY <2>7 DEF ReplyInterleaved, FallBackInterleaved, RequestInv
  <2>8. CASE WriteT3 \/ WriteT3Fallback
    BY <2>8 DEF WriteT3, WriteT3Fallback, RequestInv, sendVars
  <2>9. CASE Sent \/ Unsent
    <3>1. txCorrection' <= longest'
      BY <2>9, <2>w, SpanLearned DEF Unsent, RequestInv
    <3>2. QED
      BY <2>9, <3>1 DEF Sent, Unsent, Returns, RequestInv
  <2>10. QED
    BY <2>1, <2>2, <2>3, <2>4, <2>5, <2>6, <2>7, <2>8, <2>9, ServeSplit DEF Next, Around
<1>3. QED
  BY <1>1, <1>2, TypeCorrect, DisciplineInvariant, LoadInvariant, PTL DEF Spec

-----------------------------------------------------------------------------
(* The timestamps.                                                         *)

\* Time goes on.
LEMMA TimeGrows == WordsOK /\ [Next]_vars => now' >= now /\ now' \in Nat
<1> SUFFICES ASSUME WordsOK, [Next]_vars PROVE now' >= now /\ now' \in Nat
  OBVIOUS
<1>1. now' \in {now, now + 1}
  <2>1. Tick \/ Discipline \/ UNCHANGED vars => now' \in {now, now + 1}
    BY DEF Tick, Discipline, Pulse, StoreSec, StoreFrac, StoreMono, PublishAnchor, LoseFit,
           vars
  <2>2. Serve => now' = now
    BY ServeSplit, AroundLeaves, ConversionLeaves
  <2>3. QED
    BY <2>1, <2>2 DEF Next
<1>2. QED
  BY <1>1 DEF WordsOK

\* Neither the other task nor a conversion forgets a race or a torn value.
LEMMA HistoryGrows ==
  Tick \/ Discipline \/ UNCHANGED vars \/ Conversion
    => (raced => raced') /\ (torn => torn')
<1>1. ASSUME NEW h \in Halves, LoadMono(h) PROVE (raced => raced') /\ (torn => torn')
  <2>1. raced => raced'
    <3>1. raced' = (raced \/ store \in {"frac", "mono"})
      BY <1>1 DEF LoadMono
    <3>2. QED
      BY <3>1
  <2>2. CASE toLoad = {h}
    <3>1. torn' = (torn \/ High(mono'["lo"]) # High(mono'["hi"]))
      BY <1>1, <2>2 DEF LoadMono
    <3>2. QED
      BY <2>1, <3>1
  <2>3. CASE toLoad # {h}
    <3>1. torn' = torn
      BY <1>1, <2>3 DEF LoadMono
    <3>2. QED
      BY <2>1, <3>1
  <2>4. QED
    BY <2>2, <2>3
<1>2. Tick \/ Discipline \/ UNCHANGED vars => (raced => raced') /\ (torn => torn')
  <2>1. StoreSec => (raced => raced') /\ torn' = torn
    BY DEF StoreSec
  <2>2. Tick \/ Pulse \/ StoreFrac \/ PublishAnchor \/ LoseFit \/ UNCHANGED vars
          => raced' = raced /\ torn' = torn
    BY DEF Tick, Pulse, StoreFrac, PublishAnchor, LoseFit, vars
  <2>3. \A h \in Halves : StoreMono(h) => raced' = raced /\ torn' = torn
    BY DEF StoreMono
  <2>4. QED
    BY <2>1, <2>2, <2>3 DEF Discipline
<1>3. LoadSec => raced' = raced /\ torn' = torn
  BY DEF LoadSec
<1>4. QED
  BY <1>1, <1>2, <1>3 DEF Conversion

\* The trims are what they are.
LEMMA Trims ==
  /\ ServeCal \in Int /\ PpsCal \in Int /\ Delay \in Nat /\ Lag \in Nat
  /\ Behind = Positive(ServeCal) + Lag /\ Behind \in Nat
  /\ Ahead = Positive(PpsCal) + Positive(-ServeCal) /\ Ahead \in Nat
  /\ PpsCal + Lag >= 0
  /\ Positive(ServeCal) >= ServeCal /\ Positive(ServeCal) \in Nat
  /\ Positive(PpsCal) >= PpsCal /\ Positive(PpsCal) \in Nat
  /\ Positive(-ServeCal) >= -ServeCal /\ Positive(-ServeCal) \in Nat
  /\ Slack \in Nat /\ (~torn => Slack = Behind) /\ (torn => Slack = Behind + Delay)
BY UnitAssumption, CalAssumption DEF Lag, Behind, Ahead, Positive, Slack

\* An arrival's timestamp, of its capture or of the timer, keeps its bounds.
LEMMA ArrivalBounds ==
  ASSUME TypeOK, PulseInv, LoadInv, RaceInv, RequestInv, WriteT2
  PROVE  t2' + Slack >= t2us /\ (~raced => t2' <= now + Ahead)
<1>1. pc = "write2" /\ t2' = (IF Agrees THEN cap ELSE Extrapolated) - ServeCal
  BY DEF WriteT2
<1>2. Extrapolated + Lag + (IF torn THEN Delay ELSE 0) >= t2us
  BY <1>1, ConversionNotBehind DEF Asked
<1>3. /\ Extrapolated \in Int /\ cap \in Int /\ t2us \in Nat /\ now \in Nat /\ t2us <= now
  BY ConversionType DEF TypeOK, WordsOK, LoadInv
<1>4. ~raced => Extrapolated <= now + Positive(PpsCal)
  <2>1. at <= now + 0
    BY <1>1, <1>3 DEF RequestInv
  <2>2. ~raced => Extrapolated <= now + 0 + Positive(PpsCal)
    BY <1>1, <2>1, ConversionNotAhead
  <2>3. QED
    BY <1>3, <2>2, Trims
<1>5. Agrees => cap = t2us + PpsCal
  BY DEF Agrees, RequestInv
<1>6. CASE Agrees
  <2>1. t2' = cap - ServeCal
    BY <1>1, <1>6
  <2>2. cap = t2us + PpsCal
    BY <1>5, <1>6
  <2>3. QED
    BY <1>3, <2>1, <2>2, Trims
<1>7. CASE ~Agrees
  <2>1. t2' = Extrapolated - ServeCal
    BY <1>1, <1>7
  <2>2. t2' + Slack >= t2us
    BY <1>2, <1>3, <2>1, Trims
  <2>3. ~raced => t2' <= now + Ahead
    BY <1>3, <1>4, <2>1, Trims
  <2>4. QED
    BY <2>2, <2>3
<1>8. QED
  BY <1>6, <1>7

\* So does a departure's, which is ahead by no more than the prediction.
LEMMA DepartureBounds ==
  ASSUME TypeOK, PulseInv, LoadInv, RaceInv, RequestInv, WriteT3 \/ WriteT3Fallback
  PROVE  /\ t3' + Slack >= t3us
         /\ ~raced => t3us + txCorrection - Behind <= t3' /\ t3' <= now + longest + Ahead
<1>1. pc = "write3" /\ t3' \in {Extrapolated - ServeCal, Extrapolated}
  BY DEF WriteT3, WriteT3Fallback
<1>2. Asked = t3us /\ at = t3us + txCorrection
  BY <1>1 DEF Asked, RequestInv
<1>3. /\ Extrapolated + Lag + (IF torn THEN Delay ELSE 0) >= t3us
      /\ ~torn => Extrapolated + Lag >= t3us + txCorrection
  BY <1>1, <1>2, ConversionNotBehind
<1>4. /\ Extrapolated \in Int /\ t3us \in Nat /\ now \in Nat /\ t3us <= now
      /\ txCorrection \in Nat /\ longest \in Nat /\ txCorrection <= longest
  BY ConversionType DEF TypeOK, WordsOK, LoadInv, RequestInv
<1>5. ~raced => Extrapolated <= now + longest + Positive(PpsCal)
  <2>1. at <= now + longest
    BY <1>2, <1>4
  <2>2. QED
    BY <1>1, <1>4, <2>1, ConversionNotAhead
<1>6. ~raced => ~torn
  BY DEF RaceInv
<1>7. t3' \in Int /\ t3' >= Extrapolated - Positive(ServeCal)
  BY <1>1, <1>4, Trims
<1>8. t3' + Slack >= t3us
  <2>1. CASE torn
    BY <1>3, <1>4, <1>7, <2>1, Trims
  <2>2. CASE ~torn
    BY <1>3, <1>4, <1>7, <2>2, Trims
  <2>3. QED
    BY <2>1, <2>2
<1>9. ~raced => t3us + txCorrection - Behind <= t3'
  BY <1>1, <1>3, <1>4, <1>6, Trims
<1>10. ~raced => t3' <= now + longest + Ahead
  BY <1>1, <1>4, <1>5, Trims
<1>11. QED
  BY <1>8, <1>9, <1>10

\* From the second conversion's start to the end of the reply, both timestamps
\* keep their bounds.
LEMMA ReplyInvariant == Spec => [](ReplyInv /\ NeverSlow /\ ReplyOrdered)
<1>1. Init => ReplyInv /\ NeverSlow /\ ReplyOrdered
  BY DEF Init, ReplyInv, NeverSlow, ReplyOrdered, Stamped
<1>2. /\ TypeOK /\ DisciplineInv /\ LoadInv /\ RaceInv /\ RequestInv
      /\ ReplyInv /\ NeverSlow /\ ReplyOrdered /\ [Next]_vars
      => (ReplyInv /\ NeverSlow /\ ReplyOrdered)'
  <2> SUFFICES ASSUME TypeOK, PulseInv, LoadInv, RaceInv, RequestInv,
                      ReplyInv, NeverSlow, ReplyOrdered, [Next]_vars
               PROVE  ReplyInv' /\ NeverSlow' /\ ReplyOrdered'
    BY DEF DisciplineInv
  <2>w. WordsOK
    BY DEF TypeOK
  <2>c. Behind' = Behind /\ Ahead' = Ahead /\ (torn' = torn => Slack' = Slack)
    BY DEF Behind, Ahead, Lag, Positive, Slack
  <2>d. (torn => torn') => Slack' >= Slack /\ Slack' \in Nat
    <3>1. Slack' = IF torn' THEN Behind + Delay ELSE Behind + 0
      BY <2>c DEF Slack
    <3>2. CASE torn'
      <4>1. Slack' = Behind + Delay
        BY <3>1, <3>2
      <4>2. QED
        BY <4>1, Trims
    <3>3. CASE ~torn'
      <4>1. Slack' = Behind + 0
        BY <3>1, <3>3
      <4>2. QED
        BY <3>3, <4>1, Trims
    <3>4. QED
      BY <3>2, <3>3
  <2>n. NeverSlow <=> (Stamped => t2 + Slack >= t2us /\ t3 + Slack >= t3us)
    BY DEF NeverSlow, Slack
  <2>m. NeverSlow' <=> (Stamped' => t2' + Slack' >= t2us' /\ t3' + Slack' >= t3us')
    BY DEF NeverSlow, Slack
  <2>1. CASE Tick \/ Discipline \/ UNCHANGED vars
    <3>1. UNCHANGED <<pc, t2us, t2, t3, t3us, txCorrection, longest, torn>>
      BY <2>1, DisciplineKeepsRequest DEF sendVars
    <3>2. Slack' = Slack /\ Stamped' = Stamped
      BY <2>c, <3>1 DEF Stamped
    <3>3. now' >= now /\ now' \in Nat /\ (~raced' => ~raced)
      BY <2>1, <2>w, HistoryGrows, TimeGrows
    <3>4. NeverSlow'
      BY <2>n, <2>m, <3>1, <3>2
    <3>5. ReplyInv'
      BY <2>w, <2>c, <3>1, <3>2, <3>3, Trims DEF ReplyInv, WordsOK
    <3>6. ReplyOrdered'
      BY <2>w, <2>c, <3>1, <3>2, <3>3, Trims DEF ReplyOrdered, WordsOK
    <3>7. QED
      BY <3>4, <3>5, <3>6
  <2>2. CASE Receive \/ Sent \/ Unsent \/ RejectCapture
    <3>1. pc' \in {"capture", "idle", "mono2"}
      BY <2>2 DEF Receive, Sent, Unsent, Returns, RejectCapture
    <3>2. QED
      BY <3>1 DEF ReplyInv, NeverSlow, ReplyOrdered, Stamped
  <2>3. CASE Capture \/ Conversion
    <3>1. /\ UNCHANGED <<now, t2us, t2, t3us>>
          /\ pc' \in {"mono2", "sec2", "write2"} \/ (pc \in {"mono3", "sec3"} /\
               pc' \in {"mono3", "sec3", "write3"})
      BY <2>3, ConversionLeaves DEF Capture
    <3>2. (raced => raced') /\ (torn => torn')
      BY <2>3, HistoryGrows DEF Capture
    <3>3. ReplyInv'
      BY <2>w, <2>c, <2>d, <3>1, <3>2, Trims DEF ReplyInv, WordsOK
    <3>4. ~Stamped'
      BY <3>1 DEF Stamped
    <3>5. QED
      BY <3>3, <3>4 DEF NeverSlow, ReplyOrdered
  <2>4. CASE WriteT2
    <3>1. pc' = "reply" /\ UNCHANGED <<now, t2us, torn, raced>>
      BY <2>4 DEF WriteT2
    <3>2. t2' + Slack >= t2us /\ (~raced => t2' <= now + Ahead)
      BY <2>4, ArrivalBounds
    <3>3. ReplyInv' /\ ~Stamped'
      BY <2>c, <3>1, <3>2 DEF ReplyInv, Stamped
    <3>4. QED
      BY <3>3 DEF NeverSlow, ReplyOrdered
  <2>5. CASE Reply \/ FallBack
    <3>1. /\ pc \in {"reply", "send"} /\ pc' = "mono3" /\ UNCHANGED <<t2us, t2, torn, raced>>
          /\ t3us' = now
      BY <2>5 DEF Reply, FallBack, Predict
    <3>2. ReplyInv' /\ ~Stamped'
      BY <2>c, <3>1 DEF ReplyInv, Stamped
    <3>3. QED
      BY <3>2 DEF NeverSlow, ReplyOrdered
  <2>6. CASE ReplyInterleaved
    <3>1. /\ pc = "reply" /\ pc' = "send" /\ t3us' = 0
          /\ UNCHANGED <<now, t2us, t2, torn, raced>>
      BY <2>6 DEF ReplyInterleaved, RequestInv
    <3>2. ReplyInv' /\ ~Stamped'
      BY <2>c, <3>1 DEF ReplyInv, Stamped
    <3>3. QED
      BY <3>2 DEF NeverSlow, ReplyOrdered
  <2>7. CASE FallBackInterleaved
    <3>1. /\ UNCHANGED <<now, pc, t2us, t2, t3, t3us, torn, raced>> /\ ~Stamped'
      BY <2>7 DEF FallBackInterleaved, Stamped
    <3>2. ReplyInv'
      BY <2>c, <3>1 DEF ReplyInv
    <3>3. QED
      BY <3>1, <3>2 DEF NeverSlow, ReplyOrdered
  <2>8. CASE WriteT3 \/ WriteT3Fallback
    <3>1. /\ pc = "write3" /\ pc' = "send"
          /\ UNCHANGED <<now, t2us, t2, t3us, txCorrection, longest, torn, raced>>
      BY <2>8 DEF WriteT3, WriteT3Fallback, disciplineVars, sendVars
    <3>2. /\ t3' + Slack >= t3us
          /\ ~raced =>
               t3us + txCorrection - Behind <= t3' /\ t3' <= now + longest + Ahead
      BY <2>8, DepartureBounds
    <3>3. t2 + Slack >= t2us /\ (~raced => t2 <= t3us + Ahead)
      BY <3>1 DEF ReplyInv
    <3>4. NeverSlow'
      BY <2>c, <2>m, <3>1, <3>2, <3>3
    <3>5. t2us - Behind <= t2 \/ raced
      <4>1. ~raced => Slack = Behind
        BY Trims DEF RaceInv
      <4>2. t2 \in Int /\ t2us \in Int
        BY <2>w DEF WordsOK
      <4>3. QED
        BY <3>3, <4>1, <4>2, Trims
    <3>6. ReplyOrdered'
      BY <2>c, <3>1, <3>2, <3>3, <3>5 DEF ReplyOrdered
    <3>7. ~raced => t2 <= now + Ahead
      <4>1. t3us <= now /\ t3us \in Int /\ now \in Int /\ t2 \in Int
        BY <2>w DEF WordsOK, LoadInv
      <4>2. QED
        BY <3>3, <4>1, Trims
    <3>8. ReplyInv'
      BY <2>c, <3>1, <3>3, <3>7 DEF ReplyInv
    <3>9. QED
      BY <3>4, <3>6, <3>8
  <2>9. QED
    BY <2>1, <2>2, <2>3, <2>4, <2>5, <2>6, <2>7, <2>8, ServeSplit DEF Next, Around
<1>3. QED
  BY <1>1, <1>2, TypeCorrect, DisciplineInvariant, LoadInvariant, RaceInvariant,
     RequestInvariant, PTL DEF Spec

-----------------------------------------------------------------------------
(* The results.                                                            *)

\* Served time is never behind true time by more than the trims, and than the
\* handler's delay after a torn load, whatever the interleaving of the stores of
\* a pulse on one core and the loads of a request on the other.
THEOREM NotBehind == Spec => []NeverSlow
BY ReplyInvariant, PTL

\* A reply whose loads did not fall among the stores of a pulse is stamped, up to
\* the trims, as received between its arrival and the stamping of t3, and as sent
\* no earlier than predicted and no later than the longest send so far after now.
THEOREM Ordered == Spec => []ReplyOrdered
BY ReplyInvariant, PTL

\* What was proved, in one: each part rests on the ones before it.
THEOREM Inductive == Spec => []IInv
<1>1. /\ TypeOK /\ DisciplineInv /\ LoadInv /\ RaceInv /\ RequestInv
      /\ ReplyInv /\ NeverSlow /\ ReplyOrdered
      => IInv
  BY DEF IInv
<1>2. QED
  BY <1>1, TypeCorrect, DisciplineInvariant, LoadInvariant, RaceInvariant,
     RequestInvariant, ReplyInvariant, PTL
=============================================================================
