----------------------------- MODULE ServedTime -----------------------------
(***************************************************************************)
(* How a reply gets its receive and transmit timestamps while the          *)
(* discipline task, on the other core, moves the anchor they are           *)
(* extrapolated from (components/gps/gps.cpp,                              *)
(* components/ntp_server/ntp_server.cpp).                                  *)
(*                                                                         *)
(* The anchor exists twice.  lastPpsSec1900, lastPpsFrac and               *)
(* lastPpsMonotonicUs are stored and loaded one by one, with no lock:      *)
(* computeNtpTimestamp extrapolates from them on the microsecond timer.    *)
(* The timer value has 64 bits, which this processor stores and loads in   *)
(* two halves, in the order the compiler chose; a half is represented by   *)
(* the timer value it is a half of.                                        *)
(* The capture anchor is published under a sequence counter (module        *)
(* Seqlock), so one step publishes and one step reads it: captureToNtp     *)
(* extrapolates from it on the capture counter.  The counter wraps far     *)
(* outside the age and distance captureToNtp allows an anchor, and its     *)
(* differences are those of time.                                          *)
(*                                                                         *)
(* A reply is stamped before it is sent: t3 is computed for the instant    *)
(* the send is predicted to end, by an average of the spans of the sends   *)
(* before.  The average is any value between the old one and the new span. *)
(* The Wi-Fi path, which predicts nothing, is the fallback with an average *)
(* that stays zero.                                                        *)
(*                                                                         *)
(* Time is in units, U to a second; a timestamp is a number of units, and  *)
(* the true time of unit t is t.  The oscillator is exact.                 *)
(***************************************************************************)
EXTENDS Integers

CONSTANTS
  U,             \* units per second
  Half,          \* values of the low half of a 64-bit word
  MaxTime,       \* bound on time
  MaxPulses,     \* bound on pulses that discipline the clock
  Delay,         \* from a pulse to the end of its handler, at most
  PpsCal,        \* pps.cal, in units
  ServeCal,      \* serve.cal, in units
  MaxAnchorAge,  \* a capture is not converted from an older anchor (20 s)
  Tolerance      \* the capture must agree with the timer within this (2 ms)

ASSUME UnitAssumption == U \in Nat \ {0} /\ MaxTime \in Nat /\ MaxPulses \in Nat
ASSUME HalfAssumption == Half \in Nat \ {0}
ASSUME CalAssumption ==
  /\ Delay \in 0..(U - 1)
  /\ PpsCal \in (-U)..U /\ ServeCal \in (-U)..U /\ Tolerance \in 1..U
  /\ MaxAnchorAge \in Nat

VARIABLES
  now,
  pulses,              \* pulses that have disciplined the clock
  store, toStore,      \* what the discipline task stores next; halves of it left
  edge,                \* ppsEdgeCapture of the pulse in hand
  lastPpsSec1900, lastPpsFrac,
  lastPpsMonotonicUs,  \* its halves, each by the value it belongs to
  anchor,              \* the capture anchor: edge and time it stands for
  gpsLock, fitValid,
  pc,                  \* the NTP task's place in loop()
  t2us,                \* timer instant of the arrival
  rxCap,               \* capture of the arrival, 0 when there is none
  at,                  \* argument of computeNtpTimestamp, the prediction included
  mono, toLoad, sec,   \* its loads: halves and those left, the second
  cap,                 \* captureToNtp's answer, 0 when it gave none
  t2, t3,              \* timestamps of the reply, 0 before they are written
  t3us,                \* timer instant t3 is computed at, 0 when it is not
  late,                \* the reply is staged in the chip, to be stamped late
  txStart,             \* timer instant the send is measured from
  txCorrection, txCorrectionSeeded,  \* average span of the sends so far
  longest,             \* history: the longest of them
  raced,               \* history: a load fell between the stores of one pulse
  torn                 \* history: the low half wrapped between two loaded halves

disciplineVars ==
  <<pulses, store, toStore, edge, lastPpsSec1900, lastPpsFrac, lastPpsMonotonicUs,
    anchor, gpsLock, fitValid>>
sendVars == <<late, txStart, txCorrection, txCorrectionSeeded, longest>>
serveVars == <<pc, t2us, rxCap, at, mono, toLoad, sec, cap, t2, t3, t3us, sendVars>>
vars == <<now, disciplineVars, serveVars, raced, torn>>

Halves == {"lo", "hi"}
Whole(v) == [h \in Halves |-> v]
High(v) == v \div Half
Word(w) == High(w["hi"]) * Half + (w["lo"] % Half)

Init ==
  /\ now = 2 * U /\ pulses = 0 /\ store = "none" /\ toStore = {} /\ edge = 0
  /\ lastPpsSec1900 = 0 /\ lastPpsFrac = 0 /\ lastPpsMonotonicUs = Whole(0)
  /\ anchor = [edge |-> 0, time |-> 0]
  /\ gpsLock = FALSE /\ fitValid = FALSE
  /\ pc = "idle" /\ t2us = 0 /\ rxCap = 0 /\ at = 0 /\ mono = Whole(0)
  /\ toLoad = Halves /\ sec = 0 /\ cap = 0 /\ t2 = 0 /\ t3 = 0 /\ t3us = 0
  /\ late = FALSE /\ txStart = 0 /\ txCorrection = 0 /\ txCorrectionSeeded = FALSE
  /\ longest = 0 /\ raced = FALSE /\ torn = FALSE

-----------------------------------------------------------------------------
(* The discipline task, from the pulse to the published anchor.            *)

\* The handler is done within Delay of the pulse.
Tick ==
  /\ store = "none" \/ now < edge + Delay
  /\ now < MaxTime
  /\ now' = now + 1
  /\ UNCHANGED <<disciplineVars, serveVars, raced, torn>>

\* A pulse disciplines the clock; the fit is solved before the anchor moves.
Pulse ==
  /\ store = "none" /\ now % U = 0 /\ edge # now /\ pulses < MaxPulses
  /\ edge' = now /\ pulses' = pulses + 1 /\ store' = "sec"
  /\ fitValid' \in {fitValid, TRUE}
  /\ UNCHANGED <<now, toStore, lastPpsSec1900, lastPpsFrac, lastPpsMonotonicUs, anchor,
                 gpsLock, serveVars, raced, torn>>

\* The calibrated reference: the whole second, then the fraction.
StoreSec ==
  /\ store = "sec" /\ store' = "frac"
  /\ lastPpsSec1900' = (edge + PpsCal) \div U
  /\ raced' = (raced \/ pc \in {"sec2", "sec3"} \/ toLoad # Halves)
  /\ UNCHANGED <<now, pulses, toStore, edge, lastPpsFrac, lastPpsMonotonicUs, anchor,
                 gpsLock, fitValid, serveVars, torn>>

StoreFracUnnormalised ==
  /\ store = "frac" /\ store' = "mono" /\ toStore' = Halves
  /\ lastPpsFrac' = edge + PpsCal
  /\ UNCHANGED <<now, pulses, edge, lastPpsSec1900, lastPpsMonotonicUs, anchor, gpsLock,
                 fitValid, serveVars, raced, torn>>

StoreFrac ==
  /\ store = "frac" /\ store' = "mono" /\ toStore' = Halves
  /\ lastPpsFrac' = (edge + PpsCal) % U
  /\ UNCHANGED <<now, pulses, edge, lastPpsSec1900, lastPpsMonotonicUs, anchor, gpsLock,
                 fitValid, serveVars, raced, torn>>

StoreMono(h) ==
  /\ store = "mono" /\ h \in toStore /\ toStore' = toStore \ {h}
  /\ store' = IF toStore' = {} THEN "anchor" ELSE "mono"
  /\ lastPpsMonotonicUs' = [lastPpsMonotonicUs EXCEPT ![h] = edge]
  /\ UNCHANGED <<now, pulses, edge, lastPpsSec1900, lastPpsFrac, anchor, gpsLock,
                 fitValid, serveVars, raced, torn>>

\* The capture anchor takes over what was stored; the lock follows it.
PublishAnchor ==
  /\ store = "anchor" /\ store' = "none"
  /\ anchor' = [edge |-> edge, time |-> lastPpsSec1900 * U + lastPpsFrac]
  /\ gpsLock' = TRUE
  /\ UNCHANGED <<now, pulses, toStore, edge, lastPpsSec1900, lastPpsFrac,
                 lastPpsMonotonicUs, fitValid, serveVars, raced, torn>>

\* Stale NMEA or holdover: the fit goes, the anchor stays.
LoseFit ==
  /\ store = "none" /\ fitValid
  /\ fitValid' = FALSE
  /\ UNCHANGED <<now, pulses, store, toStore, edge, lastPpsSec1900, lastPpsFrac,
                 lastPpsMonotonicUs, anchor, gpsLock, serveVars, raced, torn>>

-----------------------------------------------------------------------------
(* The NTP task: one request, as far as its timestamps go.                 *)

\* What is local to a conversion, and to a call of loop, ends with it.
Converted == mono' = Whole(0) /\ sec' = 0

Returns ==
  /\ pc' = "idle" /\ t2us' = 0 /\ rxCap' = 0 /\ at' = 0 /\ cap' = 0
  /\ t2' = 0 /\ t3' = 0 /\ t3us' = 0 /\ late' = FALSE /\ txStart' = 0
  /\ raced' = FALSE /\ torn' = FALSE
  /\ UNCHANGED <<now, disciplineVars, mono, toLoad, sec>>

\* A request arrived now; the capture may have latched it too.
Receive ==
  /\ pc = "idle" /\ gpsLock
  /\ t2us' = now /\ at' = now /\ rxCap' \in {0, now} /\ pc' = "capture"
  /\ UNCHANGED <<now, disciplineVars, mono, toLoad, sec, cap, t2, t3, t3us, sendVars, raced,
                 torn>>

\* captureToNtp converts a capture while the fit is valid and the anchor is
\* neither old nor far from the capture.
Convertible ==
  /\ rxCap # 0 /\ fitValid
  /\ now - anchor.edge <= MaxAnchorAge
  /\ rxCap - anchor.edge \in (-MaxAnchorAge)..MaxAnchorAge

\* It extrapolates on the capture counter, or gives up on an anchor that is being
\* published at every attempt.
Capture ==
  /\ pc = "capture" /\ pc' = "mono2"
  /\ \/ Convertible /\ cap' = anchor.time + (rxCap - anchor.edge)
     \/ (~Convertible \/ store = "anchor") /\ cap' = 0
  /\ UNCHANGED <<now, disciplineVars, t2us, rxCap, at, mono, toLoad, sec, t2, t3, t3us,
                 sendVars, raced, torn>>

\* computeNtpTimestamp loads the timer value first ...
LoadMono(h) ==
  /\ pc \in {"mono2", "mono3"} /\ h \in toLoad
  /\ mono' = [mono EXCEPT ![h] = lastPpsMonotonicUs[h]]
  /\ raced' = (raced \/ store \in {"frac", "mono"})
  /\ IF toLoad = {h}
     THEN /\ toLoad' = Halves /\ torn' = (torn \/ High(mono'["lo"]) # High(mono'["hi"]))
          /\ pc' = IF pc = "mono2" THEN "sec2" ELSE "sec3"
     ELSE /\ toLoad' = toLoad \ {h} /\ UNCHANGED <<torn, pc>>
  /\ UNCHANGED <<now, disciplineVars, t2us, rxCap, at, sec, cap, t2, t3, t3us, sendVars>>

\* ... then the second (and a fraction it does not use).
LoadSec ==
  /\ pc \in {"sec2", "sec3"}
  /\ sec' = lastPpsSec1900
  /\ pc' = IF pc = "sec2" THEN "write2" ELSE "write3"
  /\ UNCHANGED <<now, disciplineVars, t2us, rxCap, at, mono, toLoad, cap, t2, t3, t3us,
                 sendVars, raced, torn>>

ExtrapolatedRereading ==
  LET base == Word(lastPpsMonotonicUs)
  IN  sec * U + (IF at < base THEN 0 ELSE at - base)
ExtrapolatedUnsigned == sec * U + ((at - Word(mono)) % 2^16)

\* The elapsed time is clamped at zero: a pulse may have moved the anchor past
\* a packet that came before it.
Extrapolated == sec * U + (IF at < Word(mono) THEN 0 ELSE at - Word(mono))

\* The capture is used when it agrees with the timer.
Agrees == cap # 0 /\ cap - Extrapolated \in (1 - Tolerance)..(Tolerance - 1)

WriteT2 ==
  /\ pc = "write2" /\ (cap # 0 => Agrees)
  /\ t2' = (IF Agrees THEN cap ELSE Extrapolated) - ServeCal
  /\ Converted /\ pc' = "reply"
  /\ UNCHANGED <<now, disciplineVars, t2us, rxCap, at, toLoad, cap, t3, t3us, sendVars,
                 raced, torn>>

\* Otherwise the arrival is converted again, from the anchor as it is then.
RejectCapture ==
  /\ pc = "write2" /\ cap # 0 /\ ~Agrees
  /\ cap' = 0 /\ raced' = FALSE /\ torn' = FALSE
  /\ Converted /\ pc' = "mono2"
  /\ UNCHANGED <<now, disciplineVars, t2us, rxCap, at, toLoad, t2, t3, t3us, sendVars>>

\* The conversion for t3 begins, for when the send is predicted to be over.
Predict ==
  /\ at' = now + txCorrection /\ t3us' = now /\ txStart' = now /\ pc' = "mono3"
  /\ UNCHANGED <<now, disciplineVars, t2us, rxCap, mono, toLoad, sec, cap, t2, t3,
                 txCorrection, txCorrectionSeeded, longest, raced, torn>>

\* The reply is staged, or that fails.
Reply == pc = "reply" /\ late' \in BOOLEAN /\ Predict

\* An interleaved reply has its t3 from the exchange before (module NtpReply).
ReplyInterleaved ==
  /\ pc = "reply" /\ late' \in BOOLEAN /\ txStart' = now /\ pc' = "send"
  /\ UNCHANGED <<now, disciplineVars, t2us, rxCap, at, mono, toLoad, sec, cap, t2, t3, t3us,
                 txCorrection, txCorrectionSeeded, longest, raced, torn>>

\* The late-stamped send.
WriteT3 ==
  /\ pc = "write3" /\ late
  /\ t3' = Extrapolated - ServeCal
  /\ Converted /\ pc' = "send"
  /\ UNCHANGED <<now, disciplineVars, t2us, rxCap, at, toLoad, cap, t2, t3us, sendVars,
                 raced, torn>>

\* The blocking fallback stamps t3 without the trim, and is measured from here.
WriteT3Fallback ==
  /\ pc = "write3" /\ ~late
  /\ t3' = Extrapolated /\ txStart' = now
  /\ Converted /\ pc' = "send"
  /\ UNCHANGED <<now, disciplineVars, t2us, rxCap, at, toLoad, cap, t2, t3us, late,
                 txCorrection, txCorrectionSeeded, longest, raced, torn>>

Lesser(a, b)  == IF a <= b THEN a ELSE b
Greater(a, b) == IF a <= b THEN b ELSE a

\* The average after a send of this span; the first seeds it.
Averaged(span) ==
  IF txCorrectionSeeded THEN Lesser(txCorrection, span)..Greater(txCorrection, span)
                        ELSE {span}

\* The chip has taken the reply: how long that took corrects the replies to come.
Sent ==
  /\ pc = "send" /\ Returns
  /\ txCorrection' \in Averaged(now - txStart) /\ txCorrectionSeeded' = TRUE
  /\ longest' = Greater(longest, now - txStart)

\* A late-stamped send that is not completed falls back to the blocking one, with
\* a t3 of its own ...
FallBack == pc = "send" /\ late /\ t3us # 0 /\ late' = FALSE /\ Predict

FallBackInterleaved ==
  /\ pc = "send" /\ late /\ t3us = 0 /\ late' = FALSE /\ txStart' = now
  /\ UNCHANGED <<now, disciplineVars, pc, t2us, rxCap, at, mono, toLoad, sec, cap, t2, t3,
                 t3us, txCorrection, txCorrectionSeeded, longest, raced, torn>>

\* ... and a blocking one that is not reopens the socket and teaches nothing.
Unsent ==
  /\ pc = "send" /\ ~late /\ Returns
  /\ UNCHANGED <<txCorrection, txCorrectionSeeded, longest>>

-----------------------------------------------------------------------------
Discipline ==
  \/ Pulse \/ StoreSec \/ StoreFrac \/ (\E h \in Halves : StoreMono(h))
  \/ PublishAnchor \/ LoseFit

Serve ==
  \/ Receive \/ Capture \/ (\E h \in Halves : LoadMono(h)) \/ LoadSec
  \/ WriteT2 \/ RejectCapture \/ Reply \/ ReplyInterleaved \/ WriteT3 \/ WriteT3Fallback
  \/ Sent \/ FallBack \/ FallBackInterleaved \/ Unsent

Next == Tick \/ Discipline \/ Serve

Spec == Init /\ [][Next]_vars

-----------------------------------------------------------------------------
Stores == {"none", "sec", "frac", "mono", "anchor"}
Places == {"idle", "capture", "mono2", "sec2", "write2", "reply", "mono3", "sec3", "write3",
           "send"}

WordsOK ==
  /\ now \in Nat /\ pulses \in 0..MaxPulses /\ store \in Stores /\ edge \in Nat
  /\ lastPpsSec1900 \in Int /\ lastPpsFrac \in 0..(U - 1)
  /\ lastPpsMonotonicUs \in [Halves -> Nat] /\ mono \in [Halves -> Nat]
  /\ toStore \subseteq Halves /\ toLoad \in (SUBSET Halves) \ {{}}
  /\ anchor \in [edge : Nat, time : Int]
  /\ pc \in Places
  /\ t2us \in Nat /\ rxCap \in Nat /\ at \in Nat /\ sec \in Int
  /\ cap \in Int /\ t2 \in Int /\ t3 \in Int /\ t3us \in Nat
  /\ txStart \in 0..now /\ txCorrection \in Nat /\ longest \in Nat

FlagsOK ==
  /\ gpsLock \in BOOLEAN /\ fitValid \in BOOLEAN
  /\ late \in BOOLEAN /\ txCorrectionSeeded \in BOOLEAN
  /\ raced \in BOOLEAN /\ torn \in BOOLEAN

TypeOK == WordsOK /\ FlagsOK

\* Both timestamps are computed, and the reply is on its way.
Stamped == pc = "send" /\ t3us # 0

Positive(x) == IF x > 0 THEN x ELSE 0

\* How far the trims may put a timestamp behind and ahead.  A positive pps.cal is
\* added to a capture and dropped by the timer's conversion, a negative one
\* borrows a second that conversion does not give back; serve.cal is missing in
\* the fallback.
Lag == IF PpsCal < 0 THEN U ELSE 0
Behind == Positive(ServeCal) + Lag
Ahead == Positive(PpsCal) + Positive(-ServeCal)

\* However the stores of a pulse and the loads of a request interleave on the
\* two cores, served time is never behind true time, up to the trims: the second
\* is stored before the timer value and loaded after it.  The one exception is a
\* timer value whose halves are of different pulses, the low half having wrapped
\* in between (once in 71.6 minutes): too large a value is clamped, and time is
\* behind by no more than the handler's delay.
NeverSlow ==
  LET slack == Behind + (IF torn THEN Delay ELSE 0)
  IN  Stamped => t2 + slack >= t2us /\ t3 + slack >= t3us

\* Unless a conversion loads the second of one pulse and the timer value of
\* another, the reply tells the request's story in order, up to the trims:
\* received no earlier than it arrived, though a pulse may move the anchor past
\* the arrival before the arrival is converted; sent no earlier than predicted;
\* and ahead of its send, while that goes on, by the prediction alone, which no
\* mix of sends, failures and fallbacks makes longer than the longest send so far.
ReplyOrdered ==
  Stamped /\ ~raced =>
    /\ t2us - Behind <= t2 /\ t2 <= t3us + Ahead
    /\ t3us + txCorrection - Behind <= t3 /\ t3 <= now + longest + Ahead

-----------------------------------------------------------------------------
(* What the code's comments and README say, and the code does not do.      *)

\* "Anchor pair: must only advance together with lastPpsSec1900": a reader
\* pairs them, so served time is less than a second ahead.
AdvanceTogether == Stamped => t2 - t2us < U /\ t3 - (t3us + txCorrection) < U
=============================================================================
