------------------------------ MODULE RxStamp ------------------------------
(***************************************************************************)
(* Which arrival does a request's receive timestamp belong to?  The W5500  *)
(* pulls INTn low while an enabled interrupt bit of the NTP socket is set: *)
(* RECV for a datagram, SENDOK for a send that is done.  Only the falling  *)
(* edge is seen: MCPWM latches it and the GPIO interrupt stamps it         *)
(* (components/gps/gps.cpp, components/ntp_server/ntp_server.cpp).  What   *)
(* ties an edge to a datagram is the order in which NtpServer::loop reads  *)
(* and clears things, and nothing else.                                    *)
(*                                                                         *)
(* The chip's events, the two interrupt handlers on their core and the NTP *)
(* task's steps on the other interleave.  Time is logical: it moves on     *)
(* with every arrival and completion, so that no two of them have the same *)
(* time, and an older stamp is a smaller one.                              *)
(***************************************************************************)
EXTENDS Naturals, Sequences

CONSTANTS
  RuntsToPass,   \* runts whose bytes together pass for a request
  IsrPrompt,     \* has an edge's interrupt run when an SPI transfer ends?
  MaxArrivals,   \* bound on datagrams
  MaxRebuilds    \* bound on rebuilds of the chip by the link

ASSUME BoundAssumption ==
  {RuntsToPass, MaxArrivals} \subseteq Nat \ {0} /\ MaxRebuilds \in Nat
ASSUME SwitchAssumption == IsrPrompt \in BOOLEAN

VARIABLES
  now, arrived, rebuilds,
  ring,                    \* the socket's receive ring
  recv, sendok,            \* Sn_IR
  sendokIrq,               \* does Sn_IMR let SENDOK pull INTn?
  sending,                 \* sends whose SENDOK is still to come
  fell, okAt,              \* times of the last edge and the last SENDOK
  capPend, gpioPend,       \* edges whose interrupts have not run
  isr,                     \* where the GPIO interrupt is
  rxCapTick, capNew,       \* the capture; is it newer than lastRxCapSeq?
  caps,                    \* captures since capBefore; 2 stands for more
  rxCaptureUs, irqNew,     \* the stamp; is s_rxIrqCount # lastRxIrqConsumed?
  notified,                \* the task's notification
  pc,                      \* the task's place
  cur,                     \* the datagram in hand
  rxCap, isrStamp, t2,     \* what loop() made of its arrival, 0 for none
  turn,                    \* end of the turnaround measured, 0 for none
  overran                  \* history: has a send of this socket outlasted its wait?

worldVars == <<now, arrived, rebuilds>>
chipVars  == <<ring, recv, sendok, sendokIrq, sending, overran>>
edgeVars  == <<fell, capPend, gpioPend>>
capVars   == <<rxCapTick, capNew, caps>>
isrVars   == <<isr, rxCaptureUs, irqNew, notified>>
handVars  == <<cur, rxCap, isrStamp, t2, okAt, turn>>
outerVars == <<worldVars, chipVars, edgeVars, capVars, isrVars>>
vars == <<outerVars, pc, handVars>>

\* A datagram is long enough to be a request, which may be answered, refused or
\* ignored for its mode, or it is not.
Kinds == {"request", "runt"}

NoDatagram == [kind |-> "none", edge |-> 0, alone |-> FALSE]

Init ==
  /\ now = 0 /\ arrived = 0 /\ rebuilds = 0
  /\ ring = <<>> /\ recv = FALSE /\ sendok = FALSE /\ sendokIrq = TRUE
  /\ sending = 0 /\ okAt = 0 /\ overran = FALSE /\ fell = 0
  /\ capPend = 0 /\ gpioPend = FALSE /\ isr = "idle"
  /\ rxCapTick = 0 /\ capNew = FALSE /\ caps = 0
  /\ rxCaptureUs = 0 /\ irqNew = FALSE /\ notified = FALSE
  /\ pc = "wait"
  /\ cur = NoDatagram /\ rxCap = 0 /\ isrStamp = 0 /\ t2 = 0 /\ turn = 0

-----------------------------------------------------------------------------
(* The chip.                                                               *)

Low(r, s, irq) == r \/ (s /\ irq)

\* New interrupt bits; INTn has an edge where it falls.
Interrupts(r, s, irq) ==
  /\ recv' = r /\ sendok' = s /\ sendokIrq' = irq
  /\ IF Low(r, s, irq) /\ ~Low(recv, sendok, sendokIrq)
     THEN fell' = now' /\ capPend' = now' /\ gpioPend' = TRUE
     ELSE UNCHANGED edgeVars

\* The edge a datagram comes under: its own, or the one INTn is still low for.
Under == IF Low(recv, sendok, sendokIrq) THEN fell ELSE now + 1

Arrive(kind) ==
  /\ arrived < MaxArrivals /\ arrived' = arrived + 1 /\ now' = now + 1
  /\ ring' = Append(ring, [kind |-> kind, edge |-> Under,
                           alone |-> pc = "wait" /\ ring = <<>> /\ ~overran])
  /\ Interrupts(TRUE, sendok, sendokIrq)
  /\ UNCHANGED <<rebuilds, sending, overran, capVars, isrVars, pc, handVars>>

SendDone ==
  /\ sending > 0 /\ sending' = sending - 1
  /\ now' = now + 1 /\ okAt' = (IF pc = "reap" THEN now' ELSE okAt)
  /\ Interrupts(recv, TRUE, sendokIrq)
  /\ UNCHANGED <<arrived, rebuilds, ring, overran, capVars, isrVars, pc,
                 cur, rxCap, isrStamp, t2, turn>>

-----------------------------------------------------------------------------
(* The interrupt handlers.                                                 *)

\* rx_capture_callback publishes the tick the hardware latched.
CaptureIsr ==
  /\ capPend # 0 /\ capPend' = 0
  /\ rxCapTick' = capPend /\ capNew' = TRUE
  /\ caps' = IF pc \in {"fire", "reap", "measure"} /\ caps < 2 THEN caps + 1 ELSE caps
  /\ UNCHANGED <<worldVars, chipVars, fell, gpioPend, isrVars, pc, handVars>>

\* w5500_rx_isr publishes the stamp, and then counts it and wakes the task.
StampIsr ==
  /\ gpioPend /\ isr = "idle" /\ gpioPend' = FALSE
  /\ rxCaptureUs' = now /\ isr' = "stamped"
  /\ UNCHANGED <<worldVars, chipVars, fell, capPend, capVars, irqNew, notified, pc, handVars>>

CountIsr ==
  /\ isr = "stamped" /\ isr' = "idle"
  /\ irqNew' = TRUE /\ notified' = TRUE
  /\ UNCHANGED <<worldVars, chipVars, edgeVars, capVars, rxCaptureUs, pc, handVars>>

\* A transfer over SPI takes longer than an interrupt that is not held off.
Transferred == IsrPrompt => capPend = 0 /\ ~gpioPend /\ isr = "idle"

-----------------------------------------------------------------------------
(* loop() up to the datagram.                                              *)

Return ==
  /\ pc' = "wait"
  /\ cur' = NoDatagram /\ rxCap' = 0 /\ isrStamp' = 0 /\ t2' = 0
  /\ okAt' = 0 /\ turn' = 0

Notified ==
  /\ pc = "wait" /\ notified
  /\ pc' = "probe" /\ notified' = FALSE
  /\ UNCHANGED <<worldVars, chipVars, edgeVars, capVars, isr, rxCaptureUs, irqNew, handVars>>

SweepAfterEdge ==
  /\ pc = "wait" /\ ~notified /\ pc' = (IF irqNew THEN "probe" ELSE "wait")
  /\ UNCHANGED <<outerVars, handVars>>

\* Five milliseconds without a notification.
Sweep ==
  /\ pc = "wait" /\ ~notified /\ pc' = "probe"
  /\ UNCHANGED <<outerVars, handVars>>

\* w5k_rx_ready: the bytes of at least one request.
Readable ==
  (\E i \in DOMAIN ring : ring[i].kind # "runt") \/ Len(ring) >= RuntsToPass

Probe ==
  /\ pc = "probe" /\ Transferred
  /\ pc' = IF Readable THEN "capture" ELSE "wait"
  /\ UNCHANGED <<outerVars, handVars>>

ReadCapture ==
  /\ pc = "capture" /\ pc' = "stamp"
  /\ rxCap' = (IF capNew THEN rxCapTick ELSE 0) /\ capNew' = FALSE
  /\ UNCHANGED <<worldVars, chipVars, edgeVars, rxCapTick, caps, isrVars,
                 cur, isrStamp, t2, okAt, turn>>

\* The stamp is read before the counter.
ReadStamp ==
  /\ pc = "stamp" /\ pc' = "count" /\ isrStamp' = rxCaptureUs
  /\ UNCHANGED <<outerVars, cur, rxCap, t2, okAt, turn>>

\* No new edge: the instant of the poll.
ReadCount ==
  /\ pc = "count" /\ pc' = "recv" /\ irqNew' = FALSE
  /\ t2' = (IF irqNew THEN isrStamp ELSE now) /\ isrStamp' = 0
  /\ UNCHANGED <<worldVars, chipVars, edgeVars, capVars, isr, rxCaptureUs, notified,
                 cur, rxCap, okAt, turn>>

RecvFrom ==
  /\ pc = "recv" /\ Transferred /\ pc' = "clear"
  /\ cur' = Head(ring) /\ ring' = Tail(ring)
  /\ UNCHANGED <<worldVars, recv, sendok, sendokIrq, sending, overran, edgeVars, capVars, isrVars,
                 rxCap, isrStamp, t2, okAt, turn>>

ClearRxForgotten ==
  /\ pc = "clear" /\ Transferred /\ pc' = "judge"
  /\ UNCHANGED <<worldVars, chipVars, edgeVars, capVars, isrVars, handVars>>

\* RECV is cleared after the datagram was taken, whatever came since.
ClearRx ==
  /\ pc = "clear" /\ Transferred /\ pc' = "judge"
  /\ Interrupts(FALSE, sendok, sendokIrq)
  /\ UNCHANGED <<worldVars, ring, sending, overran, capVars, isrVars, handVars>>

-----------------------------------------------------------------------------
(* loop() from the datagram to the reply.                                  *)

\* Short, of another mode, or over budget and cold.
Drop ==
  /\ pc = "judge" /\ Return
  /\ UNCHANGED outerVars

\* t2 is the capture where it agrees with the other stamp, and the other stamp
\* where it does not; how far apart the two may be is abstracted from.
Answer ==
  /\ pc = "judge" /\ cur.kind = "request"
  /\ t2' \in {t2} \cup (IF rxCap # 0 THEN {rxCap} ELSE {})
  /\ pc' \in {"prime", "stage"}
  /\ UNCHANGED <<outerVars, cur, rxCap, isrStamp, okAt, turn>>

\* SEND: done in a while, or never for a peer that does not answer ARP.
Send == sending' \in {sending, sending + 1}

UnansweredYet == ~sendok

\* No SENDOK when the wait for it is over: two milliseconds in the reap, long
\* enough for the chip to give up in the other two.
Unanswered == ~sendok /\ (sending = 0 \/ pc = "reap")

\* w5k_arp_prime clears what an earlier send left before it sends its byte:
\* before the reply, or after it to refresh; or it finds no room for the byte.
Prime ==
  /\ pc \in {"prime", "refresh"} /\ Transferred
  /\ Interrupts(recv, FALSE, sendokIrq)
  /\ \/ Send /\ pc' = (IF pc = "prime" THEN "primed" ELSE "refreshed") /\ UNCHANGED handVars
     \/ Return /\ UNCHANGED sending
  /\ UNCHANGED <<worldVars, ring, overran, capVars, isrVars>>

Primed ==
  /\ pc \in {"primed", "refreshed"} /\ sendok /\ Transferred
  /\ Interrupts(recv, FALSE, sendokIrq)
  /\ IF pc = "primed" THEN pc' = "stage" /\ UNCHANGED handVars ELSE Return
  /\ UNCHANGED <<worldVars, ring, sending, overran, capVars, isrVars>>

PrimeFails ==
  /\ pc \in {"primed", "refreshed"} /\ Unanswered /\ Return
  /\ UNCHANGED outerVars

\* w5k_send_stage, and capBefore; the fallback where the ring has no room.
Stage ==
  /\ pc = "stage" /\ Transferred
  /\ pc' \in {"fire", "fallback"}
  /\ UNCHANGED <<outerVars, handVars>>

Fire ==
  /\ pc = "fire" /\ Transferred /\ Send /\ pc' = "reap"
  /\ UNCHANGED <<worldVars, ring, recv, sendok, sendokIrq, overran, edgeVars, capVars, isrVars,
                 handVars>>

Reap ==
  /\ pc = "reap" /\ sendok /\ Transferred /\ pc' = "measure"
  /\ Interrupts(recv, FALSE, sendokIrq)
  /\ UNCHANGED <<worldVars, ring, sending, overran, capVars, isrVars, handVars>>

ReapFails ==
  /\ pc = "reap" /\ Unanswered /\ pc' = "fallback"
  /\ overran' = (overran \/ sending > 0) /\ caps' = 0
  /\ UNCHANGED <<worldVars, ring, recv, sendok, sendokIrq, sending, edgeVars,
                 rxCapTick, capNew, isrVars, handVars>>

\* The second getRxCapture: one new capture, and an arrival to measure from.
Measure ==
  /\ pc = "measure" /\ pc' = "check"
  /\ turn' = (IF rxCap # 0 /\ caps = 1 /\ rxCapTick > rxCap THEN rxCapTick ELSE 0) /\ caps' = 0
  /\ UNCHANGED <<worldVars, chipVars, edgeVars, rxCapTick, capNew, isrVars,
                 cur, rxCap, isrStamp, t2, okAt>>

CheckUnread ==
  /\ pc = "check" /\ Transferred /\ pc' = "commit"
  /\ UNCHANGED <<outerVars, handVars>>

\* A datagram that came meanwhile had the edge, or spoilt it.
Check ==
  /\ pc = "check" /\ Transferred /\ pc' = "commit"
  /\ turn' = IF ring = <<>> THEN turn ELSE 0
  /\ UNCHANGED <<outerVars, cur, rxCap, isrStamp, t2, okAt>>

Commit ==
  /\ pc = "commit"
  /\ Return \/ (pc' = "refresh" /\ UNCHANGED handVars)
  /\ UNCHANGED outerVars

\* w5500_udp_sendto clears the flags and sends again; without room in the ring,
\* or without an answer, the reply has failed.
Fallback ==
  /\ pc = "fallback" /\ Transferred /\ Send /\ pc' = "sent"
  /\ Interrupts(recv, FALSE, sendokIrq)
  /\ UNCHANGED <<worldVars, ring, overran, capVars, isrVars, handVars>>

FallbackDone ==
  /\ pc = "sent" /\ sendok /\ Transferred /\ pc' = "commit"
  /\ Interrupts(recv, FALSE, sendokIrq)
  /\ UNCHANGED <<worldVars, ring, sending, overran, capVars, isrVars, handVars>>

\* reopenSocket: closing clears the flags and the rings, and the interrupt
\* that is enabled again is RECV's alone.
Reopen ==
  /\ ring' = <<>> /\ sending' = 0 /\ overran' = FALSE /\ Interrupts(FALSE, FALSE, FALSE)
  /\ UNCHANGED <<capVars, isrVars>>

FallbackFails ==
  /\ pc = "fallback" \/ (pc = "sent" /\ Unanswered)
  /\ Reopen /\ Return
  /\ UNCHANGED worldVars

\* Housekeeping between two calls: the link rebuilt the chip's registers.
ChipRebuilt ==
  /\ pc = "wait" /\ rebuilds < MaxRebuilds /\ rebuilds' = rebuilds + 1
  /\ Reopen
  /\ UNCHANGED <<now, arrived, pc, handVars>>

-----------------------------------------------------------------------------
Isr == CaptureIsr \/ StampIsr \/ CountIsr

Receiving ==
  \/ Notified \/ Sweep \/ Probe \/ ReadCapture \/ ReadStamp \/ ReadCount
  \/ RecvFrom \/ ClearRx \/ Drop

Replying ==
  \/ Answer \/ Prime \/ Primed \/ PrimeFails \/ Stage \/ Fire \/ Reap \/ ReapFails
  \/ Measure \/ Check \/ Commit \/ Fallback \/ FallbackDone \/ FallbackFails

Task == Receiving \/ Replying

Next == (\E kind \in Kinds : Arrive(kind)) \/ SendDone \/ Isr \/ Task \/ ChipRebuilt

\* The interrupts run, the task is scheduled, and a send that will be done is
\* done in the end.
Spec == Init /\ [][Next]_vars /\ WF_vars(Isr) /\ WF_vars(Task) /\ WF_vars(SendDone)

-----------------------------------------------------------------------------
Places == {"wait", "probe", "capture", "stamp", "count", "recv", "clear", "judge", "prime",
           "primed", "stage", "fire", "reap", "measure", "check", "commit", "refresh",
           "refreshed", "fallback", "sent"}

Datagrams == [kind : Kinds, edge : Nat, alone : BOOLEAN]

\* Among the types: one send at a time, until one outlasts its wait.
WordsOK ==
  /\ now \in Nat /\ arrived \in 0..MaxArrivals /\ rebuilds \in 0..MaxRebuilds
  /\ ring \in Seq(Datagrams) /\ cur \in Datagrams \cup {NoDatagram}
  /\ fell \in Nat /\ capPend \in Nat /\ rxCapTick \in Nat /\ caps \in 0..2
  /\ isr \in {"idle", "stamped"} /\ rxCaptureUs \in Nat /\ pc \in Places
  /\ rxCap \in Nat /\ isrStamp \in Nat /\ t2 \in Nat /\ okAt \in Nat /\ turn \in Nat
  /\ sending \in Nat /\ (~overran => sending <= 1)

FlagsOK ==
  /\ recv \in BOOLEAN /\ sendok \in BOOLEAN /\ sendokIrq \in BOOLEAN
  /\ gpioPend \in BOOLEAN /\ capNew \in BOOLEAN /\ irqNew \in BOOLEAN
  /\ notified \in BOOLEAN /\ overran \in BOOLEAN

TypeOK == WordsOK /\ FlagsOK

\* A reply's receive timestamp is not older than the edge its datagram came
\* under: its own, or the one that still held INTn low.  And a datagram that
\* found the task waiting and the ring empty has its own edge for a capture
\* (unless a send outlasted its wait, whose SENDOK may hold INTn low).  Whatever
\* is queued, short, ignored or dropped before it, and whatever edges of replies
\* were left unread.
StampBelongs ==
  pc \in {"prime", "stage"} => t2 >= cur.edge /\ (cur.alone => rxCap = cur.edge)

\* "The capture being read is not reliably this packet's SENDOK edge": one that
\* is accepted is, in spite of arrivals that share INTn, until a send outlasts its
\* wait: from then on a SENDOK may be an earlier send's.
TurnaroundEndsHere ==
  pc = "commit" /\ turn # 0 /\ ~overran => turn = okAt /\ sending = 0

\* "A second datagram queued behind one INTn assertion produces no new edge, so
\* a periodic sweep still drains it": as arrivals end, every datagram
\* long enough leaves the ring, whatever edges were lost.
Drained == []<>(\A i \in DOMAIN ring : ring[i].kind = "runt")
=============================================================================
