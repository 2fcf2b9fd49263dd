---------------------------- MODULE RxStampProofs ----------------------------
(***************************************************************************)
(* Proofs about receive stamps and turnarounds, for any number of          *)
(* datagrams, runts and rebuilds.                                          *)
(***************************************************************************)
EXTENDS RxStamp, TLAPS

-----------------------------------------------------------------------------
(* The inductive invariant.                                                *)

\* Sends: one at a time, and none left over where the task does not wait for one,
\* until one outlasts its wait.
Waiting == {"primed", "refreshed", "reap", "sent"}

SendInv ==
  ~overran =>
    /\ pc \notin Waiting => sending = 0 /\ ~sendok
    /\ pc \in Waiting => sending = 0 \/ (sending = 1 /\ ~sendok)

\* The datagram that was seen in the ring is still there when it is taken.
HeldInv == pc \in {"capture", "stamp", "count", "recv"} => ring # <<>>

\* Edges: the capture and the stamp are of the last one as soon as its interrupts
\* have run, and no datagram is of a later one.
EdgeInv ==
  /\ fell <= now /\ rxCaptureUs <= now
  /\ capPend \in {0, fell} /\ (capPend = 0 => rxCapTick = fell) /\ rxCapTick <= fell
  /\ ~gpioPend => rxCaptureUs >= fell
  /\ \A i \in DOMAIN ring : ring[i].edge <= fell

\* The ring: RECV stands for what is in it, but for the moment between a
\* datagram's being taken and the clearing.
RecvInv == recv => ring # <<>> \/ pc = "clear"

\* A datagram that came alone is the ring's head ...
OrderInv == \A i \in DOMAIN ring : i # 1 => ~ring[i].alone

\* ... and holds INTn low and has made the last edge, until it is taken.
AloneInv ==
  ring # <<>> /\ ring[1].alone =>
    /\ pc \in {"wait", "probe", "capture", "stamp", "count", "recv"}
    /\ pc \in {"wait", "probe", "capture"} =>
         recv /\ ring[1].edge = fell /\ (capPend = 0 => capNew)
    /\ pc = "capture" => capPend = 0
    /\ pc \in {"stamp", "count", "recv"} => rxCap = ring[1].edge

RingInv == RecvInv /\ OrderInv /\ AloneInv

\* Stamps: whatever is read for the head's, or as a capture, is not older than
\* the head's edge.
StampInv ==
  /\ pc = "capture" => rxCapTick >= ring[1].edge
  /\ pc \in {"capture", "stamp"} => rxCaptureUs >= ring[1].edge
  /\ pc \in {"stamp", "count", "recv"} => rxCap = 0 \/ rxCap >= ring[1].edge
  /\ pc = "count" => isrStamp >= ring[1].edge
  /\ pc = "recv" => t2 >= ring[1].edge
  /\ pc \in {"clear", "judge"} => rxCap = 0 \/ rxCap >= cur.edge
  /\ pc \in {"clear", "judge", "prime", "primed", "stage"} =>
       t2 >= cur.edge /\ (cur.alone => rxCap = cur.edge)

\* Turnarounds: from the reply's staging on, with nothing in the ring and no
\* send outlasting its wait, an edge is the reply's own SENDOK.
Handling == {"judge", "prime", "primed", "stage", "fire", "reap", "measure", "check"}

\* What is handled was cleared; only the send counts captures; a turnaround is
\* measured after it.
PlaceInv ==
  /\ pc \in Handling /\ ring = <<>> => ~recv
  /\ pc \notin {"fire", "reap", "measure"} => caps = 0
  /\ turn # 0 => pc \in {"check", "commit", "refresh", "refreshed"}

ReplyEdgeInv ==
  ~overran /\ ring = <<>> =>
    /\ pc = "fire" => capPend = 0 /\ caps = 0
    /\ pc = "reap" =>
         \/ capPend = 0 /\ caps = 0
         \/ sending = 0 /\ capPend = okAt /\ caps = 0
         \/ sending = 0 /\ capPend = 0 /\ caps = 1 /\ rxCapTick = okAt
    /\ pc = "measure" => capPend = 0 /\ caps \in {0, 1} /\ (caps = 1 => rxCapTick = okAt)
    /\ pc = "check" /\ turn # 0 => turn = okAt

CommitInv == pc = "commit" /\ ~overran /\ turn # 0 => turn = okAt

TurnInv == PlaceInv /\ ReplyEdgeInv /\ CommitInv

IInv == TypeOK /\ SendInv /\ HeldInv /\ EdgeInv /\ RingInv /\ StampInv /\ TurnInv

-----------------------------------------------------------------------------
(* Types, sends, and the datagram in the ring.                             *)

\* A ring that looks readable is not empty.
LEMMA ReadableHolds == ring \in Seq(Datagrams) /\ Readable => ring # <<>>
BY BoundAssumption DEF Readable

\* The flags are flags.
LEMMA FlagsStay == FlagsOK /\ [Next]_vars => FlagsOK'
<1> SUFFICES ASSUME FlagsOK, [Next]_vars PROVE FlagsOK'
  OBVIOUS
<1> USE DEF FlagsOK, outerVars, worldVars, chipVars, edgeVars, capVars, isrVars, handVars
<1>1. ASSUME NEW kind \in Kinds, Arrive(kind) PROVE FlagsOK'
  BY <1>1 DEF Arrive, Interrupts
<1>2. CASE SendDone
  BY <1>2 DEF SendDone, Interrupts
<1>3. CASE Isr
  BY <1>3 DEF Isr, CaptureIsr, StampIsr, CountIsr
<1>4. CASE Notified \/ Sweep \/ Probe \/ ReadCapture \/ ReadStamp \/ ReadCount
  BY <1>4 DEF Notified, Sweep, Probe, ReadCapture, ReadStamp, ReadCount
<1>5. CASE RecvFrom \/ ClearRx \/ Drop \/ Answer
  BY <1>5 DEF RecvFrom, ClearRx, Drop, Answer, Interrupts
<1>6. CASE Prime \/ Primed \/ PrimeFails
  BY <1>6 DEF Prime, Primed, PrimeFails, Interrupts
<1>7. CASE Stage \/ Fire \/ Reap \/ Measure \/ Check \/ Commit
  BY <1>7 DEF Stage, Fire, Reap, Measure, Check, Commit, Interrupts
<1>8. CASE ReapFails
  BY <1>8 DEF ReapFails
<1>9. CASE Fallback \/ FallbackDone \/ FallbackFails \/ ChipRebuilt
  BY <1>9 DEF Fallback, FallbackDone, FallbackFails, ChipRebuilt, Reopen, Interrupts
<1>10. CASE UNCHANGED vars
  BY <1>10 DEF vars
<1>11. QED
  BY <1>1, <1>2, <1>3, <1>4, <1>5, <1>6, <1>7, <1>8, <1>9, <1>10
     DEF Next, Task, Receiving, Replying

\* An edge is at the time of the event.
LEMMA EdgeTypes ==
  ASSUME NEW r, NEW s, NEW irq, Interrupts(r, s, irq),
         fell \in Nat, capPend \in Nat, now' \in Nat
  PROVE  fell' \in Nat /\ capPend' \in Nat
BY DEF Interrupts, edgeVars

\* Every word keeps its range, and no send is begun before the last is done.
LEMMA WordsStay ==
  ASSUME TypeOK, SendInv, HeldInv, [Next]_vars PROVE WordsOK'
<1>f. overran \in BOOLEAN /\ sendok \in BOOLEAN
  BY DEF TypeOK, FlagsOK
<1>w. WordsOK
  BY DEF TypeOK
<1> USE <1>w DEF WordsOK, worldVars, chipVars, edgeVars, capVars, isrVars, handVars
<1>n. NoDatagram \in Datagrams \cup {NoDatagram}
  OBVIOUS
<1>1. ASSUME NEW kind \in Kinds, Arrive(kind) PROVE WordsOK'
  <2>1. now' = now + 1 /\ now' \in Nat /\ arrived' \in 0..MaxArrivals
    BY <1>1, BoundAssumption DEF Arrive
  <2>2. fell' \in Nat /\ capPend' \in Nat
    BY <1>1, <2>1, EdgeTypes DEF Arrive
  <2>3. Under \in Nat
    BY <2>1 DEF Under
  <2>4. (pc = "wait" /\ ring = <<>> /\ ~overran) \in BOOLEAN
    OBVIOUS
  <2>5. [kind |-> kind, edge |-> Under,
         alone |-> pc = "wait" /\ ring = <<>> /\ ~overran] \in Datagrams
    BY <2>3, <2>4 DEF Datagrams
  <2>6. ring' \in Seq(Datagrams)
    BY <1>1, <2>5 DEF Arrive
  <2>7. QED
    BY <1>1, <2>1, <2>2, <2>6 DEF Arrive
<1>2. CASE SendDone
  <2>1. now' = now + 1 /\ now' \in Nat /\ okAt' \in Nat /\ sending' \in Nat
        /\ (~overran' => sending' <= 1)
    BY <1>2 DEF SendDone
  <2>2. fell' \in Nat /\ capPend' \in Nat
    BY <1>2, <2>1, EdgeTypes DEF SendDone
  <2>3. QED
    BY <1>2, <2>1, <2>2 DEF SendDone
<1>3. CASE Isr
  <2>1. CASE CaptureIsr
    BY <2>1 DEF CaptureIsr
  <2>2. CASE StampIsr
    BY <2>2 DEF StampIsr
  <2>3. CASE CountIsr
    BY <2>3 DEF CountIsr
  <2>4. QED
    BY <1>3, <2>1, <2>2, <2>3 DEF Isr
<1>4. CASE Notified \/ Sweep \/ Probe \/ ReadStamp
  BY <1>4 DEF Notified, Sweep, Probe, ReadStamp, outerVars, Places
<1>5. CASE ReadCapture \/ ReadCount
  <2>1. rxCap' \in Nat /\ t2' \in Nat /\ isrStamp' \in Nat /\ pc' \in Places
    <3>1. CASE ReadCapture
      <4>1. rxCap' \in {rxCapTick, 0} /\ UNCHANGED <<t2, isrStamp>> /\ pc' = "stamp"
        BY <3>1 DEF ReadCapture
      <4>2. QED
        BY <4>1 DEF Places
    <3>2. CASE ReadCount
      <4>1. rxCap' = rxCap /\ t2' \in {isrStamp, now} /\ isrStamp' = 0 /\ pc' = "recv"
        BY <3>2 DEF ReadCount
      <4>2. QED
        BY <4>1 DEF Places
    <3>3. QED
      BY <1>5, <3>1, <3>2
  <2>2. /\ UNCHANGED <<worldVars, chipVars, edgeVars, rxCapTick, caps>>
        /\ UNCHANGED <<isr, rxCaptureUs, cur, okAt, turn>>
    BY <1>5 DEF ReadCapture, ReadCount
  <2>3. QED
    BY <2>1, <2>2
<1>6. CASE RecvFrom
  <2>1. ring # <<>>
    BY <1>6 DEF RecvFrom, HeldInv
  <2>2. Head(ring) \in Datagrams /\ Tail(ring) \in Seq(Datagrams)
    BY <2>1
  <2>3. QED
    BY <1>6, <2>2 DEF RecvFrom, Places
<1>7. ASSUME NEW r, NEW s, NEW irq, Interrupts(r, s, irq), now' = now
      PROVE  fell' \in Nat /\ capPend' \in Nat
  BY <1>7, EdgeTypes
<1>8. CASE ClearRx
  <2>1. fell' \in Nat /\ capPend' \in Nat
    BY <1>8, <1>7 DEF ClearRx
  <2>2. QED
    BY <1>8, <2>1 DEF ClearRx, Places
<1>9. Return => /\ cur' = NoDatagram /\ rxCap' = 0 /\ isrStamp' = 0 /\ t2' = 0
                /\ okAt' = 0 /\ turn' = 0 /\ pc' \in Places
  BY DEF Return, Places
<1>10. CASE Drop \/ PrimeFails
  BY <1>10, <1>9 DEF Drop, PrimeFails, outerVars
<1>11. CASE Answer
  BY <1>11 DEF Answer, outerVars, Places
<1>12. Send /\ pc \notin Waiting => sending' \in Nat /\ (~overran => sending' <= 1)
  BY DEF Send, SendInv
<1>13. CASE Prime
  <2>1. fell' \in Nat /\ capPend' \in Nat
    BY <1>13, <1>7 DEF Prime
  <2>2. sending' \in Nat /\ (~overran' => sending' <= 1)
    BY <1>12, <1>13 DEF Prime, Waiting
  <2>3. /\ cur' \in Datagrams \cup {NoDatagram} /\ rxCap' \in Nat /\ isrStamp' \in Nat
        /\ t2' \in Nat /\ okAt' \in Nat /\ turn' \in Nat /\ pc' \in Places
    BY <1>9, <1>13 DEF Prime, Places
  <2>4. QED
    BY <1>13, <2>1, <2>2, <2>3 DEF Prime
<1>14. CASE Primed
  <2>1. fell' \in Nat /\ capPend' \in Nat
    BY <1>14, <1>7 DEF Primed
  <2>2. /\ cur' \in Datagrams \cup {NoDatagram} /\ rxCap' \in Nat /\ isrStamp' \in Nat
        /\ t2' \in Nat /\ okAt' \in Nat /\ turn' \in Nat /\ pc' \in Places
    BY <1>9, <1>14 DEF Primed, Places
  <2>3. QED
    BY <1>14, <2>1, <2>2 DEF Primed
<1>15. CASE Stage \/ Check
  <2>1. pc' \in Places /\ turn' \in Nat /\ UNCHANGED <<cur, rxCap, isrStamp, t2, okAt>>
    BY <1>15 DEF Stage, Check, Places
  <2>2. QED
    BY <1>15, <2>1 DEF Stage, Check, outerVars
<1>16. CASE Fire
  <2>1. sending' \in Nat /\ (~overran' => sending' <= 1)
    BY <1>12, <1>16 DEF Fire, Waiting
  <2>2. QED
    BY <1>16, <2>1 DEF Fire, Places
<1>17. CASE Reap \/ FallbackDone
  <2>1. fell' \in Nat /\ capPend' \in Nat
    BY <1>17, <1>7 DEF Reap, FallbackDone
  <2>2. QED
    BY <1>17, <2>1 DEF Reap, FallbackDone, Places
<1>18. CASE ReapFails
  <2>1. ~overran' => sending' <= 1
    BY <1>18 DEF ReapFails
  <2>2. QED
    BY <1>18, <2>1 DEF ReapFails, Places
<1>19. CASE Measure
  BY <1>19 DEF Measure, Places
<1>20. CASE Commit
  BY <1>9, <1>20 DEF Commit, outerVars, Places
<1>21. CASE Fallback
  <2>1. fell' \in Nat /\ capPend' \in Nat
    BY <1>21, <1>7 DEF Fallback
  <2>2. sending' \in Nat /\ (~overran' => sending' <= 1)
    BY <1>12, <1>21 DEF Fallback, Waiting
  <2>3. QED
    BY <1>21, <2>1, <2>2 DEF Fallback, Places
<1>22. CASE FallbackFails \/ ChipRebuilt
  <2>1. now' = now /\ Reopen
    BY <1>22 DEF FallbackFails, ChipRebuilt
  <2>2. fell' \in Nat /\ capPend' \in Nat
    BY <1>7, <2>1 DEF Reopen
  <2>3. rebuilds' \in 0..MaxRebuilds
    BY <1>22, BoundAssumption DEF FallbackFails, ChipRebuilt
  <2>4. ring' = <<>> /\ sending' = 0 /\ <<>> \in Seq(Datagrams)
    BY <2>1 DEF Reopen
  <2>5. /\ cur' \in Datagrams \cup {NoDatagram} /\ rxCap' \in Nat /\ isrStamp' \in Nat
        /\ t2' \in Nat /\ okAt' \in Nat /\ turn' \in Nat /\ pc' \in Places
    BY <1>9, <1>22 DEF FallbackFails, ChipRebuilt
  <2>6. UNCHANGED <<now, arrived, capVars, isrVars>>
    BY <1>22, <2>1 DEF FallbackFails, ChipRebuilt, Reopen
  <2>7. QED
    BY <2>2, <2>3, <2>4, <2>5, <2>6
<1>23. CASE UNCHANGED vars
  BY <1>23 DEF vars, outerVars
<1>24. QED
  BY <1>1, <1>2, <1>3, <1>4, <1>5, <1>6, <1>8, <1>10, <1>11, <1>13, <1>14, <1>15, <1>16,
     <1>17, <1>18, <1>19, <1>20, <1>21, <1>22, <1>23 DEF Next, Task, Receiving, Replying

\* No send is left over where the task waits for none.
LEMMA SendsStay ==
  ASSUME TypeOK, SendInv, [Next]_vars PROVE SendInv'
<1>f. overran \in BOOLEAN /\ sendok \in BOOLEAN /\ sending \in Nat
  BY DEF TypeOK, FlagsOK, WordsOK
<1> USE DEF SendInv, Waiting
<1>1. CASE (\E kind \in Kinds : Arrive(kind)) \/ Isr \/ UNCHANGED vars
  BY <1>1 DEF Arrive, Interrupts, Isr, CaptureIsr, StampIsr, CountIsr, vars, outerVars,
              chipVars
<1>2. CASE SendDone
  BY <1>2, <1>f DEF SendDone, Interrupts
<1>3. CASE Receiving
  <2>1. UNCHANGED <<sending, sendok, overran>>
    BY <1>3 DEF Receiving, Notified, Sweep, Probe, ReadCapture, ReadStamp, ReadCount,
                RecvFrom, ClearRx, Drop, outerVars, chipVars, Interrupts
  <2>2. pc \notin Waiting /\ pc' \notin Waiting
    BY <1>3 DEF Receiving, Notified, Sweep, Probe, ReadCapture, ReadStamp, ReadCount,
                RecvFrom, ClearRx, Drop, Return
  <2>3. QED
    BY <2>1, <2>2
<1>4. CASE Answer \/ Stage \/ Measure \/ Check \/ Commit
  <2>1. UNCHANGED <<sending, sendok, overran>>
    BY <1>4 DEF Answer, Stage, Measure, Check, Commit, outerVars, chipVars
  <2>2. pc \notin Waiting /\ pc' \notin Waiting
    BY <1>4 DEF Answer, Stage, Measure, Check, Commit, Return
  <2>3. QED
    BY <2>1, <2>2
<1>5. CASE Prime
  <2>1. sendok' = FALSE /\ overran' = overran /\ pc \notin Waiting
    BY <1>5 DEF Prime, Interrupts
  <2>2. (pc' \in Waiting /\ sending' \in {sending, sending + 1})
          \/ (pc' \notin Waiting /\ sending' = sending)
    BY <1>5 DEF Prime, Send, Return
  <2>3. QED
    BY <1>f, <2>1, <2>2
<1>6. CASE Fire
  <2>1. sendok' = sendok /\ overran' = overran /\ pc \notin Waiting
    BY <1>6 DEF Fire
  <2>2. pc' \in Waiting /\ sending' \in {sending, sending + 1}
    BY <1>6 DEF Fire, Send
  <2>3. QED
    BY <1>f, <2>1, <2>2
<1>7. CASE Fallback
  <2>1. sendok' = FALSE /\ overran' = overran /\ pc \notin Waiting
    BY <1>7 DEF Fallback, Interrupts
  <2>2. pc' \in Waiting /\ sending' \in {sending, sending + 1}
    BY <1>7 DEF Fallback, Send
  <2>3. QED
    BY <1>f, <2>1, <2>2
<1>8. CASE Primed \/ Reap \/ FallbackDone
  <2>1. sendok /\ sendok' = FALSE /\ UNCHANGED <<sending, overran>>
    BY <1>8 DEF Primed, Reap, FallbackDone, Interrupts
  <2>2. pc \in Waiting /\ pc' \notin Waiting
    BY <1>8 DEF Primed, Reap, FallbackDone, Return
  <2>3. QED
    BY <2>1, <2>2
<1>9. CASE PrimeFails
  <2>1. UNCHANGED <<sending, sendok, overran>> /\ sending = 0 /\ ~sendok
    BY <1>9 DEF PrimeFails, Unanswered, outerVars, chipVars
  <2>2. QED
    BY <2>1
<1>10. CASE ReapFails
  <2>1. UNCHANGED <<sending, sendok>> /\ ~sendok /\ (~overran' => ~(sending > 0))
    BY <1>10 DEF ReapFails, Unanswered
  <2>2. ~overran' => sending = 0
    BY <1>f, <2>1
  <2>3. pc' \notin Waiting
    BY <1>10 DEF ReapFails
  <2>4. QED
    BY <2>1, <2>2, <2>3
<1>11. CASE FallbackFails \/ ChipRebuilt
  <2>1. sending' = 0 /\ sendok' = FALSE
    BY <1>11 DEF FallbackFails, ChipRebuilt, Reopen, Interrupts
  <2>2. QED
    BY <2>1
<1>12. QED
  BY <1>1, <1>2, <1>3, <1>4, <1>5, <1>6, <1>7, <1>8, <1>9, <1>10, <1>11
     DEF Next, Task, Replying

\* Only the task takes datagrams out, and only the one it has seen.
LEMMA HeldStays ==
  ASSUME TypeOK, HeldInv, [Next]_vars PROVE HeldInv'
<1>r. ring \in Seq(Datagrams)
  BY DEF TypeOK, WordsOK
<1>1. ASSUME NEW kind \in Kinds, Arrive(kind) PROVE HeldInv'
  <2>1. ring' # <<>>
    BY <1>r, <1>1 DEF Arrive
  <2>2. QED
    BY <2>1 DEF HeldInv
<1>2. CASE SendDone \/ Isr \/ UNCHANGED vars
  BY <1>2 DEF SendDone, Isr, CaptureIsr, StampIsr, CountIsr, vars, outerVars, chipVars, HeldInv
<1>3. CASE Probe
  <2>1. pc' = "capture" => Readable
    BY <1>3 DEF Probe
  <2>2. pc' \in {"capture", "wait"} /\ ring' = ring
    BY <1>3 DEF Probe, outerVars, chipVars
  <2>3. QED
    BY <1>r, <2>1, <2>2, ReadableHolds DEF HeldInv
<1>4. CASE ReadCapture \/ ReadStamp \/ ReadCount
  BY <1>4 DEF ReadCapture, ReadStamp, ReadCount, outerVars, chipVars, HeldInv
<1>5. CASE Notified \/ Sweep \/ RecvFrom \/ ClearRx \/ Drop
  BY <1>5 DEF Notified, Sweep, RecvFrom, ClearRx, Drop, Return, HeldInv
<1>6. CASE Replying \/ ChipRebuilt
  <2>1. pc' \notin {"capture", "stamp", "count", "recv"}
    BY <1>6 DEF Replying, Answer, Prime, Primed, PrimeFails, Stage, Fire, Reap, ReapFails,
                Measure, Check, Commit, Fallback, FallbackDone, FallbackFails, ChipRebuilt,
                Return
  <2>2. QED
    BY <2>1 DEF HeldInv
<1>7. QED
  BY <1>1, <1>2, <1>3, <1>4, <1>5, <1>6 DEF Next, Task, Receiving

\* Every word and flag keeps its range, a send follows a send only when that is
\* done or has outlasted its wait, and a datagram is taken that was seen.
LEMMA Layer1 == Spec => [](TypeOK /\ SendInv /\ HeldInv)
<1>1. Init => TypeOK /\ SendInv /\ HeldInv
  <2> SUFFICES ASSUME Init PROVE TypeOK /\ SendInv /\ HeldInv
    OBVIOUS
  <2>1. FlagsOK
    BY DEF Init, FlagsOK
  <2>2. WordsOK
    BY BoundAssumption DEF Init, WordsOK, Places
  <2>3. SendInv /\ HeldInv
    BY DEF Init, SendInv, HeldInv, Waiting
  <2>4. QED
    BY <2>1, <2>2, <2>3 DEF TypeOK
<1>2. TypeOK /\ SendInv /\ HeldInv /\ [Next]_vars => (TypeOK /\ SendInv /\ HeldInv)'
  BY FlagsStay, WordsStay, SendsStay, HeldStays DEF TypeOK
<1>3. QED
  BY <1>1, <1>2, PTL DEF Spec

\* Every word and flag keeps its range, and one send is under way at a time until
\* one outlasts its wait.
THEOREM TypeCorrect == Spec => []TypeOK
BY Layer1, PTL

-----------------------------------------------------------------------------
(* Edges.                                                                  *)

\* What the task does at the chip ends assertions of INTn and begins none; the
\* handlers' words are not its own.
LEMMA TaskMakesNoEdge ==
  Task \/ ChipRebuilt \/ UNCHANGED vars =>
    UNCHANGED <<now, fell, capPend, gpioPend, rxCapTick, isr, rxCaptureUs>>
<1> USE DEF outerVars, worldVars, chipVars, edgeVars, capVars, isrVars, handVars
<1>1. Receiving => UNCHANGED <<now, fell, capPend, gpioPend, rxCapTick, isr, rxCaptureUs>>
  <2>1. ClearRx => UNCHANGED edgeVars
    BY DEF ClearRx, Interrupts, Low
  <2>2. QED
    BY <2>1 DEF Receiving, Notified, Sweep, Probe, ReadCapture, ReadStamp, ReadCount, RecvFrom,
                ClearRx, Drop
<1>2. Replying => UNCHANGED <<now, fell, capPend, gpioPend, rxCapTick, isr, rxCaptureUs>>
  <2>1. Interrupts(recv, FALSE, sendokIrq) \/ Interrupts(FALSE, FALSE, FALSE)
          => UNCHANGED edgeVars
    BY DEF Interrupts, Low
  <2>2. Prime \/ Primed \/ Reap \/ Fallback \/ FallbackDone
          => UNCHANGED <<now, fell, capPend, gpioPend, rxCapTick, isr, rxCaptureUs>>
    BY <2>1 DEF Prime, Primed, Reap, Fallback, FallbackDone
  <2>3. FallbackFails => UNCHANGED <<now, fell, capPend, gpioPend, rxCapTick, isr, rxCaptureUs>>
    BY <2>1 DEF FallbackFails, Reopen
  <2>4. Answer \/ PrimeFails \/ Stage \/ Fire \/ ReapFails \/ Measure \/ Check \/ Commit
          => UNCHANGED <<now, fell, capPend, gpioPend, rxCapTick, isr, rxCaptureUs>>
    BY DEF Answer, PrimeFails, Stage, Fire, ReapFails, Measure, Check, Commit
  <2>5. QED
    BY <2>2, <2>3, <2>4 DEF Replying
<1>3. ChipRebuilt => UNCHANGED <<now, fell, capPend, gpioPend, rxCapTick, isr, rxCaptureUs>>
  BY DEF ChipRebuilt, Reopen, Interrupts, Low
<1>4. UNCHANGED vars => UNCHANGED <<now, fell, capPend, gpioPend, rxCapTick, isr, rxCaptureUs>>
  BY DEF vars
<1>5. QED
  BY <1>1, <1>2, <1>3, <1>4 DEF Task

\* A datagram has an edge.
LEMMA RingTypes ==
  ASSUME WordsOK
  PROVE  \A i \in DOMAIN ring : ring[i] \in Datagrams /\ ring[i].edge \in Nat
<1>1. \A i \in DOMAIN ring : ring[i] \in Datagrams
  BY DEF WordsOK
<1>2. \A d \in Datagrams : d.edge \in Nat
  BY DEF Datagrams
<1>3. QED
  BY <1>1, <1>2

\* The task takes the head of the ring, or empties it, or leaves it alone.
LEMMA TaskTakesFromRing ==
  Task \/ ChipRebuilt \/ UNCHANGED vars =>
    ring' = ring \/ ring' = <<>> \/ (RecvFrom /\ ring' = Tail(ring))
<1> USE DEF outerVars, chipVars
<1>1. Receiving => ring' = ring \/ (RecvFrom /\ ring' = Tail(ring))
  BY DEF Receiving, Notified, Sweep, Probe, ReadCapture, ReadStamp, ReadCount, RecvFrom,
         ClearRx, Drop
<1>2. Replying => ring' = ring \/ ring' = <<>>
  BY DEF Replying, Answer, Prime, Primed, PrimeFails, Stage, Fire, Reap, ReapFails, Measure,
         Check, Commit, Fallback, FallbackDone, FallbackFails, Reopen
<1>3. ChipRebuilt \/ UNCHANGED vars => ring' = ring \/ ring' = <<>>
  BY DEF ChipRebuilt, Reopen, vars
<1>4. QED
  BY <1>1, <1>2, <1>3 DEF Task

\* What is left in the ring has been in it.
LEMMA RingShrinks ==
  ASSUME TypeOK, HeldInv, Task \/ ChipRebuilt \/ UNCHANGED vars
  PROVE  \A i \in DOMAIN ring' :
           \E j \in DOMAIN ring : ring'[i] = ring[j] /\ (i # 1 => j # 1)
<1>r. ring \in Seq(Datagrams)
  BY DEF TypeOK, WordsOK
<1>1. CASE ring' = ring
  BY <1>1
<1>2. CASE ring' = <<>>
  BY <1>2
<1>3. CASE RecvFrom /\ ring' = Tail(ring)
  <2>1. ring # <<>>
    BY <1>3 DEF RecvFrom, HeldInv
  <2>2. \A i \in DOMAIN ring' : i + 1 \in DOMAIN ring /\ ring'[i] = ring[i + 1] /\ i + 1 # 1
    BY <1>r, <1>3, <2>1
  <2>3. QED
    BY <2>2
<1>4. QED
  BY <1>1, <1>2, <1>3, TaskTakesFromRing

\* The capture and the stamp follow the last edge as soon as their interrupts
\* have run, and no datagram has a later one.
LEMMA EdgeInvariant == Spec => []EdgeInv
<1>1. Init => EdgeInv
  BY DEF Init, EdgeInv
<1>2. TypeOK /\ HeldInv /\ EdgeInv /\ [Next]_vars => EdgeInv'
  <2> SUFFICES ASSUME TypeOK, HeldInv, EdgeInv, [Next]_vars PROVE EdgeInv'
    OBVIOUS
  <2>w. WordsOK
    BY DEF TypeOK
  <2>1. ASSUME NEW kind \in Kinds, Arrive(kind) PROVE EdgeInv'
    <3>1. now' = now + 1 /\ UNCHANGED <<rxCaptureUs, rxCapTick>>
      BY <2>1 DEF Arrive, capVars, isrVars
    <3>2. CASE Low(recv, sendok, sendokIrq)
      <4>1. UNCHANGED <<fell, capPend, gpioPend>> /\ Under = fell
        BY <2>1, <3>2 DEF Arrive, Interrupts, edgeVars, Under
      <4>2. \A i \in DOMAIN ring' : ring'[i].edge <= fell
        BY <2>w, <2>1, <4>1 DEF Arrive, EdgeInv, WordsOK
      <4>3. QED
        BY <2>w, <3>1, <4>1, <4>2 DEF EdgeInv, WordsOK
    <3>3. CASE ~Low(recv, sendok, sendokIrq)
      <4>1. fell' = now' /\ capPend' = now' /\ gpioPend' = TRUE /\ Under = now'
        BY <2>1, <3>1, <3>3 DEF Arrive, Interrupts, Low, Under
      <4>2. \A i \in DOMAIN ring' : ring'[i].edge <= fell'
        <5>1. \A i \in DOMAIN ring : ring[i].edge <= fell'
          BY <2>w, <3>1, <4>1, RingTypes DEF EdgeInv, WordsOK
        <5>2. \A i \in DOMAIN ring' : \/ i \in DOMAIN ring /\ ring'[i] = ring[i]
                                      \/ ring'[i].edge = Under
          BY <2>w, <2>1 DEF Arrive, WordsOK
        <5>3. fell' \in Nat
          BY <2>w, <3>1, <4>1 DEF WordsOK
        <5>4. QED
          BY <4>1, <5>1, <5>2, <5>3
      <4>3. QED
        BY <2>w, <3>1, <4>1, <4>2 DEF EdgeInv, WordsOK
    <3>4. QED
      BY <3>2, <3>3
  <2>2. CASE SendDone
    <3>1. now' = now + 1 /\ UNCHANGED <<rxCaptureUs, rxCapTick, ring>>
      BY <2>2 DEF SendDone, capVars, isrVars
    <3>2. \/ UNCHANGED <<fell, capPend, gpioPend>>
          \/ fell' = now' /\ capPend' = now' /\ gpioPend' = TRUE
      BY <2>2 DEF SendDone, Interrupts, edgeVars
    <3>3. QED
      BY <2>w, <3>1, <3>2, RingTypes DEF EdgeInv, WordsOK
  <2>3. CASE CaptureIsr
    BY <2>3, <2>w DEF CaptureIsr, EdgeInv, WordsOK, worldVars, chipVars, isrVars
  <2>4. CASE StampIsr
    BY <2>4, <2>w DEF StampIsr, EdgeInv, WordsOK, worldVars, chipVars, capVars
  <2>5. CASE CountIsr
    BY <2>5 DEF CountIsr, EdgeInv, worldVars, chipVars, edgeVars, capVars
  <2>6. CASE Task \/ ChipRebuilt \/ UNCHANGED vars
    <3>1. UNCHANGED <<now, fell, capPend, gpioPend, rxCapTick, rxCaptureUs>>
      BY <2>6, TaskMakesNoEdge
    <3>2. \A i \in DOMAIN ring' : ring'[i].edge <= fell
      BY <2>6, RingShrinks DEF EdgeInv
    <3>3. QED
      BY <3>1, <3>2 DEF EdgeInv
  <2>7. QED
    BY <2>1, <2>2, <2>3, <2>4, <2>5, <2>6 DEF Next, Isr
<1>3. QED
  BY <1>1, <1>2, Layer1, PTL DEF Spec

-----------------------------------------------------------------------------
(* Which edge a datagram came under, and which stamp it is given.          *)

\* RECV is cleared, outside of its own step, only with the ring.
LEMMA TaskKeepsRecv ==
  Task \/ ChipRebuilt \/ UNCHANGED vars =>
    \/ RecvFrom /\ recv' = recv /\ pc' = "clear"
    \/ ClearRx /\ ring' = ring /\ ~recv'
    \/ ring' = ring /\ recv' = recv /\ (pc' = "clear" <=> pc = "clear")
    \/ ring' = <<>> /\ ~recv'
<1> USE DEF outerVars, chipVars
<1>1. RecvFrom => recv' = recv /\ pc' = "clear"
  BY DEF RecvFrom
<1>2. ClearRx => ring' = ring /\ ~recv'
  BY DEF ClearRx, Interrupts
<1>3. Notified \/ Sweep \/ Probe \/ ReadCapture \/ ReadStamp \/ ReadCount \/ Drop
        => ring' = ring /\ recv' = recv /\ pc' # "clear" /\ pc # "clear"
  BY DEF Notified, Sweep, Probe, ReadCapture, ReadStamp, ReadCount, Drop, Return
<1>4. Answer \/ PrimeFails \/ Stage \/ Fire \/ ReapFails \/ Measure \/ Check \/ Commit
        => ring' = ring /\ recv' = recv /\ pc' # "clear" /\ pc # "clear"
  BY DEF Answer, PrimeFails, Stage, Fire, ReapFails, Measure, Check, Commit, Return
<1>5. Prime \/ Primed \/ Reap \/ Fallback \/ FallbackDone
        => ring' = ring /\ recv' = recv /\ pc' # "clear" /\ pc # "clear"
  BY DEF Prime, Primed, Reap, Fallback, FallbackDone, Return, Interrupts
<1>6. FallbackFails \/ ChipRebuilt => ring' = <<>> /\ ~recv'
  BY DEF FallbackFails, ChipRebuilt, Reopen, Interrupts
<1>7. UNCHANGED vars => ring' = ring /\ recv' = recv /\ (pc' = "clear" <=> pc = "clear")
  BY DEF vars
<1>8. QED
  BY <1>1, <1>2, <1>3, <1>4, <1>5, <1>6, <1>7 DEF Task, Receiving, Replying

\* RECV is set by an arrival and goes with what is in the ring.
LEMMA RecvStays ==
  ASSUME TypeOK, HeldInv, RecvInv, [Next]_vars PROVE RecvInv'
<1>1. ASSUME NEW kind \in Kinds, Arrive(kind) PROVE RecvInv'
  BY <1>1 DEF Arrive, TypeOK, WordsOK, RecvInv
<1>2. CASE SendDone
  BY <1>2 DEF SendDone, Interrupts, RecvInv
<1>3. CASE Isr
  BY <1>3 DEF Isr, CaptureIsr, StampIsr, CountIsr, chipVars, RecvInv
<1>4. CASE Task \/ ChipRebuilt \/ UNCHANGED vars
  BY <1>4, TaskKeepsRecv DEF RecvInv
<1>5. QED
  BY <1>1, <1>2, <1>3, <1>4 DEF Next

\* Whoever comes after another has not come alone.
LEMMA OrderStays ==
  ASSUME TypeOK, HeldInv, OrderInv, [Next]_vars PROVE OrderInv'
<1>r. ring \in Seq(Datagrams)
  BY DEF TypeOK, WordsOK
<1>1. ASSUME NEW kind \in Kinds, Arrive(kind) PROVE OrderInv'
  <2> SUFFICES ASSUME NEW i \in DOMAIN ring', i # 1 PROVE ~ring'[i].alone
    BY DEF OrderInv
  <2>1. CASE i \in DOMAIN ring
    BY <1>r, <1>1, <2>1 DEF Arrive, OrderInv
  <2>2. CASE i \notin DOMAIN ring
    <3>1. i = Len(ring) + 1 /\ ring # <<>>
      BY <1>r, <1>1, <2>2 DEF Arrive
    <3>2. ring'[i] = [kind |-> kind, edge |-> Under,
                      alone |-> pc = "wait" /\ ring = <<>> /\ ~overran]
      BY <1>r, <1>1, <3>1 DEF Arrive
    <3>3. ring'[i].alone = (pc = "wait" /\ ring = <<>> /\ ~overran)
      BY <3>2
    <3>4. QED
      BY <3>1, <3>3
  <2>3. QED
    BY <2>1, <2>2
<1>2. CASE SendDone \/ Isr
  BY <1>2 DEF SendDone, Isr, CaptureIsr, StampIsr, CountIsr, chipVars, OrderInv
<1>3. CASE Task \/ ChipRebuilt \/ UNCHANGED vars
  BY <1>3, RingShrinks DEF OrderInv
<1>4. QED
  BY <1>1, <1>2, <1>3 DEF Next

\* The one that has, keeps its edge the last, and its capture unread, until its
\* turn.
LEMMA AloneStays ==
  ASSUME IsrPrompt, TypeOK, SendInv, HeldInv, EdgeInv, RingInv, [Next]_vars
  PROVE  AloneInv'
<1>r. ring \in Seq(Datagrams) /\ now \in Nat /\ capPend \in Nat /\ fell \in Nat
  BY DEF TypeOK, WordsOK
<1> USE DEF AloneInv
<1>1. ASSUME NEW kind \in Kinds, Arrive(kind) PROVE AloneInv'
  <2>1. CASE ring = <<>>
    <3>1. ring' = <<[kind |-> kind, edge |-> Under,
                     alone |-> pc = "wait" /\ ring = <<>> /\ ~overran]>>
      BY <1>1, <2>1 DEF Arrive
    <3>2. ring'[1].edge = Under /\ ring'[1].alone = (pc = "wait" /\ ring = <<>> /\ ~overran)
      BY <3>1
    <3>3. SUFFICES ASSUME ring'[1].alone PROVE AloneInv'
      OBVIOUS
    <3>4. pc = "wait" /\ ~overran /\ pc' = "wait"
      BY <1>1, <3>2, <3>3 DEF Arrive
    <3>5. ~Low(recv, sendok, sendokIrq)
      BY <2>1, <3>4 DEF RingInv, RecvInv, SendInv, Waiting, Low
    <3>6. fell' = now' /\ capPend' = now' /\ recv' /\ now' = now + 1 /\ Under = now'
      BY <1>1, <3>5 DEF Arrive, Interrupts, Low, Under
    <3>7. QED
      BY <1>r, <3>2, <3>4, <3>6
  <2>2. CASE ring # <<>>
    <3>1. ring' # <<>> /\ ring'[1] = ring[1]
      BY <1>r, <1>1, <2>2 DEF Arrive
    <3>2. UNCHANGED <<pc, rxCap, capNew>>
      BY <1>1 DEF Arrive, handVars, capVars
    <3>3. recv' /\ (recv => fell' = fell /\ capPend' = capPend)
      BY <1>1 DEF Arrive, Interrupts, Low, edgeVars
    <3>4. QED
      BY <2>2, <3>1, <3>2, <3>3 DEF RingInv
  <2>3. QED
    BY <2>1, <2>2
<1>2. CASE SendDone
  <2>1. UNCHANGED <<pc, rxCap, ring, recv, capNew>>
    BY <1>2 DEF SendDone, Interrupts, capVars
  <2>2. recv => fell' = fell /\ capPend' = capPend
    BY <1>2 DEF SendDone, Interrupts, Low, edgeVars
  <2>3. QED
    BY <2>1, <2>2 DEF RingInv
<1>3. CASE Isr
  <2>1. UNCHANGED <<pc, rxCap, ring, recv, fell>>
    BY <1>3 DEF Isr, CaptureIsr, StampIsr, CountIsr, chipVars, edgeVars, handVars
  <2>2. \/ UNCHANGED <<capPend, capNew>>
        \/ capPend' = 0 /\ capNew'
    BY <1>3 DEF Isr, CaptureIsr, StampIsr, CountIsr, edgeVars, capVars
  <2>3. QED
    BY <2>1, <2>2 DEF RingInv
<1>4. CASE Task \/ ChipRebuilt \/ UNCHANGED vars
  <2>1. UNCHANGED <<fell, capPend>>
    BY <1>4, TaskMakesNoEdge
  <2>2. CASE Notified \/ Sweep \/ Probe \/ ReadStamp \/ ReadCount \/ UNCHANGED vars
    <3>1. UNCHANGED <<ring, recv, capNew, rxCap>>
      BY <2>2 DEF Notified, Sweep, Probe, ReadStamp, ReadCount, outerVars, chipVars, capVars,
                  handVars, vars
    <3>2. \/ pc \in {"wait", "probe"} /\ pc' \in {"wait", "probe"}
          \/ pc = "probe" /\ pc' = "capture" /\ capPend = 0
          \/ pc \in {"stamp", "count"} /\ pc' \in {"count", "recv"}
          \/ pc' = pc
      BY <2>2 DEF Notified, Sweep, Probe, Transferred, ReadStamp, ReadCount, vars
    <3>3. QED
      BY <2>1, <3>1, <3>2 DEF RingInv
  <2>3. CASE ReadCapture
    <3>1. pc = "capture" /\ pc' = "stamp" /\ ring' = ring /\ (capNew => rxCap' = rxCapTick)
      BY <2>3 DEF ReadCapture, chipVars
    <3>2. QED
      BY <3>1 DEF RingInv, EdgeInv
  <2>4. CASE RecvFrom
    <3>1. ring # <<>> /\ ring' = Tail(ring)
      BY <2>4 DEF RecvFrom, HeldInv
    <3>2. ring' # <<>> => 2 \in DOMAIN ring /\ ring'[1] = ring[2]
      BY <1>r, <3>1
    <3>3. QED
      BY <3>2 DEF RingInv, OrderInv
  <2>5. CASE ClearRx \/ Drop \/ Replying
    <3>1. ring' = ring \/ ring' = <<>>
      BY <2>5, TaskTakesFromRing DEF Task, Receiving, RecvFrom, ClearRx, Drop, Replying, Answer,
           Prime, Primed, PrimeFails, Stage, Fire, Reap, ReapFails, Measure, Check, Commit,
           Fallback, FallbackDone, FallbackFails
    <3>2. pc \notin {"wait", "probe", "capture", "stamp", "count", "recv"}
      BY <2>5 DEF ClearRx, Drop, Replying, Answer, Prime, Primed, PrimeFails, Stage, Fire, Reap,
           ReapFails, Measure, Check, Commit, Fallback, FallbackDone, FallbackFails
    <3>3. QED
      BY <3>1, <3>2 DEF RingInv
  <2>6. CASE ChipRebuilt
    BY <2>6 DEF ChipRebuilt, Reopen
  <2>7. QED
    BY <1>4, <2>2, <2>3, <2>4, <2>5, <2>6 DEF Task, Receiving
<1>5. QED
  BY <1>1, <1>2, <1>3, <1>4 DEF Next

\* A datagram that found nothing before it is the head of the ring and holds INTn
\* low until it is taken; when its turn comes the capture is its own.
LEMMA RingInvariant == ASSUME IsrPrompt PROVE Spec => []RingInv
<1>1. Init => RingInv
  BY DEF Init, RingInv, RecvInv, OrderInv, AloneInv
<1>2. TypeOK /\ SendInv /\ HeldInv /\ EdgeInv /\ RingInv /\ [Next]_vars => RingInv'
  BY RecvStays, OrderStays, AloneStays DEF RingInv
<1>3. QED
  BY <1>1, <1>2, Layer1, EdgeInvariant, PTL DEF Spec

\* The chip and the handlers leave the head of the ring and what the task holds
\* alone, and stamps only grow.
LEMMA StampsGrow ==
  ASSUME TypeOK, EdgeInv, (\E kind \in Kinds : Arrive(kind)) \/ SendDone \/ Isr
  PROVE  /\ UNCHANGED <<pc, cur, rxCap, isrStamp, t2>>
         /\ ring # <<>> => ring' # <<>> /\ ring'[1] = ring[1]
         /\ rxCapTick \in Nat /\ rxCapTick' \in Nat /\ rxCapTick <= rxCapTick'
         /\ rxCaptureUs \in Nat /\ rxCaptureUs' \in Nat /\ rxCaptureUs <= rxCaptureUs'
<1>w. WordsOK
  BY DEF TypeOK
<1>1. UNCHANGED <<pc, cur, rxCap, isrStamp, t2>>
  BY DEF Arrive, SendDone, Isr, CaptureIsr, StampIsr, CountIsr, handVars
<1>2. ring # <<>> => ring' # <<>> /\ ring'[1] = ring[1]
  <2>1. ASSUME NEW kind \in Kinds, Arrive(kind), ring # <<>>
        PROVE  ring' # <<>> /\ ring'[1] = ring[1]
    BY <1>w, <2>1 DEF Arrive, WordsOK
  <2>2. SendDone \/ Isr => ring' = ring
    BY DEF SendDone, Isr, CaptureIsr, StampIsr, CountIsr, chipVars
  <2>3. QED
    BY <2>1, <2>2
<1>3. rxCapTick' = rxCapTick \/ (rxCapTick' = capPend /\ capPend # 0)
  BY DEF Arrive, SendDone, Isr, CaptureIsr, StampIsr, CountIsr, capVars
<1>4. rxCaptureUs' \in {rxCaptureUs, now}
  BY DEF Arrive, SendDone, Isr, CaptureIsr, StampIsr, CountIsr, isrVars
<1>5. QED
  BY <1>w, <1>1, <1>2, <1>3, <1>4 DEF WordsOK, EdgeInv

\* What the task reads for a datagram, the edge's handlers have written.
LEMMA StampStays ==
  ASSUME IsrPrompt, TypeOK, HeldInv, EdgeInv, RingInv, StampInv, [Next]_vars
  PROVE  StampInv'
<1>w. WordsOK
  BY DEF TypeOK
<1>h. ring # <<>> => ring[1].edge \in Nat /\ ring[1].edge <= fell /\ 1 \in DOMAIN ring
  BY <1>w, RingTypes DEF EdgeInv, WordsOK
<1>1. CASE (\E kind \in Kinds : Arrive(kind)) \/ SendDone \/ Isr
  <2>1. /\ UNCHANGED <<pc, cur, rxCap, isrStamp, t2>>
        /\ ring # <<>> => ring'[1] = ring[1]
        /\ rxCapTick \in Nat /\ rxCapTick' \in Nat /\ rxCapTick <= rxCapTick'
        /\ rxCaptureUs \in Nat /\ rxCaptureUs' \in Nat /\ rxCaptureUs <= rxCaptureUs'
    BY <1>1, StampsGrow
  <2>2. QED
    BY <1>h, <2>1 DEF StampInv, HeldInv
<1>2. CASE UNCHANGED vars
  BY <1>2 DEF vars, outerVars, chipVars, capVars, isrVars, handVars, StampInv
<1>3. CASE Probe
  <2>1. UNCHANGED <<ring, rxCapTick, rxCaptureUs>>
    BY <1>3 DEF Probe, outerVars, chipVars, capVars, isrVars
  <2>2. capPend = 0 /\ ~gpioPend
    BY <1>3 DEF Probe, Transferred
  <2>3. rxCapTick = fell /\ rxCaptureUs >= fell
    BY <2>2 DEF EdgeInv
  <2>4. (pc' = "capture" /\ ring # <<>>) \/ pc' = "wait"
    BY <1>w, <1>3, ReadableHolds DEF Probe, WordsOK
  <2>5. QED
    BY <1>w, <1>h, <2>1, <2>3, <2>4 DEF StampInv, WordsOK
<1>4. CASE ReadCapture
  <2>1. rxCap' \in {rxCapTick, 0} /\ UNCHANGED <<ring, rxCaptureUs>>
    BY <1>4 DEF ReadCapture, chipVars, isrVars
  <2>2. pc = "capture" /\ pc' = "stamp"
    BY <1>4 DEF ReadCapture
  <2>3. QED
    BY <2>1, <2>2 DEF StampInv
<1>5. CASE ReadStamp
  BY <1>5 DEF ReadStamp, outerVars, chipVars, StampInv
<1>6. CASE ReadCount
  <2>1. t2' \in {isrStamp, now} /\ UNCHANGED <<ring, rxCap>>
    BY <1>6 DEF ReadCount, chipVars
  <2>2. pc = "count" /\ pc' = "recv"
    BY <1>6 DEF ReadCount
  <2>3. now >= ring[1].edge
    BY <1>w, <1>h, <2>2 DEF HeldInv, EdgeInv, WordsOK
  <2>4. QED
    BY <2>1, <2>2, <2>3 DEF StampInv
<1>7. CASE RecvFrom
  <2>1. pc = "recv" /\ pc' = "clear" /\ UNCHANGED <<rxCap, t2>> /\ ring # <<>>
    BY <1>7 DEF RecvFrom, HeldInv
  <2>2. cur' = ring[1]
    BY <1>w, <1>7, <2>1 DEF RecvFrom, WordsOK
  <2>3. ring[1].alone => rxCap = ring[1].edge
    BY <2>1 DEF RingInv, AloneInv
  <2>4. QED
    BY <2>1, <2>2, <2>3 DEF StampInv
<1>8. CASE ClearRx \/ Primed
  <2>1. \/ pc \in {"clear", "primed"} /\ pc' \in {"judge", "stage"} /\ UNCHANGED <<cur, rxCap, t2>>
           /\ (pc = "clear" <=> pc' = "judge")
        \/ pc' = "wait"
    BY <1>8 DEF ClearRx, Primed, Return, handVars
  <2>2. QED
    BY <2>1 DEF StampInv
<1>9. CASE Answer
  <2>1. t2' \in {t2} \/ (t2' = rxCap /\ rxCap # 0)
    BY <1>9 DEF Answer
  <2>2. pc = "judge" /\ pc' \in {"prime", "stage"} /\ UNCHANGED <<cur, rxCap>>
    BY <1>9 DEF Answer
  <2>3. QED
    BY <2>1, <2>2 DEF StampInv
<1>10. CASE Prime
  <2>1. \/ pc = "prime" /\ pc' = "primed" /\ UNCHANGED <<cur, rxCap, t2>>
        \/ pc' \in {"refreshed", "wait"}
    BY <1>10 DEF Prime, Return, handVars
  <2>2. QED
    BY <2>1 DEF StampInv
<1>11. CASE \/ Notified \/ Sweep \/ Drop \/ PrimeFails \/ Stage \/ Fire \/ Reap \/ ReapFails
            \/ Measure \/ Check \/ Commit \/ Fallback \/ FallbackDone \/ FallbackFails
            \/ ChipRebuilt
  <2>1. pc' \in {"wait", "probe", "fire", "reap", "measure", "check", "commit", "refresh",
                 "fallback", "sent"}
    BY <1>11 DEF Notified, Sweep, Drop, PrimeFails, Stage, Fire, Reap, ReapFails, Measure, Check,
                 Commit, Fallback, FallbackDone, FallbackFails, ChipRebuilt, Return
  <2>2. QED
    BY <2>1 DEF StampInv
<1>12. QED
  BY <1>1, <1>2, <1>3, <1>4, <1>5, <1>6, <1>7, <1>8, <1>9, <1>10, <1>11
     DEF Next, Task, Receiving, Replying

\* From the reading of the capture to the reply, each stamp is of the datagram's
\* own edge or of a later instant.
LEMMA StampInvariant == ASSUME IsrPrompt PROVE Spec => []StampInv
<1>1. Init => StampInv
  BY DEF Init, StampInv
<1>2. TypeOK /\ HeldInv /\ EdgeInv /\ RingInv /\ StampInv /\ [Next]_vars => StampInv'
  BY StampStays
<1>3. QED
  BY <1>1, <1>2, Layer1, EdgeInvariant, RingInvariant, PTL DEF Spec

\* A reply's receive timestamp is not older than the edge its datagram came under,
\* and the capture of a datagram that found the ring empty is that datagram's
\* own: for any number of datagrams queued or dropped before it.
THEOREM StampIsOwn == ASSUME IsrPrompt PROVE Spec => []StampBelongs
<1>1. StampInv => StampBelongs
  BY DEF StampInv, StampBelongs
<1>2. QED
  BY <1>1, StampInvariant, PTL

-----------------------------------------------------------------------------
(* Turnarounds.                                                            *)

\* What the arrival of a datagram or the end of a send does to a turnaround.
LEMMA ChipKeepsTurn ==
  ASSUME TypeOK, SendInv, TurnInv, (\E kind \in Kinds : Arrive(kind)) \/ SendDone
  PROVE  TurnInv'
<1>w. WordsOK
  BY DEF TypeOK
<1>1. ASSUME NEW kind \in Kinds, Arrive(kind) PROVE TurnInv'
  <2>1. UNCHANGED <<pc, caps, turn, okAt, overran>> /\ ring' # <<>>
    BY <1>w, <1>1 DEF Arrive, capVars, handVars, WordsOK
  <2>2. QED
    BY <2>1 DEF TurnInv, PlaceInv, ReplyEdgeInv, CommitInv
<1>2. CASE SendDone
  <2>1. UNCHANGED <<pc, caps, turn, ring, recv, overran, rxCapTick>>
    BY <1>2 DEF SendDone, Interrupts, capVars
  <2>2. PlaceInv'
    BY <2>1 DEF TurnInv, PlaceInv
  <2>3. ~overran => pc \in Waiting /\ sending = 1 /\ ~sendok /\ sending' = 0
    BY <1>w, <1>2 DEF SendDone, SendInv, WordsOK
  <2>4. CommitInv'
    BY <2>1, <2>3 DEF Waiting, CommitInv
  <2>5. CASE pc = "reap" /\ ~overran /\ ring = <<>>
    <3>1. capPend = 0 /\ caps = 0
      BY <2>3, <2>5 DEF TurnInv, ReplyEdgeInv
    <3>2. okAt' = now'
      BY <1>2, <2>5 DEF SendDone
    <3>3. capPend' = now' \/ capPend' = capPend
      BY <1>2 DEF SendDone, Interrupts, edgeVars
    <3>4. QED
      BY <2>1, <2>2, <2>3, <2>4, <2>5, <3>1, <3>2, <3>3 DEF TurnInv, ReplyEdgeInv
  <2>6. CASE ~(pc = "reap" /\ ~overran /\ ring = <<>>)
    BY <2>1, <2>2, <2>3, <2>4, <2>6 DEF TurnInv, ReplyEdgeInv, Waiting
  <2>7. QED
    BY <2>5, <2>6
<1>3. QED
  BY <1>1, <1>2

\* What a handler does to it.
LEMMA IsrKeepsTurn ==
  ASSUME TypeOK, TurnInv, Isr PROVE TurnInv'
<1>w. caps \in 0..2 /\ capPend \in Nat
  BY DEF TypeOK, WordsOK
<1>1. UNCHANGED <<pc, turn, okAt, ring, recv, overran, sending>>
  BY DEF Isr, CaptureIsr, StampIsr, CountIsr, chipVars, handVars
<1>2. CASE StampIsr \/ CountIsr
  <2>1. UNCHANGED <<capPend, rxCapTick, caps>>
    BY <1>2 DEF StampIsr, CountIsr, edgeVars, capVars
  <2>2. QED
    BY <1>1, <2>1 DEF TurnInv, PlaceInv, ReplyEdgeInv, CommitInv
<1>3. CASE CaptureIsr
  <2>1. capPend # 0 /\ capPend' = 0 /\ rxCapTick' = capPend
    BY <1>3 DEF CaptureIsr
  <2>2. pc \notin {"fire", "reap", "measure"} => caps' = caps
    BY <1>3 DEF CaptureIsr
  <2>3. pc \in {"fire", "reap", "measure"} /\ caps = 0 => caps' = 1
    BY <1>3 DEF CaptureIsr
  <2>4. PlaceInv' /\ CommitInv'
    BY <1>1, <2>2 DEF TurnInv, PlaceInv, CommitInv
  <2>5. ReplyEdgeInv'
    BY <1>1, <2>1, <2>2, <2>3 DEF TurnInv, ReplyEdgeInv
  <2>6. QED
    BY <2>4, <2>5 DEF TurnInv
<1>4. QED
  BY <1>2, <1>3 DEF Isr

\* What the task does to it: it clears what it has taken, sends with no edge
\* unread, and measures the one capture that came of the send.
LEMMA TaskKeepsTurn ==
  ASSUME IsrPrompt, TypeOK, TurnInv, Task \/ ChipRebuilt \/ UNCHANGED vars
  PROVE  TurnInv'
<1>w. WordsOK
  BY DEF TypeOK
<1>n. UNCHANGED <<capPend, rxCapTick>>
  BY TaskMakesNoEdge
<1> USE DEF TurnInv, PlaceInv, ReplyEdgeInv, CommitInv, Handling
<1>1. CASE UNCHANGED vars
  <2>1. UNCHANGED <<pc, turn, okAt, ring, recv, overran, sending, caps>>
    BY <1>1 DEF vars, outerVars, chipVars, capVars, handVars
  <2>2. QED
    BY <1>n, <2>1
<1>2. CASE Notified \/ Sweep \/ Probe \/ ReadCapture \/ ReadStamp \/ ReadCount \/ RecvFrom
  <2>1. UNCHANGED <<turn, caps>>
    BY <1>2 DEF Notified, Sweep, Probe, ReadCapture, ReadStamp, ReadCount, RecvFrom, outerVars,
                capVars, handVars
  <2>2. /\ pc \in {"wait", "probe", "capture", "stamp", "count", "recv"}
        /\ pc' \in {"wait", "probe", "capture", "stamp", "count", "recv", "clear"}
    BY <1>2 DEF Notified, Sweep, Probe, ReadCapture, ReadStamp, ReadCount, RecvFrom
  <2>3. QED
    BY <2>1, <2>2
<1>3. CASE ClearRx
  <2>1. UNCHANGED <<turn, caps>> /\ ~recv' /\ pc = "clear" /\ pc' = "judge"
    BY <1>3 DEF ClearRx, Interrupts, capVars, handVars
  <2>2. QED
    BY <2>1
<1>4. ASSUME Return, caps' = caps, pc \notin {"fire", "reap", "measure"} PROVE TurnInv'
  BY <1>4 DEF Return
<1>5. CASE Drop \/ PrimeFails \/ FallbackFails
  BY <1>4, <1>5 DEF Drop, PrimeFails, FallbackFails, Reopen, outerVars, capVars
<1>6. CASE ChipRebuilt
  <2>1. pc = "wait" /\ UNCHANGED <<pc, turn, caps>>
    BY <1>6 DEF ChipRebuilt, Reopen, capVars, handVars
  <2>2. QED
    BY <2>1
<1>7. CASE Answer
  <2>1. UNCHANGED <<turn, caps, ring, recv>> /\ pc = "judge" /\ pc' \in {"prime", "stage"}
    BY <1>7 DEF Answer, outerVars, chipVars, capVars
  <2>2. QED
    BY <2>1
<1>8. CASE Prime \/ Primed
  <2>1. UNCHANGED <<caps, ring, recv>> /\ pc \in {"prime", "refresh", "primed", "refreshed"}
    BY <1>8 DEF Prime, Primed, Interrupts, capVars
  <2>2. \/ Return
        \/ turn' = turn /\ pc = "prime" /\ pc' = "primed"
        \/ turn' = turn /\ pc = "primed" /\ pc' = "stage"
        \/ turn' = turn /\ pc = "refresh" /\ pc' = "refreshed"
    BY <1>8 DEF Prime, Primed, handVars
  <2>3. QED
    BY <1>4, <2>1, <2>2
<1>9. CASE Stage
  <2>1. UNCHANGED <<turn, caps, ring, recv>> /\ pc = "stage" /\ pc' \in {"fire", "fallback"}
    BY <1>9 DEF Stage, outerVars, chipVars, capVars, handVars
  <2>2. capPend = 0
    BY <1>9 DEF Stage, Transferred
  <2>3. QED
    BY <1>n, <2>1, <2>2
<1>10. CASE Fire
  <2>1. UNCHANGED <<turn, caps, ring, recv, overran>> /\ pc = "fire" /\ pc' = "reap"
    BY <1>10 DEF Fire, capVars, handVars
  <2>2. QED
    BY <1>n, <2>1
<1>11. CASE Reap
  <2>1. UNCHANGED <<turn, okAt, caps, ring, recv, overran>> /\ pc = "reap" /\ pc' = "measure"
    BY <1>11 DEF Reap, Interrupts, capVars, handVars
  <2>2. capPend = 0
    BY <1>11 DEF Reap, Transferred
  <2>3. QED
    BY <1>n, <2>1, <2>2
<1>12. CASE ReapFails
  <2>1. turn' = turn /\ caps' = 0 /\ pc = "reap" /\ pc' = "fallback"
    BY <1>12 DEF ReapFails, handVars
  <2>2. QED
    BY <2>1
<1>13. CASE Measure
  <2>1. UNCHANGED <<okAt, ring, recv, overran>> /\ caps' = 0 /\ pc = "measure" /\ pc' = "check"
    BY <1>13 DEF Measure, chipVars
  <2>2. turn' = 0 \/ (caps = 1 /\ turn' = rxCapTick)
    BY <1>13 DEF Measure
  <2>3. QED
    BY <2>1, <2>2
<1>14. CASE Check
  <2>1. UNCHANGED <<okAt, ring, overran, caps>> /\ pc = "check" /\ pc' = "commit"
    BY <1>14 DEF Check, outerVars, chipVars, capVars
  <2>2. turn' = 0 \/ (ring = <<>> /\ turn' = turn)
    BY <1>14 DEF Check
  <2>3. QED
    BY <2>1, <2>2
<1>15. CASE Commit
  <2>1. caps' = caps /\ pc = "commit" /\ (Return \/ (pc' = "refresh" /\ turn' = turn))
    BY <1>15 DEF Commit, outerVars, capVars, handVars
  <2>2. QED
    BY <1>4, <2>1
<1>16. CASE Fallback \/ FallbackDone
  <2>1. UNCHANGED <<turn, caps>> /\ pc \in {"fallback", "sent"} /\ pc' \in {"sent", "commit"}
    BY <1>16 DEF Fallback, FallbackDone, capVars, handVars
  <2>2. QED
    BY <2>1
<1>17. QED
  BY <1>1, <1>2, <1>3, <1>5, <1>6, <1>7, <1>8, <1>9, <1>10, <1>11, <1>12, <1>13, <1>14, <1>15,
     <1>16 DEF Task, Receiving, Replying

\* Between a reply's staging and its reaping an edge with nothing in the ring is
\* its own SENDOK's.
LEMMA TurnInvariant == ASSUME IsrPrompt PROVE Spec => []TurnInv
<1>1. Init => TurnInv
  BY DEF Init, TurnInv, PlaceInv, ReplyEdgeInv, CommitInv, Handling
<1>2. TypeOK /\ SendInv /\ TurnInv /\ [Next]_vars => TurnInv'
  BY ChipKeepsTurn, IsrKeepsTurn, TaskKeepsTurn DEF Next
<1>3. QED
  BY <1>1, <1>2, Layer1, PTL DEF Spec

\* A turnaround that is accepted ends at the completion of the reply it was
\* measured for, whatever shared INTn with it, until a send outlasts its wait.
THEOREM TurnaroundIsOwn == ASSUME IsrPrompt PROVE Spec => []TurnaroundEndsHere
<1>1. SendInv /\ TurnInv => TurnaroundEndsHere
  BY DEF SendInv, Waiting, TurnInv, CommitInv, TurnaroundEndsHere
<1>2. QED
  BY <1>1, Layer1, TurnInvariant, PTL

\* All of it, as one inductive invariant.
THEOREM Inductive == ASSUME IsrPrompt PROVE Spec => []IInv
<1>1. TypeOK /\ SendInv /\ HeldInv /\ EdgeInv /\ RingInv /\ StampInv /\ TurnInv => IInv
  BY DEF IInv
<1>2. QED
  BY <1>1, Layer1, EdgeInvariant, RingInvariant, StampInvariant, TurnInvariant, PTL
=============================================================================
