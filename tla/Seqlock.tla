------------------------------- MODULE Seqlock -------------------------------
(***************************************************************************)
(* The odd/even sequence-counter handoff between a capture interrupt and a *)
(* task, as pps_capture_callback and handle_pps_deferred use it for the    *)
(* PPS edge (components/gps/gps.cpp).  The RX capture, the RX interrupt    *)
(* stamp and the capture anchor use the same protocol.                     *)
(*                                                                         *)
(* The writer bumps the counter to odd, stores each field, and bumps it to *)
(* even; the reader loads the counter, copies the fields, and loads the    *)
(* counter again.  Fields are stored and copied in any order, because the  *)
(* barriers order them against the counter only.  A field holds the number *)
(* of the publication that stored it.                                      *)
(***************************************************************************)
EXTENDS Naturals

CONSTANTS
  Fields,       \* the words of one snapshot
  MaxTries,     \* attempts of one call before it gives up (8 in the code)
  MaxPublish    \* bound on the number of publications

ASSUME FieldsAssumption == Fields # {}
ASSUME TriesAssumption  == MaxTries \in Nat \ {0}
ASSUME BoundAssumption  == MaxPublish \in Nat

VARIABLES
  seq,          \* the sequence counter (ppsSeq)
  mem,          \* the shared words (ppsCapValue, ppsEdgeUs)
  published,    \* number of the publication in progress or completed last
  toStore,      \* fields the interrupt has still to store
  isr,          \* "idle", or "store" between the interrupt's two bumps
  reader,       \* the reader's place in its loop
  tries,        \* attempts made by this call
  seen,         \* counter value of the last accepted snapshot (ppsSeqSeen)
  s1,           \* counter value loaded at the start of this attempt
  toCopy,       \* fields this attempt has still to copy
  copy,         \* the fields copied
  taken         \* the last accepted snapshot

writerVars == <<seq, mem, published, toStore, isr>>
readerVars == <<reader, tries, seen, s1, toCopy, copy, taken>>
handoffVars == <<writerVars, readerVars>>

Odd(s) == s % 2 = 1

HandoffInit ==
  /\ seq = 0 /\ mem = [f \in Fields |-> 0]
  /\ published = 0 /\ toStore = {} /\ isr = "idle"
  /\ reader = "wait" /\ tries = 0 /\ seen = 0 /\ s1 = 0
  /\ toCopy = {}
  /\ copy = [f \in Fields |-> 0] /\ taken = [f \in Fields |-> 0]

-----------------------------------------------------------------------------
(* The interrupt.                                                          *)

BeginUnmarked ==
  /\ isr = "idle" /\ published < MaxPublish
  /\ published' = published + 1
  /\ toStore' = Fields /\ isr' = "store"
  /\ UNCHANGED <<seq, mem, readerVars>>

\* First bump: the counter turns odd.
BeginPublish ==
  /\ isr = "idle" /\ published < MaxPublish
  /\ seq' = seq + 1
  /\ published' = published + 1
  /\ toStore' = Fields /\ isr' = "store"
  /\ UNCHANGED <<mem, readerVars>>

StoreField(f) ==
  /\ isr = "store" /\ f \in toStore
  /\ mem' = [mem EXCEPT ![f] = published]
  /\ toStore' = toStore \ {f}
  /\ UNCHANGED <<seq, published, isr, readerVars>>

\* Second bump: the counter turns even, the snapshot is public.
EndPublish ==
  /\ isr = "store" /\ toStore = {}
  /\ seq' = seq + 1
  /\ isr' = "idle"
  /\ UNCHANGED <<mem, published, toStore, readerVars>>

-----------------------------------------------------------------------------
(* The task.                                                               *)

WakeTriesKept ==
  /\ reader = "wait"
  /\ reader' = "load"
  /\ UNCHANGED <<writerVars, tries, seen, s1, toCopy, copy, taken>>

\* The call starts, on the notification or on the wait's timeout.
Wake ==
  /\ reader = "wait"
  /\ reader' = "load" /\ tries' = 0
  /\ UNCHANGED <<writerVars, seen, s1, toCopy, copy, taken>>

\* Bounded retries: the call returns and the next one starts over.
GiveUp ==
  /\ reader = "load" /\ tries = MaxTries
  /\ reader' = "wait"
  /\ UNCHANGED <<writerVars, tries, seen, s1, toCopy, copy, taken>>

LoadOddUnbounded ==
  /\ reader = "load" /\ Odd(seq)
  /\ tries' = tries + 1
  /\ UNCHANGED <<writerVars, reader, seen, s1, toCopy, copy, taken>>

\* The interrupt is mid-publish.
LoadOdd ==
  /\ reader = "load" /\ tries < MaxTries /\ Odd(seq)
  /\ tries' = tries + 1
  /\ UNCHANGED <<writerVars, reader, seen, s1, toCopy, copy, taken>>

\* Nothing new: the call returns.
LoadSeen ==
  /\ reader = "load" /\ tries < MaxTries /\ ~Odd(seq) /\ seq = seen
  /\ reader' = "wait" /\ tries' = tries + 1
  /\ UNCHANGED <<writerVars, seen, s1, toCopy, copy, taken>>

LoadFresh ==
  /\ reader = "load" /\ tries < MaxTries /\ ~Odd(seq) /\ seq # seen
  /\ reader' = "copy" /\ tries' = tries + 1
  /\ s1' = seq /\ toCopy' = Fields
  /\ UNCHANGED <<writerVars, seen, copy, taken>>

CopyField(f) ==
  /\ reader = "copy" /\ f \in toCopy
  /\ copy' = [copy EXCEPT ![f] = mem[f]]
  /\ toCopy' = toCopy \ {f}
  /\ UNCHANGED <<writerVars, reader, tries, seen, s1, taken>>

TakeUnchecked ==
  /\ reader = "copy" /\ toCopy = {}
  /\ seen' = s1 /\ taken' = copy /\ reader' = "wait"
  /\ UNCHANGED <<writerVars, tries, s1, toCopy, copy>>

\* The counter did not move: the snapshot is consistent and is consumed.
TakeCopy ==
  /\ reader = "copy" /\ toCopy = {} /\ seq = s1
  /\ seen' = s1 /\ taken' = copy /\ reader' = "wait"
  /\ UNCHANGED <<writerVars, tries, s1, toCopy, copy>>

\* The counter moved under the copy: another attempt.
Retry ==
  /\ reader = "copy" /\ toCopy = {} /\ seq # s1
  /\ reader' = "load"
  /\ UNCHANGED <<writerVars, tries, seen, s1, toCopy, copy, taken>>

-----------------------------------------------------------------------------
Interrupt == BeginPublish \/ (\E f \in Fields : StoreField(f)) \/ EndPublish

Task ==
  \/ Wake \/ GiveUp \/ LoadOdd \/ LoadSeen \/ LoadFresh
  \/ (\E f \in Fields : CopyField(f))
  \/ TakeCopy \/ Retry

HandoffNext == Interrupt \/ Task

HandoffSpec == HandoffInit /\ [][HandoffNext]_handoffVars

\* An interrupt that began runs to its end, and the task is scheduled for
\* ever: it outranks the other tasks of its core and waits 50 ms at most.
\* No fairness makes a pulse arrive.
HandoffFairness ==
  /\ WF_handoffVars(Task)
  /\ WF_handoffVars(EndPublish)
  /\ \A f \in Fields : WF_handoffVars(StoreField(f))

FairHandoff == HandoffSpec /\ HandoffFairness

-----------------------------------------------------------------------------
HandoffTypeOK ==
  /\ seq \in Nat /\ published \in 0..MaxPublish
  /\ mem \in [Fields -> Nat]
  /\ toStore \in SUBSET Fields /\ isr \in {"idle", "store"}
  /\ reader \in {"wait", "load", "copy"} /\ tries \in 0..MaxTries
  /\ seen \in Nat /\ s1 \in Nat
  /\ toCopy \in SUBSET Fields
  /\ copy \in [Fields -> Nat] /\ taken \in [Fields -> Nat]

\* An accepted snapshot is never torn: all its words were stored by the one
\* publication its counter value names, although the interrupt may have run
\* between any two loads of the copy.
NoTornSnapshot == \A f \in Fields : 2 * taken[f] = seen

\* A publication is consumed at most once and never after a newer one: a
\* snapshot that is accepted is newer than the one accepted before it.
NeverGoesBack == [][seen' # seen => seen' > seen]_handoffVars

\* A pulse that was captured is eventually consumed, itself or a newer one,
\* although a call gives up after MaxTries attempts.
EventuallyConsumed ==
  \A n \in 1..MaxPublish : seq = 2 * n ~> seen >= 2 * n

\* The handoff implements the atomic snapshot: a publication takes effect at
\* its second bump, a consumption at the second load of the counter.
Abstract == INSTANCE AtomicSnapshot
  WITH latest    <- IF isr = "store" THEN published - 1 ELSE published,
       delivered <- taken[CHOOSE f \in Fields : TRUE]

AbstractSpec == Abstract!Spec

-----------------------------------------------------------------------------
(* The strengthening that makes NoTornSnapshot inductive.                  *)

\* The counter is odd exactly while the interrupt is between its bumps.
CounterInv ==
  /\ isr = "store" => seq = 2 * published - 1
  /\ isr = "idle" => seq = 2 * published

\* Outside a publication every word is from the last one; inside, the words
\* still to be stored are from the one before.
StoreInv ==
  /\ isr = "idle" => toStore = {}
  /\ isr = "store" => published > 0
  /\ \A f \in toStore : mem[f] = published - 1
  /\ \A f \in Fields \ toStore : mem[f] = published

\* While the counter still has the value loaded first, what was copied is
\* from the publication that value names.
CopyInv ==
  reader = "copy" =>
    /\ ~Odd(s1) /\ s1 <= seq /\ s1 # seen
    /\ seq = s1 => \A f \in Fields \ toCopy : 2 * copy[f] = s1

SeenInv == seen <= seq /\ (reader = "copy" => seen <= s1)

HandoffIInv == HandoffTypeOK /\ CounterInv /\ StoreInv /\ CopyInv /\ SeenInv /\ NoTornSnapshot
=============================================================================
