------------------------------ MODULE NtpReply ------------------------------
(***************************************************************************)
(* NtpServer::loop on the W5500 path (components/ntp_server/ntp_server.cpp) *)
(* from a datagram that passed the length and mode tests to the reply: the *)
(* per-client buckets with their rate budget and interleaved state, the    *)
(* cached ARP resolution, the late-stamped send, its fallback, and the     *)
(* reopening of the socket (components/w5k/w5k_udp_wrapper.c).             *)
(*                                                                         *)
(* One task runs the handler, so a request is handled to its end before    *)
(* the next; time, the lock and the chip move on between its steps.  The   *)
(* network may lose, repeat and delay what clients send: a request may     *)
(* carry any timestamp its client was ever given.                          *)
(*                                                                         *)
(* The chip is external and behaves as the code's comments say: it         *)
(* resolves and remembers one destination per socket, a send completes     *)
(* and frees the transmit ring only when its destination is resolved, and  *)
(* a send takes all that the ring holds.                                   *)
(***************************************************************************)
EXTENDS Naturals, Sequences, FiniteSets

CONSTANTS
  Clients,       \* addresses that send requests
  Buckets,       \* the rate and interleaved table's slots (64)
  Hash,          \* the slot of each client
  NoClient,      \* no destination
  Unreachable,   \* clients that never answer ARP
  S,             \* time units per second
  BucketBudget,  \* requests per bucket and second (20)
  WindowBudget,  \* requests per second in all (200)
  PrimeRefresh, PrimeTtl,   \* ages of the cached resolution, in units
  RingMax,       \* frames the transmit ring holds
  SlowLan,       \* may a send or a prime outlast the wait for its completion?
  AlwaysLocked,  \* is the clock locked throughout?
  MayReset,      \* may the chip be reset and the socket reopened by the link?
  MaxTime        \* bound on time

ASSUME HashAssumption == Hash \in [Clients -> Buckets] /\ NoClient \notin Clients
ASSUME TimeAssumption == S \in Nat /\ S >= 2 /\ MaxTime \in Nat
ASSUME BudgetAssumption == {BucketBudget, WindowBudget, RingMax} \subseteq Nat \ {0}
ASSUME SwitchAssumption ==
  Unreachable \subseteq Clients /\ {SlowLan, AlwaysLocked, MayReset} \subseteq BOOLEAN

VARIABLES
  now, locked,
  pc,                       \* the handler's place
  from, t2, origin,         \* the request in hand
  arrived,                  \* when it came
  interleaved, overBudget, primeAfter,
  bucketSec, bucketCount, bucketWarm,
  bucketIlRx, bucketIlTx, bucketIlValid,
  windowSec, windowCount,
  primedIp, primedUs,       \* the ARP resolution the code believes in
  chipDst,                  \* the one the chip has
  ring,                     \* pieces in the transmit ring
  left,                     \* when this reply's frame left first, 0 before
  txEnd,                    \* when the send was seen to end
  reply,                    \* the last reply served
  exchanges                 \* history: every exchange with its times

timeVars    == <<now, locked>>
requestVars == <<from, t2, origin, arrived, interleaved, overBudget, primeAfter>>
rateVars    == <<bucketSec, bucketCount, windowSec, windowCount>>
chainVars   == <<bucketWarm, bucketIlRx, bucketIlTx, bucketIlValid>>
arpVars     == <<primedIp, primedUs, chipDst>>
txVars      == <<ring, left, txEnd>>
logVars     == <<reply, exchanges>>
vars == <<timeVars, pc, requestVars, rateVars, chainVars, arpVars, txVars, logVars>>

NoSecond == MaxTime + 1      \* 0xFFFFFFFF: a second that does not occur

\* A timestamp: exact when locked, whole seconds with no fraction otherwise.
Stamp(t) == IF locked THEN t ELSE t - (t % S)

Slot == Hash[from]

NoReply == [to |-> NoClient, kod |-> FALSE, il |-> FALSE, origin |-> 0, rx |-> 0, tx |-> 0]

Init ==
  /\ now = S /\ locked \in (IF AlwaysLocked THEN {TRUE} ELSE BOOLEAN)
  /\ pc = "idle"
  /\ from = NoClient /\ t2 = 0 /\ origin = 0 /\ arrived = 0
  /\ interleaved = FALSE /\ overBudget = FALSE /\ primeAfter = FALSE
  /\ bucketSec = [k \in Buckets |-> NoSecond] /\ bucketCount = [k \in Buckets |-> 0]
  /\ bucketWarm = [k \in Buckets |-> FALSE]
  /\ bucketIlRx = [k \in Buckets |-> 0] /\ bucketIlTx = [k \in Buckets |-> 0]
  /\ bucketIlValid = [k \in Buckets |-> FALSE]
  /\ windowSec = 0 /\ windowCount = 0
  /\ primedIp = NoClient /\ primedUs = 0 /\ chipDst = NoClient
  /\ ring = <<>> /\ left = 0 /\ txEnd = 0
  /\ reply = NoReply /\ exchanges = {}

-----------------------------------------------------------------------------
Tick ==
  /\ now < MaxTime /\ now' = now + 1
  /\ UNCHANGED <<locked, pc, requestVars, rateVars, chainVars, arpVars, txVars, logVars>>

\* The receiver's lock comes and goes.
LockChange ==
  /\ ~AlwaysLocked /\ pc = "idle"
  /\ locked' = ~locked
  /\ UNCHANGED <<now, pc, requestVars, rateVars, chainVars, arpVars, txVars, logVars>>

\* The link rebuilt the chip's registers and its callback reopened the socket.
ChipReset ==
  /\ MayReset /\ pc = "idle" /\ (ring # <<>> \/ chipDst # NoClient)
  /\ ring' = <<>> /\ chipDst' = NoClient
  /\ UNCHANGED <<timeVars, pc, requestVars, rateVars, chainVars, primedIp, primedUs,
                 left, txEnd, logVars>>

-----------------------------------------------------------------------------
(* The handler up to the send.                                             *)

\* arpPrimeAction: never resolved or expired, ageing, or fresh.
PrimeAction(c) ==
  IF primedIp # c \/ primedUs = 0 \/ now - primedUs >= PrimeTtl THEN "now"
  ELSE IF now - primedUs >= PrimeRefresh THEN "after" ELSE "none"

ChainedAny(k, o) == bucketIlValid[k] /\ o # 0

\* The request's origin is the receive timestamp of the slot's last exchange.
Chained(k, o) == bucketIlValid[k] /\ o # 0 /\ o = bucketIlRx[k]

\* Where the handler goes: over budget, only a warm bucket gets its KoD.
Route(c, over) ==
  IF over THEN IF bucketWarm[Hash[c]] THEN "stage" ELSE "idle"
  ELSE IF PrimeAction(c) = "now" THEN "prime" ELSE "stage"

\* Rate buckets and the window start over with the second of t2.  A request
\* whose receive and transmit timestamps are equal is not an interleaved one.
Receive(c, o) ==
  LET k     == Hash[c]
      stamp == Stamp(now)
      sec   == stamp \div S
      count == IF bucketSec[k] # sec THEN 1 ELSE bucketCount[k] + 1
      all   == IF windowSec # sec THEN 1 ELSE windowCount + 1
      over  == count > BucketBudget \/ all > WindowBudget
  IN  /\ pc = "idle" /\ now > arrived
      /\ from' = c /\ t2' = stamp /\ origin' = o /\ arrived' = now
      /\ bucketSec' = [bucketSec EXCEPT ![k] = sec]
      /\ bucketCount' = [bucketCount EXCEPT ![k] = count]
      /\ windowSec' = sec /\ windowCount' = all
      /\ overBudget' = over
      /\ interleaved' \in {FALSE, ~over /\ Chained(k, o)}
      /\ primeAfter' = (~over /\ PrimeAction(c) = "after")
      /\ pc' = Route(c, over)
      /\ left' = 0
      /\ UNCHANGED <<timeVars, chainVars, arpVars, ring, txEnd, logVars>>

\* w5k_arp_prime sends one byte to the peer.  Resolved, the byte leaves, in one
\* datagram with whatever the ring held; unresolved, it stays in the ring.  Without room for
\* it nothing is sent.
ArpPrime(ok) ==
  IF ok
  THEN /\ from \notin Unreachable /\ Len(ring) < RingMax
       /\ chipDst' = from /\ primedIp' = from /\ primedUs' = now
       /\ ring' = <<>>
  ELSE /\ SlowLan \/ from \in Unreachable \/ Len(ring) = RingMax
       /\ chipDst' = NoClient
       /\ ring' = IF Len(ring) < RingMax THEN Append(ring, "dummy") ELSE ring
       /\ UNCHANGED primedIp

PrimeOk ==
  /\ pc = "prime" /\ ArpPrime(TRUE)
  /\ pc' = "stage"
  /\ UNCHANGED <<timeVars, requestVars, rateVars, chainVars, left, txEnd, logVars>>

\* Unresolved: the reply is dropped.
PrimeFails ==
  /\ pc = "prime" /\ ArpPrime(FALSE)
  /\ pc' = "idle"
  /\ UNCHANGED <<timeVars, requestVars, rateVars, chainVars, primedUs, left, txEnd, logVars>>

-----------------------------------------------------------------------------
(* The send.                                                               *)

StageUnchecked ==
  /\ pc = "stage"
  /\ ring' = Append(ring, "frame") /\ pc' = "fire"
  /\ UNCHANGED <<timeVars, requestVars, rateVars, chainVars, arpVars, left, txEnd, logVars>>

\* The frame goes into the ring, unless there is no room.
Stage ==
  /\ pc = "stage"
  /\ IF Len(ring) < RingMax
     THEN ring' = Append(ring, "frame") /\ pc' = "fire"
     ELSE ring' = ring /\ pc' = "fallback"
  /\ UNCHANGED <<timeVars, requestVars, rateVars, chainVars, arpVars, left, txEnd, logVars>>

\* The transmit timestamp: the measured one of the reply before, or now.
T3 == IF interleaved THEN bucketIlTx[Slot] ELSE Stamp(now)

\* The ring leaves the chip as one datagram, for the destination it resolved.
Leaves ==
  /\ from \notin Unreachable /\ chipDst' = from
  /\ ring' = <<>>
  /\ left' = IF left = 0 THEN now ELSE left

\* The send is seen to end.
Ends ==
  /\ txEnd' = now /\ pc' = "commit"
  /\ reply' = [to |-> from, kod |-> overBudget, il |-> interleaved, origin |-> origin,
               rx |-> t2, tx |-> T3]
  /\ UNCHANGED <<timeVars, requestVars, rateVars, chainVars, primedIp, primedUs, exchanges>>

\* Stamp, fire, and SENDOK within 2 ms.
FireOk == pc = "fire" /\ now > arrived /\ Leaves /\ Ends

\* No SENDOK within 2 ms: the cached resolution is distrusted and the fallback
\* sends the whole reply.  A slow send may be leaving all the same.
FireFails ==
  /\ pc = "fire" /\ now > arrived
  /\ SlowLan \/ from \in Unreachable \/ chipDst # from
  /\ primedUs' = 0 /\ pc' = "fallback"
  /\ UNCHANGED <<ring, chipDst, left>> \/ (SlowLan /\ Leaves)
  /\ UNCHANGED <<timeVars, requestVars, rateVars, chainVars, primedIp, txEnd, logVars>>

\* w5500_udp_sendto: the frame once more, and up to 3 s for it to leave.
FallbackOk ==
  /\ pc = "fallback" /\ now > left /\ Len(ring) < RingMax
  /\ Leaves /\ Ends

\* It fails or finds no room: reopening the socket empties the ring.
FallbackFails ==
  /\ pc = "fallback"
  /\ ring' = <<>> /\ chipDst' = NoClient /\ pc' = "idle"
  /\ UNCHANGED <<timeVars, requestVars, rateVars, chainVars, primedIp, primedUs, left, txEnd,
                 logVars>>

\* RFC 9769: never a transmit timestamp equal to the receive timestamp.
Nudged(tx) == IF tx = t2 THEN tx + 1 ELSE tx

\* The peer's interleaved chain advances, unless it was told to back off.
Commit ==
  /\ pc = "commit"
  /\ IF overBudget
     THEN UNCHANGED <<chainVars, exchanges>>
     ELSE /\ bucketWarm' = [bucketWarm EXCEPT ![Slot] = TRUE]
          /\ bucketIlTx' = [bucketIlTx EXCEPT ![Slot] = Nudged(Stamp(txEnd))]
          /\ bucketIlRx' = [bucketIlRx EXCEPT ![Slot] = t2]
          /\ bucketIlValid' = [bucketIlValid EXCEPT ![Slot] = TRUE]
          /\ exchanges' = exchanges \cup
               {[to |-> from, rx |-> t2, tx |-> Nudged(Stamp(left))]}
  /\ pc' = IF primeAfter THEN "after" ELSE "idle"
  /\ UNCHANGED <<timeVars, requestVars, rateVars, arpVars, txVars, reply>>

\* The background refresh of an ageing resolution.
PrimeAfter ==
  /\ pc = "after" /\ pc' = "idle"
  /\ ArpPrime(TRUE) \/ (ArpPrime(FALSE) /\ primedUs' = 0)
  /\ UNCHANGED <<timeVars, requestVars, rateVars, chainVars, left, txEnd, logVars>>

-----------------------------------------------------------------------------
\* Timestamps a client was given, any of which a request of its may carry.
Told(c) == {e.rx : e \in {x \in exchanges : x.to = c}}

Handler ==
  \/ \E c \in Clients : \E o \in Told(c) \cup {0} : Receive(c, o)
  \/ PrimeOk \/ PrimeFails \/ Stage \/ FireOk \/ FireFails
  \/ FallbackOk \/ FallbackFails \/ Commit \/ PrimeAfter

Next == Tick \/ LockChange \/ ChipReset \/ Handler

Spec == Init /\ [][Next]_vars

-----------------------------------------------------------------------------
Pieces == {"dummy", "frame"}
Places == {"idle", "prime", "stage", "fire", "fallback", "commit", "after"}

WordsOK ==
  /\ now \in Nat /\ pc \in Places
  /\ from \in Clients \cup {NoClient} /\ (pc # "idle" => from \in Clients)
  /\ {t2, origin, arrived, windowSec, windowCount, primedUs, left, txEnd} \subseteq Nat
  /\ bucketSec \in [Buckets -> Nat] /\ bucketCount \in [Buckets -> Nat]
  /\ bucketIlRx \in [Buckets -> Nat] /\ bucketIlTx \in [Buckets -> Nat]
  /\ {primedIp, chipDst} \subseteq Clients \cup {NoClient}
  /\ ring \in Seq(Pieces) /\ Len(ring) <= RingMax
  /\ reply.to \in Clients \cup {NoClient} /\ \A e \in exchanges : e.to \in Clients

FlagsOK ==
  /\ {locked, interleaved, overBudget, primeAfter} \subseteq BOOLEAN
  /\ bucketWarm \in [Buckets -> BOOLEAN] /\ bucketIlValid \in [Buckets -> BOOLEAN]

TypeOK == WordsOK /\ FlagsOK

\* "A hash collision degrades to basic mode instead of ever handing out a
\* timestamp belonging to a different exchange": an interleaved reply reports
\* when the reply that named its origin left, and left for the same client,
\* whatever is lost, repeated or late and whoever shares the bucket, as long as
\* the origin names one exchange (without lock receive timestamps are whole
\* seconds and two exchanges may share one).
InterleavedHonest ==
  LET named == {e \in exchanges : e.rx = reply.origin}
  IN  reply.il /\ Cardinality(named) = 1 =>
        named = {[to |-> reply.to, rx |-> reply.origin, tx |-> reply.tx]}

\* Where a send outlasts its wait the fallback sends the reply again, and the time
\* of the second frame is what is remembered: an interleaved reply may report a
\* later time than the reply it names left first, but never an earlier one.
NeverEarly ==
  LET named == {e \in exchanges : e.rx = reply.origin}
  IN  reply.il /\ Cardinality(named) = 1 =>
        \A e \in named : e.to = reply.to /\ e.tx <= reply.tx
=============================================================================
