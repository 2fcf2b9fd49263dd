--------------------------- MODULE NtpReplyProofs ---------------------------
(***************************************************************************)
(* Proofs about the NTP handler, for any clients, buckets and hash, any    *)
(* budgets and ages, and any number of requests.                           *)
(***************************************************************************)
EXTENDS NtpReply, FiniteSetTheorems, TLAPS

-----------------------------------------------------------------------------
(* The inductive invariant.                                                *)

\* The handler has a request in hand whose reply has not left.
Handling == {"prime", "stage", "fire", "fallback"}

\* The history is a finite set of exchanges.
LogInv ==
  /\ exchanges \subseteq [to : Clients, rx : Nat, tx : Nat]
  /\ IsFiniteSet(exchanges)

\* A reply is seen to have left no earlier than it did, and where no send outlasts
\* its wait it leaves once and is seen to at that moment.
SendInv ==
  /\ now > 0 /\ left <= now
  /\ pc = "commit" => left <= txEnd
  /\ ~SlowLan => (pc \in Handling => left = 0) /\ (pc = "commit" => left = txEnd)

\* Time t reports when the reply of exchange e left, or a later moment.
Reports(t, e) == e.tx <= t /\ (~SlowLan => e.tx = t)

\* What a valid bucket holds is of one exchange.
ChainInv ==
  \A k \in Buckets : bucketIlValid[k] =>
    \E e \in exchanges : e.rx = bucketIlRx[k] /\ Reports(bucketIlTx[k], e)

\* A request that is taken for interleaved names the exchange its bucket holds,
\* until its reply has left, and an exchange of its own client.
RequestInv ==
  pc \in Handling /\ interleaved =>
    /\ bucketIlValid[Slot] /\ bucketIlRx[Slot] = origin
    /\ \E e \in exchanges : e.to = from /\ e.rx = origin

\* An interleaved reply: what it names went to its client, and what it reports is
\* of an exchange so named.
ReplyInv ==
  reply.il =>
    /\ \E e \in exchanges : e.to = reply.to /\ e.rx = reply.origin
    /\ \E e \in exchanges : e.rx = reply.origin /\ Reports(reply.tx, e)

IInv == TypeOK /\ LogInv /\ SendInv /\ ChainInv /\ RequestInv /\ ReplyInv

-----------------------------------------------------------------------------
(* Numbers.                                                                *)

\* The constants are numbers.
LEMMA Numbers ==
  /\ S \in Nat /\ S >= 2 /\ MaxTime \in Nat /\ RingMax \in Nat \ {0}
  /\ BucketBudget \in Nat \ {0} /\ WindowBudget \in Nat \ {0}
BY TimeAssumption, BudgetAssumption

\* A multiple of a natural number is not negative.
LEMMA Multiple == ASSUME NEW a \in Nat, NEW b \in Nat PROVE a * b \in Nat
OBVIOUS

\* A timestamp is a number, and so is its second.
LEMMA StampTypes ==
  ASSUME NEW t \in Nat PROVE Stamp(t) \in Nat /\ Stamp(t) \div S \in Nat
<1> USE Numbers
<1>1. ASSUME NEW a \in Nat PROVE a \div S \in Nat
  BY <1>1
<1>2. t = S * (t \div S) + (t % S) /\ (t % S) \in 0..(S - 1)
  OBVIOUS
<1>3. S * (t \div S) \in Nat
  BY <1>1, Multiple
<1>4. t - (t % S) \in Nat
  <2>1. PICK q \in Nat, r \in 0..(S - 1) : t = q + r /\ r = (t % S)
    BY <1>2, <1>3
  <2>2. t - r \in Nat
    BY <2>1
  <2>3. QED
    BY <2>1, <2>2
<1>5. Stamp(t) \in Nat
  BY <1>4 DEF Stamp
<1>6. QED
  BY <1>1, <1>5

\* A transmit timestamp that is moved off the receive timestamp is a number.
LEMMA NudgedTypes ==
  ASSUME NEW t \in Nat PROVE Nudged(Stamp(t)) \in Nat
<1>1. PICK n \in Nat : n = Stamp(t)
  BY StampTypes
<1>2. Nudged(n) \in Nat
  BY DEF Nudged
<1>3. QED
  BY <1>1, <1>2

\* Quotient and remainder by a second.
LEMMA Division ==
  ASSUME NEW t \in Nat
  PROVE  /\ t \div S \in Int /\ (t % S) \in 0..(S - 1)
         /\ t = S * (t \div S) + (t % S) /\ S * (t \div S) \in Int
BY Numbers

\* A product grows with its factor.
LEMMA Scaled ==
  ASSUME NEW a \in Int, NEW b \in Int, NEW c \in Nat, a <= b
  PROVE  c * a <= c * b
OBVIOUS

\* Of two moments the later has no earlier timestamp, moved off the receive
\* timestamp or not.
LEMMA StampMonotone ==
  ASSUME NEW a \in Nat, NEW b \in Nat, a <= b, t2 \in Nat
  PROVE  Nudged(Stamp(a)) <= Nudged(Stamp(b))
<1>1. S * (a \div S) <= S * (b \div S)
  <2>1. a \div S \in Int /\ b \div S \in Int /\ S \in Nat /\ S >= 2
    BY Division, Numbers
  <2>2. CASE a \div S <= b \div S
    BY <2>1, <2>2, Scaled
  <2>3. CASE b \div S <= a \div S - 1
    <3>1. S * (b \div S) <= S * (a \div S - 1)
      BY <2>1, <2>3, Scaled
    <3>2. S * (a \div S - 1) = S * (a \div S) - S
      BY <2>1
    <3>3. b < a
      BY <2>1, <3>1, <3>2, Division
    <3>4. QED
      BY <3>3
  <2>4. QED
    BY <2>1, <2>2, <2>3
<1>2. a - (a % S) = S * (a \div S) /\ b - (b % S) = S * (b \div S)
  BY Division, Numbers
<1>3. PICK m \in Nat, n \in Nat : m = Stamp(a) /\ n = Stamp(b) /\ m <= n
  <2>1. Stamp(a) \in Nat /\ Stamp(b) \in Nat
    BY StampTypes
  <2>2. CASE locked
    BY <2>1, <2>2 DEF Stamp
  <2>3. CASE ~locked
    <3>1. Stamp(a) = S * (a \div S) /\ Stamp(b) = S * (b \div S)
      BY <1>2, <2>3 DEF Stamp
    <3>2. QED
      BY <1>1, <2>1, <3>1
  <2>4. QED
    BY <2>2, <2>3
<1>4. Nudged(m) <= Nudged(n)
  BY <1>3 DEF Nudged
<1>5. QED
  BY <1>3, <1>4

\* The slot of the request in hand is a bucket.
LEMMA SlotTypes == ASSUME WordsOK, pc # "idle" PROVE from \in Clients /\ Slot \in Buckets
BY HashAssumption DEF WordsOK, Slot

-----------------------------------------------------------------------------
(* Types.                                                                  *)

\* What the ring may hold after another piece.
LEMMA RingTypes ==
  ASSUME WordsOK, NEW p \in Pieces, Len(ring) < RingMax
  PROVE  Append(ring, p) \in Seq(Pieces) /\ Len(Append(ring, p)) <= RingMax
<1>1. ring \in Seq(Pieces) /\ Len(ring) \in Nat
  BY DEF WordsOK
<1>2. Append(ring, p) \in Seq(Pieces) /\ Len(Append(ring, p)) = Len(ring) + 1
  BY <1>1
<1>3. QED
  BY <1>1, <1>2, Numbers

\* What a prime leaves: a resolution and a ring of their types.
LEMMA PrimeTypes ==
  ASSUME WordsOK, pc # "idle", NEW ok \in BOOLEAN, ArpPrime(ok)
  PROVE  /\ {primedIp', chipDst'} \subseteq Clients \cup {NoClient}
         /\ ring' \in Seq(Pieces) /\ Len(ring') <= RingMax
         /\ ok => primedUs' = now
<1>1. from \in Clients
  BY SlotTypes
<1>2. <<>> \in Seq(Pieces) /\ Len(<<>>) <= RingMax
  BY Numbers
<1>3. CASE ok
  BY <1>1, <1>2, <1>3 DEF ArpPrime, WordsOK
<1>4. CASE ~ok
  <2>1. "dummy" \in Pieces
    BY DEF Pieces
  <2>2. ring' = ring \/ (Len(ring) < RingMax /\ ring' = Append(ring, "dummy"))
    BY <1>4 DEF ArpPrime
  <2>3. ring' \in Seq(Pieces) /\ Len(ring') <= RingMax
    BY <2>1, <2>2, RingTypes DEF WordsOK
  <2>4. QED
    BY <1>4, <2>3 DEF ArpPrime, WordsOK
<1>5. QED
  BY <1>3, <1>4

\* What the end of a send leaves.
LEMMA SendTypes ==
  ASSUME WordsOK, pc # "idle", Leaves, Ends PROVE WordsOK'
<1>1. from \in Clients
  BY SlotTypes
<1>2. <<>> \in Seq(Pieces) /\ Len(<<>>) <= RingMax
  BY Numbers
<1>3. reply' = [to |-> from, kod |-> overBudget, il |-> interleaved, origin |-> origin,
                rx |-> t2, tx |-> T3]
  BY DEF Ends
<1>4. reply'.to = from
  BY <1>3
<1>5. QED
  BY <1>1, <1>2, <1>4 DEF Leaves, Ends, WordsOK, timeVars, requestVars, rateVars, chainVars, Places

\* What the receipt of a request leaves.
LEMMA ReceiveTypes ==
  ASSUME WordsOK, NEW c \in Clients, NEW o \in Nat, Receive(c, o) PROVE WordsOK'
<1> DEFINE k     == Hash[c]
           stamp == Stamp(now)
           sec   == stamp \div S
           count == IF bucketSec[k] # sec THEN 1 ELSE bucketCount[k] + 1
           all   == IF windowSec # sec THEN 1 ELSE windowCount + 1
<1>1. k \in Buckets
  BY HashAssumption
<1>2. stamp \in Nat /\ sec \in Nat
  BY StampTypes DEF WordsOK
<1>3. count \in Nat /\ all \in Nat
  <2>1. bucketCount[k] \in Nat /\ windowCount \in Nat
    BY <1>1 DEF WordsOK
  <2> HIDE DEF k, sec
  <2>2. QED
    BY <2>1
<1>4. /\ from' = c /\ t2' = stamp /\ origin' = o /\ arrived' = now /\ left' = 0
      /\ bucketSec' = [bucketSec EXCEPT ![k] = sec]
      /\ bucketCount' = [bucketCount EXCEPT ![k] = count]
      /\ windowSec' = sec /\ windowCount' = all
      /\ UNCHANGED <<timeVars, chainVars, arpVars, ring, txEnd, logVars>>
  BY DEF Receive
<1>5. pc' \in Places
  BY DEF Receive, Route, Places
<1> HIDE DEF k, stamp, sec, count, all
<1>6. bucketSec' \in [Buckets -> Nat] /\ bucketCount' \in [Buckets -> Nat]
  BY <1>2, <1>3, <1>4 DEF WordsOK
<1>7. {t2, origin, arrived, windowSec, windowCount, primedUs, left, txEnd}' \subseteq Nat
  BY <1>2, <1>3, <1>4 DEF WordsOK, arpVars
<1>8. QED
  BY <1>4, <1>5, <1>6, <1>7 DEF WordsOK, timeVars, chainVars, arpVars, logVars

\* What the commit of a reply leaves.
LEMMA CommitTypes == ASSUME WordsOK, Commit PROVE WordsOK'
<1>1. from \in Clients /\ Slot \in Buckets
  BY SlotTypes DEF Commit
<1>2. Nudged(Stamp(txEnd)) \in Nat
  BY NudgedTypes DEF WordsOK
<1>3. bucketIlTx' \in [Buckets -> Nat] /\ bucketIlRx' \in [Buckets -> Nat]
  BY <1>1, <1>2 DEF Commit, WordsOK, chainVars
<1>4. \A e \in exchanges' : e.to \in Clients
  <2> DEFINE x == [to |-> from, rx |-> t2, tx |-> Nudged(Stamp(left))]
  <2>1. exchanges' \in {exchanges, exchanges \cup {x}}
    BY DEF Commit
  <2>2. x.to \in Clients
    BY <1>1
  <2> HIDE DEF x
  <2>3. QED
    BY <2>1, <2>2 DEF WordsOK
<1>5. pc' \in Places /\ UNCHANGED <<timeVars, requestVars, rateVars, arpVars, txVars, reply>>
  BY DEF Commit, Places
<1>6. QED
  BY <1>1, <1>3, <1>4, <1>5 DEF WordsOK, timeVars, requestVars, rateVars, arpVars, txVars

\* A client can be told only numbers.
LEMMA ToldTypes ==
  ASSUME LogInv, NEW c \in Clients, NEW o \in Told(c) \cup {0} PROVE o \in Nat
BY DEF LogInv, Told

LEMMA WordsStep == ASSUME WordsOK, LogInv, [Next]_vars PROVE WordsOK'
<1> USE DEF timeVars, requestVars, rateVars, chainVars, arpVars, txVars, logVars
<1>1. CASE Tick \/ LockChange
  BY <1>1 DEF Tick, LockChange, WordsOK
<1>2. CASE ChipReset
  <2>1. <<>> \in Seq(Pieces) /\ Len(<<>>) <= RingMax
    BY Numbers
  <2>2. QED
    BY <1>2, <2>1 DEF ChipReset, WordsOK
<1>3. ASSUME NEW c \in Clients, NEW o \in Told(c) \cup {0}, Receive(c, o) PROVE WordsOK'
  BY <1>3, ReceiveTypes, ToldTypes
<1>4. CASE PrimeOk
  BY <1>4, PrimeTypes, SlotTypes DEF PrimeOk, WordsOK, Places
<1>5. CASE PrimeFails
  BY <1>5, PrimeTypes, SlotTypes DEF PrimeFails, WordsOK, Places
<1>6. CASE Stage
  <2>1. "frame" \in Pieces
    BY DEF Pieces
  <2>2. ring' \in Seq(Pieces) /\ Len(ring') <= RingMax
    BY <1>6, <2>1, RingTypes DEF Stage, WordsOK
  <2>3. QED
    BY <1>6, <2>2, SlotTypes DEF Stage, WordsOK, Places
<1>7. CASE FireOk \/ FallbackOk
  BY <1>7, SendTypes DEF FireOk, FallbackOk
<1>8. CASE FireFails \/ FallbackFails
  <2>1. <<>> \in Seq(Pieces) /\ Len(<<>>) <= RingMax
    BY Numbers
  <2>2. from \in Clients
    BY <1>8, SlotTypes DEF FireFails, FallbackFails
  <2>3. CASE FireFails
    <3>1. \/ UNCHANGED <<ring, chipDst, left>>
          \/ ring' = <<>> /\ chipDst' = from /\ left' \in {left, now}
      BY <2>3 DEF FireFails, Leaves
    <3>2. ring' \in Seq(Pieces) /\ Len(ring') <= RingMax /\ left' \in Nat
      BY <2>1, <3>1 DEF WordsOK
    <3>3. chipDst' \in Clients \cup {NoClient}
      BY <2>2, <3>1 DEF WordsOK
    <3>4. /\ primedUs' = 0 /\ pc' = "fallback"
          /\ UNCHANGED <<timeVars, requestVars, rateVars, chainVars, primedIp, txEnd, logVars>>
      BY <2>3 DEF FireFails
    <3>5. QED
      BY <2>2, <3>2, <3>3, <3>4 DEF WordsOK, Places
  <2>4. CASE FallbackFails
    BY <2>1, <2>2, <2>4 DEF FallbackFails, WordsOK, Places
  <2>5. QED
    BY <1>8, <2>3, <2>4
<1>9. CASE Commit
  BY <1>9, CommitTypes
<1>10. CASE PrimeAfter
  <2>1. PICK ok \in BOOLEAN : ArpPrime(ok) /\ (ok \/ primedUs' = 0)
    BY <1>10 DEF PrimeAfter
  <2>2. primedUs' \in Nat
    BY <2>1, <1>10, PrimeTypes DEF PrimeAfter, WordsOK
  <2>3. QED
    BY <1>10, <2>1, <2>2, PrimeTypes, SlotTypes DEF PrimeAfter, WordsOK, Places
<1>11. CASE UNCHANGED vars
  BY <1>11 DEF vars, WordsOK
<1>12. QED
  BY <1>1, <1>2, <1>3, <1>4, <1>5, <1>6, <1>7, <1>8, <1>9, <1>10, <1>11 DEF Next, Handler

\* What each action leaves of the flags.
LEMMA FlagsStep == ASSUME TypeOK, [Next]_vars PROVE FlagsOK'
<1> USE DEF timeVars, requestVars, rateVars, chainVars, arpVars, txVars, logVars
<1>w. WordsOK /\ FlagsOK
  BY DEF TypeOK
<1>1. CASE Tick \/ LockChange \/ ChipReset \/ UNCHANGED vars
  BY <1>w, <1>1, Zenon DEF Tick, LockChange, ChipReset, FlagsOK, vars
<1>2. ASSUME NEW c \in Clients, NEW o, Receive(c, o) PROVE FlagsOK'
  <2>1. interleaved' \in BOOLEAN /\ overBudget' \in BOOLEAN /\ primeAfter' \in BOOLEAN
    BY <1>2, Zenon DEF Receive
  <2>2. UNCHANGED <<timeVars, chainVars>>
    BY <1>2, Zenon DEF Receive
  <2>3. QED
    BY <1>w, <2>1, <2>2, Zenon DEF FlagsOK
<1>3. CASE PrimeOk \/ PrimeFails \/ Stage \/ PrimeAfter
  BY <1>w, <1>3, Zenon DEF PrimeOk, PrimeFails, Stage, PrimeAfter, FlagsOK
<1>4. CASE FireOk \/ FireFails \/ FallbackOk \/ FallbackFails
  BY <1>w, <1>4, Zenon DEF FireOk, FireFails, FallbackOk, FallbackFails, Ends, FlagsOK
<1>5. CASE Commit
  <2>1. Slot \in Buckets
    BY <1>w, <1>5, SlotTypes DEF Commit
  <2>2. bucketWarm' \in [Buckets -> BOOLEAN] /\ bucketIlValid' \in [Buckets -> BOOLEAN]
    BY <1>w, <1>5, <2>1 DEF Commit, FlagsOK
  <2>3. UNCHANGED <<timeVars, requestVars>>
    BY <1>5 DEF Commit
  <2>4. QED
    BY <1>w, <2>2, <2>3, Zenon DEF FlagsOK
<1>6. QED
  BY <1>1, <1>2, <1>3, <1>4, <1>5 DEF Next, Handler

LEMMA TypeStep == ASSUME TypeOK, LogInv, [Next]_vars PROVE TypeOK'
BY WordsStep, FlagsStep DEF TypeOK

-----------------------------------------------------------------------------
(* What the steps leave of the chain.                                      *)

\* The exchange a commit records.
Exchanged == [to |-> from, rx |-> t2, tx |-> Nudged(Stamp(left))]

\* No step but a commit changes the buckets or the history, ...
LEMMA OnlyCommits ==
  ASSUME [Next]_vars, ~Commit PROVE UNCHANGED <<bucketIlRx, bucketIlTx, bucketIlValid, exchanges>>
<1> USE DEF timeVars, requestVars, rateVars, chainVars, arpVars, txVars, logVars
<1>1. CASE Tick \/ LockChange \/ ChipReset \/ UNCHANGED vars
  BY <1>1 DEF Tick, LockChange, ChipReset, vars
<1>2. ASSUME NEW c \in Clients, NEW o, Receive(c, o)
      PROVE  UNCHANGED <<bucketIlRx, bucketIlTx, bucketIlValid, exchanges>>
  BY <1>2 DEF Receive
<1>3. CASE PrimeOk \/ PrimeFails \/ Stage \/ PrimeAfter
  BY <1>3 DEF PrimeOk, PrimeFails, Stage, PrimeAfter
<1>4. CASE FireOk \/ FireFails \/ FallbackOk \/ FallbackFails
  BY <1>4 DEF FireOk, FireFails, FallbackOk, FallbackFails, Ends
<1>5. QED
  BY <1>1, <1>2, <1>3, <1>4 DEF Next, Handler

\* ... and only the end of a send changes the reply.
LEMMA OnlyEnds ==
  ASSUME [Next]_vars, ~FireOk, ~FallbackOk PROVE reply' = reply
<1> USE DEF timeVars, requestVars, rateVars, chainVars, arpVars, txVars, logVars
<1>1. CASE Tick \/ LockChange \/ ChipReset \/ UNCHANGED vars
  BY <1>1 DEF Tick, LockChange, ChipReset, vars
<1>2. ASSUME NEW c \in Clients, NEW o, Receive(c, o) PROVE reply' = reply
  BY <1>2 DEF Receive
<1>3. CASE PrimeOk \/ PrimeFails \/ Stage \/ PrimeAfter
  BY <1>3 DEF PrimeOk, PrimeFails, Stage, PrimeAfter
<1>4. CASE FireFails \/ FallbackFails \/ Commit
  BY <1>4 DEF FireFails, FallbackFails, Commit
<1>5. QED
  BY <1>1, <1>2, <1>3, <1>4 DEF Next, Handler

\* A commit records its exchange and forgets none.
LEMMA Recorded ==
  ASSUME Commit
  PROVE  /\ exchanges' = IF overBudget THEN exchanges ELSE exchanges \cup {Exchanged}
         /\ pc = "commit" /\ pc' \in {"idle", "after"}
BY DEF Commit, Exchanged

LEMMA NothingForgotten == ASSUME [Next]_vars PROVE exchanges \subseteq exchanges'
<1>1. CASE Commit
  BY <1>1, Recorded
<1>2. CASE ~Commit
  BY <1>2, OnlyCommits
<1>3. QED
  BY <1>1, <1>2

LEMMA LogStep == ASSUME TypeOK, LogInv, [Next]_vars PROVE LogInv'
<1>w. WordsOK
  BY DEF TypeOK
<1>1. CASE ~Commit
  BY <1>1, OnlyCommits DEF LogInv
<1>2. CASE Commit
  <2>1. Exchanged \in [to : Clients, rx : Nat, tx : Nat]
    <3>1. from \in Clients
      BY <1>w, <1>2, SlotTypes, Recorded
    <3>2. t2 \in Nat /\ Nudged(Stamp(left)) \in Nat
      BY <1>w, NudgedTypes DEF WordsOK
    <3>3. QED
      BY <3>1, <3>2 DEF Exchanged
  <2>2. IsFiniteSet(exchanges \cup {Exchanged})
    BY FS_AddElement DEF LogInv
  <2>3. QED
    BY <1>2, <2>1, <2>2, Recorded DEF LogInv
<1>3. QED
  BY <1>1, <1>2

-----------------------------------------------------------------------------
(* The chain is honest.                                                    *)

\* A frame leaves when its send is seen to end, or left before.
LEMMA SendStep == ASSUME TypeOK, SendInv, [Next]_vars PROVE SendInv'
<1> USE DEF timeVars, requestVars, rateVars, chainVars, arpVars, txVars, logVars, Handling
<1>w. now \in Nat /\ now > 0 /\ left \in Nat /\ left <= now
  BY DEF TypeOK, WordsOK, SendInv
<1>1. CASE Tick
  BY <1>w, <1>1 DEF Tick, SendInv
<1>2. CASE LockChange \/ ChipReset \/ UNCHANGED vars
  BY <1>w, <1>2 DEF LockChange, ChipReset, vars, SendInv
<1>3. ASSUME NEW c \in Clients, NEW o, Receive(c, o) PROVE SendInv'
  <2>1. left' = 0 /\ now' = now /\ pc' # "commit"
    BY <1>3 DEF Receive, Route
  <2>2. QED
    BY <1>w, <2>1 DEF SendInv
<1>4. CASE PrimeOk \/ PrimeFails \/ Stage \/ PrimeAfter \/ Commit
  BY <1>w, <1>4 DEF PrimeOk, PrimeFails, Stage, PrimeAfter, Commit, SendInv
<1>5. CASE FireOk \/ FallbackOk
  BY <1>w, <1>5 DEF FireOk, FallbackOk, Leaves, Ends, SendInv
<1>6. CASE FireFails
  <2>1. left' = left \/ (SlowLan /\ left' \in {left, now})
    BY <1>6 DEF FireFails, Leaves
  <2>2. now' = now /\ pc = "fire" /\ pc' = "fallback"
    BY <1>6 DEF FireFails
  <2>3. QED
    BY <1>w, <2>1, <2>2 DEF SendInv
<1>7. CASE FallbackFails
  BY <1>w, <1>7 DEF FallbackFails, SendInv
<1>8. QED
  BY <1>1, <1>2, <1>3, <1>4, <1>5, <1>6, <1>7 DEF Next, Handler

\* A bucket takes what the commit records.
LEMMA ChainStep == ASSUME TypeOK, SendInv, ChainInv, [Next]_vars PROVE ChainInv'
<1>1. CASE ~Commit \/ overBudget
  <2>1. UNCHANGED <<bucketIlRx, bucketIlTx, bucketIlValid, exchanges>>
    BY <1>1, OnlyCommits DEF Commit, chainVars
  <2>2. QED
    BY <2>1 DEF ChainInv, Reports
<1>2. CASE Commit /\ ~overBudget
  <2>1. Slot \in Buckets
    BY <1>2, SlotTypes, Recorded DEF TypeOK
  <2> DEFINE seen == Nudged(Stamp(txEnd))
  <2>2. Reports(seen, Exchanged)
    <3>1. left <= txEnd /\ (~SlowLan => left = txEnd)
      BY <1>2, Recorded DEF SendInv
    <3>2. left \in Nat /\ txEnd \in Nat /\ t2 \in Nat
      BY DEF TypeOK, WordsOK
    <3>3. Exchanged.tx = Nudged(Stamp(left))
      BY DEF Exchanged
    <3>4. Exchanged.tx <= seen
      BY <3>1, <3>2, <3>3, StampMonotone
    <3>5. ~SlowLan => Exchanged.tx = seen
      BY <3>1, <3>3
    <3>6. QED
      BY <3>4, <3>5 DEF Reports
  <2>3. /\ bucketIlTx' = [bucketIlTx EXCEPT ![Slot] = seen]
        /\ bucketIlRx' = [bucketIlRx EXCEPT ![Slot] = Exchanged.rx]
        /\ bucketIlValid' = [bucketIlValid EXCEPT ![Slot] = TRUE]
        /\ exchanges' = exchanges \cup {Exchanged}
    BY <1>2 DEF Commit, Exchanged
  <2> HIDE DEF seen
  <2>4. ASSUME NEW k \in Buckets, bucketIlValid'[k]
        PROVE  \E e \in exchanges' : e.rx = bucketIlRx'[k] /\ Reports(bucketIlTx'[k], e)
    <3>1. CASE k = Slot
      <4>1. bucketIlRx'[k] = Exchanged.rx /\ bucketIlTx'[k] = seen
        BY <2>1, <2>3, <3>1 DEF TypeOK, WordsOK
      <4>2. QED
        BY <2>2, <2>3, <4>1
    <3>2. CASE k # Slot
      <4>1. /\ bucketIlValid[k] /\ bucketIlRx'[k] = bucketIlRx[k]
            /\ bucketIlTx'[k] = bucketIlTx[k]
        BY <2>1, <2>3, <2>4, <3>2 DEF TypeOK, WordsOK, FlagsOK
      <4>2. QED
        BY <2>3, <4>1 DEF ChainInv
    <3>3. QED
      BY <3>1, <3>2
  <2>5. QED
    BY <2>4 DEF ChainInv, Reports
<1>3. QED
  BY <1>1, <1>2

\* A request is interleaved when the bucket holds what its origin names, and the
\* bucket and the request stay as they are until the reply has left.
LEMMA RequestStep == ASSUME TypeOK, RequestInv, [Next]_vars PROVE RequestInv'
<1> USE DEF timeVars, requestVars, rateVars, chainVars, arpVars, txVars, logVars, Handling
<1>1. ASSUME NEW c \in Clients, NEW o \in Told(c) \cup {0}, Receive(c, o) PROVE RequestInv'
  <2>1. /\ from' = c /\ origin' = o /\ interleaved' \in {FALSE, ~overBudget' /\ Chained(Hash[c], o)}
        /\ UNCHANGED <<bucketIlRx, bucketIlValid, exchanges>>
    BY <1>1, Zenon DEF Receive
  <2>2. ASSUME interleaved'
        PROVE  /\ bucketIlValid[Hash[c]] /\ bucketIlRx[Hash[c]] = o
               /\ \E e \in exchanges : e.to = c /\ e.rx = o
    <3>1. Chained(Hash[c], o)
      BY <2>1, <2>2, Zenon
    <3>2. o \in Told(c)
      BY <3>1, Zenon DEF Chained
    <3>3. \E e \in exchanges : e.to = c /\ e.rx = o
      BY <3>2 DEF Told
    <3>4. QED
      BY <3>1, <3>3, Zenon DEF Chained
  <2>3. QED
    BY <2>1, <2>2, Zenon DEF RequestInv, Slot
<1>2. CASE Tick \/ LockChange \/ ChipReset \/ UNCHANGED vars
  BY <1>2, Zenon DEF Tick, LockChange, ChipReset, vars, RequestInv, Slot
<1>3. CASE PrimeOk \/ Stage \/ FireFails
  <2>1. /\ pc \in Handling
        /\ UNCHANGED <<from, origin, interleaved, bucketIlRx, bucketIlValid, exchanges>>
    BY <1>3, Zenon DEF PrimeOk, Stage, FireFails
  <2>2. QED
    BY <2>1, Zenon DEF RequestInv, Slot
<1>4. CASE PrimeFails \/ PrimeAfter \/ FallbackFails \/ FireOk \/ FallbackOk \/ Commit
  <2>1. pc' \notin Handling
    BY <1>4 DEF PrimeFails, PrimeAfter, FallbackFails, FireOk, FallbackOk, Ends, Commit
  <2>2. QED
    BY <2>1 DEF RequestInv
<1>5. QED
  BY <1>1, <1>2, <1>3, <1>4 DEF Next, Handler

\* An interleaved reply reports what the bucket holds.
LEMMA ReplyStep ==
  ASSUME TypeOK, ChainInv, RequestInv, ReplyInv, [Next]_vars PROVE ReplyInv'
<1>1. CASE FireOk \/ FallbackOk
  <2>1. /\ reply' = [to |-> from, kod |-> overBudget, il |-> interleaved, origin |-> origin,
                     rx |-> t2, tx |-> T3]
        /\ pc \in Handling
    BY <1>1 DEF FireOk, FallbackOk, Ends, Handling
  <2>2. exchanges' = exchanges
    BY <1>1 DEF FireOk, FallbackOk, Ends
  <2>3. /\ reply'.to = from /\ reply'.il = interleaved /\ reply'.origin = origin
        /\ reply'.tx = T3
    BY <2>1
  <2>4. ASSUME interleaved
        PROVE  /\ \E e \in exchanges : e.to = from /\ e.rx = origin
               /\ \E e \in exchanges : e.rx = origin /\ Reports(T3, e)
    <3>1. /\ bucketIlValid[Slot] /\ bucketIlRx[Slot] = origin
          /\ \E e \in exchanges : e.to = from /\ e.rx = origin
      BY <2>1, <2>4 DEF RequestInv
    <3>2. Slot \in Buckets
      BY <2>1, SlotTypes DEF TypeOK, Handling
    <3>3. T3 = bucketIlTx[Slot]
      BY <2>4 DEF T3
    <3>4. QED
      BY <3>1, <3>2, <3>3 DEF ChainInv
  <2>5. QED
    BY <2>2, <2>3, <2>4, Zenon DEF ReplyInv, Reports
<1>2. CASE ~FireOk /\ ~FallbackOk
  <2>1. reply' = reply /\ exchanges \subseteq exchanges'
    BY <1>2, OnlyEnds, NothingForgotten
  <2>2. QED
    BY <2>1, Zenon DEF ReplyInv, Reports
<1>3. QED
  BY <1>1, <1>2

-----------------------------------------------------------------------------
(* The theorems.                                                           *)

LEMMA Initially == ASSUME Init PROVE IInv
<1> USE Numbers DEF Init
<1>1. WordsOK
  <2>1. <<>> \in Seq(Pieces) /\ Len(<<>>) = 0
    OBVIOUS
  <2>2. MaxTime + 1 \in Nat
    OBVIOUS
  <2>3. bucketSec \in [Buckets -> Nat]
    BY <2>2 DEF NoSecond
  <2>4. reply.to = NoClient
    BY DEF NoReply
  <2>5. QED
    BY <2>1, <2>3, <2>4 DEF WordsOK, Places
<1>2. FlagsOK
  BY DEF FlagsOK
<1>3. LogInv /\ SendInv
  BY FS_EmptySet DEF LogInv, SendInv, Handling
<1>4. ChainInv /\ RequestInv /\ ReplyInv
  BY DEF ChainInv, RequestInv, ReplyInv, NoReply
<1>5. QED
  BY <1>1, <1>2, <1>3, <1>4 DEF IInv, TypeOK

\* The handler keeps to its types whatever the network does: the transmit ring
\* never holds more than it has room for.
THEOREM TypeCorrect == Spec => []TypeOK
<1>1. Init => TypeOK /\ LogInv
  BY Initially DEF IInv
<1>2. TypeOK /\ LogInv /\ [Next]_vars => (TypeOK /\ LogInv)'
  BY TypeStep, LogStep
<1>3. QED
  BY <1>1, <1>2, PTL DEF Spec

\* The invariant is inductive, slow sends or not.
THEOREM Inductive == Spec => []IInv
<1>1. Init => IInv
  BY Initially
<1>2. IInv /\ [Next]_vars => IInv'
  BY TypeStep, LogStep, SendStep, ChainStep, RequestStep, ReplyStep DEF IInv
<1>3. QED
  BY <1>1, <1>2, PTL DEF Spec

\* What the one exchange that an interleaved reply can mean is.
LEMMA Named ==
  ASSUME LogInv, ReplyInv, reply.il,
         Cardinality({e \in exchanges : e.rx = reply.origin}) = 1
  PROVE  \E x \in [to : Clients, rx : Nat, tx : Nat] :
           /\ {e \in exchanges : e.rx = reply.origin} = {x}
           /\ x.to = reply.to /\ x.rx = reply.origin /\ Reports(reply.tx, x)
<1> DEFINE named == {e \in exchanges : e.rx = reply.origin}
<1>1. IsFiniteSet(named)
  BY FS_Subset DEF LogInv
<1>2. PICK x : named = {x}
  BY <1>1, FS_Singleton
<1>3. x \in [to : Clients, rx : Nat, tx : Nat]
  BY <1>2 DEF LogInv
<1>4. x.to = reply.to /\ x.rx = reply.origin
  BY <1>2 DEF ReplyInv
<1>5. Reports(reply.tx, x)
  BY <1>2 DEF ReplyInv
<1>6. QED
  BY <1>2, <1>3, <1>4, <1>5

\* Where no send outlasts its wait, an interleaved reply reports when the reply
\* that its request names left, and that left for the same client, whoever shares
\* the bucket and whatever is lost, repeated, late or refused.
THEOREM Honest == ASSUME ~SlowLan PROVE Spec => []InterleavedHonest
<1>1. IInv => InterleavedHonest
  <2> SUFFICES ASSUME LogInv, ReplyInv, reply.il,
                      Cardinality({e \in exchanges : e.rx = reply.origin}) = 1
               PROVE  {e \in exchanges : e.rx = reply.origin} =
                        {[to |-> reply.to, rx |-> reply.origin, tx |-> reply.tx]}
    BY Zenon DEF InterleavedHonest, IInv
  <2>1. PICK x \in [to : Clients, rx : Nat, tx : Nat] :
          /\ {e \in exchanges : e.rx = reply.origin} = {x}
          /\ x.to = reply.to /\ x.rx = reply.origin /\ Reports(reply.tx, x)
    BY Named
  <2>2. x = [to |-> reply.to, rx |-> reply.origin, tx |-> reply.tx]
    BY <2>1 DEF Reports
  <2>3. QED
    BY <2>1, <2>2
<1>2. QED
  BY <1>1, Inductive, PTL

\* However long sends take, an interleaved reply is of an exchange of its own
\* client and reports no earlier time than the reply it names left.
THEOREM NotEarly == Spec => []NeverEarly
<1>1. IInv => NeverEarly
  <2> SUFFICES ASSUME LogInv, ReplyInv, reply.il,
                      Cardinality({e \in exchanges : e.rx = reply.origin}) = 1
               PROVE  \A e \in {d \in exchanges : d.rx = reply.origin} :
                        e.to = reply.to /\ e.tx <= reply.tx
    BY Zenon DEF NeverEarly, IInv
  <2>1. PICK x :
          /\ {e \in exchanges : e.rx = reply.origin} = {x}
          /\ x.to = reply.to /\ x.rx = reply.origin /\ Reports(reply.tx, x)
    BY Named
  <2>2. QED
    BY <2>1 DEF Reports
<1>2. QED
  BY <1>1, Inductive, PTL

=============================================================================
