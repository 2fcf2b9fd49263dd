--------------------------- MODULE SettingsProofs ---------------------------
(***************************************************************************)
(* Proofs about the settings store, for any table of fields in which the   *)
(* password comes before the lock, and any number of starts.               *)
(***************************************************************************)
EXTENDS Settings, TLAPS

-----------------------------------------------------------------------------
(* The inductive invariant.                                                *)

\* The fields before the one the loop is at.
PastOf(n) == {Table[i] : i \in 1..(n - 1)}
Past == PastOf(next)

\* A device that is off has nothing in RAM.
OffInv == pc = "off" => fdirty = {} /\ stored = {} /\ ~reached

\* What is neither staged nor left to be pinned is in flash; outside safe mode
\* what is not staged is what flash would give.
CleanInv ==
  /\ \A f \in stored \ fdirty : nvs[f] = val[f]
  /\ pc # "off" /\ ~safe => \A f \in Fields \ fdirty : val[f] = Loaded(f)

\* What a commit has passed is in flash.
WrittenInv == pc = "commit" => \A f \in Past : f \in stored /\ nvs[f] = val[f]

\* A form is taken, and committed up to the lock, only while flash holds no lock.
FuseInv == pc = "stage" \/ (pc = "commit" /\ Lock \notin Past) => nvs[Lock] # 1

\* What is staged has a password for its lock, unless it went past the check.
Guarded == ~unchecked => (val[Lock] = 1 => val[Pass] = 1)

\* So has what is committed; what a locked device loads is not asked about.
PairInv ==
  /\ nvs[Lock] # 1 => Guarded
  /\ pc = "commit" /\ ~uncheckedCommit => (val[Lock] = 1 => val[Pass] = 1)

\* The counter is not behind the starts that have not reached the network, and
\* decides which settings a start is made with.
StartInv ==
  /\ silent <= bootFail \/ bootFail = 255
  /\ reached => silent = 0
  /\ pc \in {"stage", "commit"} => reached
  /\ pc = "starting" => ~reached /\ (val[Pin] # Default => ~SafeMode(bootFail))

IInv ==
  /\ TypeOK /\ OffInv /\ CleanInv /\ WrittenInv /\ FuseInv /\ PairInv /\ LockHasPassword
  /\ StartInv /\ ThirdStartReaches

-----------------------------------------------------------------------------
(* The table and the loops over it.                                        *)

\* What the table holds.
LEMMA TableHolds ==
  /\ Len(Table) \in Nat /\ \A i \in 1..Len(Table) : Table[i] \in Fields
  /\ Pass \in Fields /\ Lock \in Fields /\ Pin \in Fields
  /\ Pass # Lock /\ Pin # Pass /\ Pin # Lock /\ Absent \notin Values
<1>1. Len(Table) \in Nat /\ \A i \in 1..Len(Table) : Table[i] \in Fields
  BY TableAssumption DEF Fields
<1>2. PICK i \in 1..Len(Table), j \in 1..Len(Table) : i < j /\ Table[i] = Pass /\ Table[j] = Lock
  BY TableAssumption
<1>3. Pass # Lock
  BY <1>2, TableAssumption
<1>4. QED
  BY <1>1, <1>2, <1>3, TableAssumption

\* The loop has passed nothing at the start, everything at the end, and one field
\* more after each step: the lock only after the password.
LEMMA PastGrows ==
  /\ PastOf(1) = {} /\ PastOf(Len(Table) + 1) = Fields
  /\ \A n \in 1..Len(Table) :
       /\ PastOf(n + 1) = PastOf(n) \cup {Table[n]} /\ Table[n] \notin PastOf(n)
       /\ Table[n] = Lock => Pass \in PastOf(n)
  /\ \A n \in 1..(Len(Table) + 1) : Lock \in PastOf(n) => Pass \in PastOf(n)
<1>1. PastOf(1) = {} /\ PastOf(Len(Table) + 1) = Fields
  BY TableHolds DEF PastOf, Fields
<1>2. ASSUME NEW n \in 1..Len(Table)
      PROVE  /\ PastOf(n + 1) = PastOf(n) \cup {Table[n]} /\ Table[n] \notin PastOf(n)
             /\ Table[n] = Lock => Pass \in PastOf(n)
  <2>1. 1..((n + 1) - 1) = (1..(n - 1)) \cup {n}
    BY <1>2, TableHolds
  <2>2. PastOf(n + 1) = PastOf(n) \cup {Table[n]}
    BY <2>1 DEF PastOf
  <2>3. \A i \in 1..(n - 1) : i \in 1..Len(Table) /\ i # n
    BY <1>2, TableHolds
  <2>4. Table[n] \notin PastOf(n)
    BY <1>2, <2>3, TableAssumption DEF PastOf
  <2>5. ASSUME Table[n] = Lock PROVE Pass \in PastOf(n)
    <3>1. PICK i \in 1..Len(Table), j \in 1..Len(Table) :
                 i < j /\ Table[i] = Pass /\ Table[j] = Lock
      BY TableAssumption
    <3>2. j = n
      BY <1>2, <2>5, <3>1, TableAssumption
    <3>3. i \in 1..(n - 1)
      BY <3>1, <3>2, TableHolds
    <3>4. QED
      BY <3>1, <3>3 DEF PastOf
  <2>6. QED
    BY <2>2, <2>4, <2>5
<1>3. ASSUME NEW n \in 1..(Len(Table) + 1), Lock \in PastOf(n)
      PROVE  Pass \in PastOf(n)
  <2>1. PICK m \in 1..(n - 1) : Table[m] = Lock
    BY <1>3 DEF PastOf
  <2>2. m \in 1..Len(Table) /\ 1..(m - 1) \subseteq 1..(n - 1)
    BY <1>3, <2>1, TableHolds
  <2>3. Pass \in PastOf(m)
    BY <1>2, <2>1, <2>2
  <2>4. QED
    BY <2>2, <2>3 DEF PastOf
<1>4. QED
  BY <1>1, <1>2, <1>3

-----------------------------------------------------------------------------
(* Staging.                                                                *)

Drafts == [val : [Fields -> Values], fdirty : SUBSET Fields, dirty : BOOLEAN, ok : BOOLEAN]

\* A draft t differs from s in the field f alone, and what differs is dirty.
Differs(s, t, f) ==
  /\ t \in Drafts /\ s.fdirty \subseteq t.fdirty /\ (t.fdirty # {} => t.dirty)
  /\ \A g \in Fields \ t.fdirty : t.val[g] = s.val[g]
  /\ \A g \in Fields \ {f} : t.val[g] = s.val[g]

\* A changed field has its value, and is dirty where that differs.
LEMMA ChangedDiffers ==
  ASSUME NEW s \in Drafts, s.fdirty # {} => s.dirty, NEW f \in Fields, NEW v \in Values
  PROVE  Differs(s, Changed(s, f, v), f) /\ Changed(s, f, v).val[f] = v
<1> USE DEF Drafts, Differs
<1>1. CASE s.val[f] = v
  <2>1. Changed(s, f, v) = s
    BY <1>1 DEF Changed
  <2>2. QED
    BY <1>1, <2>1
<1>2. CASE s.val[f] # v
  <2> DEFINE t == Changed(s, f, v)
  <2>1. t = [s EXCEPT !.val[f] = v, !.fdirty = @ \cup {f}, !.dirty = TRUE]
    BY <1>2 DEF Changed
  <2>2. t = [val |-> [s.val EXCEPT ![f] = v], fdirty |-> s.fdirty \cup {f},
             dirty |-> TRUE, ok |-> s.ok]
    BY <2>1
  <2>3. /\ t.val = [s.val EXCEPT ![f] = v] /\ t.fdirty = s.fdirty \cup {f}
        /\ t.dirty = TRUE /\ t.ok = s.ok
    BY <2>2
  <2>4. t \in Drafts
    BY <2>2
  <2> HIDE DEF t
  <2>5. Differs(s, t, f) /\ t.val[f] = v
    BY <2>3, <2>4
  <2>6. QED
    BY <2>3, <2>5 DEF t
<1>3. QED
  BY <1>1, <1>2

\* A token changes its own field at most, to a value with nothing but an empty
\* password left out; a lock that the check sees is accepted only with a password.
LEMMA StagedDiffers ==
  ASSUME NEW s \in Drafts, s.fdirty # {} => s.dirty, s.ok,
         NEW f \in Fields, NEW v \in Values \cup {OutOfRange}, NEW plain \in BOOLEAN
  PROVE  /\ Differs(s, Staged(s, f, v, plain), f)
         /\ Staged(s, f, v, plain).val[f] \in {s.val[f], v}
         /\ f = Pass => Staged(s, f, v, plain).val[f] = s.val[f] \/ v # Default
         /\ Staged(s, f, v, plain).ok /\ f = Lock =>
              Staged(s, f, v, plain).val[f] = v /\ (v = 1 /\ plain => s.val[Pass] = 1)
<1> DEFINE t == Staged(s, f, v, plain)
<1>1. CASE v = OutOfRange \/ (f = Lock /\ v = 1 /\ plain /\ s.val[Pass] = Default)
  <2>1. t = [s EXCEPT !.ok = FALSE]
    BY <1>1 DEF Staged, Refused
  <2>2. t \in Drafts /\ t.ok = FALSE /\ t.val = s.val /\ t.fdirty = s.fdirty /\ t.dirty = s.dirty
    BY <2>1 DEF Drafts
  <2> HIDE DEF t
  <2>3. Differs(s, t, f)
    BY <2>2 DEF Differs
  <2>4. QED
    BY <2>2, <2>3 DEF t
<1>2. CASE ~(v = OutOfRange \/ (f = Lock /\ v = 1 /\ plain /\ s.val[Pass] = Default))
  <2>1. v \in Values /\ (f = Lock /\ v = 1 /\ plain => s.val[Pass] # Default)
    BY <1>2
  <2>2. s.val[Pass] # Default => s.val[Pass] = 1
    BY TableHolds DEF Drafts, Values
  <2>3. CASE f = Pass /\ v = Default
    <3>1. t = s
      BY <1>2, <2>3 DEF Staged
    <3>2. Differs(s, s, f)
      BY DEF Differs
    <3>3. QED
      BY <2>3, <3>1, <3>2, TableHolds
  <2>4. CASE ~(f = Pass /\ v = Default)
    <3>1. t = Changed(s, f, v)
      BY <1>2, <2>4 DEF Staged
    <3> HIDE DEF t
    <3>2. Differs(s, t, f) /\ t.val[f] = v
      BY <2>1, <3>1, ChangedDiffers
    <3>3. QED
      BY <2>1, <2>2, <2>4, <3>2 DEF t
  <2>5. QED
    BY <2>3, <2>4
<1>3. QED
  BY <1>1, <1>2

-----------------------------------------------------------------------------
(* Types.                                                                  *)

\* What an off device is left with.
LEMMA OffLeaves ==
  Off => /\ pc' = "off" /\ ~reached' /\ fdirty' = {} /\ stored' = {} /\ next' = 1
         /\ val' = [f \in Fields |-> Default] /\ safe' = FALSE /\ dirty' = FALSE
         /\ changed' = FALSE /\ reached' = FALSE /\ unchecked' = FALSE
BY DEF Off

\* What a token of the form leaves: what differs is dirty, and what was guarded
\* still is.
LEMMA FieldLeaves ==
  ASSUME TypeOK, StageField \/ ClearPassword
  PROVE  /\ val' \in [Fields -> Values] /\ fdirty' \subseteq Fields /\ dirty' \in BOOLEAN
         /\ fdirty \subseteq fdirty' /\ (fdirty' # {} => dirty')
         /\ \A g \in Fields \ fdirty' : val'[g] = val[g]
         /\ Guarded => Guarded'
         /\ unchecked' \in BOOLEAN /\ pc = "stage" /\ pc' \in {"stage", "up"}
         /\ UNCHANGED <<nvs, safe, stored, next, changed, bootVars, uncheckedCommit>>
<1>1. /\ Draft \in Drafts /\ Draft.ok /\ (Draft.fdirty # {} => Draft.dirty)
      /\ Draft.val = val /\ Draft.fdirty = fdirty
  BY DEF TypeOK, WordsOK, FlagsOK, Draft, Drafts
<1>g. /\ Guarded <=> (~unchecked => (val[Lock] = 1 => val[Pass] = 1))
      /\ Guarded' <=> (~unchecked' => (val'[Lock] = 1 => val'[Pass] = 1))
  BY DEF Guarded
<1>u. unchecked \in BOOLEAN
  BY DEF TypeOK, FlagsOK
<1>2. ASSUME NEW f \in Fields, NEW t, Differs(Draft, t, f),
             val' = t.val, fdirty' = t.fdirty, dirty' = t.dirty
      PROVE  /\ val' \in [Fields -> Values] /\ fdirty' \subseteq Fields /\ dirty' \in BOOLEAN
             /\ fdirty \subseteq fdirty' /\ (fdirty' # {} => dirty')
             /\ \A g \in Fields \ fdirty' : val'[g] = val[g]
             /\ \A g \in Fields \ {f} : val'[g] = val[g]
  <2>1. /\ t.val \in [Fields -> Values] /\ t.fdirty \subseteq Fields /\ t.dirty \in BOOLEAN
        /\ fdirty \subseteq t.fdirty /\ (t.fdirty # {} => t.dirty)
    BY <1>1, <1>2, Zenon DEF Differs, Drafts
  <2>2. /\ \A g \in Fields \ t.fdirty : t.val[g] = val[g]
        /\ \A g \in Fields \ {f} : t.val[g] = val[g]
    BY <1>1, <1>2 DEF Differs
  <2>3. QED
    BY <1>2, <2>1, <2>2, Zenon
<1>3. CASE StageField
  <2>1. PICK f \in Fields, v \in Values \cup {OutOfRange}, plain \in BOOLEAN :
          LET t == Staged(Draft, f, v, plain)
          IN  /\ val' = t.val /\ fdirty' = t.fdirty /\ dirty' = t.dirty
              /\ pc' = IF t.ok THEN "stage" ELSE "up"
              /\ unchecked' = IF t.ok /\ f = Lock THEN v = 1 /\ ~plain ELSE unchecked
    BY <1>3 DEF StageField
  <2> DEFINE t == Staged(Draft, f, v, plain)
  <2>2. /\ Differs(Draft, t, f) /\ t.val[f] \in {val[f], v}
        /\ f = Pass => t.val[f] = val[f] \/ v # Default
        /\ t.ok /\ f = Lock => t.val[f] = v /\ (v = 1 /\ plain => val[Pass] = 1)
    BY <1>1, StagedDiffers
  <2>3. /\ val' = t.val /\ fdirty' = t.fdirty /\ dirty' = t.dirty
        /\ pc' = IF t.ok THEN "stage" ELSE "up"
        /\ unchecked' = IF t.ok /\ f = Lock THEN v = 1 /\ ~plain ELSE unchecked
    BY <2>1
  <2> HIDE DEF t
  <2>4. /\ val' \in [Fields -> Values] /\ fdirty' \subseteq Fields /\ dirty' \in BOOLEAN
        /\ fdirty \subseteq fdirty' /\ (fdirty' # {} => dirty')
        /\ \A g \in Fields \ fdirty' : val'[g] = val[g]
        /\ \A g \in Fields \ {f} : val'[g] = val[g]
    BY <1>2, <2>2, <2>3
  <2>5. unchecked' \in BOOLEAN
    BY <1>u, <2>3, Zenon
  <2>6. Guarded => Guarded'
    <3>1. CASE t.ok /\ f = Lock
      <4>1. unchecked' = (v = 1 /\ ~plain)
        BY <2>3, <3>1
      <4>2. val'[Lock] = v /\ (v = 1 /\ plain => val[Pass] = 1) /\ val'[Pass] = val[Pass]
        BY <2>2, <2>3, <2>4, <3>1, TableHolds
      <4>3. QED
        BY <1>g, <4>1, <4>2
    <3>2. CASE ~(t.ok /\ f = Lock)
      <4>1. unchecked' = unchecked
        BY <2>3, <3>2
      <4>2. CASE f = Lock
        <5>1. ~t.ok
          BY <3>2, <4>2
        <5>2. val' = val
          BY <1>1, <5>1, <2>1 DEF t, Staged, Refused, Changed
        <5>3. QED
          BY <1>g, <4>1, <5>2
      <4>3. CASE f = Pass
        <5>1. val'[Lock] = val[Lock]
          BY <2>4, <4>3, TableHolds
        <5>2. val'[Pass] = val[Pass] \/ (val'[Pass] = v /\ v # Default)
          BY <2>2, <2>3, <4>3
        <5>3. val'[Pass] \in Values /\ (val'[Pass] # Default => val'[Pass] = 1)
          BY <2>4, TableHolds DEF Values
        <5>4. QED
          BY <1>g, <4>1, <5>1, <5>2, <5>3
      <4>4. CASE f \notin {Lock, Pass}
        BY <1>g, <2>4, <4>1, <4>4, TableHolds
      <4>5. QED
        BY <4>2, <4>3, <4>4
    <3>3. QED
      BY <3>1, <3>2
  <2>7. /\ pc = "stage" /\ pc' \in {"stage", "up"}
        /\ UNCHANGED <<nvs, safe, stored, next, changed, bootVars, uncheckedCommit>>
    BY <1>3, <2>3 DEF StageField
  <2>8. QED
    BY <2>4, <2>5, <2>6, <2>7
<1>4. CASE ClearPassword
  <2> DEFINE t == Changed(Draft, Pass, Default)
  <2>1. /\ val' = t.val /\ fdirty' = t.fdirty /\ dirty' = t.dirty
        /\ unchecked' = (unchecked \/ val[Pass] # Default)
        /\ pc = "stage" /\ pc' \in {"stage", "up"}
        /\ UNCHANGED <<nvs, safe, stored, next, changed, bootVars, uncheckedCommit>>
    BY <1>4 DEF ClearPassword
  <2>2. Differs(Draft, t, Pass)
    BY <1>1, ChangedDiffers, TableHolds DEF Values
  <2>3. val[Pass] = Default => val' = val
    BY <1>1, <2>1 DEF Changed
  <2> HIDE DEF t
  <2>4. /\ val' \in [Fields -> Values] /\ fdirty' \subseteq Fields /\ dirty' \in BOOLEAN
        /\ fdirty \subseteq fdirty' /\ (fdirty' # {} => dirty')
        /\ \A g \in Fields \ fdirty' : val'[g] = val[g]
    BY <1>2, <2>1, <2>2, TableHolds
  <2>5. unchecked' \in BOOLEAN
    BY <1>u, <2>1, Zenon
  <2>6. Guarded => Guarded'
    <3>1. CASE val[Pass] = Default
      <4>1. val' = val /\ (unchecked => unchecked')
        BY <2>1, <2>3, <3>1
      <4>2. QED
        BY <1>g, <4>1
    <3>2. CASE val[Pass] # Default
      BY <1>g, <2>1, <3>2
    <3>3. QED
      BY <3>1, <3>2
  <2>7. QED
    BY <2>1, <2>4, <2>5, <2>6
<1>5. QED
  BY <1>3, <1>4

\* Every action leaves the words in their ranges.
LEMMA WordsStep ==
  ASSUME TypeOK, [Next]_vars PROVE WordsOK'
<1> USE TableHolds, BoundAssumption DEF WordsOK, ramVars, bootVars
<1>w. WordsOK
  BY DEF TypeOK
<1>1. CASE Boot
  BY <1>w, <1>1 DEF Boot, Loaded, Values
<1>2. CASE Settle
  <2>1. /\ UNCHANGED <<nvs, val, fdirty, stored, next, boots>>
        /\ silent' \in {0, silent} /\ bootFail' \in {0, bootFail}
    BY <1>2, Zenon DEF Settle
  <2>2. QED
    BY <1>w, <2>1
<1>3. CASE Post \/ FormStaged \/ SkipField \/ WriteFails
  <2>1. /\ UNCHANGED <<nvs, val, fdirty, stored, bootFail, silent, boots>>
        /\ next' \in {1, next} \/ (next <= Len(Table) /\ next' = next + 1)
    BY <1>3 DEF Post, FormStaged, SkipField, WriteFails
  <2>2. QED
    BY <1>w, <2>1
<1>4. CASE StageField \/ ClearPassword
  <2>1. /\ UNCHANGED <<nvs, stored, bootFail, silent, boots, next>>
        /\ val' \in [Fields -> Values] /\ fdirty' \subseteq Fields
    BY <1>4, FieldLeaves
  <2>2. QED
    BY <1>w, <2>1
<1>5. CASE WriteField
  <2>1. next <= Len(Table) /\ Table[next] \in Fields
    BY <1>w, <1>5 DEF WriteField
  <2>2. nvs' \in [Fields -> Values \cup {Absent}] /\ stored' \subseteq Fields
    BY <1>w, <1>5, <2>1 DEF WriteField
  <2>3. QED
    BY <1>w, <1>5, <2>1, <2>2 DEF WriteField
<1>6. CASE Off /\ UNCHANGED <<nvs, bootFail, silent, boots>>
  BY <1>w, <1>6, OffLeaves DEF Values
<1>7. CASE Committed /\ ~Off
  BY <1>w, <1>7 DEF Committed
<1>8. CASE FactoryReset
  <2>1. nvs' \in [Fields -> Values \cup {Absent}] /\ bootFail' \in 0..255
    <3>1. CASE nvs' = [f \in Fields |-> Absent] /\ bootFail' = 0
      BY <3>1
    <3>2. CASE UNCHANGED <<nvs, bootFail>>
      BY <1>w, <3>2
    <3>3. QED
      BY <1>8, <3>1, <3>2 DEF FactoryReset
  <2>2. Off /\ UNCHANGED <<silent, boots>>
    BY <1>8 DEF FactoryReset
  <2>3. QED
    BY <1>w, <2>1, <2>2, OffLeaves DEF Values
<1>9. CASE UNCHANGED vars
  BY <1>w, <1>9 DEF vars
<1>10. QED
  BY <1>1, <1>2, <1>3, <1>4, <1>5, <1>6, <1>7, <1>8, <1>9
  DEF Next, Form, Commit, Committed, PowerFails

\* Every action leaves the flags what they are, and what is staged dirty.
LEMMA FlagsStep ==
  ASSUME TypeOK, [Next]_vars PROVE FlagsOK'
<1> USE DEF FlagsOK, ramVars, bootVars
<1>w. FlagsOK
  BY DEF TypeOK
<1>1. CASE Boot
  BY <1>w, <1>1 DEF Boot, SafeMode
<1>2. CASE Settle
  BY <1>w, <1>2, Zenon DEF Settle
<1>3. CASE Post \/ FormStaged \/ SkipField \/ WriteField \/ WriteFails
  BY <1>w, <1>3, Zenon DEF Post, FormStaged, SkipField, WriteField, WriteFails
<1>4. CASE StageField \/ ClearPassword
  <2>1. UNCHANGED <<safe, changed, reached, uncheckedCommit>>
    BY <1>4, FieldLeaves
  <2>2. /\ dirty' \in BOOLEAN /\ (fdirty' # {} => dirty') /\ pc' \in {"stage", "up"}
        /\ unchecked' \in BOOLEAN
    BY <1>4, FieldLeaves
  <2>3. QED
    BY <1>w, <2>1, <2>2, Zenon
<1>5. CASE Off /\ UNCHANGED uncheckedCommit
  BY <1>w, <1>5, OffLeaves, Zenon
<1>6. CASE Committed /\ ~Off
  BY <1>w, <1>6, Zenon DEF Committed
<1>7. CASE UNCHANGED vars
  BY <1>w, <1>7, Zenon DEF vars
<1>8. QED
  BY <1>1, <1>2, <1>3, <1>4, <1>5, <1>6, <1>7
  DEF Next, Form, Commit, Committed, FactoryReset, PowerFails

LEMMA TypeStep ==
  ASSUME TypeOK, [Next]_vars PROVE TypeOK'
BY WordsStep, FlagsStep DEF TypeOK

-----------------------------------------------------------------------------
(* The loops.                                                              *)

\* What a step of the commit does to flash: it passes a field that is in flash
\* already, or puts one there.
LEMMA CommitLeaves ==
  ASSUME TypeOK, SkipField \/ WriteField
  PROVE  /\ Table[next] \in Fields /\ Table[next] \notin Past
         /\ Table[next] = Lock => Pass \in Past
         /\ Past' = Past \cup {Table[next]} /\ pc = "commit" /\ pc' = "commit"
         /\ UNCHANGED <<val, fdirty, safe, reached, silent, bootFail>>
         /\ UNCHANGED <<unchecked, uncheckedCommit>>
         /\ \/ /\ UNCHANGED <<nvs, stored>>
               /\ Table[next] \in stored \ fdirty
            \/ /\ nvs' = [nvs EXCEPT ![Table[next]] = val[Table[next]]]
               /\ stored' = stored \cup {Table[next]}
<1>1. next \in 1..Len(Table) /\ Table[next] \in Fields
  BY TableHolds DEF TypeOK, WordsOK, SkipField, WriteField
<1>2. next' = next + 1 /\ Past = PastOf(next) /\ Past' = PastOf(next')
  BY DEF SkipField, WriteField, Past, PastOf
<1>3. /\ Past' = Past \cup {Table[next]} /\ Table[next] \notin Past
      /\ Table[next] = Lock => Pass \in Past
  BY <1>1, <1>2, PastGrows
<1>4. /\ pc = "commit" /\ UNCHANGED <<pc, val, fdirty, safe, reached, silent, bootFail>>
      /\ UNCHANGED <<unchecked, uncheckedCommit>>
  BY DEF SkipField, WriteField, bootVars
<1>5. \/ /\ UNCHANGED <<nvs, stored>> /\ Table[next] \in stored \ fdirty
      \/ /\ nvs' = [nvs EXCEPT ![Table[next]] = val[Table[next]]]
         /\ stored' = stored \cup {Table[next]}
  BY DEF SkipField, WriteField, Due
<1>6. QED
  BY <1>1, <1>3, <1>4, <1>5

\* A commit that comes to its end has passed every field.
LEMMA CommitEnds ==
  ASSUME TypeOK, Committed PROVE pc = "commit" /\ Past = Fields
<1>1. next = Len(Table) + 1
  BY TableHolds DEF TypeOK, WordsOK, Committed
<1>2. QED
  BY <1>1, PastGrows DEF Past, Committed

\* A commit begins with the first field.
LEMMA FormEnds ==
  ASSUME FormStaged PROVE Past' = {}
BY PastGrows DEF FormStaged, Past, PastOf

-----------------------------------------------------------------------------
(* Flash and RAM.                                                          *)

\* Nothing is left in RAM when the device goes off, and nothing gets there before it starts.
LEMMA OffStep ==
  ASSUME TypeOK, OffInv, [Next]_vars PROVE OffInv'
<1> USE DEF OffInv, ramVars, bootVars
<1>1. CASE Boot \/ Settle \/ Form
  <2>1. pc' # "off"
    BY <1>1 DEF Boot, Settle, Form, Post, StageField, ClearPassword, FormStaged
  <2>2. QED
    BY <2>1
<1>2. CASE SkipField \/ WriteField \/ WriteFails
  BY <1>2 DEF SkipField, WriteField, WriteFails
<1>3. CASE Off
  BY <1>3, OffLeaves, Zenon
<1>4. CASE Committed /\ ~Off
  BY <1>4 DEF Committed
<1>5. CASE UNCHANGED vars
  BY <1>5, Zenon DEF vars
<1>6. QED
  BY <1>1, <1>2, <1>3, <1>4, <1>5 DEF Next, Commit, FactoryReset, PowerFails

\* Staging makes dirty what it changes, and the dirt goes when all is in flash.
LEMMA CleanStep ==
  ASSUME TypeOK, OffInv, CleanInv, WrittenInv, [Next]_vars PROVE CleanInv'
<1> USE DEF CleanInv, Loaded, ramVars, bootVars
<1>t. WordsOK /\ Default # Absent
  BY TableHolds DEF TypeOK, Values
<1>1. CASE Boot
  <2>1. fdirty' = {} /\ nvs' = nvs
    BY <1>1 DEF Boot, OffInv
  <2>2. CASE safe'
    <3>1. stored' = {}
      BY <1>1, <2>2 DEF Boot
    <3>2. QED
      BY <2>1, <2>2, <3>1
  <2>3. CASE ~safe'
    <3>1. /\ stored' = {f \in Fields : nvs[f] # Absent}
          /\ val' = [f \in Fields |-> Loaded(f)]
      BY <1>1, <2>3 DEF Boot
    <3>2. QED
      BY <2>1, <3>1
  <2>4. QED
    BY <2>2, <2>3
<1>2. CASE Settle \/ Post \/ FormStaged \/ WriteFails
  <2>1. UNCHANGED <<nvs, val, fdirty, stored, safe>> /\ pc # "off"
    BY <1>2 DEF Settle, Post, FormStaged, WriteFails
  <2>2. QED
    BY <2>1
<1>3. CASE StageField \/ ClearPassword
  <2>1. UNCHANGED <<nvs, stored, safe>> /\ pc # "off" /\ fdirty \subseteq fdirty'
    BY <1>3, FieldLeaves
  <2>2. \A g \in Fields \ fdirty' : val'[g] = val[g]
    BY <1>3, FieldLeaves
  <2>3. QED
    BY <1>t, <2>1, <2>2 DEF WordsOK
<1>4. CASE SkipField \/ WriteField
  <2>1. CASE UNCHANGED <<nvs, stored>>
    BY <1>4, <2>1, CommitLeaves
  <2>2. CASE /\ nvs' = [nvs EXCEPT ![Table[next]] = val[Table[next]]]
             /\ stored' = stored \cup {Table[next]}
    <3>1. val[Table[next]] # Absent
      BY <1>t, <1>4, CommitLeaves, TableHolds DEF WordsOK
    <3>2. \A f \in Fields : nvs'[f] = IF f = Table[next] THEN val[f] ELSE nvs[f]
      BY <1>t, <2>2 DEF WordsOK
    <3>3. UNCHANGED <<val, fdirty, safe>> /\ pc # "off" /\ Table[next] \in Fields
      BY <1>4, CommitLeaves
    <3>4. \A f \in stored' \ fdirty' : nvs'[f] = val'[f]
      BY <1>t, <2>2, <3>2, <3>3 DEF WordsOK
    <3>5. ~safe' => \A f \in Fields \ fdirty' : val'[f] = Loaded(f)'
      BY <3>1, <3>2, <3>3
    <3>6. QED
      BY <3>4, <3>5
  <2>3. QED
    BY <1>4, <2>1, <2>2, CommitLeaves
<1>5. CASE Off
  BY <1>5, OffLeaves
<1>6. CASE Committed /\ ~Off
  <2>1. UNCHANGED <<nvs, val, stored>>
    BY <1>6 DEF Committed
  <2>2. \A f \in Fields : nvs[f] = val[f]
    BY <1>6, CommitEnds DEF WrittenInv
  <2>3. \A f \in Fields : val[f] # Absent
    BY <1>t, TableHolds DEF WordsOK
  <2>4. \A f \in Fields : nvs'[f] = val'[f] /\ val'[f] = Loaded(f)'
    BY <2>1, <2>2, <2>3
  <2>5. stored' \subseteq Fields
    BY <1>t, <2>1 DEF WordsOK
  <2>6. QED
    BY <2>4, <2>5
<1>7. CASE UNCHANGED vars
  BY <1>7 DEF vars
<1>8. QED
  BY <1>1, <1>2, <1>3, <1>4, <1>5, <1>6, <1>7
  DEF Next, Form, Commit, FactoryReset, PowerFails

\* A field that is passed over is in flash already.
LEMMA WrittenStep ==
  ASSUME TypeOK, CleanInv, WrittenInv, [Next]_vars PROVE WrittenInv'
<1> USE DEF WrittenInv, ramVars, bootVars
<1>t. WordsOK
  BY DEF TypeOK
<1>1. CASE Boot \/ Settle \/ Post \/ WriteFails
  BY <1>1 DEF Boot, Settle, Post, WriteFails
<1>2. CASE StageField \/ ClearPassword
  BY <1>2, FieldLeaves
<1>3. CASE FormStaged
  BY <1>3, FormEnds
<1>4. CASE SkipField \/ WriteField
  <2>1. CASE UNCHANGED <<nvs, stored>> /\ Table[next] \in stored \ fdirty
    BY <1>4, <2>1, CommitLeaves DEF CleanInv
  <2>2. CASE /\ nvs' = [nvs EXCEPT ![Table[next]] = val[Table[next]]]
             /\ stored' = stored \cup {Table[next]}
    <3>1. \A f \in Fields : nvs'[f] = IF f = Table[next] THEN val[f] ELSE nvs[f]
      BY <1>t, <2>2 DEF WordsOK
    <3>2. pc = "commit" /\ val' = val /\ Past' = Past \cup {Table[next]} /\ Table[next] \in Fields
      BY <1>4, CommitLeaves
    <3>3. \A f \in Past : f \in Fields
      BY <1>t, <3>2, TableHolds DEF Past, PastOf, WordsOK
    <3>4. QED
      BY <2>2, <3>1, <3>2, <3>3
  <2>3. QED
    BY <1>4, <2>1, <2>2, CommitLeaves
<1>5. CASE Off
  BY <1>5, OffLeaves
<1>6. CASE Committed /\ ~Off
  BY <1>6 DEF Committed
<1>7. CASE UNCHANGED vars
  BY <1>7 DEF vars, Past, PastOf
<1>8. QED
  BY <1>1, <1>2, <1>3, <1>4, <1>5, <1>6, <1>7
  DEF Next, Form, Commit, FactoryReset, PowerFails

-----------------------------------------------------------------------------
(* The lock.                                                               *)

\* A form and a commit begin without a lock in flash, and only the commit's write
\* of the lock puts one there.
LEMMA FuseStep ==
  ASSUME TypeOK, FuseInv, [Next]_vars PROVE FuseInv'
<1> USE DEF FuseInv, ramVars, bootVars
<1>t. WordsOK
  BY DEF TypeOK
<1>1. CASE Boot \/ Settle \/ WriteFails
  BY <1>1 DEF Boot, Settle, WriteFails
<1>2. CASE Post \/ StageField \/ ClearPassword \/ FormStaged
  BY <1>2 DEF Post, StageField, ClearPassword, FormStaged, Locked
<1>3. CASE SkipField \/ WriteField
  <2>1. CASE Lock \in Past'
    BY <1>3, <2>1, CommitLeaves
  <2>2. CASE Lock \notin Past'
    <3>1. Lock \notin Past /\ Lock # Table[next] /\ pc = "commit"
      BY <1>3, <2>2, CommitLeaves
    <3>2. nvs'[Lock] = nvs[Lock]
      BY <1>t, <1>3, <3>1, CommitLeaves, TableHolds DEF WordsOK
    <3>3. QED
      BY <3>1, <3>2
  <2>3. QED
    BY <2>1, <2>2
<1>4. CASE Off
  BY <1>4, OffLeaves
<1>5. CASE Committed /\ ~Off
  BY <1>5 DEF Committed
<1>6. CASE UNCHANGED vars
  BY <1>6 DEF vars, Past, PastOf
<1>7. QED
  BY <1>1, <1>2, <1>3, <1>4, <1>5, <1>6
  DEF Next, Form, Commit, FactoryReset, PowerFails

\* A token that is accepted, or a start, leaves a lock with its password, and a form
\* that did not go past the check is committed so.
LEMMA PairStep ==
  ASSUME TypeOK, FuseInv, PairInv, [Next]_vars PROVE PairInv'
<1> USE DEF PairInv, ramVars, bootVars
<1>t. WordsOK
  BY DEF TypeOK
<1>g. (val' = val /\ unchecked' = unchecked) => (Guarded' <=> Guarded)
  BY DEF Guarded
<1>1. CASE Boot
  <2>1. pc' # "commit" /\ nvs' = nvs
    BY <1>1 DEF Boot
  <2>2. nvs[Lock] # 1 => val'[Lock] # 1
    BY <1>1, TableHolds DEF Boot, Loaded, Default
  <2>3. QED
    BY <2>1, <2>2 DEF Guarded
<1>2. CASE Settle \/ Post \/ WriteFails
  <2>1. UNCHANGED <<nvs, val, unchecked>> /\ pc' # "commit"
    BY <1>2 DEF Settle, Post, WriteFails
  <2>2. QED
    BY <1>g, <2>1
<1>3. CASE StageField \/ ClearPassword
  <2>1. nvs' = nvs /\ pc' # "commit" /\ (Guarded => Guarded')
    BY <1>3, FieldLeaves
  <2>2. QED
    BY <2>1
<1>4. CASE FormStaged
  <2>1. pc = "stage" /\ UNCHANGED <<nvs, val, unchecked>> /\ uncheckedCommit' = unchecked
    BY <1>4 DEF FormStaged
  <2>2. Guarded
    BY <2>1 DEF FuseInv
  <2>3. QED
    BY <1>g, <2>1, <2>2 DEF Guarded
<1>5. CASE SkipField \/ WriteField
  <2>1. UNCHANGED <<val, unchecked, uncheckedCommit>> /\ pc = "commit"
    BY <1>5, CommitLeaves
  <2>2. CASE nvs[Lock] # 1
    BY <1>g, <2>1, <2>2
  <2>3. CASE nvs[Lock] = 1
    <3>1. nvs'[Lock] # 1 => Table[next] = Lock
      BY <1>t, <1>5, <2>3, CommitLeaves, TableHolds DEF WordsOK
    <3>2. Table[next] # Lock
      BY <1>5, <2>1, <2>3, CommitLeaves DEF FuseInv
    <3>3. QED
      BY <2>1, <3>1, <3>2
  <2>4. QED
    BY <2>2, <2>3
<1>6. CASE Off
  <2>1. val'[Lock] # 1 /\ pc' # "commit"
    BY <1>6, OffLeaves, TableHolds DEF Default
  <2>2. QED
    BY <2>1 DEF Guarded
<1>7. CASE Committed /\ ~Off
  <2>1. UNCHANGED <<nvs, val, unchecked>> /\ pc' # "commit"
    BY <1>7 DEF Committed
  <2>2. QED
    BY <1>g, <2>1
<1>8. CASE UNCHANGED vars
  BY <1>g, <1>8 DEF vars
<1>9. QED
  BY <1>1, <1>2, <1>3, <1>4, <1>5, <1>6, <1>7, <1>8
  DEF Next, Form, Commit, FactoryReset, PowerFails

\* The password is written before the lock, and is not taken away after it.
LEMMA PasswordStep ==
  ASSUME TypeOK, WrittenInv, FuseInv, PairInv, LockHasPassword, [Next]_vars
  PROVE  LockHasPassword'
<1> USE DEF LockHasPassword, ramVars, bootVars
<1>t. WordsOK
  BY DEF TypeOK
<1>1. CASE SkipField \/ WriteField
  <2>c. uncheckedCommit' = uncheckedCommit
    BY <1>1, CommitLeaves
  <2>1. CASE UNCHANGED nvs
    BY <2>c, <2>1
  <2>2. CASE nvs' = [nvs EXCEPT ![Table[next]] = val[Table[next]]]
    <3>1. \A f \in Fields : nvs'[f] = IF f = Table[next] THEN val[f] ELSE nvs[f]
      BY <1>t, <2>2 DEF WordsOK
    <3>2. CASE Table[next] = Lock
      <4>1. nvs'[Lock] = val[Lock] /\ nvs'[Pass] = nvs[Pass]
        BY <3>1, <3>2, TableHolds
      <4>2. nvs[Pass] = val[Pass]
        BY <1>1, <3>2, CommitLeaves DEF WrittenInv
      <4>3. QED
        BY <1>1, <4>1, <4>2, CommitLeaves DEF PairInv
    <3>3. CASE Table[next] = Pass
      <4>1. pc = "commit" /\ Lock \notin Past
        BY <1>t, <1>1, <3>3, CommitLeaves, PastGrows DEF WordsOK, Past
      <4>2. nvs'[Lock] # 1
        BY <3>1, <3>3, <4>1, TableHolds DEF FuseInv
      <4>3. QED
        BY <4>2
    <3>4. CASE Table[next] \notin {Lock, Pass}
      BY <2>c, <3>1, <3>4, TableHolds
    <3>5. QED
      BY <3>2, <3>3, <3>4
  <2>3. QED
    BY <1>1, <2>1, <2>2, CommitLeaves
<1>2. CASE FactoryReset
  BY <1>2, TableHolds DEF FactoryReset, Values
<1>3. CASE FormStaged
  BY <1>3 DEF FormStaged, FuseInv
<1>4. CASE UNCHANGED <<nvs, uncheckedCommit>>
  BY <1>4
<1>5. QED
  BY <1>1, <1>2, <1>3, <1>4
  DEF Next, Form, Commit, Boot, Settle, Post, StageField, ClearPassword, WriteFails,
      Committed, PowerFails, vars

\* No step takes a lock out of flash.
LEMMA FuseHolds ==
  ASSUME TypeOK, FuseInv, [Next]_vars PROVE nvs[Lock] = 1 => nvs'[Lock] = 1
<1>t. WordsOK
  BY DEF TypeOK
<1>1. CASE SkipField \/ WriteField
  <2>1. CASE Table[next] = Lock
    BY <1>1, <2>1, CommitLeaves DEF FuseInv
  <2>2. CASE Table[next] # Lock
    BY <1>t, <1>1, <2>2, CommitLeaves, TableHolds DEF WordsOK
  <2>3. QED
    BY <2>1, <2>2
<1>2. CASE FactoryReset
  BY <1>2 DEF FactoryReset, Locked
<1>3. CASE UNCHANGED nvs
  BY <1>3
<1>4. QED
  BY <1>1, <1>2, <1>3
  DEF Next, Form, Commit, Boot, Settle, Post, StageField, ClearPassword, FormStaged,
      WriteFails, Committed, PowerFails, vars

-----------------------------------------------------------------------------
(* Starts.                                                                 *)

\* The counter counts every start, and is cleared only by one that has reached
\* the network.
LEMMA StartStep ==
  ASSUME TypeOK, OffInv, StartInv, [Next]_vars PROVE StartInv'
<1> USE BoundAssumption DEF StartInv, SafeMode, ramVars, bootVars
<1>t. WordsOK
  BY DEF TypeOK
<1>1. CASE Boot
  <2>1. ~reached' /\ pc' = "starting"
    BY <1>1 DEF Boot, OffInv
  <2>2. silent' <= bootFail' \/ bootFail' = 255
    BY <1>t, <1>1 DEF Boot, WordsOK
  <2>3. val'[Pin] # Default => ~SafeMode(bootFail')
    BY <1>1, TableHolds DEF Boot
  <2>4. QED
    BY <2>1, <2>2, <2>3
<1>2. CASE Settle
  <2>1. CASE reached' = TRUE /\ silent' = 0 /\ bootFail' \in {0, bootFail}
    BY <1>t, <1>2, <2>1 DEF Settle, WordsOK
  <2>2. CASE UNCHANGED <<reached, silent, bootFail>>
    BY <1>2, <2>2 DEF Settle
  <2>3. QED
    BY <1>2, <2>1, <2>2 DEF Settle
<1>3. CASE Form \/ SkipField \/ WriteField \/ WriteFails
  <2>1. UNCHANGED <<reached, silent, bootFail>> /\ reached /\ pc' # "starting"
    BY <1>3 DEF Form, Post, StageField, ClearPassword, FormStaged, SkipField, WriteField,
              WriteFails
  <2>2. QED
    BY <2>1
<1>4. CASE Off /\ UNCHANGED <<silent, bootFail>>
  BY <1>4, OffLeaves
<1>5. CASE FactoryReset
  <2>1. silent' = 0 /\ bootFail' \in {0, bootFail} /\ (silent' <= bootFail' \/ bootFail' = 255)
    BY <1>t, <1>5 DEF FactoryReset, WordsOK
  <2>2. QED
    BY <1>5, <2>1, OffLeaves DEF FactoryReset
<1>6. CASE Committed /\ ~Off
  BY <1>6 DEF Committed
<1>7. CASE UNCHANGED vars
  BY <1>7 DEF vars
<1>8. QED
  BY <1>1, <1>2, <1>3, <1>4, <1>5, <1>6, <1>7 DEF Next, Commit, Committed, PowerFails

\* A start that uses stored settings had fewer failed starts before it than lead
\* to safe mode.
LEMMA ThirdStep ==
  ASSUME TypeOK, StartInv, ThirdStartReaches, [Next]_vars PROVE ThirdStartReaches'
<1> USE BoundAssumption DEF StartInv, ThirdStartReaches, ramVars, bootVars
<1>t. WordsOK
  BY DEF TypeOK
<1>1. CASE Settle
  <2>1. CASE val[Pin] # Default
    BY <1>t, <1>1, <2>1 DEF Settle, SafeMode, WordsOK
  <2>2. CASE val[Pin] = Default
    BY <1>1, <2>2 DEF Settle
  <2>3. QED
    BY <2>1, <2>2
<1>2. CASE Boot \/ Off \/ SkipField \/ WriteField \/ Post \/ FormStaged
  <2>1. pc' # "up"
    BY <1>2, OffLeaves, CommitLeaves DEF Boot, Post, FormStaged
  <2>2. QED
    BY <2>1
<1>3. CASE StageField \/ ClearPassword \/ WriteFails \/ (Committed /\ ~Off)
  <2>1. reached' = reached /\ reached
    BY <1>3 DEF StageField, ClearPassword, WriteFails, Committed
  <2>2. QED
    BY <2>1
<1>4. CASE UNCHANGED vars
  BY <1>4 DEF vars
<1>5. QED
  BY <1>1, <1>2, <1>3, <1>4 DEF Next, Form, Commit, FactoryReset, PowerFails

-----------------------------------------------------------------------------
(* The theorems.                                                           *)

LEMMA Initially == ASSUME Init PROVE IInv
<1> USE TableHolds, BoundAssumption DEF Init
<1>1. WordsOK
  BY DEF WordsOK, Values
<1>2. FlagsOK
  BY DEF FlagsOK
<1>3. OffInv /\ CleanInv
  BY DEF OffInv, CleanInv
<1>4. WrittenInv /\ FuseInv /\ PairInv
  BY DEF WrittenInv, FuseInv, PairInv, Guarded, Default
<1>5. LockHasPassword /\ ThirdStartReaches
  BY DEF LockHasPassword, ThirdStartReaches, Values
<1>6. StartInv
  BY DEF StartInv
<1>7. QED
  BY <1>1, <1>2, <1>3, <1>4, <1>5, <1>6 DEF IInv, TypeOK

\* The invariant is inductive: it holds at first, and no start, form, commit,
\* reset or power failure breaks it.
THEOREM Inductive == Spec => []IInv
<1>1. Init => IInv
  BY Initially
<1>2. IInv /\ [Next]_vars => IInv'
  BY TypeStep, OffStep, CleanStep, WrittenStep, FuseStep, PairStep, PasswordStep, StartStep,
     ThirdStep DEF IInv
<1>3. QED
  BY <1>1, <1>2, PTL DEF Spec

\* The store keeps to its types: what is staged is dirty, the counter a byte.
THEOREM TypeCorrect == Spec => []TypeOK
<1>1. IInv => TypeOK
  BY DEF IInv
<1>2. QED
  BY <1>1, Inductive, PTL

\* A lock in flash has a password in flash, whatever tokens were sent in whatever
\* order, refused or staged, and wherever a commit was cut short, unless the form
\* that committed it went past the check.
THEOREM LockIsOpenable == Spec => []LockHasPassword
<1>1. IInv => LockHasPassword
  BY DEF IInv
<1>2. QED
  BY <1>1, Inductive, PTL

\* With nothing dirty, what the device runs on is what its next start loads: a
\* commit that failed half way is never taken for done.
THEOREM NothingLost == Spec => []SavedIsSaved
<1>1. IInv => SavedIsSaved
  BY DEF IInv, TypeOK, FlagsOK, CleanInv, SavedIsSaved
<1>2. QED
  BY <1>1, Inductive, PTL

\* No stored setting keeps the third start in a row off the network.
THEOREM SafeModeComes == Spec => []ThirdStartReaches
<1>1. IInv => ThirdStartReaches
  BY DEF IInv
<1>2. QED
  BY <1>1, Inductive, PTL

\* Once the lock is in flash no form, failed write, reset, power failure or safe
\* mode takes it out.
THEOREM LockIsFuse == Spec => LockIsForever
<1>1. IInv /\ [Next]_vars => [nvs[Lock] = 1 => nvs'[Lock] = 1]_vars
  BY FuseHolds DEF IInv
<1>2. QED
  BY <1>1, Inductive, PTL DEF Spec, LockIsForever

=============================================================================
