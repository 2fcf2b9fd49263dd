------------------------------ MODULE Settings ------------------------------
(***************************************************************************)
(* The settings in flash (components/config/config_store.c), the form that *)
(* edits them (WebServer::handleConfigPost in components/webui), the       *)
(* one-way lock, and the start counter that leads to safe mode             *)
(* (main/app_main.cpp).                                                    *)
(*                                                                         *)
(* A form is any tokens in any order, from the device's own page or not.   *)
(* handleConfigPost stages them one at a time, and the first that is       *)
(* refused ends the form.                                                  *)
(* Flash keeps what nvs_set returned success for.  Any write of a field    *)
(* may fail, and the power may fail between any two; the start counter is  *)
(* taken to be written when it is asked to be, and flash to be readable.   *)
(***************************************************************************)
EXTENDS Naturals, Sequences

CONSTANTS
  Table,        \* the fields in the order of g_cfg_fields
  Pass, Lock,   \* ui.pass and ui.lock
  Pin,          \* a wiring setting: in range, 1 takes the device off the network
  Absent,       \* no value in flash
  SafeModeFails,   \* CFG_SAFE_MODE_FAILS (3)
  MaxBoots      \* bound on starts

Fields == {Table[i] : i \in 1..Len(Table)}
Default == 0      \* the build-time value; of ui.pass, none
OutOfRange == 2
Values == {Default, 1}

\* No field is in the table twice, and ui.pass comes before ui.lock.
ASSUME TableAssumption ==
  /\ Table \in Seq(Fields)
  /\ \A i, j \in 1..Len(Table) : Table[i] = Table[j] => i = j
  /\ \E i, j \in 1..Len(Table) : i < j /\ Table[i] = Pass /\ Table[j] = Lock
  /\ Pin \in Fields \ {Pass, Lock} /\ Absent \notin Values
\* The start counter is a byte.
ASSUME BoundAssumption == SafeModeFails \in 2..255 /\ MaxBoots \in Nat

VARIABLES
  nvs,        \* the stored settings
  bootFail,   \* "boot.fail"
  pc,         \* where the device is
  safe,       \* s_safe
  val,        \* s_val
  fdirty,     \* s_fdirty
  dirty,      \* s_dirty
  stored,     \* s_stored
  next,       \* the field cfg_commit is at
  changed,    \* handleConfigPost's changed
  reached,    \* did this start reach the network?
  silent,     \* history: starts in a row that have not reached the network
  boots,
  unchecked,       \* history: the password was removed, or the lock staged past its
                   \* check, since a ui.lock was last accepted by the check
  uncheckedCommit  \* history: and so it was when the last form was committed

ramVars  == <<safe, val, fdirty, dirty, stored, next, changed, unchecked>>
bootVars == <<bootFail, reached, silent, boots>>
vars == <<nvs, pc, ramVars, bootVars, uncheckedCommit>>

Loaded(f) == IF nvs[f] = Absent THEN Default ELSE nvs[f]

Off ==
  /\ pc' = "off" /\ reached' = FALSE
  /\ safe' = FALSE /\ val' = [f \in Fields |-> Default]
  /\ fdirty' = {} /\ dirty' = FALSE /\ stored' = {} /\ next' = 1 /\ changed' = FALSE
  /\ unchecked' = FALSE

Init ==
  /\ nvs = [f \in Fields |-> Absent] /\ bootFail = 0
  /\ pc = "off" /\ reached = FALSE
  /\ safe = FALSE /\ val = [f \in Fields |-> Default]
  /\ fdirty = {} /\ dirty = FALSE /\ stored = {} /\ next = 1 /\ changed = FALSE
  /\ silent = 0 /\ boots = 0 /\ unchecked = FALSE /\ uncheckedCommit = FALSE

-----------------------------------------------------------------------------
(* Start-up.                                                               *)

SafeAfterOneMore(n) == n > SafeModeFails
SafeMode(n) == n >= SafeModeFails

\* cfg_boot_begin and cfg_init: in safe mode flash is not read, and no field
\* counts as stored.
Boot ==
  /\ pc = "off" /\ boots < MaxBoots /\ boots' = boots + 1
  /\ LET n == IF bootFail < 255 THEN bootFail + 1 ELSE bootFail
     IN  /\ bootFail' = n /\ safe' = SafeMode(n)
         /\ val' = IF SafeMode(n) THEN [f \in Fields |-> Default] ELSE [f \in Fields |-> Loaded(f)]
         /\ stored' = IF SafeMode(n) THEN {} ELSE {f \in Fields : nvs[f] # Absent}
  /\ silent' = silent + 1
  /\ pc' = "starting"
  /\ UNCHANGED <<nvs, fdirty, dirty, next, changed, reached, unchecked, uncheckedCommit>>

\* Five seconds on, an address means that the start reached the network.  An
\* address that comes later serves as well, and clears nothing.
Settle ==
  /\ pc = "starting" /\ pc' = "up"
  /\ \/ /\ val[Pin] = Default /\ reached' = TRUE /\ silent' = 0
        /\ bootFail' \in {0, bootFail}
     \/ /\ val[Pin] # Default /\ UNCHANGED <<reached, silent, bootFail>>
  /\ UNCHANGED <<nvs, ramVars, boots, uncheckedCommit>>

-----------------------------------------------------------------------------
(* The form.                                                               *)

LockedInRam == val[Lock] = 1

\* cfg_locked reads flash, whatever the mode.
Locked == nvs[Lock] = 1

Refused(s) == [s EXCEPT !.ok = FALSE]

Changed(s, f, v) ==
  IF s.val[f] = v THEN s
  ELSE [s EXCEPT !.val[f] = v, !.fdirty = @ \cup {f}, !.dirty = TRUE]

StagedLockFree(s, f, v, plain) ==
  IF v = OutOfRange THEN Refused(s)
  ELSE IF f = Pass /\ v = Default THEN s
  ELSE Changed(s, f, v)

\* cfg_stage: a value has its range, an empty password means the one there is, and
\* a lock needs a password.  The check for that looks at the first character of the
\* value only: 1 may also be spelled so that it does not begin with a 1.
Staged(s, f, v, plain) ==
  IF v = OutOfRange \/ (f = Lock /\ v = 1 /\ plain /\ s.val[Pass] = Default) THEN Refused(s)
  ELSE IF f = Pass /\ v = Default THEN s
  ELSE Changed(s, f, v)

Draft == [val |-> val, fdirty |-> fdirty, dirty |-> dirty, ok |-> TRUE]

Post ==
  /\ pc = "up" /\ reached /\ ~Locked
  /\ pc' = "stage"
  /\ UNCHANGED <<nvs, ramVars, bootVars, uncheckedCommit>>

\* The next token: a field and a value.  What was staged before a bad one stays.
StageField ==
  /\ pc = "stage"
  /\ \E f \in Fields, v \in Values \cup {OutOfRange}, plain \in BOOLEAN :
       LET s == Staged(Draft, f, v, plain)
       IN  /\ val' = s.val /\ fdirty' = s.fdirty /\ dirty' = s.dirty
           /\ pc' = IF s.ok THEN "stage" ELSE "up"
           /\ unchecked' = IF s.ok /\ f = Lock THEN v = 1 /\ ~plain ELSE unchecked
  /\ UNCHANGED <<nvs, safe, stored, next, changed, bootVars, uncheckedCommit>>

\* Or ui.pass.clr, which cfg_clear does whatever the lock.  The text of other fields
\* can be removed as well, unchecked: one more value they may have.
ClearPassword ==
  /\ pc = "stage"
  /\ LET s == Changed(Draft, Pass, Default)
     IN  val' = s.val /\ fdirty' = s.fdirty /\ dirty' = s.dirty
  /\ unchecked' = (unchecked \/ val[Pass] # Default)
  /\ UNCHANGED <<nvs, pc, safe, stored, next, changed, bootVars, uncheckedCommit>>

FormStaged ==
  /\ pc = "stage"
  /\ pc' = "commit" /\ next' = 1 /\ changed' = dirty /\ uncheckedCommit' = unchecked
  /\ UNCHANGED <<nvs, safe, val, fdirty, dirty, stored, unchecked, bootVars>>

-----------------------------------------------------------------------------
(* cfg_commit, one write at a time.                                        *)

Due(f) == f \in fdirty \/ f \notin stored

SkipField ==
  /\ pc = "commit" /\ next <= Len(Table) /\ ~Due(Table[next])
  /\ next' = next + 1
  /\ UNCHANGED <<nvs, pc, safe, val, fdirty, dirty, stored, changed, bootVars, unchecked,
                 uncheckedCommit>>

WriteField ==
  /\ pc = "commit" /\ next <= Len(Table)
  /\ LET f == Table[next] IN
       Due(f) /\ nvs' = [nvs EXCEPT ![f] = val[f]] /\ stored' = stored \cup {f}
  /\ next' = next + 1
  /\ UNCHANGED <<pc, safe, val, fdirty, dirty, changed, bootVars, unchecked, uncheckedCommit>>

WriteFailsCleared ==
  /\ pc = "commit" /\ next <= Len(Table) /\ Due(Table[next])
  /\ pc' = "up" /\ next' = 1 /\ changed' = FALSE /\ fdirty' = {} /\ dirty' = FALSE
  /\ UNCHANGED <<nvs, safe, val, stored, bootVars, unchecked, uncheckedCommit>>

WriteFailsUndirtied ==
  /\ pc = "commit" /\ next <= Len(Table) /\ Due(Table[next])
  /\ pc' = "up" /\ next' = 1 /\ changed' = FALSE /\ dirty' = FALSE
  /\ UNCHANGED <<nvs, safe, val, fdirty, stored, bootVars, unchecked, uncheckedCommit>>

\* A write that fails, or nvs_commit after the last, ends the commit: what was
\* staged stays dirty, written or not.
WriteFails ==
  /\ pc = "commit" /\ (next <= Len(Table) => Due(Table[next]))
  /\ pc' = "up" /\ next' = 1 /\ changed' = FALSE
  /\ UNCHANGED <<nvs, safe, val, fdirty, dirty, stored, bootVars, unchecked, uncheckedCommit>>

\* Committed: a change restarts the device.
Committed ==
  /\ pc = "commit" /\ next > Len(Table)
  /\ IF changed THEN Off
     ELSE /\ pc' = "up" /\ next' = 1 /\ fdirty' = {} /\ dirty' = FALSE
          /\ UNCHANGED <<safe, val, stored, changed, reached, unchecked>>
  /\ UNCHANGED <<nvs, bootFail, silent, boots, uncheckedCommit>>

\* /factory-reset erases the namespace, start counter and all, and restarts the
\* device even when the erasure failed.
FactoryReset ==
  /\ pc = "up" /\ reached /\ ~Locked
  /\ \/ nvs' = [f \in Fields |-> Absent] /\ bootFail' = 0
     \/ UNCHANGED <<nvs, bootFail>>
  /\ Off /\ UNCHANGED <<silent, boots, uncheckedCommit>>

PowerFails ==
  /\ pc # "off"
  /\ Off /\ UNCHANGED <<nvs, bootFail, silent, boots, uncheckedCommit>>

-----------------------------------------------------------------------------
Form == Post \/ StageField \/ ClearPassword \/ FormStaged

Commit == SkipField \/ WriteField \/ WriteFails \/ Committed

Next == Boot \/ Settle \/ Form \/ Commit \/ FactoryReset \/ PowerFails

Spec == Init /\ [][Next]_vars

-----------------------------------------------------------------------------
WordsOK ==
  /\ nvs \in [Fields -> Values \cup {Absent}] /\ val \in [Fields -> Values]
  /\ fdirty \subseteq Fields /\ stored \subseteq Fields
  /\ next \in 1..(Len(Table) + 1) /\ bootFail \in 0..255
  /\ silent \in Nat /\ boots \in 0..MaxBoots

FlagsOK ==
  /\ pc \in {"off", "starting", "up", "stage", "commit"}
  /\ safe \in BOOLEAN /\ dirty \in BOOLEAN /\ changed \in BOOLEAN /\ reached \in BOOLEAN
  /\ unchecked \in BOOLEAN /\ uncheckedCommit \in BOOLEAN
  /\ (fdirty # {} => dirty)

TypeOK == WordsOK /\ FlagsOK

\* "The lock is a fuse": once in flash it stays, through safe mode, failed
\* writes and power failures.
LockIsForever == [][nvs[Lock] = 1 => nvs'[Lock] = 1]_vars

\* "Needs a password set first": a lock in flash has a password in flash, whatever
\* earlier forms left staged and wherever a commit was cut short, unless the form
\* that committed it went past the check: it removed the password and sent no
\* ui.lock after that, or spelled the lock's value so that the check does not see
\* it.  The page's own forms do neither: ui.lock comes after ui.pass and its
\* removal, as 0 and then as 1.
LockHasPassword == ~uncheckedCommit => (nvs[Lock] = 1 => nvs[Pass] = 1)

\* What the device runs on, with nothing left to save, is what its next start
\* will load: a commit that failed half way is never taken for done.
SavedIsSaved ==
  pc = "up" /\ ~safe /\ ~dirty => \A f \in Fields : val[f] = Loaded(f)

\* "Interrupt startup twice; the third boot ignores stored settings": no stored
\* setting keeps the third start in a row off the network.
ThirdStartReaches == pc = "up" /\ ~reached => silent < SafeModeFails

=============================================================================
