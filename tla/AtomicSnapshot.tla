--------------------------- MODULE AtomicSnapshot ---------------------------
(***************************************************************************)
(* What the interrupt-to-task handoffs of the firmware promise: the        *)
(* interrupt replaces a snapshot as a whole, and the task, when it takes   *)
(* one, takes the newest one as a whole.  Snapshots are numbered in the    *)
(* order they are published.                                               *)
(***************************************************************************)
EXTENDS Naturals

VARIABLES
  latest,      \* number of the newest published snapshot, 0 before the first
  delivered    \* number of the snapshot the task took last, 0 before the first

vars == <<latest, delivered>>

Init == latest = 0 /\ delivered = 0

\* The interrupt publishes the next snapshot.
Publish == latest' = latest + 1 /\ UNCHANGED delivered

\* The task takes the newest snapshot, unless it already has it.
Take == delivered # latest /\ delivered' = latest /\ UNCHANGED latest

Next == Publish \/ Take

Spec == Init /\ [][Next]_vars
=============================================================================
