----------------------------- MODULE MCSettings -----------------------------
(* The password, the lock and a pin, in the order of the table.             *)
EXTENDS Settings

CONSTANTS pass, lock, pin

ShortTable == <<pass, lock, pin>>
=============================================================================
