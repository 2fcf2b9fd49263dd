----------------------------- MODULE MCEthLink -----------------------------
(* Two addresses to reserve, a lease of a few seconds.                      *)
EXTENDS EthLink

CONSTANTS a, b
=============================================================================
