------------------------------ MODULE MCSeqlock ------------------------------
(* Three publications of a two-word snapshot; two attempts per call, so that *)
(* a call does give up.                                                      *)
EXTENDS Seqlock
=============================================================================
