----------------------------- MODULE MCNtpReply -----------------------------
(* Two clients that share a bucket and one that has its own.                *)
EXTENDS NtpReply, TLC

CONSTANTS ann, bob, cyd, k1, k2

SharedHash == (ann :> k1) @@ (bob :> k1) @@ (cyd :> k2)
=============================================================================
