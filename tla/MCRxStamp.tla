----------------------------- MODULE MCRxStamp -----------------------------
\* Instances of RxStamp for TLC.
EXTENDS RxStamp
=============================================================================
