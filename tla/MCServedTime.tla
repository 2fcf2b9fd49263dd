---------------------------- MODULE MCServedTime ----------------------------
\* Instances of ServedTime for TLC.
EXTENDS ServedTime
=============================================================================
