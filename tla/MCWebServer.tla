---------------------------- MODULE MCWebServer ----------------------------
(* A short and a long page request, a form, and a form that does not fit.   *)
EXTENDS WebServer

Shapes ==
  {[hdr |-> 1, body |-> 0, post |-> FALSE], [hdr |-> 3, body |-> 0, post |-> FALSE],
   [hdr |-> 2, body |-> 1, post |-> TRUE],  [hdr |-> 2, body |-> 2, post |-> TRUE]}
=============================================================================
