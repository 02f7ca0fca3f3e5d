---------------------------- MODULE MCCh341aUsb ----------------------------
(***************************************************************************)
(* Calls for TLC to check Ch341aUsb with.                                  *)
(***************************************************************************)
EXTENDS Ch341aUsb

\* A command without an answer, one that needs more transfers than the ring has,
\* with a last one that is not full, and one that needs a part of one
MCRequests == {[write |-> 1, read |-> 0], [write |-> 2, read |-> 5], [write |-> 1, read |-> 1]}

=============================================================================
