---------------------------- MODULE MCEventStream ----------------------------
(***************************************************************************)
(* Instances of EventStream for TLC.  Besides the worker, two threads put  *)
(* for a client that stays on one stream, or one, a pump or a caller, for  *)
(* a client that comes back.                                               *)
(***************************************************************************)
EXTENDS EventStream

CONSTANTS stdout, stderr, http, s1, s2

MCCasts ==
  {[threads |-> {stdout}, puts |-> 2, streams |-> {s1, s2}],
   [threads |-> {http}, puts |-> 1, streams |-> {s1, s2}],
   [threads |-> {stdout}, puts |-> 3, streams |-> {s1}],
   [threads |-> {stdout, stderr}, puts |-> 2, streams |-> {s1}],
   [threads |-> {stdout, http}, puts |-> 2, streams |-> {s1}]}
=============================================================================
