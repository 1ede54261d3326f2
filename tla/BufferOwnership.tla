---------------------------- MODULE BufferOwnership ----------------------------
(***************************************************************************)
(* The promise behind a client's frames: a buffer handed to the viz        *)
(* service belongs to the service until it is given back, and the client   *)
(* frees it once, after that.                                              *)
(***************************************************************************)
VARIABLES
  lent,    \* buffers the client has handed over and not freed
  inUse,   \* those the service may still read
  freed    \* buffers the client has freed

vars == <<lent, inUse, freed>>

Init == lent = {} /\ inUse = {} /\ freed = {}

\* The client hands over buffers that were never handed over before.
Lend ==
  LET new == lent' \ lent
  IN  /\ lent \subseteq lent'
      /\ new \cap freed = {}
      /\ inUse' = inUse \cup new
      /\ UNCHANGED freed

\* The service gives buffers back.
GiveBack ==
  /\ inUse' \subseteq inUse
  /\ UNCHANGED <<lent, freed>>

\* The client frees buffers it has got back, each of them once.
Free ==
  LET gone == freed' \ freed
  IN  /\ freed \subseteq freed'
      /\ gone \subseteq lent \ inUse
      /\ lent' = lent \ gone
      /\ UNCHANGED inUse

Next == Lend \/ GiveBack \/ Free

Spec == Init /\ [][Next]_vars
===============================================================================
