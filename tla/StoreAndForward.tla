--------------------------- MODULE StoreAndForward ---------------------------
(***************************************************************************)
(* What a gateway promises for its DTN link: bundles are forwarded once    *)
(* and in the order in which they were stored, whatever happens to the     *)
(* processes and connections in between.                                   *)
(***************************************************************************)
EXTENDS Naturals, Sequences

VARIABLES
  stored,     \* the bundles stored so far, in order
  forwarded   \* the bundles the peer has in full

Init == stored = <<>> /\ forwarded = {}

\* One payload is stored as one bundle or more.
Store ==
  /\ Len(stored') > Len(stored)
  /\ SubSeq(stored', 1, Len(stored)) = stored
  /\ UNCHANGED forwarded

Forward ==
  /\ \E i \in DOMAIN stored :
       /\ stored[i] \notin forwarded
       /\ \A j \in 1 .. (i - 1) : stored[j] \in forwarded
       /\ forwarded' = forwarded \cup {stored[i]}
  /\ UNCHANGED stored

Spec == Init /\ [][Store \/ Forward]_<<stored, forwarded>>
=============================================================================
