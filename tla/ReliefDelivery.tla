--------------------------- MODULE ReliefDelivery ---------------------------
(***************************************************************************)
(* What the relief kit promises a clinic and its hub, without the network: *)
(* a report handed to the clinic's node may come out at the hub, only a    *)
(* report that was handed in does, and once out it stays out.              *)
(***************************************************************************)
CONSTANT Payloads

VARIABLES
  handed,     \* reports kept by the clinic's node, ready to be resent
  delivered   \* reports verified and decrypted at the hub

vars == <<handed, delivered>>

Init == handed = {} /\ delivered = {}

Hand(id) ==
  /\ handed' = handed \cup {id}
  /\ UNCHANGED delivered

Deliver(id) ==
  /\ id \in handed
  /\ delivered' = delivered \cup {id}
  /\ UNCHANGED handed

Next == \E id \in Payloads : Hand(id) \/ Deliver(id)

Spec == Init /\ [][Next]_vars
=============================================================================
