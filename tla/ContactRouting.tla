--------------------------- MODULE ContactRouting ---------------------------
(* Contact graph routing (ssi/cgr.mjs): the earliest arrival of a bundle     *)
(* over a plan of contacts, each open from start to end at a rate and a      *)
(* light time, by Dijkstra's algorithm over arrival times. On the first hop  *)
(* a transmission waits for the ones already planned on that contact.        *)
EXTENDS Integers, FiniteSets, Sequences, SequencesExt, FiniteSetsExt

CONSTANTS Nodes, Unreached

ASSUME RoutingAssumption == IsFiniteSet(Nodes) /\ Unreached \in Nat

ContactSet ==
  [from : Nodes, to : Nodes, start : Nat, end : Nat, rate : Nat \ {0}, owlt : Nat]

\* How long `bytes` take on a contact, rounded up to the tick.
TxTime(c, bytes) == (bytes + c.rate - 1) \div c.rate

\* Departure and arrival over contact c, ready at its start from time t on;
\* free is when the contact's planned transmissions end.
Departure(c, t, free) ==
  LET latest(x, y) == IF x < y THEN y ELSE x IN latest(latest(t, c.start), free)

Fits(c, t, free, bytes) ==
  /\ t < c.end
  /\ Departure(c, t, free) + TxTime(c, bytes) <= c.end

Arrival(c, t, free, bytes) == Departure(c, t, free) + TxTime(c, bytes) + c.owlt

----------------------------------------------------------------------------
(* The state of the search: the nodes met, in the order in which they were   *)
(* met, the best arrival and the contact of each, and the nodes done.        *)

Start(node, t) ==
  [order |-> <<node>>, arr |-> [n \in Nodes |-> IF n = node THEN t ELSE Unreached],
   via |-> [n \in Nodes |-> 0], done |-> {}]

\* The node met first among those not done that are reached soonest.
Nearest(s) ==
  LET open == {i \in DOMAIN s.order : s.order[i] \notin s.done}
      best == {i \in open : \A j \in open : s.arr[s.order[i]] <= s.arr[s.order[j]]}
  IN  IF open = {} THEN 0 ELSE CHOOSE i \in best : \A j \in best : i <= j

\* Fault: what is already planned on the first contact is forgotten.
RelaxAtOnce(contacts, nextFree, node, bytes, exclude, u, s, i) ==
  LET c == contacts[i]
      a == Arrival(c, s.arr[u], 0, bytes)
  IN  IF /\ c.from = u
         /\ c.to \notin s.done \cup exclude
         /\ Fits(c, s.arr[u], 0, bytes)
         /\ a < s.arr[c.to]
      THEN [s EXCEPT !.arr[c.to] = a, !.via[c.to] = i,
                     !.order = IF Contains(@, c.to) THEN @ ELSE Append(@, c.to)]
      ELSE s

Relax(contacts, nextFree, node, bytes, exclude, u, s, i) ==
  LET c == contacts[i]
      free == IF u = node THEN nextFree[i] ELSE 0
      a == Arrival(c, s.arr[u], free, bytes)
  IN  IF /\ c.from = u
         /\ c.to \notin s.done \cup exclude
         /\ Fits(c, s.arr[u], free, bytes)
         /\ a < s.arr[c.to]
      THEN [s EXCEPT !.arr[c.to] = a, !.via[c.to] = i,
                     !.order = IF Contains(@, c.to) THEN @ ELSE Append(@, c.to)]
      ELSE s

\* One turn of the loop: nothing more happens once dst is the nearest node.
Settle(contacts, nextFree, node, dst, bytes, exclude, s) ==
  LET i == Nearest(s)
  IN  IF i = 0 \/ s.order[i] = dst THEN s
      ELSE FoldLeft(LAMBDA acc, j :
                      Relax(contacts, nextFree, node, bytes, exclude, s.order[i], acc, j),
                    [s EXCEPT !.done = @ \cup {s.order[i]}],
                    [j \in DOMAIN contacts |-> j])

\* The whole search: as many turns as there are nodes to be done.
Search(contacts, nextFree, node, dst, t, bytes, exclude) ==
  FoldLeft(LAMBDA acc, i : Settle(contacts, nextFree, node, dst, bytes, exclude, acc),
           Start(node, t), [i \in 1 .. Cardinality(Nodes) |-> i])

\* The contacts by which dst was reached, found from the last one back.
Hops(contacts, via, node, dst) ==
  LET hops[i \in 0 .. Cardinality(Nodes)] ==    \* the last i hops
        IF i = 0 THEN <<>>
        ELSE LET n == IF i = 1 \/ hops[i - 1] = <<>> THEN dst
                      ELSE contacts[Head(hops[i - 1])].from
             IN  IF n = node \/ via[n] = 0 THEN hops[i - 1]
                 ELSE <<via[n]>> \o hops[i - 1]
  IN  hops[Cardinality(Nodes)]

\* The route: the contacts by number, and the arrival; no hops if none exists.
Route(contacts, nextFree, node, dst, t, bytes, exclude) ==
  LET s == Search(contacts, nextFree, node, dst, t, bytes, exclude)
  IN  [found |-> s.arr[dst] < Unreached, arrival |-> s.arr[dst],
       hops |-> IF s.arr[dst] < Unreached THEN Hops(contacts, s.via, node, dst) ELSE <<>>]

----------------------------------------------------------------------------
(* What a route promises, stated without the search: at[k] is how soon the   *)
(* bundle can be at each node with at most k contacts.                       *)

Sooner(contacts, nextFree, node, bytes, exclude, before) ==
  LET free(i) == IF contacts[i].from = node THEN nextFree[i] ELSE 0
      onTo(n) == {i \in DOMAIN contacts :
                    /\ contacts[i].to = n /\ n \notin exclude
                    /\ before[contacts[i].from] < Unreached
                    /\ Fits(contacts[i], before[contacts[i].from], free(i), bytes)}
      arrivals(n) == {Arrival(contacts[i], before[contacts[i].from], free(i), bytes) :
                        i \in onTo(n)}
  IN  [n \in Nodes |-> Min({before[n]} \cup arrivals(n))]

Soonest(contacts, nextFree, node, t, bytes, exclude) ==
  LET at[k \in 0 .. Cardinality(Nodes)] ==
        IF k = 0 THEN Start(node, t).arr
        ELSE Sooner(contacts, nextFree, node, bytes, exclude, at[k - 1])
  IN  at[Cardinality(Nodes)]
============================================================================
