----------------------------- MODULE SsiNetwork -----------------------------
(* The running Solar System Internet (ssi/network.mjs): bundles move hop by  *)
(* hop over a plan of contacts, custodians sign receipts and pass on what    *)
(* they know about keys, forwarders only count the hop. One node's key is    *)
(* copied; its operator finds out later, revokes the key and issues another, *)
(* and the news reaches the nodes with the traffic. At the end the receipts  *)
(* are cleared between the operators (ssi/run.mjs, ssi/settle.mjs).          *)
(*                                                                           *)
(* The plan, the traffic and the times of the compromise are inputs, chosen  *)
(* by Init; from then on the events happen in the order of their times.      *)
EXTENDS CustodyReceipts, ContactRouting

CONSTANTS
  Custodians,     \* the nodes that sign
  GroundNodes,    \* the nodes that hear from the operators at once
  Victim,         \* the node whose key is copied
  Root, Issuer, NodeKey,  \* the keys of each operator and of each node
  NewKey,         \* the key the victim is issued after the compromise
  Plans, Traffics, Compromises,   \* the inputs to choose from
  LaunchAt, KeyLife,
  ReceiptBytes, RecordBytes,      \* what a receipt and a record add to a bundle
  MaxPath         \* how many hops a bundle may make

\* The parts of the network, and the keys of the ceremony: all apart, and the
\* anchors are the roots. A chain of issuers has three keys, and a block of
\* records has room for a revocation and a key.
ASSUME NetworkAssumption ==
  /\ IsFiniteSet(Operators) /\ OpOf \in [Nodes -> Operators]
  /\ GroundNodes \subseteq Custodians /\ Custodians \subseteq Nodes /\ Victim \in Custodians
  /\ NoNode \notin Nodes
  /\ Root \in [Operators -> Keys] /\ Issuer \in [Operators -> Keys]
  /\ NodeKey \in [Nodes -> Keys] /\ NewKey \in Keys
  /\ Anchors = {Root[op] : op \in Operators}
  /\ \A op \in Operators :
       /\ Issuer[op] \notin Anchors \cup {NewKey} \cup {NodeKey[n] : n \in Nodes}
       /\ \A other \in Operators : Issuer[op] = Issuer[other] => op = other
  /\ NewKey \notin Anchors
  /\ \A n \in Nodes :
       /\ NodeKey[n] \notin Anchors \cup {NewKey}
       /\ \A other \in Nodes : NodeKey[n] = NodeKey[other] => n = other
  /\ MaxDepth >= 3 /\ MaxBlockRecords >= 2
  /\ MaxPath \in Nat /\ MaxReceipts \in Nat /\ MaxPath + 2 <= MaxReceipts
  /\ ReceiptBytes \in Nat /\ RecordBytes \in Nat
  /\ RatePerByte \in [Operators -> Nat]

\* The inputs: bundles for custodians, set out between the launch and the end
\* of the launch keys, which outlast every contact; the copy is found out after
\* the launch, and no time is as late as Never.
ASSUME InputAssumption ==
  /\ LaunchAt \in Nat /\ KeyLife \in Nat /\ LaunchAt + KeyLife < Never
  /\ Plans \subseteq Seq(ContactSet)
  /\ \A plan \in Plans : \A i \in DOMAIN plan :
       plan[i].end + TxTime(plan[i], ReceiptBytes + RecordBytes * MaxBlockRecords) + plan[i].owlt
         <= LaunchAt + KeyLife
  /\ \A traffic \in Traffics :
       /\ traffic \in Seq(ToSet(traffic))
       /\ \A i \in DOMAIN traffic :
            /\ traffic[i].src \in Nodes /\ traffic[i].dst \in Custodians
            /\ traffic[i].bytes \in Nat \ {0} /\ traffic[i].label # "never sent"
            /\ traffic[i].created \in LaunchAt .. LaunchAt + KeyLife
  /\ \A c \in Compromises :
       /\ c \in [stolenAt : Nat, detectAt : Nat]
       /\ c.stolenAt <= c.detectAt /\ LaunchAt < c.detectAt /\ c.detectAt < Never

VARIABLES
  contacts,       \* the contact plan, a sequence
  compromise,     \* [stolenAt, detectAt]
  queue,          \* the events to come, in the order of their times
  nextFree,       \* when each contact has sent what was given to it
  rings,          \* the key ring of each node
  signer,         \* the key each node signs with now
  switching,      \* has the operator issued the replacement key?
  deliveries, undelivered,
  credited        \* what the clearing credited; <<>> until it is done

inputs == <<contacts, compromise>>
vars == <<contacts, compromise, queue, nextFree, rings, signer, switching,
          deliveries, undelivered, credited>>

StolenKey == NodeKey[Victim]

\* What every node holds at launch: an issuer for each operator, signed by
\* its root, and a key for each node, signed by its operator's issuer.
Provision ==
  {IssueKey(Root[op], op, Issuer[op], {"issue", "revoke"}, LaunchAt, Never - 1, LaunchAt) :
     op \in Operators} \cup
  {IssueKey(Issuer[OpOf[n]], n, NodeKey[n], {"custody"}, LaunchAt, LaunchAt + KeyLife, LaunchAt) :
     n \in Nodes}

LaunchRing == FoldSet(LAMBDA r, ring : Add(ring, r, LaunchAt), <<>>, Provision)

Bundle(tr) ==
  [source |-> tr.src, created |-> tr.label, fragment |-> <<>>, payload |-> tr.label,
   bytes |-> tr.bytes, version |-> 0, receipts |-> <<>>, records |-> <<>>,
   hopCount |-> 0, previous |-> NoNode]

Length(b) ==
  b.bytes + ReceiptBytes * Len(b.receipts) + RecordBytes * Len(b.records)

BumpHopCount(b) == [b EXCEPT !.hopCount = @ + 1]

\* An event joins the queue behind those of its own time.
Push(q, e) ==
  LET i == SelectLastInSeq(q, LAMBDA o : o.t <= e.t)
  IN  SubSeq(q, 1, i) \o <<e>> \o SubSeq(q, i + 1, Len(q))

Arrive(t, node, b, dst, prev, path) ==
  [t |-> t, kind |-> "arrive", node |-> node, b |-> b, dst |-> dst, prev |-> prev,
   path |-> path]

Event(t, kind) == [t |-> t, kind |-> kind]

\* What is going to happen in any case: the bundles set out, the key is copied
\* and the copy is found out.
Scheduled(traffic, cmp) ==
  [i \in DOMAIN traffic |->
     Arrive(traffic[i].created, traffic[i].src, Bundle(traffic[i]), traffic[i].dst,
            traffic[i].src, <<>>)]
    \o <<Event(cmp.stolenAt, "stolen"), Event(cmp.detectAt, "detected")>>

StartQueue(traffic, cmp) == FoldLeft(Push, <<>>, Scheduled(traffic, cmp))

Init ==
  /\ contacts \in Plans
  /\ compromise \in Compromises
  /\ \E traffic \in Traffics : queue = StartQueue(traffic, compromise)
  /\ nextFree = [i \in DOMAIN contacts |-> 0]
  /\ rings = [n \in Nodes |-> LaunchRing]
  /\ signer = NodeKey
  /\ switching = FALSE
  /\ deliveries = <<>> /\ undelivered = <<>> /\ credited = <<>>

----------------------------------------------------------------------------
\* The copy changes nothing in the network.
Compromise ==
  /\ queue # <<>> /\ Head(queue).kind = "stolen"
  /\ queue' = Tail(queue)
  /\ UNCHANGED <<inputs, nextFree, rings, signer, switching, deliveries, undelivered, credited>>

\* The operator revokes the key from the time it was copied, issues another,
\* and publishes both records: the ground has them at once.
News(t) ==
  LET op == OpOf[Victim]
  IN  <<RevokeKey(Issuer[op], StolenKey, compromise.stolenAt, t),
        IssueKey(Issuer[op], Victim, NewKey, {"custody"}, t, t + KeyLife, t)>>

Detect ==
  /\ queue # <<>> /\ Head(queue).kind = "detected"
  /\ queue' = Tail(queue)
  /\ rings' = [n \in Nodes |->
                 IF n \in GroundNodes
                 THEN Ingest(rings[n], News(Head(queue).t), Head(queue).t) ELSE rings[n]]
  /\ switching' = TRUE
  /\ UNCHANGED <<inputs, nextFree, signer, deliveries, undelivered, credited>>

----------------------------------------------------------------------------
\* A bundle arrives: first the node takes in the key records it carries, and
\* the victim goes over to its new key once it has the record.
RingAt(e) == Ingest(rings[e.node], e.b.records, e.t)

\* Fault: the victim does not wait for the record of its new key.
SignerAtOnce(e) == IF e.node = Victim /\ switching THEN NewKey ELSE signer[e.node]

SignerAt(e) ==
  IF e.node = Victim /\ switching /\ NewKey \in PubsFor(RingAt(e), Victim)
  THEN NewKey ELSE signer[e.node]

Learn(e) ==
  /\ rings' = [rings EXCEPT ![e.node] = RingAt(e)]
  /\ signer' = [signer EXCEPT ![e.node] = SignerAt(e)]

Opts(e, forwardedAt) ==
  [prevHop |-> e.prev, receivedAt |-> e.t, forwardedAt |-> forwardedAt,
   chain |-> TRUE, hops |-> TRUE, hopsReleased |-> e.b.hopCount + 1]

\* The ids of the keys issued after launch that the node has heard of.
NewsIds(ring) ==
  LET new == Among(ring, {x \in ToSet(ring) : IsKey(x.rec) /\ x.seenAt > LaunchAt})
  IN  [i \in DOMAIN new |-> new[i].rec.key]

Step(e, depart) ==
  [node |-> e.node, arrive |-> e.t, depart |-> depart,
   signed |-> e.node \in Custodians, key |-> SignerAt(e)]

\* At its destination the bundle gets the last receipt, and is verified there.
Deliver ==
  /\ queue # <<>> /\ Head(queue).kind = "arrive"
  /\ LET e == Head(queue)
         opts == [Opts(e, e.t) EXCEPT !.hopsReleased = e.b.hopCount]
         b == IF e.node \in Custodians THEN Stamp(e.b, SignerAt(e), e.node, opts) ELSE e.b
     IN  /\ e.node = e.dst
         /\ Learn(e)
         /\ deliveries' = Append(deliveries,
              [b |-> b, dst |-> e.dst, path |-> Append(e.path, Step(e, e.t)),
               deliveredAt |-> e.t,
               atDest |-> Verify(b, RingAt(e), e.t, b.source, e.node, <<>>)])
  /\ queue' = Tail(queue)
  /\ UNCHANGED <<inputs, nextFree, switching, undelivered, credited>>

RouteOn(e) ==
  Route(contacts, nextFree, e.node, e.dst, e.t, Length(e.b),
        {e.path[i].node : i \in DOMAIN e.path})

Stuck(e) == ~RouteOn(e).found \/ Len(e.path) > MaxPath

Strand ==
  /\ queue # <<>> /\ Head(queue).kind = "arrive"
  /\ LET e == Head(queue)
     IN  /\ e.node # e.dst /\ Stuck(e)
         /\ Learn(e)
         /\ undelivered' = Append(undelivered,
              [b |-> e.b, dst |-> e.dst, path |-> e.path, stuckAt |-> e.node])
  /\ queue' = Tail(queue)
  /\ UNCHANGED <<inputs, nextFree, switching, deliveries, credited>>

\* A custodian signs and adds its key news; the route was planned for the
\* bundle as it came, and the transmission takes the time of what it became.
Signing(e, depart) ==
  IF e.node \in Custodians
  THEN LET b == Stamp(e.b, SignerAt(e), e.node, Opts(e, depart))
       IN  [b EXCEPT !.records = CarryRecords(@, ForCarriage(RingAt(e), NewsIds(RingAt(e))))]
  ELSE e.b

Forward ==
  /\ queue # <<>> /\ Head(queue).kind = "arrive"
  /\ LET e == Head(queue)
         i == Head(RouteOn(e).hops)
         c == contacts[i]
         depart == Departure(c, e.t, nextFree[i])
         b == BumpHopCount(Signing(e, depart))
         sent == depart + TxTime(c, Length(b))
     IN  /\ e.node # e.dst /\ ~Stuck(e)
         /\ Learn(e)
         /\ nextFree' = [nextFree EXCEPT ![i] = sent]
         /\ queue' = Push(Tail(queue),
              Arrive(sent + c.owlt, c.to, b, e.dst, e.node, Append(e.path, Step(e, depart))))
  /\ UNCHANGED <<inputs, switching, deliveries, undelivered, credited>>

----------------------------------------------------------------------------
(* The end of the period. Whoever holds the copied key also bills for        *)
(* bundles that did not pass the victim (ssi/run.mjs): a receipt added at    *)
(* the end, with a time before the copy or its true time; one put in the     *)
(* place of the last custodian's, under the destination's; one on a bundle   *)
(* that was never delivered; and an honest delivery once more.               *)

Horizon == FoldSeq(LAMBDA d, m : IF d.deliveredAt > m THEN d.deliveredAt ELSE m,
                   compromise.detectAt, deliveries)

Billed(b, at) ==
  Stamp(b, StolenKey, Victim,
        [prevHop |-> IF b.receipts = <<>> THEN b.source ELSE Last(b.receipts).this,
         receivedAt |-> at, forwardedAt |-> at, chain |-> TRUE, hops |-> FALSE,
         hopsReleased |-> 0])

Spliced(b, at) ==
  [b EXCEPT !.receipts =
     Append(Billed([b EXCEPT !.receipts = Front(@)], at).receipts, Last(b.receipts))]

NotVia ==
  Among(deliveries, {d \in ToSet(deliveries) :
          d.dst \in GroundNodes /\ \A i \in DOMAIN d.path : d.path[i].node # Victim})

Before == compromise.stolenAt - 1

Forged(d) ==
  <<Billed(d.b, Before), Billed(d.b, compromise.stolenAt + 1), Spliced(d.b, Before),
    Billed([d.b EXCEPT !.created = "never sent", !.receipts = <<>>], Before), d.b>>

Claims ==
  [i \in DOMAIN deliveries |->
     [bundle |-> deliveries[i].b, arrivedAt |-> deliveries[i].deliveredAt]]
  \o FlattenSeq([i \in DOMAIN NotVia |->
       LET f == Forged(NotVia[i])
       IN  [j \in DOMAIN f |-> [bundle |-> f[j], arrivedAt |-> Horizon]]])

ClearPeriod ==
  /\ queue = <<>> /\ credited = <<>>
  /\ \E house \in GroundNodes :
       /\ OpOf[house] = Owner
       /\ credited' = <<Clear(Claims, rings[house],
                              {Identity(deliveries[i].b) : i \in DOMAIN deliveries})>>
  /\ UNCHANGED <<inputs, queue, nextFree, rings, signer, switching, deliveries, undelivered>>

Next == Compromise \/ Detect \/ Deliver \/ Strand \/ Forward \/ ClearPeriod

Spec == Init /\ [][Next]_vars

----------------------------------------------------------------------------
KnewRevocation(n, t) ==
  \E i \in DOMAIN rings[n] : IsRevocation(rings[n][i].rec) /\ rings[n][i].seenAt < t

\* The news rides with ordinary traffic: once a custodian on a bundle's way
\* knew of the revocation, the bundle's destination knows of it on arrival,
\* whoever forwarded the bundle in between (ssi/network.mjs:96-119).
NewsTravels ==
  \A i \in DOMAIN deliveries :
    LET d == deliveries[i]
    IN  (\E k \in DOMAIN d.path :
           d.path[k].signed /\ KnewRevocation(d.path[k].node, d.path[k].arrive))
        => KnewRevocation(d.dst, d.deliveredAt + 1)

\* A destination refuses a bundle only for a receipt made with the copied key,
\* which it has heard is revoked, on a bundle that came after the copy; and
\* it accepts none signed after the copy once it has heard. So a custodian
\* that changed its key is believed wherever its bundles go
\* (ssi/network.mjs:102-106, transport/bpv7/receipt-v2.mjs:130-188).
DestinationJudges ==
  \A i \in DOMAIN deliveries :
    LET d == deliveries[i]
        copied == {j \in DOMAIN d.b.receipts : d.b.receipts[j].key = StolenKey}
    IN  /\ ~d.atDest.ok => /\ copied # {}
                           /\ compromise.stolenAt <= d.deliveredAt
                           /\ KnewRevocation(d.dst, d.deliveredAt + 1)
        /\ KnewRevocation(d.dst, d.deliveredAt)
           /\ (\E j \in copied : d.b.receipts[j].forwardedAt >= compromise.stolenAt)
           => ~d.atDest.ok

CarriedBy(op) ==
  FoldSeq(LAMBDA d, n :
            d.b.bytes * Cardinality({k \in DOMAIN d.path :
                          d.path[k].signed /\ OpOf[d.path[k].node] = op}) + n,
          0, deliveries)

\* Wherever a bundle is sent on, it takes the way by which it arrives first,
\* among those that do not come back to a node it has passed; and it is given
\* up only where no way is left (ssi/cgr.mjs, ssi/network.mjs:110-111).
RouteIsEarliest ==
  queue # <<>> /\ Head(queue).kind = "arrive" =>
    LET e == Head(queue)
        soonest == Soonest(contacts, nextFree, e.node, e.t, Length(e.b),
                           {e.path[i].node : i \in DOMAIN e.path})
    IN  RouteOn(e).arrival = soonest[e.dst]

\* Of the claims that are made, which are every delivery and the five forgeries of
\* run.mjs:51-61 with the copied key, the clearing credits only what a custodian
\* carried and signed itself, each such carriage once, and what an operator is to
\* be paid comes to no more than its nodes carried (ssi/settle.mjs:31-75).  Claims
\* are not free: the clearing does not compare the bundle that a receipt names
\* with the bundle of the claim, as verifyBundleV2 does (receipt-v2.mjs:150-155).
NothingForged ==
  credited # <<>> =>
    \A c \in credited[1] :
      /\ \E i \in DOMAIN deliveries : \E k \in DOMAIN deliveries[i].path :
           /\ Identity(deliveries[i].b) = c.bundle
           /\ deliveries[i].path[k].node = c.hop /\ deliveries[i].path[k].signed
      /\ \A other \in credited[1] :
           other.bundle = c.bundle /\ other.hop = c.hop => other = c
      /\ \A s \in Payable(Statements(credited[1])) :
           s.amount <= RatePerByte[s.operator] * CarriedBy(s.operator)

\* No forgery among these claims costs an honest custodian anything: each one that
\* carried a delivered bundle and signed with a key that was never copied, or
\* whose bundle was in the owner's hands before the copy, is credited.
HonestEarns ==
  credited # <<>> =>
    \A i \in DOMAIN deliveries : \A k \in DOMAIN deliveries[i].path :
      LET d == deliveries[i]
      IN  /\ d.path[k].signed /\ OpOf[d.path[k].node] # Owner
          /\ d.path[k].key # StolenKey \/ d.deliveredAt < compromise.stolenAt
          => \E c \in credited[1] : c.bundle = Identity(d.b) /\ c.hop = d.path[k].node
============================================================================
