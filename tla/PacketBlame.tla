----------------------------- MODULE PacketBlame -----------------------------
(***************************************************************************)
(* Receipts over a store-and-forward network of IP routers, made from the  *)
(* log of a simulation (ip-sf/receipts.mjs): the periods in which each     *)
(* link is up, a batch receipt per contact, a gap per outage, and for every*)
(* packet that reached no application who had it last and what became of   *)
(* it. The actions are the entries of the log, each with what the script   *)
(* notes of it; the simulation that writes it is external.                 *)
(***************************************************************************)
EXTENDS Integers, Sequences, FiniteSets, FiniteSetsExt, SequencesExt

CONSTANTS
  Packets, Routers,  \* the packets; a chain of routers, 1 .. Routers
  LinkPlans,         \* sequences of [at, status]: the events of a link
  ReceiptWindow,     \* what a receipt covers of a link without events
  LastLogTime        \* bound

VARIABLES
  linkEvents, \* by link
  logTime,
  place,      \* by packet, where it is: [in, at]
  hops,       \* arrivals: by packet, [node, t]
  inbound,    \* inboundLink: by packet, by node, the link
  transit,    \* lastTransit: by packet, the link, or 0
  drops, lostInTransit

blameVars == <<linkEvents, logTime, place, hops, inbound, transit, drops, lostInTransit>>

\* Link l runs from router l to the next.
IpLinks == 1 .. Routers - 1
EndMs == logTime + 1

\* The periods of a link, up and down in turn from the start of the run.
Periods(events) ==
  LET first == IF events # <<>> /\ events[1].status = "up" THEN "down" ELSE "up"
      s == FoldLeft(LAMBDA acc, e :
                      IF e.status = acc.state THEN acc
                      ELSE [state |-> e.status, since |-> e.at,
                            list |-> Append(acc.list, [status |-> acc.state, from |-> acc.since, to |-> e.at])],
                    [state |-> first, since |-> 0, list |-> <<>>], events)
  IN  Append(s.list, [status |-> s.state, from |-> s.since, to |-> Max({s.since, EndMs})])

\* A link without events is cut into windows.
UpPeriods(events) ==
  IF events = <<>>
  THEN [i \in 1 .. ((EndMs + ReceiptWindow - 1) \div ReceiptWindow) |->
          [from |-> (i - 1) * ReceiptWindow, to |-> Min({i * ReceiptWindow, EndMs})]]
  ELSE SelectSeq(Periods(events), LAMBDA p : p.status = "up")

Gaps(events) ==
  {p \in ToSet(Periods(events)) : events # <<>> /\ p.status = "down" /\ p.to > p.from}

\* windowOf: the contact of a time, 0 for none.
ContactOf(l, t) ==
  LET in == {i \in DOMAIN UpPeriods(linkEvents[l]) :
               UpPeriods(linkEvents[l])[i].from <= t /\ t <= UpPeriods(linkEvents[l])[i].to}
  IN  IF in = {} THEN 0 ELSE Min(in)

\* Whether the simulation has the link up once the events up to t are over.
UpAfter(l, t) ==
  LET past == {i \in DOMAIN linkEvents[l] : linkEvents[l][i].at <= t}
  IN  IF linkEvents[l] = <<>> THEN TRUE
      ELSE IF past = {} THEN linkEvents[l][1].status = "down"
      ELSE linkEvents[l][Max(past)].status = "up"

BlameInit ==
  /\ linkEvents \in [IpLinks -> LinkPlans]
  /\ logTime = 0
  /\ place = [p \in Packets |-> [in |-> "nowhere", at |-> 0]]
  /\ hops = [p \in Packets |-> <<>>]
  /\ inbound = [p \in Packets |-> [n \in 1 .. Routers |-> 0]]
  /\ transit = [p \in Packets |-> 0]
  /\ drops = {} /\ lostInTransit = {}

LogTick ==
  /\ logTime < LastLogTime /\ logTime' = logTime + 1
  /\ UNCHANGED <<linkEvents, place, hops, inbound, transit, drops, lostInTransit>>

\* packetInNode of a packet that was never on a link: it is created there.
Created(p) ==
  /\ place[p].in = "nowhere"
  /\ place' = [place EXCEPT ![p] = [in |-> "node", at |-> 1]]
  /\ UNCHANGED <<linkEvents, logTime, hops, inbound, transit, drops, lostInTransit>>

\* packetInTransit
InTransit(p) ==
  /\ place[p].in = "node" /\ place[p].at < Routers
  /\ place' = [place EXCEPT ![p] = [in |-> "link", at |-> place[p].at]]
  /\ transit' = [transit EXCEPT ![p] = place[p].at]
  /\ UNCHANGED <<linkEvents, logTime, hops, inbound, drops, lostInTransit>>

\* packetInNode after a link: an arrival, also of one dropped right there.
InNode(p) ==
  LET n == place[p].at + 1
  IN  /\ place[p].in = "link" /\ (UpAfter(n - 1, logTime) \/ UpAfter(n - 1, logTime - 1))
      /\ hops' = [hops EXCEPT ![p] = Append(@, [node |-> n, t |-> logTime])]
      /\ inbound' = [inbound EXCEPT ![p][n] = transit[p]]
      /\ \/ place' = [place EXCEPT ![p] = [in |-> "node", at |-> n]] /\ UNCHANGED drops
         \/ /\ place' = [place EXCEPT ![p] = [in |-> "dropped", at |-> n]]
            /\ drops' = drops \cup {[packet |-> p, node |-> n, reason |-> "DroppedOnArrival"]}
      /\ UNCHANGED <<linkEvents, logTime, transit, lostInTransit>>

\* packetDropped: its buffer is full or cleared.
Dropped(p) ==
  /\ place[p].in = "node"
  /\ place' = [place EXCEPT ![p].in = "dropped"]
  /\ drops' = drops \cup {[packet |-> p, node |-> place[p].at, reason |-> "buffer"]}
  /\ UNCHANGED <<linkEvents, logTime, hops, inbound, transit, lostInTransit>>

\* packetLostInTransit: the link is down.
LostInTransit(p) ==
  /\ place[p].in = "link" /\ ~UpAfter(place[p].at, logTime)
  /\ place' = [place EXCEPT ![p].in = "lost"]
  /\ lostInTransit' = lostInTransit \cup {[packet |-> p, link |-> place[p].at, t |-> logTime]}
  /\ UNCHANGED <<linkEvents, logTime, hops, inbound, transit, drops>>

\* packetDeliveredToApplication
DeliveredToApplication(p) ==
  /\ place[p] = [in |-> "node", at |-> Routers]
  /\ place' = [place EXCEPT ![p].in = "delivered"]
  /\ UNCHANGED <<linkEvents, logTime, hops, inbound, transit, drops, lostInTransit>>

BlameNext ==
  \/ LogTick
  \/ \E p \in Packets : \/ Created(p) \/ InTransit(p) \/ InNode(p) \/ Dropped(p)
                        \/ LostInTransit(p) \/ DeliveredToApplication(p)

-----------------------------------------------------------------------------
(* What the script makes of the log.                                       *)

\* One batch receipt per router, link and window.
ArrivalsOf(p) == {[packet |-> p, node |-> hops[p][i].node, t |-> hops[p][i].t] : i \in DOMAIN hops[p]}

GroupOf(a) ==
  LET link == inbound[a.packet][a.node] IN [node |-> a.node, link |-> link, w |-> ContactOf(link, a.t)]

Batches ==
  LET all == UNION {ArrivalsOf(p) : p \in Packets}
      of(g) == {a \in all : GroupOf(a) = g}
  IN  {[group |-> g, prevHop |-> g.link, ids |-> {a.packet : a \in of(g)},
        from |-> Min({a.t : a \in of(g)}), to |-> Max({a.t : a \in of(g)})] : g \in {GroupOf(a) : a \in all}}

\* Fault: the first router that signed is named, not the last.
BlameFirst(p) ==
  IF hops[p] = <<>>
  THEN [who |-> 1, why |-> IF transit[p] = 0 THEN "not yet sent" ELSE "in flight"]
  ELSE [who |-> Head(hops[p]).node, why |-> "held"]

\* Attribution of a packet that was not delivered.
Blame(p) ==
  LET who == Last(hops[p]).node
      lost == \E x \in lostInTransit : x.packet = p
  IN  IF hops[p] = <<>>
      THEN [who |-> 1, why |-> IF transit[p] = 0 THEN "not yet sent"
                               ELSE IF lost THEN "lost" ELSE "in flight"]
      ELSE [who |-> who, why |-> IF \E d \in drops : d.packet = p /\ d.node = who THEN "dropped"
                                 ELSE IF lost THEN "lost" ELSE "held"]

-----------------------------------------------------------------------------

\* A packet that reached no application is laid to the router that had it
\* last, with what became of it there: dropped, lost on the link behind that
\* router, or still with it (receipts.mjs:14-16). What it cannot tell apart is
\* named: a packet dropped where it was created was "not yet sent", and one in
\* flight after its first link was "held".
LastIsBlamed ==
  \A p \in Packets : place[p].in \notin {"nowhere", "delivered"} =>
    LET b == Blame(p)
    IN  /\ b.who = place[p].at
        /\ place[p].in = "lost" <=> b.why = "lost"
        /\ b.why = "lost" => \E x \in lostInTransit : x.packet = p
        /\ \A x \in lostInTransit : x.packet = p => x.link = b.who
        /\ b.why = "dropped" => place[p].in = "dropped"
        /\ place[p].in = "dropped" => b.why = (IF b.who = 1 THEN "not yet sent" ELSE "dropped")
        /\ place[p].in = "link" <=> b.why = "in flight" \/ (b.why = "held" /\ transit[p] = b.who)

\* What was lost on a link was lost within an outage for which there is a gap
\* record; and a batch receipt names the link its packets came over and a
\* contact of it that spans all their arrivals.
OutagesAreOnRecord ==
  /\ \A x \in lostInTransit : \E g \in Gaps(linkEvents[x.link]) : g.from <= x.t /\ x.t <= g.to
  /\ \A b \in Batches :
       /\ b.prevHop = b.group.node - 1 /\ b.group.w # 0
       /\ LET window == UpPeriods(linkEvents[b.group.link])[b.group.w]
          IN  window.from <= b.from /\ b.to <= window.to
=============================================================================
