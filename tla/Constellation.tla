---------------------------- MODULE Constellation ----------------------------
(***************************************************************************)
(* Custody over a constellation whose routes change on the way             *)
(* (constellation/sim.mjs): satellites in planes, links that come and go   *)
(* by the epoch, stations that see other satellites each epoch.  In every  *)
(* tick every bundle moves one hop towards the nearest satellite that sees *)
(* a station, or waits.  A node keeps one record per neighbour and contact *)
(* and signs it when the contact ends.                                     *)
(*                                                                         *)
(* Which cross-plane links fail, which stations are off and which of       *)
(* several next hops is taken are the simulation's random draws, here any  *)
(* choice.  Of the geometry the range limit is left out (every link of the *)
(* shells that are flown is in range).                                     *)
(***************************************************************************)
EXTENDS Integers, Sequences, FiniteSets, FiniteSetsExt, SequencesExt

(***************************************************************************)
(* The route of one bundle, rebuilt and checked from the records of the    *)
(* nodes that took it (agent/lib/path.mjs, agent/lib/batch.mjs).           *)
(*                                                                         *)
(* A batch is one node's signed record of what it took from one neighbour  *)
(* in one contact: [prevHop, thisHop, contact, from, to, leaves, leafTimes]*)
(* where leaves are the bundles, and leafTimes, when the contact keeps     *)
(* them, says when it took each.  That a signature or an inclusion proof   *)
(* holds is what a batch stands for here; a leaf outside has no proof.     *)
(***************************************************************************)

CONSTANTS
  NoTimes,   \* a batch without leafTimes
  MaxHops    \* the verifier's bound on a path

\* batchReceipt: one signature over the bundles of a contact.
BatchReceipt(prevHop, thisHop, contact, from, to, bundleIds, times) ==
  [prevHop |-> prevHop, thisHop |-> thisHop, contact |-> contact, from |-> from, to |-> to,
   leaves |-> ToSet(bundleIds),
   leafTimes |-> IF times = NoTimes THEN NoTimes
                 ELSE [id \in ToSet(bundleIds) |->
                         times[CHOOSE i \in DOMAIN bundleIds : bundleIds[i] = id]]]

\* batchProof: the time the proof of a bundle carries, if it carries one.
LeafTime(b, id) == IF b.leafTimes = NoTimes THEN NoTimes ELSE b.leafTimes[id]

\* An entry: a batch that holds the bundle, and the times between which the
\* bundle passed, as far as the record tells.
EntryOf(b, id) ==
  LET exact == b.leafTimes # NoTimes
  IN  [prevHop |-> b.prevHop, thisHop |-> b.thisHop, batch |-> b,
       start |-> IF exact THEN LeafTime(b, id) ELSE b.from,
       end |-> IF exact THEN LeafTime(b, id) ELSE b.to]

EntriesFor(batches, id) ==
  LET own == SelectSeq(batches, LAMBDA b : id \in b.leaves)
  IN  [i \in DOMAIN own |-> EntryOf(own[i], id)]

InBatch(b, id) ==
  /\ id \in b.leaves
  /\ b.leafTimes # NoTimes => b.leafTimes[id] \in b.from .. b.to

-----------------------------------------------------------------------------

At(entries, source, walk) ==
  IF walk = <<>> THEN source ELSE entries[Last(walk)].thisHop

Onward(entries, source, walk) ==
  {i \in DOMAIN entries \ ToSet(walk) : entries[i].prevHop = At(entries, source, walk)}

\* The first try: from every node on with the record that begins first.
EarliestStart(entries, source) ==
  LET walk[n \in 0 .. Len(entries)] ==
        IF n = 0 THEN <<>>
        ELSE LET next == Onward(entries, source, walk[n - 1])
                 first == {i \in next : \A j \in next : entries[i].start <= entries[j].start}
             IN  IF next = {} THEN walk[n - 1] ELSE Append(walk[n - 1], Min(first))
  IN  walk[Len(entries)]

\* One time per hop, rising along the walk and inside each record's window.
Feasible(entries, walk) ==
  \A k \in DOMAIN walk : \A j \in 1 .. k :
    entries[walk[j]].start <= entries[walk[k]].end

\* What the search finds: a walk of every record that admits rising times.
Feasibles(entries, source) ==
  LET walks[n \in 0 .. Len(entries)] ==
        IF n = 0 THEN {<<>>}
        ELSE {w \in UNION {{Append(v, i) : i \in Onward(entries, source, v)} : v \in walks[n - 1]} :
                Feasible(entries, w)}
  IN  walks[Len(entries)]

\* assemblePath: the records of one bundle in route order.
AssemblePath(entries, source) ==
  LET out == EarliestStart(entries, source)
      walk == IF \/ Len(out) = Len(entries) /\ Feasible(entries, out)
                 \/ Feasibles(entries, source) = {}
              THEN out ELSE CHOOSE w \in Feasibles(entries, source) : TRUE
  IN  [k \in DOMAIN walk |-> entries[walk[k]]]

\* Fault: the path may end anywhere.
VerifyPathAnywhere(path, id, source, destination) ==
  /\ path # <<>> /\ Len(path) <= MaxHops
  /\ \A k \in DOMAIN path :
       /\ InBatch(path[k].batch, id)
       /\ path[k].prevHop = IF k = 1 THEN source ELSE path[k - 1].thisHop

\* verifyPath: from the source to the destination, hop to hop, every hop
\* covering the bundle, and none ending before the one before it began.
VerifyPath(path, id, source, destination) ==
  /\ path # <<>> /\ Len(path) <= MaxHops
  /\ \A k \in DOMAIN path :
       /\ InBatch(path[k].batch, id)
       /\ path[k].prevHop = IF k = 1 THEN source ELSE path[k - 1].thisHop
       /\ k > 1 => path[k].end >= path[k - 1].start
  /\ path[Len(path)].thisHop = destination

\* verifyAll, for one bundle.
Verifies(batches, id, source, destination) ==
  VerifyPath(AssemblePath(EntriesFor(batches, id), source), id, source, destination)

-----------------------------------------------------------------------------
(* The constellation.                                                      *)

CONSTANTS
  Planes, PerPlane,  \* the grid
  PolarBand,         \* no cross-plane links this close to the poles
  Stations,          \* a sequence of [eid, p, s0], eid a number after the satellites'
  MOC,
  BundleLoad, InjectEpochs, Epochs, TicksPerEpoch,
  Sources,           \* satellites at which bundles start
  AcqTicks,          \* optical: how long a link that came up is acquired
  PerTick,           \* optical: bundles a link takes in a tick
  MaxOutages         \* bound: links and stations that fail in an epoch

ASSUME ConstellationAssumption ==
  /\ {Planes, PerPlane, InjectEpochs, Epochs, TicksPerEpoch} \subseteq Nat \ {0}
  /\ {PolarBand, BundleLoad, AcqTicks, PerTick, MaxOutages} \subseteq Nat

VARIABLES
  links,     \* "rf" or "optical"
  stage,     \* "epoch", "inject", "tick" or "over"
  epoch, tick,
  cursor,    \* the bundle whose turn it is in this tick
  topo,      \* this epoch's links, what each satellite sees, the cross-links
  acquiring, \* cross-links that came up and are not acquired yet
  load,      \* bundles sent over each link in this tick
  inflight, done,
  received,  \* the records that are still open
  batches    \* the records signed

flight == <<links, stage, epoch, tick, cursor, topo, acquiring, load, inflight, done,
            received, batches>>

Id(p, s) == p * PerPlane + s
Sats == 0 .. Planes * PerPlane - 1
Pair(a, b) == {a, b}

Polar(s, e) ==
  LET phase == (s + e) % PerPlane
      opposite == 2 * phase - PerPlane
  IN  phase < PolarBand \/ (-2 * PolarBand < opposite /\ opposite < 2 * PolarBand)

InPlane == {Pair(Id(p, s), Id(p, (s + 1) % PerPlane)) : p \in 0 .. Planes - 1, s \in 0 .. PerPlane - 1}

CrossPlane(e) ==
  {Pair(Id(p, s), Id(p + 1, s)) :
     p \in 0 .. Planes - 2, s \in {x \in 0 .. PerPlane - 1 : ~Polar(x, e)}}

\* A station sees the satellites of its plane and the next that pass over it;
\* the last of the stations has a satellite that several see.
Sees(online, e) ==
  LET over(g) == {Id(g.p + dp, (g.s0 + e) % PerPlane) :
                    dp \in {d \in {0, 1} : g.p + d < Planes}}
  IN  [i \in UNION {over(online[k]) : k \in DOMAIN online} |->
         online[Max({k \in DOMAIN online : i \in over(online[k])})].eid]

\* distances: how far each satellite is from one that sees a station, -1 if
\* it is cut off.
Distances(adj, sees) ==
  LET within[h \in 0 .. Cardinality(Sats)] ==
        IF h = 0 THEN DOMAIN sees
        ELSE LET near == within[h - 1]
             IN  near \cup {i \in Sats : \E n \in near : Pair(i, n) \in adj}
      hops(i) == {h \in DOMAIN within : i \in within[h]}
  IN  [i \in Sats |-> IF hops(i) = {} THEN -1 ELSE Min(hops(i))]

\* topology: the links of an epoch.
Topology(e, failed, off) ==
  LET cross == CrossPlane(e) \ failed
      adj == InPlane \cup cross
      sees == Sees(SelectSeq(Stations, LAMBDA g : g.eid \notin off), e)
  IN  [adj |-> adj, cross |-> cross, sees |-> sees, dist |-> Distances(adj, sees)]

Adjacent(i) == {n \in Sats : Pair(i, n) \in topo.adj}

-----------------------------------------------------------------------------

Optical == links = "optical"

\* sign: the record of a contact, with each bundle's time if it is optical.
Sign(r, n) ==
  BatchReceipt(r.prev, r.node, <<r.e, n>>, r.from, r.to, r.ids,
               IF Optical THEN r.times ELSE NoTimes)

SignAll(rs) == [i \in DOMAIN rs |-> Sign(rs[i], 0)]

Fresh(node, prev, t, e) ==
  [node |-> node, prev |-> prev, ids |-> <<>>, times |-> <<>>, from |-> t, to |-> t, e |-> e]

Extended(r, id, t) ==
  [r EXCEPT !.ids = Append(@, id), !.times = Append(@, t), !.to = Max({@, t}),
            !.from = Min({@, t})]

Mine(node, prev) == {i \in DOMAIN received : received[i].node = node /\ received[i].prev = prev}

\* Fault: a second pass over the same link goes into the same record.
TakeAgain(node, prev, id, t) ==
  /\ received' = IF Mine(node, prev) = {} THEN Append(received, Extended(Fresh(node, prev, t, epoch), id, t))
                 ELSE [received EXCEPT ![Min(Mine(node, prev))] = Extended(@, id, t)]
  /\ UNCHANGED batches

\* take: into the open record of this neighbour, unless the bundle is in it
\* already, having come back over the same link: then that record is signed
\* and a new one begun.
Take(node, prev, id, t) ==
  LET again == {i \in Mine(node, prev) : id \in ToSet(received[i].ids)}
      fresh == Extended(Fresh(node, prev, t, epoch), id, t)
  IN  \/ /\ Mine(node, prev) = {}
         /\ received' = Append(received, fresh)
         /\ UNCHANGED batches
      \/ \E i \in Mine(node, prev) \ again :
           /\ received' = [received EXCEPT ![i] = Extended(@, id, t)]
           /\ UNCHANGED batches
      \/ \E i \in again :
           /\ batches' = Append(batches, Sign(received[i], Len(received[i].ids)))
           /\ received' = [received EXCEPT ![i] = fresh]

\* The application on board a satellite, and whether a record is from one.
App(sat) == -1 - sat
IsApp(prev) == prev < 0

\* A contact lasts while its link is up; the source and the ground network
\* never drop.
Up(r, t) ==
  \/ IsApp(r.prev) \/ r.node = MOC
  \/ r.node \in Sats /\ Pair(r.prev, r.node) \in t.adj
  \/ r.node \notin Sats /\ r.prev \in DOMAIN t.sees /\ t.sees[r.prev] = r.node

FlightInit ==
  /\ links \in {"rf", "optical"}
  /\ stage = "epoch" /\ epoch = 0 /\ tick = 0 /\ cursor = 0
  /\ topo = [adj |-> {}, cross |-> {}, sees |-> <<>>, dist |-> <<>>]
  /\ acquiring = {} /\ load = {}
  /\ inflight = <<>> /\ done = <<>> /\ received = <<>> /\ batches = <<>>

\* A new epoch: the topology changes, links that came up are to be acquired,
\* and contacts whose link went down are signed.
NewEpoch ==
  /\ stage = "epoch" /\ epoch < Epochs
  /\ \E failed \in SUBSET CrossPlane(epoch), off \in SUBSET {Stations[k].eid : k \in DOMAIN Stations} :
       /\ Cardinality(failed) + Cardinality(off) <= MaxOutages
       /\ topo' = Topology(epoch, failed, off)
  /\ acquiring' = IF Optical /\ epoch > 0 THEN topo'.cross \ topo.cross ELSE {}
  /\ IF Optical
     THEN /\ received' = SelectSeq(received, LAMBDA r : Up(r, topo'))
          /\ batches' = batches \o SignAll(SelectSeq(received, LAMBDA r : ~Up(r, topo')))
     ELSE UNCHANGED <<received, batches>>
  /\ stage' = "inject"
  /\ UNCHANGED <<links, epoch, tick, cursor, load, inflight, done>>

PerEpoch == (BundleLoad + InjectEpochs - 1) \div InjectEpochs
Born(e) == Cardinality({i \in DOMAIN inflight : inflight[i].born = e})
             + Cardinality({i \in DOMAIN done : done[i].born = e})

\* A bundle starts at a satellite, from the application on board.
Inject ==
  /\ stage = "inject" /\ epoch < InjectEpochs
  /\ Born(epoch) < PerEpoch /\ Len(inflight) + Len(done) < BundleLoad
  /\ \E sat \in Sources :
       LET id == Len(inflight) + Len(done)
       IN  /\ inflight' = Append(inflight, [id |-> id, source |-> App(sat), at |-> sat,
                                            path |-> <<sat>>, born |-> epoch])
           /\ Take(sat, App(sat), id, epoch * TicksPerEpoch)
  /\ UNCHANGED <<links, stage, epoch, tick, cursor, topo, acquiring, load, done>>

Injected == epoch >= InjectEpochs \/ Born(epoch) = PerEpoch \/ Len(inflight) + Len(done) = BundleLoad

StartTicks ==
  /\ stage = "inject" /\ Injected
  /\ stage' = "tick" /\ tick' = 0 /\ cursor' = Len(inflight) /\ load' = {}
  /\ UNCHANGED <<links, epoch, topo, acquiring, inflight, done, received, batches>>

\* Optical links: acquired, and with room in this tick.
Usable(i, n) ==
  Optical => /\ tick >= AcqTicks \/ Pair(i, n) \notin acquiring
             /\ Cardinality({x \in load : x[1] = i /\ x[2] = n}) < PerTick

\* Where a bundle may go next: down to the station in view, over to
\* operations, or one satellite closer to a station.
NextHops(at) ==
  CASE at \notin Sats -> {MOC}
    [] at \in DOMAIN topo.sees -> {topo.sees[at]}
    [] OTHER -> {n \in Adjacent(at) : topo.dist[at] > 0 /\ topo.dist[n] = topo.dist[at] - 1 /\ Usable(at, n)}

Now == epoch * TicksPerEpoch + tick

\* The next bundle's turn: it moves one hop.
Move ==
  /\ stage = "tick" /\ cursor > 0
  /\ LET b == inflight[cursor]
     IN  \E next \in NextHops(b.at) :
           LET moved == [b EXCEPT !.at = next, !.path = Append(@, next)]
           IN  /\ Take(next, b.at, b.id, Now)
               /\ load' = IF Optical /\ next \in Sats
                          THEN load \cup {<<b.at, next, b.id>>} ELSE load
               /\ IF next = MOC
                  THEN done' = Append(done, moved) /\ inflight' = RemoveAt(inflight, cursor)
                  ELSE inflight' = [inflight EXCEPT ![cursor] = moved] /\ UNCHANGED done
  /\ cursor' = cursor - 1
  /\ UNCHANGED <<links, stage, epoch, tick, topo, acquiring>>

\* It is cut off, or its link is not acquired or full: it waits in storage.
Wait ==
  /\ stage = "tick" /\ cursor > 0
  /\ NextHops(inflight[cursor].at) = {}
  /\ cursor' = cursor - 1
  /\ UNCHANGED <<links, stage, epoch, tick, topo, acquiring, load, inflight, done, received,
                 batches>>

NextTick ==
  /\ stage = "tick" /\ cursor = 0 /\ tick + 1 < TicksPerEpoch
  /\ tick' = tick + 1 /\ cursor' = Len(inflight) /\ load' = {}
  /\ UNCHANGED <<links, stage, epoch, topo, acquiring, inflight, done, received, batches>>

\* The epoch ends: radio contacts with it, optical ones stay open.
EndEpoch ==
  /\ stage = "tick" /\ cursor = 0 /\ tick + 1 = TicksPerEpoch
  /\ epoch' = epoch + 1 /\ stage' = "epoch" /\ tick' = 0
  /\ IF Optical THEN UNCHANGED <<received, batches>>
     ELSE received' = <<>> /\ batches' = batches \o SignAll(received)
  /\ UNCHANGED <<links, cursor, topo, acquiring, load, inflight, done>>

\* The end of the run: contacts still open are signed.
EndRun ==
  /\ stage = "epoch" /\ epoch = Epochs
  /\ stage' = "over"
  /\ received' = <<>> /\ batches' = batches \o SignAll(received)
  /\ UNCHANGED <<links, epoch, tick, cursor, topo, acquiring, load, inflight, done>>

FlightNext ==
  NewEpoch \/ Inject \/ StartTicks \/ Move \/ Wait \/ NextTick \/ EndEpoch \/ EndRun

-----------------------------------------------------------------------------

\* From the records alone the ground rebuilds and verifies the route of every
\* bundle it received, also of one that came back over a link it had crossed
\* (sim.mjs:174-178, path.mjs:82-114).
RoutesRebuild ==
  stage = "over" =>
    \A i \in DOMAIN done : Verifies(batches, done[i].id, done[i].source, MOC)

Revisits(path) == \E i, j \in DOMAIN path : i < j /\ path[i] = path[j]

\* When a record is lost, the bundles in it no longer verify, unless the
\* bundle passed twice through a node, when the rest of its records may make
\* a shorter route; every other bundle still verifies (run.mjs:65-69).
LossIsNoticed ==
  stage = "over" =>
    \A lost \in DOMAIN batches : \A i \in DOMAIN done :
      LET d == done[i]
          ok == Verifies(RemoveAt(batches, lost), d.id, d.source, MOC)
      IN  IF d.id \in batches[lost].leaves
          THEN ok => Revisits(d.path)
          ELSE ok

\* The records of a flight are enough to prove every route, and not more than
\* enough.
RoutesProve == RoutesRebuild /\ LossIsNoticed
=============================================================================
