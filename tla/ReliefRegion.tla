---------------------------- MODULE ReliefRegion ----------------------------
(***************************************************************************)
(* The relief network at regional scale (relief/scale/sim.mjs): clinics    *)
(* file reports, couriers on changing rounds collect them and hand them to *)
(* a relay, relays uplink what they store whenever their terminal is up.   *)
(* A custodian signs one batch record per handoff, over all the bundles it *)
(* took.  After the last day the hub settles from the evidence alone: the  *)
(* records, and what was delivered.  Before it does, the evidence may be   *)
(* spoilt in the ways relief/scale/run.mjs spoils it.                      *)
(*                                                                         *)
(* Abstractions.  A bundle is one chunk of a clinic's payload of one day.  *)
(* A record is "sound" when it is signed with the key pinned for its hop;  *)
(* that it proves its leaves and that the times of a route rise is what    *)
(* sim.mjs makes of it.  When a terminal is up, how long a road takes and  *)
(* the number of bundles an uplink carries per tick only decide which      *)
(* bundles have gone up by the end: any of them may have.                  *)
(***************************************************************************)
EXTENDS Integers, Sequences, FiniteSets

CONSTANTS
  Districts,        \* their number; each has one relay
  CouriersPer,      \* couriers of a district
  ClinicCount,      \* clinics of the region
  Days,             \* bound: days
  ReportChunks,     \* chunks of a daily report
  AttachmentChunks, \* chunks of the attachment some of them have
  MaxSpoils         \* bound: ways in which the evidence is spoilt

ASSUME RegionAssumption ==
  /\ {Districts, CouriersPer, ClinicCount, Days, ReportChunks} \subseteq Nat \ {0}
  /\ {AttachmentChunks, MaxSpoils} \subseteq Nat

\* makeRegion: the clinics are spread across the districts.
RelayNodes == [role : {"relay"}, d : 0 .. (Districts - 1)]
Couriers == [role : {"courier"}, d : 0 .. (Districts - 1), n : 1 .. CouriersPer]
ClinicList == [role : {"clinic"}, n : 0 .. (ClinicCount - 1)]
DistrictHub == [role |-> "hub"]

Custodians == Couriers \cup RelayNodes

CollectsAt(k) == {c \in ClinicList : c.n % Districts = k.d}

\* The relay of the courier's district and, the road closed, those next to it.
HandsTo(k) == {r \in RelayNodes : \E by \in {0, 1, Districts - 1} : r.d = (k.d + by) % Districts}

VARIABLES
  day,
  hour,      \* "morning", "rounds" (and the uplink after them) or "settling"
  toRide,    \* couriers that have still to ride today
  queue,     \* clinicQueue
  bag,       \* courierBag
  relayStore,
  batches,   \* the records, in the order in which the hub has them
  delivered, \* the pairs <<bundle, relay>> the hub has received
  altered,   \* evidence: delivered bundles whose bytes are damaged
  faked,     \* evidence: payloads whose manifest an unknown key signed
  spoils,    \* ways in which the evidence was spoilt, so far
  handed     \* history: who really handed which bundle to whom

regionVars == <<day, hour, toRide, queue, bag, relayStore, batches, delivered, altered, faked,
                spoils, handed>>

Payload == [clinic : ClinicList, day : 1 .. Days, kind : {"report", "attachment"}]

ChunksOf(payload) == IF payload.kind = "report" THEN ReportChunks ELSE AttachmentChunks

Bundle == UNION {[of : {payload}, chunk : 1 .. ChunksOf(payload)] : payload \in Payload}

Record == [prev : ClinicList \cup Couriers, hop : Custodians, leaves : SUBSET Bundle, sound : BOOLEAN]

RegionTypeOK ==
  /\ day \in 1 .. Days
  /\ hour \in {"morning", "rounds", "settling"}
  /\ toRide \subseteq Couriers
  /\ queue \in [ClinicList -> SUBSET Bundle]
  /\ bag \in [Couriers -> SUBSET Bundle]
  /\ relayStore \in [RelayNodes -> SUBSET Bundle]
  /\ batches \in Seq(Record)
  /\ delivered \subseteq Bundle \X RelayNodes
  /\ altered \subseteq Bundle
  /\ faked \subseteq Payload
  /\ spoils \in Nat
  /\ handed \subseteq (ClinicList \cup Custodians) \X (Custodians \cup {DistrictHub}) \X Bundle

RegionInit ==
  /\ day = 1 /\ hour = "morning" /\ toRide = {}
  /\ queue = [c \in ClinicList |-> {}]
  /\ bag = [k \in Couriers |-> {}]
  /\ relayStore = [r \in RelayNodes |-> {}]
  /\ batches = <<>> /\ delivered = {}
  /\ altered = {} /\ faked = {} /\ spoils = 0
  /\ handed = {}

-----------------------------------------------------------------------------
(* A day.                                                                  *)

Handover(from, to, ids) == handed' = handed \cup {from} \X {to} \X ids

\* batchReceipt: one record of what "hop" took from "prev".
Sign(prev, hop, ids) ==
  batches' = Append(batches, [prev |-> prev, hop |-> hop, leaves |-> ids, sound |-> TRUE])

\* 07:00: every clinic files a report, some an attachment with it.
FileReports(attaching) ==
  /\ hour = "morning"
  /\ hour' = "rounds" /\ toRide' = Couriers
  /\ queue' = [c \in ClinicList |-> queue[c] \cup
                 {b \in Bundle : /\ b.of.clinic = c /\ b.of.day = day
                                 /\ b.of.kind = "attachment" => c \in attaching}]
  /\ UNCHANGED <<day, bag, relayStore, batches, delivered, altered, faked, spoils, handed>>

\* One courier after the other rides its whole round.
Riding(k) ==
  /\ hour = "rounds"
  /\ k \in toRide
  /\ \A l \in Couriers \ {k} : bag[l] = {}

\* A courier comes by a clinic and signs for all that waits there.
Visit(k, c) ==
  /\ Riding(k)
  /\ c \in CollectsAt(k)
  /\ queue[c] # {}
  /\ queue' = [queue EXCEPT ![c] = {}]
  /\ bag' = [bag EXCEPT ![k] = @ \cup queue[c]]
  /\ Sign(c, k, queue[c])
  /\ Handover(c, k, queue[c])
  /\ UNCHANGED <<day, hour, toRide, relayStore, delivered, altered, faked, spoils>>

\* At the end of its round it hands all it has to its own relay or, the road
\* closed, to a neighbouring one, which signs for it.
HandOver(k, r) ==
  /\ Riding(k)
  /\ r \in HandsTo(k)
  /\ bag[k] # {}
  /\ toRide' = toRide \ {k}
  /\ bag' = [bag EXCEPT ![k] = {}]
  /\ relayStore' = [relayStore EXCEPT ![r] = @ \cup bag[k]]
  /\ Sign(k, r, bag[k])
  /\ Handover(k, r, bag[k])
  /\ UNCHANGED <<day, hour, queue, delivered, altered, faked, spoils>>

FoundNothing(k) ==
  /\ Riding(k)
  /\ bag[k] = {}
  /\ toRide' = toRide \ {k}
  /\ UNCHANGED <<day, hour, queue, bag, relayStore, batches, delivered, altered, faked, spoils, handed>>

\* The terminal is up for a while.
Uplink(r, ids) ==
  /\ hour = "rounds" /\ toRide = {}
  /\ ids # {}
  /\ relayStore' = [relayStore EXCEPT ![r] = @ \ ids]
  /\ delivered' = delivered \cup ids \X {r}
  /\ Handover(r, DistrictHub, ids)
  /\ UNCHANGED <<day, hour, toRide, queue, bag, batches, altered, faked, spoils>>

\* The day is over.  After the last one the hub settles.
EndDay ==
  /\ hour = "rounds" /\ toRide = {}
  /\ IF day < Days THEN day' = day + 1 /\ hour' = "morning"
                   ELSE hour' = "settling" /\ UNCHANGED day
  /\ UNCHANGED <<toRide, queue, bag, relayStore, batches, delivered, altered, faked, spoils, handed>>

-----------------------------------------------------------------------------
(* What can be wrong with the evidence.                                    *)

Received == {d[1] : d \in delivered}

Spoil ==
  /\ hour = "settling"
  /\ spoils < MaxSpoils
  /\ spoils' = spoils + 1
  /\ UNCHANGED <<day, hour, toRide, queue, bag, relayStore, handed>>

\* A chunk was altered on a courier's phone.
AlterChunk(id) ==
  /\ Spoil
  /\ id \in Received
  /\ altered' = altered \cup {id}
  /\ UNCHANGED <<batches, delivered, faked>>

\* A pickup is signed again under a key that is not the courier's.
ResignPickup(n) ==
  /\ Spoil
  /\ batches[n].hop \in Couriers
  /\ batches' = [batches EXCEPT ![n].sound = FALSE]
  /\ UNCHANGED <<delivered, altered, faked>>

\* A manifest is signed by a key nobody knows.
FakeManifest(payload) ==
  /\ Spoil
  /\ \E id \in Received : id.of = payload
  /\ faked' = faked \cup {payload}
  /\ UNCHANGED <<batches, delivered, altered>>

\* A courier claims bundles that another courier collected.
ClaimPickup(k, n, ids) ==
  /\ Spoil
  /\ batches[n].hop \in Couriers \ {k}
  /\ ids # {} /\ ids \subseteq batches[n].leaves \cap Received
  /\ Sign(batches[n].prev, k, ids)
  /\ UNCHANGED <<delivered, altered, faked>>

\* A relay sends one of its records twice.
ReplayRecord(n) ==
  /\ Spoil
  /\ batches[n].hop \in RelayNodes
  /\ batches' = Append(batches, batches[n])
  /\ UNCHANGED <<delivered, altered, faked>>

\* A relay signed for bundles and dropped them.
DropBundles(r, ids) ==
  /\ Spoil
  /\ ids # {} /\ ids \X {r} \subseteq delivered
  /\ delivered' = delivered \ (ids \X {r})
  /\ UNCHANGED <<batches, altered, faked>>

RegionNext ==
  \/ \E attaching \in SUBSET ClinicList : FileReports(attaching)
  \/ \E k \in Couriers :
       \/ \E c \in ClinicList : Visit(k, c)
       \/ \E r \in RelayNodes : HandOver(k, r)
       \/ FoundNothing(k)
  \/ \E r \in RelayNodes : \E ids \in SUBSET relayStore[r] : Uplink(r, ids)
  \/ EndDay
  \/ \E id \in Bundle : AlterChunk(id)
  \/ \E payload \in Payload : FakeManifest(payload)
  \/ \E n \in DOMAIN batches :
       \/ ResignPickup(n)
       \/ ReplayRecord(n)
       \/ \E k \in Couriers : \E ids \in SUBSET batches[n].leaves : ClaimPickup(k, n, ids)
  \/ \E r \in RelayNodes : \E ids \in SUBSET Received : DropBundles(r, ids)

RegionSpec == RegionInit /\ [][RegionNext]_regionVars

-----------------------------------------------------------------------------
(* The hub's accounting, from the evidence alone.                          *)

\* Fault: the map keeps one record per bundle and node before it, the last.
CoveringLast(id) ==
  {n \in DOMAIN batches : /\ id \in batches[n].leaves
                          /\ \A m \in DOMAIN batches :
                               id \in batches[m].leaves /\ batches[m].prev = batches[n].prev => m <= n}

Covering(id) == {n \in DOMAIN batches : id \in batches[n].leaves}

\* paths: every chain of records that cover the bundle, from a node on.  The
\* walk stops at five records.
MaxWalk == 5

Paths(id, source) ==
  {p \in UNION {[1 .. m -> Covering(id)] : m \in 1 .. MaxWalk} :
     /\ \A i, j \in DOMAIN p : p[i] = p[j] => i = j
     /\ \A i \in DOMAIN p :
          batches[p[i]].prev = IF i = 1 THEN source ELSE batches[p[i - 1]].hop}

Hops(p) == {batches[p[i]].hop : i \in DOMAIN p}
LastHop(p) == batches[p[Len(p)]].hop

\* verifyPath under the pinned keys; where a path begins and ends is how it was
\* found.
PathVerifies(p) == \A i \in DOMAIN p : batches[p[i]].sound

\* Fault: of two paths the shorter one is tried first, as its comment has it.
TriedBeforeShorter(p, q) ==
  \/ Len(p) < Len(q)
  \/ /\ Len(p) = Len(q)
     /\ \E i \in DOMAIN p : p[i] < q[i] /\ \A j \in 1 .. (i - 1) : p[j] = q[j]

\* The order in which paths tries them: the longest first, then as the walk
\* over the records in their order found them.
TriedBefore(p, q) ==
  \/ Len(p) > Len(q)
  \/ /\ Len(p) = Len(q)
     /\ \E i \in DOMAIN p : p[i] < q[i] /\ \A j \in 1 .. (i - 1) : p[j] = q[j]

FirstOf(paths) == {p \in paths : \A q \in paths \ {p} : TriedBefore(p, q)}

\* A delivered bundle: its bytes and its manifest check out, and the path ends
\* at the relay that uplinked it.
GoodPaths(id) ==
  {p \in Paths(id, id.of.clinic) : /\ id \notin altered /\ id.of \notin faked
                                   /\ LastHop(p) \in RelayNodes
                                   /\ <<id, LastHop(p)>> \in delivered
                                   /\ PathVerifies(p)}

\* A bundle that is known from the records alone: the clinic is the one its
\* first record names.
SourceClinic(id) ==
  {batches[n].prev : n \in {m \in Covering(id) :
     /\ batches[m].prev \in ClinicList
     /\ \A l \in Covering(id) : batches[l].prev \in ClinicList => m <= l}}

MissingPaths(id) == {p \in UNION {Paths(id, c) : c \in SourceClinic(id)} : PathVerifies(p)}

\* Fault: the last custodian of a missing bundle is paid as well.
PaidForAll(id) ==
  IF id \in Received THEN UNION {Hops(p) : p \in FirstOf(GoodPaths(id))}
  ELSE UNION {Hops(p) : p \in FirstOf(MissingPaths(id))}

\* Who is paid for a bundle: every hop of a delivered one, those before the
\* last of a missing one.
PaidFor(id) ==
  IF id \in Received THEN UNION {Hops(p) : p \in FirstOf(GoodPaths(id))}
  ELSE UNION {{batches[p[i]].hop : i \in 1 .. (Len(p) - 1)} : p \in FirstOf(MissingPaths(id))}

\* Where the hub says a bundle is that has not come.
LocatedAt(id) == IF id \in Received THEN {} ELSE {LastHop(p) : p \in FirstOf(MissingPaths(id))}

-----------------------------------------------------------------------------

\* Every record of the pickup with which a bundle set out is signed under
\* another key.
PickupForged(id) ==
  \E h \in handed : /\ h[2] \in Couriers /\ h[3] = id
                    /\ \A n \in DOMAIN batches :
                         batches[n].hop = h[2] /\ id \in batches[n].leaves => ~batches[n].sound

\* The bundles whose own evidence is spoilt.
Spoilt == {id \in Bundle : id \in altered \/ id.of \in faked \/ PickupForged(id)}

\* A custodian is paid for a bundle only if it really had it and handed it on,
\* to the next custodian or to the hub, whatever anyone claims, replays or
\* signs again (sim.mjs settle: "pays each custodian only for handoffs it can
\* prove"; run.mjs: the greedy courier "gains 0").
PaidHandedOn ==
  hour = "settling" =>
    \A id \in Bundle : \A n \in PaidFor(id) : \E m \in Custodians \cup {DistrictHub} : <<n, m, id>> \in handed

\* Each fault is contained to the bundles it touches and costs no honest
\* custodian anything: whoever handed a bundle on is paid for it, also when it
\* was dropped further on or another courier claims it (run.mjs header).
HonestIsPaid ==
  hour = "settling" =>
    \A h \in handed :
      /\ h[1] \in Custodians /\ h[3] \notin Spoilt
      /\ h[2] = DistrictHub => <<h[3], h[1]>> \in delivered
      => h[1] \in PaidFor(h[3])

\* A bundle that was signed for and has not come is located at the custodian
\* that took it last: it still stores it, or it dropped it (sim.mjs:134).
LostIsLocated ==
  hour = "settling" =>
    \A h \in handed :
      h[2] \in RelayNodes /\ h[3] \notin Received \cup Spoilt => LocatedAt(h[3]) = {h[2]}
=============================================================================
