------------------------- MODULE ReliefRegionProofs -------------------------
(* What is proved of the regional network for any number of districts,     *)
(* couriers, clinics and days.                                             *)
EXTENDS ReliefRegion, FiniteSetTheorems, WellFoundedInduction, TLAPS

\* What any record tells, genuine, claimed, replayed or signed again: a courier
\* collects at clinics, and a relay took from a courier what it signed for.
RecordsTell ==
  \A n \in DOMAIN batches :
    LET b == batches[n]
    IN  /\ b.hop \in Couriers => b.prev \in ClinicList
        /\ b.hop \in RelayNodes => /\ b.prev \in Couriers
                               /\ \A id \in b.leaves : <<b.prev, b.hop, id>> \in handed

DeliveredByRelays == \A d \in delivered : <<d[2], DistrictHub, d[1]>> \in handed

RegionInvariant == RegionTypeOK /\ RecordsTell /\ DeliveredByRelays

-----------------------------------------------------------------------------

LEMMA RolesApart ==
  /\ ClinicList \cap Custodians = {} /\ Couriers \cap RelayNodes = {}
  /\ Days \in Nat /\ Days >= 1
<1>1. /\ \A c \in ClinicList : c.role = "clinic"
      /\ \A k \in Couriers : k.role = "courier"
      /\ \A r \in RelayNodes : r.role = "relay"
  BY DEF ClinicList, Couriers, RelayNodes
<1>2. Days \in Nat /\ Days >= 1
  BY RegionAssumption
<1> QED
  BY <1>1, <1>2 DEF Custodians

LEMMA RegionInitially == RegionInit => RegionInvariant
<1> SUFFICES ASSUME RegionInit PROVE RegionInvariant
  OBVIOUS
<1>1. RegionTypeOK
  <2>1. batches \in Seq(Record) /\ 1 \in 1 .. Days
    BY RolesApart DEF RegionInit
  <2> QED
    BY <2>1 DEF RegionInit, RegionTypeOK
<1> QED
  BY <1>1 DEF RegionInit, RegionInvariant, RecordsTell, DeliveredByRelays

\* One more record that tells the truth, or what is already known.
LEMMA OneMoreRecord ==
  ASSUME batches \in Seq(Record), RecordsTell, handed \subseteq handed',
         NEW b \in Record, batches' = Append(batches, b),
         b.hop \in Couriers => b.prev \in ClinicList,
         b.hop \in RelayNodes => /\ b.prev \in Couriers
                             /\ \A id \in b.leaves : <<b.prev, b.hop, id>> \in handed'
  PROVE  batches' \in Seq(Record) /\ RecordsTell'
<1>1. batches' \in Seq(Record)
  OBVIOUS
<1>2. ASSUME NEW n \in DOMAIN batches'
      PROVE  batches'[n] = b \/ (n \in DOMAIN batches /\ batches'[n] = batches[n])
  OBVIOUS
<1> QED
  BY <1>1, <1>2 DEF RecordsTell

LEMMA RegionStep == RegionInvariant /\ [RegionNext]_regionVars => RegionInvariant'
<1> SUFFICES ASSUME RegionInvariant, [RegionNext]_regionVars PROVE RegionInvariant'
  OBVIOUS
<1> USE DEF RegionInvariant
<1>0. CASE UNCHANGED regionVars
  BY <1>0 DEF regionVars, RegionTypeOK, RecordsTell, DeliveredByRelays
<1>1. ASSUME NEW attaching \in SUBSET ClinicList, FileReports(attaching) PROVE RegionInvariant'
  <2>1. queue' \in [ClinicList -> SUBSET Bundle]
    BY <1>1 DEF FileReports, RegionTypeOK
  <2>2. RegionTypeOK'
    BY <1>1, <2>1 DEF FileReports, RegionTypeOK
  <2> QED
    BY <1>1, <2>2 DEF FileReports, RecordsTell, DeliveredByRelays
<1>2. ASSUME NEW k \in Couriers, NEW c \in ClinicList, Visit(k, c) PROVE RegionInvariant'
  <2> DEFINE b == [prev |-> c, hop |-> k, leaves |-> queue[c], sound |-> TRUE]
  <2>1. /\ queue[c] \subseteq Bundle /\ b \in Record
        /\ batches' = Append(batches, b)
        /\ handed' = handed \cup {c} \X {k} \X queue[c]
    BY <1>2 DEF Visit, Sign, Handover, RegionTypeOK, Record, Custodians
  <2>2. b.hop \notin RelayNodes /\ b.prev \in ClinicList
    BY RolesApart
  <2>3. batches' \in Seq(Record) /\ RecordsTell'
    BY <2>1, <2>2, OneMoreRecord DEF RegionTypeOK
  <2>4. {c} \X {k} \X queue[c] \subseteq (ClinicList \cup Custodians) \X (Custodians \cup {DistrictHub}) \X Bundle
    BY <2>1 DEF Custodians
  <2>5. RegionTypeOK'
    <3>1. queue' \in [ClinicList -> SUBSET Bundle] /\ bag' \in [Couriers -> SUBSET Bundle]
      BY <1>2 DEF Visit, RegionTypeOK
    <3>2. UNCHANGED <<day, hour, toRide, relayStore, delivered, altered, faked, spoils>>
      BY <1>2 DEF Visit
    <3> QED
      BY <3>1, <3>2, <2>1, <2>3, <2>4 DEF RegionTypeOK
  <2> QED
    BY <1>2, <2>1, <2>3, <2>5 DEF Visit, DeliveredByRelays
<1>3. ASSUME NEW k \in Couriers, NEW r \in RelayNodes, HandOver(k, r) PROVE RegionInvariant'
  <2> DEFINE b == [prev |-> k, hop |-> r, leaves |-> bag[k], sound |-> TRUE]
  <2>1. /\ bag[k] \subseteq Bundle /\ b \in Record
        /\ batches' = Append(batches, b)
        /\ handed' = handed \cup {k} \X {r} \X bag[k]
    BY <1>3 DEF HandOver, Sign, Handover, RegionTypeOK, Record, Custodians
  <2>2. b.hop \notin Couriers /\ b.prev \in Couriers
    BY RolesApart
  <2>3. \A id \in b.leaves : <<b.prev, b.hop, id>> \in handed'
    BY <2>1
  <2>4. batches' \in Seq(Record) /\ RecordsTell'
    BY <2>1, <2>2, <2>3, OneMoreRecord DEF RegionTypeOK
  <2>5. {k} \X {r} \X bag[k] \subseteq (ClinicList \cup Custodians) \X (Custodians \cup {DistrictHub}) \X Bundle
    BY <2>1 DEF Custodians
  <2>6. RegionTypeOK'
    <3>1. /\ bag' \in [Couriers -> SUBSET Bundle] /\ relayStore' \in [RelayNodes -> SUBSET Bundle]
          /\ toRide' \subseteq Couriers
      BY <1>3 DEF HandOver, RegionTypeOK
    <3>2. UNCHANGED <<day, hour, queue, delivered, altered, faked, spoils>>
      BY <1>3 DEF HandOver
    <3> QED
      BY <3>1, <3>2, <2>1, <2>4, <2>5 DEF RegionTypeOK
  <2> QED
    BY <1>3, <2>1, <2>4, <2>6 DEF HandOver, DeliveredByRelays
<1>4. ASSUME NEW k \in Couriers, FoundNothing(k) PROVE RegionInvariant'
  BY <1>4 DEF FoundNothing, RegionTypeOK, RecordsTell, DeliveredByRelays
<1>5. ASSUME NEW r \in RelayNodes, NEW ids \in SUBSET relayStore[r], Uplink(r, ids) PROVE RegionInvariant'
  <2>1. /\ ids \subseteq Bundle
        /\ delivered' = delivered \cup ids \X {r}
        /\ handed' = handed \cup {r} \X {DistrictHub} \X ids
        /\ relayStore' \in [RelayNodes -> SUBSET Bundle]
        /\ UNCHANGED <<day, hour, toRide, queue, bag, batches, altered, faked, spoils>>
    BY <1>5 DEF Uplink, Handover, RegionTypeOK
  <2>2. {r} \X {DistrictHub} \X ids \subseteq (ClinicList \cup Custodians) \X (Custodians \cup {DistrictHub}) \X Bundle
    BY <2>1 DEF Custodians
  <2>3. RegionTypeOK'
    BY <2>1, <2>2 DEF RegionTypeOK
  <2> QED
    BY <2>1, <2>3 DEF RecordsTell, DeliveredByRelays
<1>6. CASE EndDay
  <2>1. day' \in 1 .. Days /\ hour' \in {"morning", "rounds", "settling"}
    BY <1>6, RolesApart DEF EndDay, RegionTypeOK
  <2> QED
    BY <1>6, <2>1 DEF EndDay, RegionTypeOK, RecordsTell, DeliveredByRelays
<1>7. ASSUME NEW id \in Bundle, AlterChunk(id) PROVE RegionInvariant'
  BY <1>7 DEF AlterChunk, Spoil, RegionTypeOK, RecordsTell, DeliveredByRelays
<1>8. ASSUME NEW payload \in Payload, FakeManifest(payload) PROVE RegionInvariant'
  BY <1>8 DEF FakeManifest, Spoil, RegionTypeOK, RecordsTell, DeliveredByRelays
<1>9. ASSUME NEW n \in DOMAIN batches, ResignPickup(n) PROVE RegionInvariant'
  <2>1. /\ batches' = [batches EXCEPT ![n].sound = FALSE]
        /\ spoils' = spoils + 1
        /\ UNCHANGED <<day, hour, toRide, queue, bag, relayStore, handed, delivered, altered, faked>>
    BY <1>9 DEF ResignPickup, Spoil
  <2>2. batches[n] \in Record
    BY DEF RegionTypeOK
  <2>3. [batches[n] EXCEPT !.sound = FALSE] \in Record
    BY <2>2 DEF Record
  <2>4. batches' \in Seq(Record)
    BY <2>1, <2>3 DEF RegionTypeOK
  <2>5. /\ DOMAIN batches' = DOMAIN batches
        /\ \A m \in DOMAIN batches : /\ batches'[m].prev = batches[m].prev
                                     /\ batches'[m].hop = batches[m].hop
                                     /\ batches'[m].leaves = batches[m].leaves
    BY <2>1, <2>2 DEF RegionTypeOK, Record
  <2>6. RegionTypeOK'
    BY <2>1, <2>4 DEF RegionTypeOK
  <2>7. RecordsTell'
    BY <2>1, <2>5 DEF RecordsTell
  <2> QED
    BY <2>1, <2>6, <2>7 DEF DeliveredByRelays
<1>10. ASSUME NEW n \in DOMAIN batches, ReplayRecord(n) PROVE RegionInvariant'
  <2>1. /\ batches' = Append(batches, batches[n]) /\ batches[n] \in Record
        /\ spoils' = spoils + 1
        /\ UNCHANGED <<day, hour, toRide, queue, bag, relayStore, handed, delivered, altered, faked>>
    BY <1>10 DEF ReplayRecord, Spoil, RegionTypeOK
  <2>2. batches' \in Seq(Record) /\ RecordsTell'
    <3>1. /\ batches[n].hop \in Couriers => batches[n].prev \in ClinicList
          /\ batches[n].hop \in RelayNodes =>
               /\ batches[n].prev \in Couriers
               /\ \A id \in batches[n].leaves : <<batches[n].prev, batches[n].hop, id>> \in handed'
      BY <2>1 DEF RecordsTell
    <3> QED
      BY <2>1, <3>1, OneMoreRecord DEF RegionTypeOK
  <2> QED
    BY <2>1, <2>2 DEF RegionTypeOK, DeliveredByRelays
<1>11. ASSUME NEW n \in DOMAIN batches, NEW k \in Couriers, NEW ids \in SUBSET batches[n].leaves,
              ClaimPickup(k, n, ids)
       PROVE  RegionInvariant'
  <2> DEFINE b == [prev |-> batches[n].prev, hop |-> k, leaves |-> ids, sound |-> TRUE]
  <2>1. /\ batches' = Append(batches, b)
        /\ spoils' = spoils + 1
        /\ UNCHANGED <<day, hour, toRide, queue, bag, relayStore, handed, delivered, altered, faked>>
    BY <1>11 DEF ClaimPickup, Sign, Spoil
  <2>2. batches[n] \in Record /\ batches[n].prev \in ClinicList
    BY <1>11 DEF ClaimPickup, RecordsTell, RegionTypeOK
  <2>3. b \in Record /\ b.hop \notin RelayNodes
    BY <2>2, RolesApart DEF Record, Custodians
  <2>4. batches' \in Seq(Record) /\ RecordsTell'
    BY <2>1, <2>2, <2>3, OneMoreRecord DEF RegionTypeOK
  <2> QED
    BY <2>1, <2>4 DEF RegionTypeOK, DeliveredByRelays
<1>12. ASSUME NEW r \in RelayNodes, NEW ids \in SUBSET Received, DropBundles(r, ids) PROVE RegionInvariant'
  BY <1>12 DEF DropBundles, Spoil, RegionTypeOK, RecordsTell, DeliveredByRelays
<1> QED
  BY <1>0, <1>1, <1>2, <1>3, <1>4, <1>5, <1>6, <1>7, <1>8, <1>9, <1>10, <1>11, <1>12 DEF RegionNext

-----------------------------------------------------------------------------
(* Payouts.                                                                *)

\* A path leads from record to record: each is of the bundle, and was signed by
\* the custodian after the one before.
LEMMA PathOfRecords ==
  ASSUME RegionInvariant, NEW id \in Bundle, NEW c \in ClinicList, NEW p \in Paths(id, c)
  PROVE  /\ Len(p) \in Nat /\ Len(p) >= 1 /\ DOMAIN p = 1 .. Len(p)
         /\ \A i \in DOMAIN p : /\ p[i] \in DOMAIN batches /\ id \in batches[p[i]].leaves
                                /\ batches[p[i]] \in Record
         /\ \A i \in DOMAIN p : i > 1 =>
              /\ i - 1 \in DOMAIN p /\ batches[p[i]].prev = batches[p[i - 1]].hop
              /\ batches[p[i - 1]].hop \in Custodians
         /\ batches[p[1]].prev = c
<1>1. PICK m \in 1 .. MaxWalk : p \in [1 .. m -> Covering(id)]
  BY DEF Paths
<1>2. /\ m \in Nat /\ m >= 1 /\ Len(p) = m /\ DOMAIN p = 1 .. m
  BY <1>1 DEF MaxWalk
<1>3. \A i \in DOMAIN p : /\ p[i] \in DOMAIN batches /\ id \in batches[p[i]].leaves
                          /\ batches[p[i]] \in Record
  BY <1>1, <1>2 DEF Covering, RegionInvariant, RegionTypeOK
<1>4. \A i \in DOMAIN p : batches[p[i]].prev = IF i = 1 THEN c ELSE batches[p[i - 1]].hop
  BY DEF Paths
<1>5. \A i \in DOMAIN p : batches[p[i]].hop \in Custodians
  BY <1>3 DEF Record
<1> QED
  BY <1>2, <1>3, <1>4, <1>5

\* Whoever comes before another hop on a path is a courier that gave the bundle
\* to the relay that comes after it.
LEMMA BeforeAnother ==
  ASSUME RegionInvariant, NEW id \in Bundle, NEW c \in ClinicList, NEW p \in Paths(id, c),
         NEW i \in DOMAIN p, i + 1 \in DOMAIN p
  PROVE  batches[p[i + 1]].hop \in RelayNodes
         /\ <<batches[p[i]].hop, batches[p[i + 1]].hop, id>> \in handed
<1> DEFINE b == batches[p[i + 1]]
<1>0. i \in Nat /\ i >= 1 /\ (i + 1) - 1 = i /\ i + 1 > 1
  BY PathOfRecords
<1>1. /\ p[i + 1] \in DOMAIN batches /\ id \in b.leaves /\ b \in Record
      /\ b.prev = batches[p[i]].hop /\ b.prev \in Custodians
  BY <1>0, PathOfRecords
<1>2. b.hop \in RelayNodes
  BY <1>1, RolesApart DEF Record, Custodians, RegionInvariant, RecordsTell
<1> QED
  BY <1>1, <1>2 DEF RegionInvariant, RecordsTell

\* A custodian is paid for a bundle only if it handed it on.
LEMMA PaidHandedOnHolds == RegionInvariant => PaidHandedOn
<1> SUFFICES ASSUME RegionInvariant, NEW id \in Bundle, NEW n \in PaidFor(id)
             PROVE  \E m \in Custodians \cup {DistrictHub} : <<n, m, id>> \in handed
  BY DEF PaidHandedOn
<1>1. id.of.clinic \in ClinicList
  BY DEF Bundle, Payload
<1>2. CASE id \in Received
  <2>1. PICK p \in GoodPaths(id) : n \in Hops(p)
    BY <1>2 DEF PaidFor, FirstOf
  <2>2. p \in Paths(id, id.of.clinic) /\ <<id, LastHop(p)>> \in delivered
    BY <2>1 DEF GoodPaths
  <2>3. PICK i \in DOMAIN p : n = batches[p[i]].hop
    BY <2>1 DEF Hops
  <2>4. Len(p) \in Nat /\ DOMAIN p = 1 .. Len(p)
    BY <1>1, <2>2, PathOfRecords
  <2>5. CASE i = Len(p)
    BY <2>2, <2>3, <2>5 DEF LastHop, RegionInvariant, DeliveredByRelays
  <2>6. CASE i # Len(p)
    <3>1. i + 1 \in DOMAIN p
      BY <2>4, <2>6
    <3> QED
      BY <1>1, <2>2, <2>3, <3>1, BeforeAnother DEF Custodians
  <2> QED
    BY <2>5, <2>6
<1>3. CASE id \notin Received
  <2>1. PICK p \in MissingPaths(id) : n \in {batches[p[i]].hop : i \in 1 .. (Len(p) - 1)}
    BY <1>3 DEF PaidFor, FirstOf
  <2>2. PICK c \in SourceClinic(id) : p \in Paths(id, c)
    BY <2>1 DEF MissingPaths
  <2>3. c \in ClinicList
    BY DEF SourceClinic
  <2>4. PICK i \in 1 .. (Len(p) - 1) : n = batches[p[i]].hop
    BY <2>1
  <2>5. i \in DOMAIN p /\ i + 1 \in DOMAIN p
    BY <2>2, <2>3, PathOfRecords
  <2> QED
    BY <2>2, <2>3, <2>4, <2>5, BeforeAnother DEF Custodians
<1> QED
  BY <1>2, <1>3

-----------------------------------------------------------------------------
(* Where every bundle went, and what of it is on record.                   *)

\* A bundle goes from its clinic to a courier, from there to a relay, and on to
\* the hub.
HandedInTurn ==
  \A h \in handed :
    \/ h[1] = h[3].of.clinic /\ h[2] \in Couriers
    \/ h[1] \in Couriers /\ h[2] \in RelayNodes /\ <<h[3].of.clinic, h[1], h[3]>> \in handed
    \/ h[1] \in RelayNodes /\ h[2] = DistrictHub /\ \E k \in Couriers : <<k, h[1], h[3]>> \in handed

\* One courier takes it, and one relay.
HandedOnce ==
  \A h, g \in handed :
    h[3] = g[3] => /\ h[2] \in Couriers /\ g[2] \in Couriers => h[2] = g[2]
                   /\ h[2] \in RelayNodes /\ g[2] \in RelayNodes => h[2] = g[2]

\* What waits at a clinic is the clinic's, and nobody took it.
Filed(id) == id.of.day < day \/ (hour # "morning" /\ id.of.day = day)

Waiting ==
  /\ \A c \in ClinicList : \A id \in queue[c] :
       id.of.clinic = c /\ Filed(id) /\ \A h \in handed : h[3] # id
  /\ \A h \in handed : Filed(h[3])

\* What a courier carries it collected, and no relay took it yet; what a relay
\* stores a courier brought.
Carried ==
  /\ \A k \in Couriers : \A id \in bag[k] :
       <<id.of.clinic, k, id>> \in handed /\ \A h \in handed : h[3] = id => h[2] \in Couriers
  /\ \A r \in RelayNodes : \A id \in relayStore[r] : \E k \in Couriers : <<k, r, id>> \in handed

\* Whoever took a bundle has a record of it.
OnRecord ==
  \A h \in handed : h[2] \in Custodians =>
    \E n \in DOMAIN batches : /\ batches[n].prev = h[1] /\ batches[n].hop = h[2]
                              /\ h[3] \in batches[n].leaves

\* Any record of a pickup names the bundle's clinic, and the relays' records are
\* sound.
RecordsHonest ==
  \A n \in DOMAIN batches :
    /\ batches[n].hop \in Couriers => \A id \in batches[n].leaves : batches[n].prev = id.of.clinic
    /\ batches[n].hop \in RelayNodes => batches[n].sound

Tracked == HandedInTurn /\ HandedOnce /\ Waiting /\ Carried /\ OnRecord /\ RecordsHonest

LEMMA MoreHanded ==
  ASSUME NEW from, NEW to, NEW ids, Handover(from, to, ids)
  PROVE  /\ handed \subseteq handed'
         /\ \A id \in ids : <<from, to, id>> \in handed'
         /\ \A h \in handed' : h \in handed \/ (h[1] = from /\ h[2] = to /\ h[3] \in ids)
  BY DEF Handover

\* A record more.
LEMMA MoreRecords ==
  ASSUME NEW b, batches \in Seq(Record), b \in Record, batches' = Append(batches, b)
  PROVE  /\ \A n \in DOMAIN batches : n \in DOMAIN batches' /\ batches'[n] = batches[n]
         /\ \A n \in DOMAIN batches' : n \in DOMAIN batches \/ batches'[n] = b
         /\ \E n \in DOMAIN batches' : batches'[n] = b
<1>1. Len(batches) + 1 \in DOMAIN batches' /\ batches'[Len(batches) + 1] = b
  OBVIOUS
<1>2. /\ \A n \in DOMAIN batches : n \in DOMAIN batches' /\ batches'[n] = batches[n]
      /\ \A n \in DOMAIN batches' : n \in DOMAIN batches \/ batches'[n] = b
  OBVIOUS
<1> QED
  BY <1>1, <1>2

LEMMA TrackedInitially == RegionInit => Tracked
  BY DEF RegionInit, Tracked, HandedInTurn, HandedOnce, Waiting, Carried, OnRecord, RecordsHonest

\* The clinics file what nobody has yet.
LEMMA TrackedFiling ==
  ASSUME RegionInvariant, Tracked, NEW attaching \in SUBSET ClinicList, FileReports(attaching)
  PROVE  Tracked'
<1>1. /\ hour = "morning" /\ hour' = "rounds"
      /\ UNCHANGED <<day, bag, relayStore, batches, handed>>
      /\ \A c \in ClinicList : \A id \in queue'[c] :
           id \in queue[c] \/ (id \in Bundle /\ id.of.clinic = c /\ id.of.day = day)
  BY DEF FileReports
<1>2. \A id : Filed(id) => Filed(id)'
  BY <1>1 DEF Filed
<1>3. \A id \in Bundle : id.of.day = day => Filed(id)' /\ ~Filed(id)
  <2>1. day \in Int
    BY DEF RegionInvariant, RegionTypeOK
  <2> QED
    BY <1>1, <2>1 DEF Filed
<1>4. Waiting'
  BY <1>1, <1>2, <1>3 DEF Tracked, Waiting
<1> QED
  BY <1>1, <1>4, SMTT(60) DEF Tracked, HandedInTurn, HandedOnce, Carried, OnRecord, RecordsHonest

\* A courier collects what nobody had.
LEMMA TrackedVisit ==
  ASSUME RegionInvariant, Tracked, NEW k \in Couriers, NEW c \in ClinicList, Visit(k, c)
  PROVE  Tracked'
<1> DEFINE b == [prev |-> c, hop |-> k, leaves |-> queue[c], sound |-> TRUE]
<1>1. /\ queue' = [queue EXCEPT ![c] = {}] /\ bag' = [bag EXCEPT ![k] = @ \cup queue[c]]
      /\ batches' = Append(batches, b) /\ Handover(c, k, queue[c])
      /\ UNCHANGED <<day, hour, relayStore>>
      /\ queue \in [ClinicList -> SUBSET Bundle] /\ bag \in [Couriers -> SUBSET Bundle]
  BY DEF Visit, Sign, RegionInvariant, RegionTypeOK
<1>2. k \notin RelayNodes /\ k \notin ClinicList /\ k # DistrictHub /\ c \notin Custodians
  BY RolesApart DEF Custodians, DistrictHub, Couriers
<1>3. \A id \in queue[c] : id.of.clinic = c /\ Filed(id) /\ \A h \in handed : h[3] # id
  BY DEF Tracked, Waiting
<1>4. /\ handed \subseteq handed'
      /\ \A id \in queue[c] : <<c, k, id>> \in handed'
      /\ \A h \in handed' : h \in handed \/ (h[1] = c /\ h[2] = k /\ h[3] \in queue[c])
  BY <1>1, MoreHanded
<1>5. HandedInTurn'
  BY <1>3, <1>4 DEF Tracked, HandedInTurn
<1>6. HandedOnce'
  BY <1>2, <1>3, <1>4 DEF Tracked, HandedOnce
<1>7. Waiting'
  <2>1. \A id : Filed(id)' <=> Filed(id)
    BY <1>1 DEF Filed
  <2>2. \A d \in ClinicList : queue'[d] = IF d = c THEN {} ELSE queue[d]
    BY <1>1
  <2> QED
    BY <1>3, <1>4, <2>1, <2>2 DEF Tracked, Waiting
<1>8. Carried'
  <2>1. \A l \in Couriers : bag'[l] = IF l = k THEN bag[k] \cup queue[c] ELSE bag[l]
    BY <1>1
  <2>2. \A l \in Couriers : \A id \in bag[l] :
          <<id.of.clinic, l, id>> \in handed /\ \A h \in handed : h[3] = id => h[2] \in Couriers
    BY DEF Tracked, Carried
  <2>3. \A l \in Couriers : \A id \in bag'[l] :
          <<id.of.clinic, l, id>> \in handed' /\ \A h \in handed' : h[3] = id => h[2] \in Couriers
    BY <1>3, <1>4, <2>1, <2>2
  <2> QED
    BY <1>1, <1>4, <2>3 DEF Tracked, Carried
<1>9. b \in Record
  BY <1>1 DEF Record, Custodians
<1>10. /\ \A n \in DOMAIN batches : n \in DOMAIN batches' /\ batches'[n] = batches[n]
       /\ \A n \in DOMAIN batches' : n \in DOMAIN batches \/ batches'[n] = b
       /\ \E n \in DOMAIN batches' : batches'[n] = b
  BY <1>1, <1>9, MoreRecords DEF RegionInvariant, RegionTypeOK
<1>11. OnRecord'
  BY <1>4, <1>10 DEF Tracked, OnRecord
<1>12. RecordsHonest'
  BY <1>2, <1>3, <1>10 DEF Tracked, RecordsHonest
<1> QED
  BY <1>5, <1>6, <1>7, <1>8, <1>11, <1>12 DEF Tracked

\* A relay takes what no relay had.
LEMMA TrackedHandOver ==
  ASSUME RegionInvariant, Tracked, NEW k \in Couriers, NEW r \in RelayNodes, HandOver(k, r)
  PROVE  Tracked'
<1> DEFINE b == [prev |-> k, hop |-> r, leaves |-> bag[k], sound |-> TRUE]
<1>1. /\ bag' = [bag EXCEPT ![k] = {}] /\ relayStore' = [relayStore EXCEPT ![r] = @ \cup bag[k]]
      /\ batches' = Append(batches, b) /\ Handover(k, r, bag[k])
      /\ UNCHANGED <<day, hour, queue>>
      /\ relayStore \in [RelayNodes -> SUBSET Bundle] /\ bag \in [Couriers -> SUBSET Bundle]
  BY DEF HandOver, Sign, RegionInvariant, RegionTypeOK
<1>2. r \notin Couriers /\ r \notin ClinicList /\ r # DistrictHub /\ k \notin RelayNodes
  BY RolesApart DEF Custodians, DistrictHub, RelayNodes
<1>3. \A l \in Couriers : \A id \in bag[l] :
        <<id.of.clinic, l, id>> \in handed /\ \A h \in handed : h[3] = id => h[2] \in Couriers
  BY DEF Tracked, Carried
<1>4. /\ handed \subseteq handed'
      /\ \A id \in bag[k] : <<k, r, id>> \in handed'
      /\ \A h \in handed' : h \in handed \/ (h[1] = k /\ h[2] = r /\ h[3] \in bag[k])
  BY <1>1, MoreHanded
<1>5. HandedInTurn'
  BY <1>3, <1>4 DEF Tracked, HandedInTurn
<1>6. HandedOnce'
  BY <1>2, <1>3, <1>4, RolesApart DEF Tracked, HandedOnce
<1>7. Waiting'
  <2>1. \A id : Filed(id)' <=> Filed(id)
    BY <1>1 DEF Filed
  <2>2. \A id \in bag[k] : \E h \in handed : h[3] = id
    <3> SUFFICES ASSUME NEW id \in bag[k] PROVE \E h \in handed : h[3] = id
      OBVIOUS
    <3>1. <<id.of.clinic, k, id>> \in handed /\ <<id.of.clinic, k, id>>[3] = id
      BY <1>3
    <3> QED
      BY <3>1
  <2> QED
    BY <1>1, <1>4, <2>1, <2>2 DEF Tracked, Waiting
<1>8. Carried'
  <2>1. \A l \in Couriers : bag'[l] = IF l = k THEN {} ELSE bag[l]
    BY <1>1
  <2>2. \A s \in RelayNodes : relayStore'[s] = IF s = r THEN relayStore[r] \cup bag[k] ELSE relayStore[s]
    BY <1>1
  <2>3. \A l \in Couriers \ {k} : bag[l] \cap bag[k] = {}
    <3> SUFFICES ASSUME NEW l \in Couriers, NEW id \in bag[l], id \in bag[k] PROVE l = k
      OBVIOUS
    <3> DEFINE g == <<id.of.clinic, l, id>>
               h == <<id.of.clinic, k, id>>
    <3>1. g \in handed /\ h \in handed /\ g[3] = h[3] /\ g[2] = l /\ h[2] = k
      BY <1>3
    <3> QED
      BY <3>1 DEF Tracked, HandedOnce
  <2>4. \A l \in Couriers : \A id \in bag'[l] :
          <<id.of.clinic, l, id>> \in handed' /\ \A h \in handed' : h[3] = id => h[2] \in Couriers
    BY <1>3, <1>4, <2>1, <2>3
  <2>5. \A s \in RelayNodes : \A id \in relayStore'[s] : \E l \in Couriers : <<l, s, id>> \in handed'
    BY <1>4, <2>2 DEF Tracked, Carried
  <2> QED
    BY <2>4, <2>5 DEF Carried
<1>9. b \in Record
  BY <1>1 DEF Record, Custodians
<1>10. /\ \A n \in DOMAIN batches : n \in DOMAIN batches' /\ batches'[n] = batches[n]
       /\ \A n \in DOMAIN batches' : n \in DOMAIN batches \/ batches'[n] = b
       /\ \E n \in DOMAIN batches' : batches'[n] = b
  BY <1>1, <1>9, MoreRecords DEF RegionInvariant, RegionTypeOK
<1>11. OnRecord'
  BY <1>4, <1>10 DEF Tracked, OnRecord
<1>12. RecordsHonest'
  BY <1>2, <1>10 DEF Tracked, RecordsHonest
<1> QED
  BY <1>5, <1>6, <1>7, <1>8, <1>11, <1>12 DEF Tracked

\* The hub has what a relay had.
LEMMA TrackedUplink ==
  ASSUME RegionInvariant, Tracked, NEW r \in RelayNodes, NEW ids \in SUBSET relayStore[r], Uplink(r, ids)
  PROVE  Tracked'
<1>1. /\ relayStore' = [relayStore EXCEPT ![r] = @ \ ids] /\ Handover(r, DistrictHub, ids)
      /\ UNCHANGED <<day, hour, queue, bag, batches>>
      /\ relayStore \in [RelayNodes -> SUBSET Bundle]
  BY DEF Uplink, RegionInvariant, RegionTypeOK
<1>2. /\ DistrictHub \notin Couriers /\ DistrictHub \notin RelayNodes /\ DistrictHub \notin Custodians /\ r \notin Couriers
  BY RolesApart DEF Custodians, DistrictHub, RelayNodes, Couriers
<1>3. \A id \in ids : \E k \in Couriers : <<k, r, id>> \in handed
  BY DEF Tracked, Carried
<1>4. /\ handed \subseteq handed'
      /\ \A h \in handed' : h \in handed \/ (h[1] = r /\ h[2] = DistrictHub /\ h[3] \in ids)
  BY <1>1, MoreHanded
<1>5. \A id \in ids : \E h \in handed : h[3] = id /\ h[2] = r
  <2> SUFFICES ASSUME NEW id \in ids PROVE \E h \in handed : h[3] = id /\ h[2] = r
    OBVIOUS
  <2>1. PICK k \in Couriers : <<k, r, id>> \in handed
    BY <1>3
  <2>2. <<k, r, id>>[3] = id /\ <<k, r, id>>[2] = r
    OBVIOUS
  <2> QED
    BY <2>1, <2>2
<1>6. HandedInTurn'
  BY <1>3, <1>4 DEF Tracked, HandedInTurn
<1>7. HandedOnce'
  BY <1>2, <1>4 DEF Tracked, HandedOnce
<1>8. Waiting'
  <2>1. \A id : Filed(id)' <=> Filed(id)
    BY <1>1 DEF Filed
  <2> QED
    BY <1>1, <1>4, <1>5, <2>1 DEF Tracked, Waiting
<1>9. Carried'
  <2>1. \A s \in RelayNodes : relayStore'[s] \subseteq relayStore[s]
    BY <1>1
  <2>2. \A k \in Couriers : \A id \in bag[k] :
          <<id.of.clinic, k, id>> \in handed /\ \A h \in handed : h[3] = id => h[2] \in Couriers
    BY DEF Tracked, Carried
  <2>3. \A k \in Couriers : bag[k] \cap ids = {}
    <3> SUFFICES ASSUME NEW k \in Couriers, NEW id \in bag[k], id \in ids PROVE FALSE
      OBVIOUS
    <3>1. PICK h \in handed : h[3] = id /\ h[2] = r
      BY <1>5
    <3> QED
      BY <1>2, <2>2, <3>1
  <2>4. \A k \in Couriers : \A id \in bag'[k] :
          <<id.of.clinic, k, id>> \in handed' /\ \A h \in handed' : h[3] = id => h[2] \in Couriers
    BY <1>1, <1>4, <2>2, <2>3
  <2> QED
    BY <1>4, <2>1, <2>4 DEF Tracked, Carried
<1>10. OnRecord'
  BY <1>1, <1>2, <1>4 DEF Tracked, OnRecord
<1> QED
  BY <1>1, <1>6, <1>7, <1>8, <1>9, <1>10 DEF Tracked, RecordsHonest

\* Spoiling the evidence takes no record away, and no courier's or relay's
\* record says more than the truth.
LEMMA TrackedSpoilt ==
  ASSUME RegionInvariant, Tracked, UNCHANGED <<day, hour, queue, bag, relayStore, handed>>,
         \A n \in DOMAIN batches :
           /\ n \in DOMAIN batches'
           /\ batches'[n].prev = batches[n].prev /\ batches'[n].hop = batches[n].hop
           /\ batches'[n].leaves = batches[n].leaves,
         RecordsHonest'
  PROVE  Tracked'
<1>1. OnRecord'
  BY DEF Tracked, OnRecord
<1>2. Waiting'
  BY DEF Tracked, Waiting, Filed
<1> QED
  BY <1>1, <1>2 DEF Tracked, HandedInTurn, HandedOnce, Carried

LEMMA TrackedStep == RegionInvariant /\ Tracked /\ [RegionNext]_regionVars => Tracked'
<1> SUFFICES ASSUME RegionInvariant, Tracked, [RegionNext]_regionVars PROVE Tracked'
  OBVIOUS
<1>0. ASSUME UNCHANGED <<day, hour, queue, bag, relayStore, handed, batches>> PROVE Tracked'
  BY <1>0 DEF Tracked, HandedInTurn, HandedOnce, Waiting, Filed, Carried, OnRecord, RecordsHonest
<1>1. ASSUME NEW k \in Couriers, FoundNothing(k) PROVE Tracked'
  BY <1>0, <1>1 DEF FoundNothing
<1>2. CASE EndDay
  <2>1. UNCHANGED <<queue, bag, relayStore, handed, batches>>
    BY <1>2 DEF EndDay
  <2>2. \A id \in Bundle : Filed(id) => Filed(id)'
    <3> SUFFICES ASSUME NEW id \in Bundle, Filed(id) PROVE Filed(id)'
      OBVIOUS
    <3>1. id.of.day \in Int /\ day \in Int
      BY DEF Bundle, Payload, RegionInvariant, RegionTypeOK
    <3>2. \/ day' = day + 1
          \/ day' = day /\ hour' = "settling"
      BY <1>2 DEF EndDay
    <3> QED
      BY <3>1, <3>2 DEF Filed
  <2>3. /\ \A c \in ClinicList : queue[c] \subseteq Bundle
        /\ \A h \in handed : h[3] \in Bundle
    BY DEF RegionInvariant, RegionTypeOK
  <2>4. Waiting'
    BY <2>1, <2>2, <2>3 DEF Tracked, Waiting
  <2> QED
    BY <2>1, <2>4 DEF Tracked, HandedInTurn, HandedOnce, Carried, OnRecord, RecordsHonest
<1>3. ASSUME NEW id \in Bundle, AlterChunk(id) PROVE Tracked'
  BY <1>0, <1>3 DEF AlterChunk, Spoil
<1>4. ASSUME NEW payload \in Payload, FakeManifest(payload) PROVE Tracked'
  BY <1>0, <1>4 DEF FakeManifest, Spoil
<1>5. ASSUME NEW r \in RelayNodes, NEW ids \in SUBSET Received, DropBundles(r, ids) PROVE Tracked'
  BY <1>0, <1>5 DEF DropBundles, Spoil
<1>6. ASSUME NEW n \in DOMAIN batches, ResignPickup(n) PROVE Tracked'
  <2>1. /\ batches' = [batches EXCEPT ![n].sound = FALSE]
        /\ batches[n].hop \in Couriers
        /\ UNCHANGED <<day, hour, queue, bag, relayStore, handed>>
    BY <1>6 DEF ResignPickup, Spoil
  <2>2. /\ DOMAIN batches' = DOMAIN batches
        /\ \A m \in DOMAIN batches : /\ batches'[m].prev = batches[m].prev
                                     /\ batches'[m].hop = batches[m].hop
                                     /\ batches'[m].leaves = batches[m].leaves
                                     /\ m # n => batches'[m].sound = batches[m].sound
    <3>1. batches \in Seq(Record) /\ batches[n] \in Record
      BY DEF RegionInvariant, RegionTypeOK
    <3>2. /\ DOMAIN batches' = DOMAIN batches
          /\ batches'[n] = [batches[n] EXCEPT !.sound = FALSE]
          /\ \A m \in DOMAIN batches : m # n => batches'[m] = batches[m]
      BY <2>1, <3>1
    <3>3. /\ batches'[n].prev = batches[n].prev /\ batches'[n].hop = batches[n].hop
          /\ batches'[n].leaves = batches[n].leaves
      BY <3>1, <3>2 DEF Record
    <3> QED
      BY <3>2, <3>3
  <2>3. RecordsHonest'
    BY <2>1, <2>2, RolesApart DEF Tracked, RecordsHonest
  <2> QED
    BY <2>1, <2>2, <2>3, TrackedSpoilt
<1>7. ASSUME NEW n \in DOMAIN batches, ReplayRecord(n) PROVE Tracked'
  <2>1. /\ batches' = Append(batches, batches[n]) /\ batches[n] \in Record
        /\ batches \in Seq(Record)
        /\ UNCHANGED <<day, hour, queue, bag, relayStore, handed>>
    BY <1>7 DEF ReplayRecord, Spoil, RegionInvariant, RegionTypeOK
  <2>2. /\ \A m \in DOMAIN batches : m \in DOMAIN batches' /\ batches'[m] = batches[m]
        /\ \A m \in DOMAIN batches' : m \in DOMAIN batches \/ batches'[m] = batches[n]
    BY <2>1, MoreRecords
  <2>3. RecordsHonest'
    BY <2>2 DEF Tracked, RecordsHonest
  <2> QED
    BY <2>1, <2>2, <2>3, TrackedSpoilt
<1>8. ASSUME NEW n \in DOMAIN batches, NEW k \in Couriers, NEW ids \in SUBSET batches[n].leaves,
             ClaimPickup(k, n, ids)
      PROVE  Tracked'
  <2> DEFINE b == [prev |-> batches[n].prev, hop |-> k, leaves |-> ids, sound |-> TRUE]
  <2>1. /\ batches' = Append(batches, b) /\ batches[n] \in Record
        /\ batches \in Seq(Record) /\ batches[n].hop \in Couriers
        /\ UNCHANGED <<day, hour, queue, bag, relayStore, handed>>
    BY <1>8 DEF ClaimPickup, Sign, Spoil, RegionInvariant, RegionTypeOK
  <2>2. b \in Record
    BY <2>1 DEF Record, Custodians
  <2>3. /\ \A m \in DOMAIN batches : m \in DOMAIN batches' /\ batches'[m] = batches[m]
        /\ \A m \in DOMAIN batches' : m \in DOMAIN batches \/ batches'[m] = b
    BY <2>1, <2>2, MoreRecords
  <2>4. RecordsHonest'
    BY <2>1, <2>3, RolesApart DEF Tracked, RecordsHonest
  <2> QED
    BY <2>1, <2>3, <2>4, TrackedSpoilt
<1>9. CASE UNCHANGED regionVars
  BY <1>0, <1>9 DEF regionVars
<1> QED
  BY <1>1, <1>2, <1>3, <1>4, <1>5, <1>6, <1>7, <1>8, <1>9,
     TrackedFiling, TrackedVisit, TrackedHandOver, TrackedUplink DEF RegionNext

-----------------------------------------------------------------------------
(* The hub's accounting.                                                   *)

\* Of the numbers up to a bound, any that are such have a first.
LEMMA FirstIsThere ==
  ASSUME NEW N \in Nat, NEW S, S \subseteq 0 .. N, S # {}
  PROVE  \E m \in S : \A x \in S : m <= x
<1> DEFINE below(m) == {x \in S : x <= m}
           T == {below(m) : m \in S}
<1>1. T \subseteq SUBSET S /\ T # {}
  OBVIOUS
<1>2. IsFiniteSet(S)
  <2>1. IsFiniteSet(0 .. N)
    BY FS_Interval
  <2> QED
    BY <2>1, FS_Subset
<1>3. IsWellFoundedOn(StrictSubsetOrdering(S), SUBSET S)
  BY <1>2, FS_FiniteSubsetsOfFinite, FS_StrictSubsetOrderingWellFounded
<1> HIDE DEF T
<1>4. PICK U \in T : \A V \in T : ~(<<V, U>> \in StrictSubsetOrdering(S))
  BY <1>1, <1>3, WFMin
<1>5. PICK m \in S : U = below(m)
  BY <1>4 DEF T
<1>6. ASSUME NEW y \in S, y < m PROVE FALSE
  <2>1. below(y) \in T
    BY DEF T
  <2>2. y \in Nat /\ m \in Nat /\ \A x \in S : x \in Nat
    OBVIOUS
  <2>3. below(y) \subseteq below(m) /\ m \in below(m) /\ m \notin below(y)
    <3>1. \A x \in S : x <= y => x <= m
      BY <1>6, <2>2
    <3>2. m <= m /\ ~(m <= y)
      BY <1>6, <2>2
    <3> QED
      BY <3>1, <3>2
  <2>4. below(y) # below(m)
    BY <2>3
  <2>5. <<below(y), below(m)>> \in StrictSubsetOrdering(S)
    BY <2>3, <2>4 DEF StrictSubsetOrdering
  <2> QED
    BY <1>4, <1>5, <2>1, <2>5
<1>7. m \in Nat /\ \A x \in S : x \in Nat
  OBVIOUS
<1> QED
  BY <1>6, <1>7

\* The paths that begin at a clinic: the courier's record, or the courier's and
\* the relay's.
LEMMA ShortPaths ==
  ASSUME RegionInvariant, NEW id \in Bundle, NEW c \in ClinicList, NEW p \in Paths(id, c)
  PROVE  \/ Len(p) = 1 /\ p \in [1 .. 1 -> DOMAIN batches]
         \/ /\ Len(p) = 2 /\ p \in [1 .. 2 -> DOMAIN batches]
            /\ batches[p[2]].hop \in RelayNodes
            /\ <<batches[p[1]].hop, batches[p[2]].hop, id>> \in handed
<1>1. /\ Len(p) \in Nat /\ Len(p) >= 1 /\ DOMAIN p = 1 .. Len(p)
      /\ \A i \in DOMAIN p : p[i] \in DOMAIN batches
  BY PathOfRecords
<1>2. p \in [DOMAIN p -> DOMAIN batches]
  <2>1. PICK m \in 1 .. MaxWalk : p \in [1 .. m -> Covering(id)]
    BY DEF Paths
  <2> QED
    BY <1>1, <2>1
<1>3. ASSUME Len(p) >= 3 PROVE FALSE
  <2>1. 1 \in DOMAIN p /\ 2 \in DOMAIN p /\ 3 \in DOMAIN p /\ 1 + 1 = 2 /\ 2 + 1 = 3
    BY <1>1, <1>3
  <2>2. batches[p[2]].hop \in RelayNodes
    BY <2>1, BeforeAnother
  <2>3. batches[p[3]].hop \in RelayNodes /\ batches[p[3]].prev = batches[p[2]].hop
    <3>1. batches[p[2 + 1]].hop \in RelayNodes
      BY <2>1, BeforeAnother
    <3>2. 3 > 1 => batches[p[3]].prev = batches[p[3 - 1]].hop
      BY <2>1, PathOfRecords
    <3>3. 3 > 1 /\ 3 - 1 = 2
      OBVIOUS
    <3> QED
      BY <2>1, <3>1, <3>2, <3>3
  <2>4. batches[p[3]].prev \in Couriers
    BY <1>1, <2>1, <2>3 DEF RegionInvariant, RecordsTell
  <2> QED
    BY <2>2, <2>3, <2>4, RolesApart
<1>4. CASE Len(p) = 1
  BY <1>1, <1>2, <1>4
<1>5. CASE Len(p) = 2
  <2>1. 1 \in DOMAIN p /\ 1 + 1 \in DOMAIN p /\ 1 + 1 = 2
    BY <1>1, <1>5
  <2> QED
    BY <1>1, <1>2, <1>5, <2>1, BeforeAnother
<1> QED
  BY <1>1, <1>3, <1>4, <1>5

\* Of short paths one is tried before all others, and it is a long one if there
\* is a long one.
LEMMA LongestIsFirst ==
  ASSUME NEW N \in Nat, NEW S, NEW long \in S, Len(long) = 2,
         \A p \in S : \/ Len(p) = 1 /\ p \in [1 .. 1 -> 1 .. N]
                      \/ Len(p) = 2 /\ p \in [1 .. 2 -> 1 .. N]
  PROVE  (\E p \in S : p \in FirstOf(S)) /\ \A p \in FirstOf(S) : Len(p) = 2
<1> DEFINE two == {p \in S : Len(p) = 2}
           heads == {p[1] : p \in two}
<1>1. \A p \in two : p \in [1 .. 2 -> 1 .. N] /\ p[1] \in 0 .. N /\ p[2] \in 0 .. N
  OBVIOUS
<1>2. PICK a \in heads : \A x \in heads : a <= x
  <2>1. heads \subseteq 0 .. N /\ heads # {}
    BY <1>1
  <2> HIDE DEF heads
  <2> QED
    BY <2>1, FirstIsThere
<1> DEFINE tails == {p[2] : p \in {q \in two : q[1] = a}}
<1>3. PICK b \in tails : \A x \in tails : b <= x
  <2>1. tails \subseteq 0 .. N /\ tails # {}
    BY <1>1, <1>2
  <2> HIDE DEF tails
  <2> QED
    BY <2>1, FirstIsThere
<1>4. PICK p \in two : p[1] = a /\ p[2] = b
  BY <1>3
<1>5. ASSUME NEW q \in S \ {p} PROVE TriedBefore(p, q)
  <2>1. CASE Len(q) = 1
    BY <1>4, <2>1 DEF TriedBefore
  <2>2. CASE Len(q) = 2
    <3>1. q \in two /\ q \in [1 .. 2 -> 1 .. N] /\ p \in [1 .. 2 -> 1 .. N]
      BY <1>1, <1>4, <2>2
    <3>2. q[1] \in heads /\ a <= q[1] /\ (q[1] = a => q[2] \in tails /\ b <= q[2])
      BY <1>2, <1>3, <3>1
    <3>3. p[1] # q[1] \/ p[2] # q[2]
      BY <3>1, <1>5
    <3>4. p[1] \in Int /\ p[2] \in Int /\ q[1] \in Int /\ q[2] \in Int
      BY <3>1
    <3>5. p[1] < q[1] \/ (p[1] = q[1] /\ p[2] < q[2])
      BY <1>4, <3>2, <3>3, <3>4
    <3>6. DOMAIN p = 1 .. 2
      BY <3>1
    <3>7. \E i \in DOMAIN p : p[i] < q[i] /\ \A j \in 1 .. (i - 1) : p[j] = q[j]
      <4>1. CASE p[1] < q[1]
        <5>1. 1 \in DOMAIN p /\ \A j \in 1 .. (1 - 1) : p[j] = q[j]
          BY <3>6
        <5> QED
          BY <4>1, <5>1
      <4>2. CASE p[1] = q[1] /\ p[2] < q[2]
        <5>1. 2 \in DOMAIN p /\ \A j \in 1 .. (2 - 1) : j = 1
          BY <3>6
        <5>2. \A j \in 1 .. (2 - 1) : p[j] = q[j]
          BY <4>2, <5>1
        <5> QED
          BY <4>2, <5>1, <5>2
      <4> QED
        BY <3>5, <4>1, <4>2
    <3> QED
      BY <1>4, <2>2, <3>7 DEF TriedBefore
  <2> QED
    BY <2>1, <2>2
<1>6. p \in FirstOf(S)
  BY <1>4, <1>5 DEF FirstOf
<1>7. ASSUME NEW q \in FirstOf(S) PROVE Len(q) = 2
  <2>1. q \in S /\ (q = long \/ TriedBefore(q, long))
    BY DEF FirstOf
  <2> QED
    BY <2>1 DEF TriedBefore
<1> QED
  BY <1>4, <1>6, <1>7

\* What is on record of a bundle that courier k brought to relay r, and whose
\* pickup is not forged.
LEMMA RouteOnRecord ==
  ASSUME RegionInvariant, Tracked, NEW id \in Bundle, NEW k \in Couriers, NEW r \in RelayNodes,
         <<k, r, id>> \in handed
  PROVE  /\ id.of.clinic \in ClinicList
         /\ \A p \in Paths(id, id.of.clinic) : Len(p) = 2 =>
              batches[p[1]].hop = k /\ batches[p[2]].hop = r
         /\ ~PickupForged(id) =>
              \E p \in Paths(id, id.of.clinic) : Len(p) = 2 /\ PathVerifies(p)
<1> DEFINE c == id.of.clinic
<1>1. c \in ClinicList
  BY DEF Bundle, Payload
<1>2. \A k1 \in Couriers : \A r1 \in RelayNodes : <<k1, r1, id>> \in handed =>
        <<c, k1, id>> \in handed
  <2> SUFFICES ASSUME NEW k1 \in Couriers, NEW r1 \in RelayNodes, <<k1, r1, id>> \in handed
               PROVE  <<c, k1, id>> \in handed
    OBVIOUS
  <2> DEFINE h == <<k1, r1, id>>
  <2>1. h \in handed /\ h[1] = k1 /\ h[2] = r1 /\ h[3] = id
    OBVIOUS
  <2>2. r1 \notin Couriers /\ k1 \notin RelayNodes
    BY RolesApart
  <2> HIDE DEF h
  <2> QED
    BY <2>1, <2>2 DEF Tracked, HandedInTurn
<1>3. ASSUME NEW k1 \in Couriers, NEW r1 \in RelayNodes, <<k1, r1, id>> \in handed
      PROVE  k1 = k /\ r1 = r
  <2> DEFINE h == <<k, r, id>>
             h1 == <<k1, r1, id>>
             g == <<c, k, id>>
             g1 == <<c, k1, id>>
  <2>1. h \in handed /\ h1 \in handed /\ g \in handed /\ g1 \in handed
    BY <1>2, <1>3
  <2>2. /\ h[2] = r /\ h1[2] = r1 /\ g[2] = k /\ g1[2] = k1
        /\ h[3] = id /\ h1[3] = id /\ g[3] = id /\ g1[3] = id
    OBVIOUS
  <2> HIDE DEF h, h1, g, g1
  <2> QED
    BY <2>1, <2>2 DEF Tracked, HandedOnce
<1>4. ASSUME NEW p \in Paths(id, c), Len(p) = 2
      PROVE  batches[p[1]].hop = k /\ batches[p[2]].hop = r
  <2>1. batches[p[2]].hop \in RelayNodes /\ <<batches[p[1]].hop, batches[p[2]].hop, id>> \in handed
    <3>1. \/ Len(p) = 1
          \/ /\ batches[p[2]].hop \in RelayNodes
             /\ <<batches[p[1]].hop, batches[p[2]].hop, id>> \in handed
      BY <1>1, ShortPaths
    <3> QED
      BY <1>4, <3>1
  <2>2. batches[p[1]].hop \in Couriers
    <3>1. 1 \in DOMAIN p /\ p[1] \in DOMAIN batches /\ batches[p[1]] \in Record /\ batches[p[1]].prev = c
      BY <1>1, <1>4, PathOfRecords
    <3> QED
      BY <1>1, <3>1, RolesApart DEF Record, Custodians, RegionInvariant, RecordsTell
  <2> QED
    BY <1>3, <2>1, <2>2
<1>5. ASSUME ~PickupForged(id)
      PROVE  \E p \in Paths(id, c) : Len(p) = 2 /\ PathVerifies(p)
  <2> DEFINE g == <<c, k, id>>
             h == <<k, r, id>>
  <2>1. g \in handed /\ g[2] = k /\ g[3] = id /\ h \in handed /\ h[1] = k /\ h[2] = r /\ h[3] = id
    BY <1>2
  <2> HIDE DEF g, h
  <2>2. PICK a \in DOMAIN batches : batches[a].hop = k /\ id \in batches[a].leaves /\ batches[a].sound
    BY <1>5, <2>1 DEF PickupForged
  <2>3. batches[a].prev = c
    BY <2>2 DEF Tracked, RecordsHonest
  <2>4. PICK b \in DOMAIN batches : /\ batches[b].prev = k /\ batches[b].hop = r
                                    /\ id \in batches[b].leaves
    BY <2>1 DEF Tracked, OnRecord, Custodians
  <2>5. batches[b].sound
    BY <2>4 DEF Tracked, RecordsHonest
  <2>6. a # b
    BY <2>2, <2>4, RolesApart
  <2> DEFINE p == [i \in 1 .. 2 |-> IF i = 1 THEN a ELSE b]
  <2>7. /\ p \in [1 .. 2 -> Covering(id)] /\ DOMAIN p = 1 .. 2 /\ Len(p) = 2
        /\ p[1] = a /\ p[2] = b
    BY <2>2, <2>4 DEF Covering
  <2> HIDE DEF p
  <2>8. \A i \in 1 .. 2 : i = 1 \/ i = 2
    OBVIOUS
  <2>9. p \in UNION {[1 .. m -> Covering(id)] : m \in 1 .. MaxWalk}
    <3>1. 2 \in 1 .. MaxWalk
      BY DEF MaxWalk
    <3> QED
      BY <2>7, <3>1
  <2>10. p \in Paths(id, c)
    <3>1. \A i, j \in DOMAIN p : p[i] = p[j] => i = j
      BY <2>6, <2>7, <2>8
    <3>2. \A i \in DOMAIN p :
            batches[p[i]].prev = IF i = 1 THEN c ELSE batches[p[i - 1]].hop
      <4>1. 2 # 1 /\ 2 - 1 = 1
        OBVIOUS
      <4> QED
        BY <2>2, <2>3, <2>4, <2>7, <2>8, <4>1
    <3> QED
      BY <2>9, <3>1, <3>2 DEF Paths
  <2>11. PathVerifies(p)
    BY <2>2, <2>5, <2>7, <2>8 DEF PathVerifies
  <2> QED
    BY <2>7, <2>10, <2>11
<1> QED
  BY <1>1, <1>4, <1>5

\* A bundle known from the records alone is its clinic's.
LEMMA ClinicIsKnown ==
  ASSUME RegionInvariant, Tracked, NEW id \in Bundle, NEW p \in Paths(id, id.of.clinic)
  PROVE  SourceClinic(id) = {id.of.clinic}
<1> DEFINE M == {m \in Covering(id) : batches[m].prev \in ClinicList}
<1>1. id.of.clinic \in ClinicList
  BY DEF Bundle, Payload
<1>2. \A m \in M : batches[m].prev = id.of.clinic
  <2> SUFFICES ASSUME NEW m \in M PROVE batches[m].prev = id.of.clinic
    OBVIOUS
  <2>1. m \in DOMAIN batches /\ id \in batches[m].leaves /\ batches[m].prev \in ClinicList
    BY DEF Covering
  <2>2. batches[m] \in Record
    BY <2>1 DEF RegionInvariant, RegionTypeOK
  <2>3. batches[m].hop \in Couriers
    BY <2>1, <2>2, RolesApart DEF Record, Custodians, RegionInvariant, RecordsTell
  <2> QED
    BY <2>1, <2>3 DEF Tracked, RecordsHonest
<1>3. p[1] \in M
  BY <1>1, PathOfRecords DEF Covering
<1>4. Len(batches) \in Nat /\ DOMAIN batches = 1 .. Len(batches)
  BY DEF RegionInvariant, RegionTypeOK
<1>5. M \subseteq 0 .. Len(batches)
  BY <1>4 DEF Covering
<1>6. PICK m \in M : \A x \in M : m <= x
  <2> HIDE DEF M
  <2> QED
    BY <1>3, <1>4, <1>5, FirstIsThere
<1>7. id.of.clinic \in SourceClinic(id)
  BY <1>2, <1>6 DEF SourceClinic
<1>8. \A d \in SourceClinic(id) : d = id.of.clinic
  BY <1>2 DEF SourceClinic
<1> QED
  BY <1>7, <1>8

\* What the hub finds out about a bundle that courier k brought to relay r and
\* that has not come.
LEMMA MissingIsTraced ==
  ASSUME RegionInvariant, Tracked, NEW id \in Bundle, NEW k \in Couriers, NEW r \in RelayNodes,
         <<k, r, id>> \in handed, id \notin Spoilt, id \notin Received
  PROVE  LocatedAt(id) = {r} /\ PaidFor(id) = {k}
<1> DEFINE S == MissingPaths(id)
<1>1. PICK long \in Paths(id, id.of.clinic) : Len(long) = 2 /\ PathVerifies(long)
  BY RouteOnRecord DEF Spoilt
<1>2. SourceClinic(id) = {id.of.clinic}
  BY ClinicIsKnown
<1>3. S = {p \in Paths(id, id.of.clinic) : PathVerifies(p)}
  BY <1>2 DEF MissingPaths
<1>4. DOMAIN batches = 1 .. Len(batches) /\ Len(batches) \in Nat
  BY DEF RegionInvariant, RegionTypeOK
<1>5. \A p \in S : \/ Len(p) = 1 /\ p \in [1 .. 1 -> 1 .. Len(batches)]
                   \/ Len(p) = 2 /\ p \in [1 .. 2 -> 1 .. Len(batches)]
  <2> SUFFICES ASSUME NEW p \in Paths(id, id.of.clinic)
               PROVE  \/ Len(p) = 1 /\ p \in [1 .. 1 -> DOMAIN batches]
                      \/ Len(p) = 2 /\ p \in [1 .. 2 -> DOMAIN batches]
    BY <1>3, <1>4
  <2>1. id.of.clinic \in ClinicList
    BY RouteOnRecord
  <2> QED
    BY <2>1, ShortPaths
<1>6. long \in S
  BY <1>1, <1>3
<1> HIDE DEF S
<1>7. (\E p \in S : p \in FirstOf(S)) /\ \A p \in FirstOf(S) : Len(p) = 2
  BY <1>1, <1>4, <1>5, <1>6, LongestIsFirst
<1>8. \A p \in FirstOf(S) : batches[p[1]].hop = k /\ batches[p[2]].hop = r /\ Len(p) = 2
  BY <1>3, <1>7, RouteOnRecord DEF FirstOf
<1>9. LocatedAt(id) = {r}
  BY <1>7, <1>8 DEF LocatedAt, LastHop, S
<1>10. \A p \in FirstOf(S) : {batches[p[i]].hop : i \in 1 .. (Len(p) - 1)} = {k}
  <2> SUFFICES ASSUME NEW p \in FirstOf(S)
               PROVE  {batches[p[i]].hop : i \in 1 .. (Len(p) - 1)} = {k}
    OBVIOUS
  <2>1. Len(p) - 1 = 1 /\ batches[p[1]].hop = k
    BY <1>8
  <2>2. 1 .. 1 = {1}
    OBVIOUS
  <2>3. {batches[p[i]].hop : i \in 1 .. (Len(p) - 1)} = {batches[p[i]].hop : i \in {1}}
    BY <2>1, <2>2
  <2> QED
    BY <2>1, <2>3
<1> DEFINE before(p) == {batches[p[i]].hop : i \in 1 .. (Len(p) - 1)}
<1>11. PaidFor(id) = {k}
  <2>1. PaidFor(id) = UNION {before(p) : p \in FirstOf(S)}
    BY DEF PaidFor, S
  <2>2. \A p \in FirstOf(S) : before(p) = {k}
    BY <1>10
  <2> HIDE DEF before
  <2> QED
    BY <1>7, <2>1, <2>2
<1> QED
  BY <1>9, <1>11

\* And that has come.
LEMMA ReceivedIsPaid ==
  ASSUME RegionInvariant, Tracked, NEW id \in Bundle, NEW k \in Couriers, NEW r \in RelayNodes,
         <<k, r, id>> \in handed, id \notin Spoilt, <<id, r>> \in delivered
  PROVE  PaidFor(id) = {k, r}
<1> DEFINE S == GoodPaths(id)
<1>0. id \in Received
  BY DEF Received
<1>1. PICK long \in Paths(id, id.of.clinic) : Len(long) = 2 /\ PathVerifies(long)
  BY RouteOnRecord DEF Spoilt
<1>2. long \in S
  <2>1. LastHop(long) = r
    BY <1>1, RouteOnRecord DEF LastHop
  <2> QED
    BY <1>1, <2>1 DEF GoodPaths, Spoilt
<1>3. DOMAIN batches = 1 .. Len(batches) /\ Len(batches) \in Nat
  BY DEF RegionInvariant, RegionTypeOK
<1>4. S \subseteq Paths(id, id.of.clinic)
  BY DEF GoodPaths
<1>5. \A p \in S : \/ Len(p) = 1 /\ p \in [1 .. 1 -> 1 .. Len(batches)]
                   \/ Len(p) = 2 /\ p \in [1 .. 2 -> 1 .. Len(batches)]
  <2> SUFFICES ASSUME NEW p \in Paths(id, id.of.clinic)
               PROVE  \/ Len(p) = 1 /\ p \in [1 .. 1 -> DOMAIN batches]
                      \/ Len(p) = 2 /\ p \in [1 .. 2 -> DOMAIN batches]
    BY <1>3, <1>4
  <2>1. id.of.clinic \in ClinicList
    BY RouteOnRecord
  <2> QED
    BY <2>1, ShortPaths
<1> HIDE DEF S
<1>6. (\E p \in S : p \in FirstOf(S)) /\ \A p \in FirstOf(S) : Len(p) = 2
  BY <1>1, <1>2, <1>3, <1>5, LongestIsFirst
<1>7. \A p \in FirstOf(S) : /\ batches[p[1]].hop = k /\ batches[p[2]].hop = r
                            /\ DOMAIN p = 1 .. 2
  BY <1>4, <1>5, <1>6, RouteOnRecord DEF FirstOf
<1>8. \A p \in FirstOf(S) : Hops(p) = {k, r}
  <2> SUFFICES ASSUME NEW p \in FirstOf(S) PROVE Hops(p) = {k, r}
    OBVIOUS
  <2>1. DOMAIN p = {1, 2}
    BY <1>7
  <2> QED
    BY <1>7, <2>1 DEF Hops
<1> QED
  BY <1>0, <1>6, <1>8 DEF PaidFor, S

LEMMA HonestIsPaidHolds == RegionInvariant /\ Tracked => HonestIsPaid
<1> SUFFICES ASSUME RegionInvariant, Tracked, NEW h \in handed,
                    h[1] \in Custodians, h[3] \notin Spoilt,
                    h[2] = DistrictHub => <<h[3], h[1]>> \in delivered
             PROVE  h[1] \in PaidFor(h[3])
  BY DEF HonestIsPaid
<1> DEFINE id == h[3]
<1>1. /\ id \in Bundle /\ h = <<h[1], h[2], h[3]>>
      /\ h[1] \in Custodians /\ id.of.clinic \in ClinicList
  BY DEF RegionInvariant, RegionTypeOK, Bundle, Payload
<1>2. h[1] # id.of.clinic
  BY <1>1, RolesApart
<1>3. CASE h[1] \in Couriers /\ h[2] \in RelayNodes
  <2>1. CASE id \notin Received
    BY <1>1, <1>3, <2>1, MissingIsTraced
  <2>2. CASE id \in Received
    <3>1. PICK d \in delivered : d[1] = id
      BY <2>2 DEF Received
    <3>2. d = <<id, d[2]>> /\ d[2] \in RelayNodes
      BY <3>1 DEF RegionInvariant, RegionTypeOK
    <3>3. <<d[2], DistrictHub, id>> \in handed
      BY <3>1 DEF RegionInvariant, DeliveredByRelays
    <3>4. PICK k \in Couriers : <<k, d[2], id>> \in handed
      <4> DEFINE g == <<d[2], DistrictHub, id>>
      <4>1. g \in handed /\ g[1] = d[2] /\ g[2] = DistrictHub /\ g[3] = id
        BY <3>3
      <4>2. DistrictHub \notin Couriers /\ DistrictHub \notin RelayNodes
        BY DEF DistrictHub, Couriers, RelayNodes
      <4> HIDE DEF g
      <4> QED
        BY <4>1, <4>2 DEF Tracked, HandedInTurn
    <3>5. d[2] = h[2]
      <4> DEFINE g == <<k, d[2], id>>
      <4>1. g \in handed /\ g[2] = d[2] /\ g[3] = id
        BY <3>4
      <4> HIDE DEF g
      <4> QED
        BY <1>3, <3>2, <4>1 DEF Tracked, HandedOnce
    <3>6. <<id, h[2]>> \in delivered
      BY <3>1, <3>2, <3>5
    <3> QED
      BY <1>1, <1>3, <3>6, ReceivedIsPaid
  <2> QED
    BY <2>1, <2>2
<1>4. CASE h[1] \in RelayNodes /\ h[2] = DistrictHub /\ \E k \in Couriers : <<k, h[1], h[3]>> \in handed
  <2>1. PICK k \in Couriers : <<k, h[1], h[3]>> \in handed
    BY <1>4
  <2>2. PaidFor(h[3]) = {k, h[1]}
    BY <1>1, <1>4, <2>1, ReceivedIsPaid
  <2> QED
    BY <2>2
<1> QED
  BY <1>2, <1>3, <1>4 DEF Tracked, HandedInTurn

LEMMA LostIsLocatedHolds == RegionInvariant /\ Tracked => LostIsLocated
<1> SUFFICES ASSUME RegionInvariant, Tracked, NEW h \in handed,
                    h[2] \in RelayNodes, h[3] \notin Received \cup Spoilt
             PROVE  LocatedAt(h[3]) = {h[2]}
  BY DEF LostIsLocated
<1>1. h[3] \in Bundle /\ h = <<h[1], h[2], h[3]>>
  BY DEF RegionInvariant, RegionTypeOK
<1>2. h[2] \notin Couriers /\ h[2] # DistrictHub
  BY RolesApart DEF DistrictHub, RelayNodes
<1>3. h[1] \in Couriers
  BY <1>2 DEF Tracked, HandedInTurn
<1> QED
  BY <1>1, <1>3, MissingIsTraced

-----------------------------------------------------------------------------

\* Type correctness of the regional network.
THEOREM RegionTypeCorrect == RegionSpec => []RegionTypeOK
<1>1. RegionSpec => []RegionInvariant
  BY RegionInitially, RegionStep, PTL DEF RegionSpec
<1> QED
  BY <1>1, PTL DEF RegionInvariant

\* Whatever is claimed, replayed, dropped or signed again, the settlement pays a
\* custodian for a bundle only if it handed that bundle on (settle in sim.mjs).
THEOREM PayoutsAreForHandoffs == RegionSpec => []PaidHandedOn
<1>1. RegionSpec => []RegionInvariant
  BY RegionInitially, RegionStep, PTL DEF RegionSpec
<1> QED
  BY <1>1, PaidHandedOnHolds, PTL

\* Each fault is contained to the bundles it touches: whoever handed a bundle
\* on is paid for it, also when it was dropped further on or another courier
\* claims its pickup (settle in sim.mjs).
THEOREM HandoffsArePaid == RegionSpec => []HonestIsPaid
<1>1. RegionSpec => [](RegionInvariant /\ Tracked)
  BY RegionInitially, RegionStep, TrackedInitially, TrackedStep, PTL DEF RegionSpec
<1> QED
  BY <1>1, HonestIsPaidHolds, PTL

\* A bundle that was signed for and has not come is located at the relay that
\* took it, whatever else is claimed, replayed or signed again (sim.mjs:134).
THEOREM MissingBundlesAreLocated == RegionSpec => []LostIsLocated
<1>1. RegionSpec => [](RegionInvariant /\ Tracked)
  BY RegionInitially, RegionStep, TrackedInitially, TrackedStep, PTL DEF RegionSpec
<1> QED
  BY <1>1, LostIsLocatedHolds, PTL
=============================================================================
