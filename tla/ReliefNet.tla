----------------------------- MODULE ReliefNet -----------------------------
(***************************************************************************)
(* One clinic, its chain of relays and the hub, over a delay tolerant      *)
(* network that loses, duplicates, delays, reorders and damages frames:    *)
(* makeClinic and makeRelayNode of relief/kit/lib/roles.mjs with the file  *)
(* handling of node.mjs, composed with the hub of ReliefRoles.             *)
(*                                                                         *)
(* Timers fire when they like, unless Patient: then the hub's backoff      *)
(* outlasts everything in flight.  A restarted hub has its state back but  *)
(* for the requests it made (LiveIsRebuilt of ReliefHub), so HubRestart    *)
(* resets those.                                                           *)
(* No key is revoked here (ReliefHub), and every frame arrives at time 0.  *)
(***************************************************************************)
EXTENDS ReliefRoles

CONSTANTS
  HubNode,             \* the hub's node id
  TheClinic,           \* the one clinic
  NextHop,             \* config.next of the clinic and of each relay
  MaxResendsPerChunk,  \* maxResendsPerChunk
  Patient,             \* TRUE: a request is made only when nothing is in flight
  MaxFaults,           \* bound: frames lost, duplicated or damaged
  Crashable,           \* bound: the relays that may crash
  MaxRelayCrashes, MaxClinicCrashes, MaxHubCrashes   \* bounds

ASSUME NetAssumption ==
  /\ {HubNode, TheClinic} \subseteq Nodes
  /\ TheClinic \in Clinics /\ \A id \in Payloads : ClinicOf[id] = TheClinic
  /\ NextHop \in [Relays \cup {TheClinic} -> Nodes]
  /\ Patient \in BOOLEAN
  /\ Crashable \subseteq Relays
  /\ {MaxResendsPerChunk, MaxFaults, MaxRelayCrashes, MaxClinicCrashes, MaxHubCrashes} \subseteq Nat

VARIABLES
  outbox,   \* the file still lies in the clinic's outbox (disk)
  job,      \* sendFile in progress: the report and how many frames are sent; or NoJob
  store,    \* reports in sent/.bundles (disk)
  resent,   \* times each chunk was sent again (memory)
  seen,     \* requests the clinic handled (memory)
  back,     \* per relay: where each report came from (memory)
  claims,   \* per relay: claims.jsonl (disk)
  net,      \* frames in flight
  hub,      \* the hub's state
  requests, \* requests the hub has made: they are told apart by their number
  sends,    \* history: times the clinic sent each chunk
  faults, crashes

clinicVars == <<outbox, job, store, resent, seen, sends>>
relayVars  == <<back, claims>>
hubVars    == <<hub, requests>>
vars == <<clinicVars, relayVars, net, hubVars, faults, crashes>>

NoJob == [id |-> NoNode, done |-> 0]

Chunks == UNION {{<<id, i>> : i \in Index(id)} : id \in Payloads}

Resend == [kind : {"resend"}, id : Payloads, manifest : BOOLEAN, indexes : SUBSET Nat,
           route : Seq(Nodes), n : Nat]

Message == [to : Nodes, frame : Frame \cup Resend, copy : {0, 1}]

Init ==
  /\ outbox = TRUE
  /\ job = NoJob
  /\ store = {}
  /\ resent = [c \in Chunks |-> 0]
  /\ seen = {}
  /\ back = [r \in Relays |-> [id \in Payloads |-> NoNode]]
  /\ claims = [r \in Relays |-> {}]
  /\ net = {}
  /\ hub = EmptyHub
  /\ requests = 0
  /\ sends = [c \in Chunks |-> 0]
  /\ faults = 0
  /\ crashes = [relay |-> 0, clinic |-> 0, hub |-> 0]

-----------------------------------------------------------------------------
(* Frames as their senders build them.                                     *)

Packet(to, frame) == [to |-> to, frame |-> frame, copy |-> 0]

Manifest(id) == Packet(NextHop[TheClinic],
  [kind |-> "manifest", id |-> id, signer |-> <<TheClinic, 0>>, sound |-> TRUE,
   lastHop |-> TheClinic])

ChunkOf(id, i) == Packet(NextHop[TheClinic],
  [kind |-> "chunk", id |-> id, index |-> i, intact |-> TRUE, form |-> "whole", custody |-> <<>>,
   lastHop |-> TheClinic])

Stamped(f, r) ==
  [f EXCEPT !.custody = Append(@, [hop |-> r, key |-> <<r, 0>>, prev |-> f.lastHop, sound |-> TRUE]),
            !.lastHop = r]

-----------------------------------------------------------------------------
(* The clinic.                                                             *)

\* poll finds the file: it is sealed under a new report id and kept before
\* anything is sent.
Poll(id) ==
  /\ outbox /\ job = NoJob
  /\ id \notin store
  /\ store' = store \cup {id}
  /\ job' = [id |-> id, done |-> 0]
  /\ UNCHANGED <<outbox, resent, seen, sends, relayVars, net, hubVars, faults, crashes>>

\* The manifest first, then the chunks, each send awaited.
SendNext ==
  /\ job # NoJob /\ job.done <= ChunkCount[job.id]
  /\ job' = [job EXCEPT !.done = @ + 1]
  /\ IF job.done = 0
     THEN net' = net \cup {Manifest(job.id)} /\ UNCHANGED sends
     ELSE /\ net' = net \cup {ChunkOf(job.id, job.done - 1)}
          /\ sends' = [sends EXCEPT ![<<job.id, job.done - 1>>] = @ + 1]
  /\ UNCHANGED <<outbox, store, resent, seen, relayVars, hubVars, faults, crashes>>

\* renameSync into sent/, only now.
FileSent ==
  /\ job # NoJob /\ job.done > ChunkCount[job.id]
  /\ outbox' = FALSE
  /\ job' = NoJob
  /\ UNCHANGED <<store, resent, seen, sends, relayVars, net, hubVars, faults, crashes>>

\* Fault: a repeated request is answered again.
ClinicRequestRepeated(m) ==
  LET q == m.frame
      again == {i \in q.indexes : <<q.id, i>> \in Chunks /\ resent[<<q.id, i>>] < MaxResendsPerChunk}
  IN  /\ m.to = TheClinic /\ q.kind = "resend"
      /\ q.id \in store
      /\ net' = (net \ {m}) \cup (IF q.manifest THEN {Manifest(q.id)} ELSE {})
                             \cup {ChunkOf(q.id, i) : i \in again}
      /\ resent' = [c \in Chunks |-> IF c[1] = q.id /\ c[2] \in again THEN resent[c] + 1 ELSE resent[c]]
      /\ sends' = [c \in Chunks |-> IF c[1] = q.id /\ c[2] \in again THEN sends[c] + 1 ELSE sends[c]]
      /\ UNCHANGED <<outbox, job, store, seen, relayVars, hubVars, faults, crashes>>

\* A resend request: once per request, and each chunk a limited number of times.
ClinicRequest(m) ==
  LET q == m.frame
      again == {i \in q.indexes : <<q.id, i>> \in Chunks /\ resent[<<q.id, i>>] < MaxResendsPerChunk}
      answered == q.n \notin seen /\ q.id \in store
  IN  /\ m.to = TheClinic /\ q.kind = "resend"
      /\ seen' = seen \cup {q.n}
      /\ IF answered
         THEN /\ net' = (net \ {m}) \cup (IF q.manifest THEN {Manifest(q.id)} ELSE {})
                                    \cup {ChunkOf(q.id, i) : i \in again}
              /\ resent' = [c \in Chunks |-> IF c[1] = q.id /\ c[2] \in again THEN resent[c] + 1 ELSE resent[c]]
              /\ sends' = [c \in Chunks |-> IF c[1] = q.id /\ c[2] \in again THEN sends[c] + 1 ELSE sends[c]]
         ELSE net' = net \ {m} /\ UNCHANGED <<resent, sends>>
      /\ UNCHANGED <<outbox, job, store, relayVars, hubVars, faults, crashes>>

ClinicCrash ==
  /\ crashes.clinic < MaxClinicCrashes
  /\ crashes' = [crashes EXCEPT !.clinic = @ + 1]
  /\ job' = NoJob
  /\ seen' = {}
  /\ resent' = [c \in Chunks |-> 0]
  /\ UNCHANGED <<outbox, store, sends, relayVars, net, hubVars, faults>>

-----------------------------------------------------------------------------
(* A relay.                                                                *)

\* Fault: a relay claims only the first frame of a report.
RelayFrameClaimingOnce(r, m) ==
  LET f == m.frame
  IN  /\ m.to = r /\ f.kind # "resend"
      /\ back' = [back EXCEPT ![r][f.id] = f.lastHop]
      /\ net' = (net \ {m}) \cup
           {Packet(NextHop[r], IF f.kind = "chunk" THEN Stamped(f, r) ELSE [f EXCEPT !.lastHop = r])}
      /\ claims' = [claims EXCEPT ![r] = @ \cup
           (IF f.kind = "chunk" /\ back[r][f.id] = NoNode
            THEN {[id |-> f.id, index |-> f.index, from |-> f.lastHop]} ELSE {})]
      /\ UNCHANGED <<clinicVars, hubVars, faults, crashes>>

\* A manifest or a chunk going to the hub: remember where it came from; for a
\* chunk sign a receipt and log the claim; pass it on.
RelayFrame(r, m) ==
  LET f == m.frame
  IN  /\ m.to = r /\ f.kind # "resend"
      /\ back' = [back EXCEPT ![r][f.id] = f.lastHop]
      /\ IF f.kind = "chunk"
         THEN /\ claims' = [claims EXCEPT ![r] = @ \cup {[id |-> f.id, index |-> f.index, from |-> f.lastHop]}]
              /\ net' = (net \ {m}) \cup {Packet(NextHop[r], Stamped(f, r))}
         ELSE /\ net' = (net \ {m}) \cup {Packet(NextHop[r], [f EXCEPT !.lastHop = r])}
              /\ UNCHANGED claims
      /\ UNCHANGED <<clinicVars, hubVars, faults, crashes>>

\* Fault: the route in the request is not used.
BackwardByMemory(r, q) == {back[r][q.id]} \ {NoNode}

\* Where a resend request goes next: back the way the report came, or along
\* the route in the request.  Empty: it is dropped.
Backward(r, q) ==
  IF back[r][q.id] # NoNode THEN {back[r][q.id]}
  ELSE {q.route[k - 1] : k \in {j \in DOMAIN q.route : j > 1 /\ q.route[j] = r
                                    /\ \A i \in 1 .. (j - 1) : q.route[i] # r}}

RelayRequest(r, m) ==
  /\ m.to = r /\ m.frame.kind = "resend"
  /\ net' = (net \ {m}) \cup {Packet(to, m.frame) : to \in Backward(r, m.frame)}
  /\ UNCHANGED <<clinicVars, relayVars, hubVars, faults, crashes>>

\* A restarted relay rebuilds its memory from its claims.
RelayCrash(r) ==
  /\ crashes.relay < MaxRelayCrashes
  /\ crashes' = [crashes EXCEPT !.relay = @ + 1]
  /\ back' = [back EXCEPT ![r] = [id \in Payloads |->
       LET from == {c.from : c \in {d \in claims[r] : d.id = id}}
       IN  IF from = {} THEN NoNode ELSE CHOOSE n \in from : TRUE]]
  /\ UNCHANGED <<clinicVars, claims, net, hubVars, faults>>

-----------------------------------------------------------------------------
(* The hub.                                                                *)

\* No node of this network makes a frame with fields missing, and the network
\* damages bytes, not fields: ingest returns on every frame that comes.
HubFrame(m) ==
  /\ m.to = HubNode /\ m.frame.kind # "resend"
  /\ hub' = Ingest(hub, m.frame, 0, Provisioned)
  /\ net' = net \ {m}
  /\ UNCHANGED <<clinicVars, relayVars, requests, faults, crashes>>

InFlight == net # {} \/ job # NoJob

HubTick(id) ==
  LET e == hub.entries[id]
      q == Request(id, e)
  IN  /\ Wanting(id, e)
      /\ Patient => ~InFlight
      /\ hub' = [hub EXCEPT !.entries[id] = Asked(e, 0)]
      /\ requests' = requests + 1
      /\ net' = net \cup {Packet(e.via, [kind |-> "resend", id |-> id, manifest |-> q.manifest,
                                        indexes |-> q.indexes, route |-> q.route, n |-> requests])}
      /\ UNCHANGED <<clinicVars, relayVars, faults, crashes>>

\* Fault: the log is not replayed.
HubRestartEmpty ==
  /\ crashes.hub < MaxHubCrashes
  /\ crashes' = [crashes EXCEPT !.hub = @ + 1]
  /\ hub' = EmptyHub
  /\ UNCHANGED <<clinicVars, relayVars, net, requests, faults>>

\* What the log gives back of an entry.
Replayed(e) == [e EXCEPT !.resends = 0, !.nextAt = 0]

HubRestart ==
  /\ crashes.hub < MaxHubCrashes
  /\ crashes' = [crashes EXCEPT !.hub = @ + 1]
  /\ hub' = [hub EXCEPT !.entries = [id \in Payloads |-> Replayed(@[id])]]
  /\ UNCHANGED <<clinicVars, relayVars, net, requests, faults>>

-----------------------------------------------------------------------------
(* The network's faults.                                                   *)

Fault ==
  /\ faults < MaxFaults
  /\ faults' = faults + 1
  /\ UNCHANGED <<clinicVars, relayVars, hubVars, crashes>>

Lose(m) == Fault /\ net' = net \ {m}

Duplicate(m) == Fault /\ m.copy = 0 /\ net' = net \cup {[m EXCEPT !.copy = 1]}

\* A damaged request fails its signature and is as good as lost.
Damage(m) ==
  /\ Fault
  /\ \/ m.frame.kind = "chunk" /\ net' = (net \ {m}) \cup {[m EXCEPT !.frame.intact = FALSE]}
     \/ m.frame.kind = "manifest" /\ net' = (net \ {m}) \cup {[m EXCEPT !.frame.sound = FALSE]}

-----------------------------------------------------------------------------

Clinic == (\E id \in Payloads : Poll(id)) \/ SendNext \/ FileSent \/ (\E m \in net : ClinicRequest(m))
Relay  == \E m \in net, r \in Relays : RelayFrame(r, m) \/ RelayRequest(r, m)
HubActs == (\E m \in net : HubFrame(m)) \/ (\E id \in Payloads : HubTick(id))

Crashes == ClinicCrash \/ (\E r \in Crashable : RelayCrash(r)) \/ HubRestart
Faults  == \E m \in net : Lose(m) \/ Duplicate(m) \/ Damage(m)

Next == Clinic \/ Relay \/ HubActs \/ Crashes \/ Faults

Spec == Init /\ [][Next]_vars

\* The nodes keep running: a frame that is not lost is delivered in the end,
\* and a due request is made.
FairSpec == Spec /\ WF_vars(Clinic) /\ WF_vars(Relay) /\ WF_vars(HubActs)

-----------------------------------------------------------------------------

\* A relay is owed only for what its own durable claims say it carried, even
\* after crashes (makeRelayNode claims before it forwards, the hub pays on the
\* receipts).
PaidWasCarried ==
  \A p \in hub.paid : \E c \in claims[p[1]] : c.id = p[2] /\ c.index = p[3]

\* Between two restarts the clinic answers a request once, however often the
\* network repeats it, and sends a chunk again at most maxResendsPerChunk times
\* (seenRequests and resent in makeClinic): a faulty network cannot make it
\* flood the satellite link.
NoAmplification ==
  \A c \in Chunks :
    /\ sends[c] <= 1 + (1 + crashes.clinic) * requests
    /\ sends[c] <= 1 + (1 + crashes.clinic) * MaxResendsPerChunk

\* Once the hub knows which clinic a report is from, the report comes out.
Delivered ==
  \A id \in Payloads :
    Requestee(id, hub.entries[id]) # {} ~> hub.entries[id].report = "verified"

\* The network as a whole keeps the promise of ReliefDelivery.
Promise == INSTANCE ReliefDelivery WITH
  handed <- store,
  delivered <- {id \in Payloads : hub.entries[id].report = "verified"}
PromiseKept == Promise!Spec
=============================================================================
