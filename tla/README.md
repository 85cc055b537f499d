# A TLA+ model of the DTN custody stack

This directory models the program of this repository in TLA+, checks the models
with TLC on small instances and proves results about the relief kit, the gateway,
the payments and the custody machinery with TLAPS.
Four groups of modules follow four parts of the system: the relief kit
(`relief/kit`, and `relief/scale` for a region), where signed custody receipts,
resends, restarts, revoked keys and money meet; the IP-DTN gateway (`gateway`), where bundles cross connections that
break, between processes that are killed; the payments (`radio`), which reach the
network over a radio, by text, from a faucet or through another phone; and the custody machinery
with the runs built on it (`ssi`, `transport`, `flight`, `constellation`,
`voyager`, `ground`, `m0`, `r2`, `ip-sf`).
`PROJECT.json` lists every run, the source lines each definition stands for,
the hazards, the findings and the theorems.

1. [The system](#the-system)
2. [The modules](#the-modules)
3. [What is checked](#what-is-checked)
4. [Where the code and its documents disagree](#where-the-code-and-its-documents-disagree)
5. [What is proved](#what-is-proved)
6. [What is not modelled](#what-is-not-modelled)

## The system

| Part | State | Operations | Talks to | Hard |
|---|---|---|---|---|
| agent core (`agent/`) | none (pure functions); a destination's chunks | chunk, Merkle tree and proofs, sign and verify records, audit custody chains, rebuild routes | used by all | odd layers of a tree, gaps in a chain |
| relief clinic (`relief/kit`) | outbox, sent reports on disk; resend counts and handled requests in memory | seal and send a file, answer a signed resend request | next relay, hub's requests | crash while sending, repeated requests |
| relief relay | claims on disk; where each report came from in memory | stamp and forward, pass requests back | neighbours | crash, replaced device |
| relief hub | frame log and inbox on disk; reports, chunks, what each relay is owed, request counters in memory | ingest, check, finalize, tick, reload of the directory, replay | relays, operator, payout tool | frames in any order, bad frames, frames that throw, revocation, crash at any point |
| relief payout tool | `payouts.jsonl` | compute what is owed, build, broadcast, record | hub's log, ARC, the chain | crash after broadcast, overlap, ambiguous and early answers |
| relief at regional scale (`relief/scale`) | queues of clinics, bags of couriers, stores of relays; batch records, what was delivered | file, ride, hand over, uplink; settle from the evidence alone | evidence that is altered, claimed, replayed, signed again or dropped |
| IP-DTN gateway (`gateway/`) | spool on disk; session, partial reassemblies, sequence number in memory | ingress, pump, egress, reassembly | convergence layer peers | lost sessions, restarts, limits |
| convergence layers (`gateway/tcpcl*.mjs`) | session state, transfers in progress | handshake, transfer, acknowledge, refuse, keepalive, terminate | peer | crossing messages, timeouts |
| radio payments (`radio/lib`) | partial payments, NACK timers, receipts sent | frame, NACK, resend, settle, receipt | sender, ARC | half-duplex loss, early timers, repeats during a broadcast |
| SMS gateway and faucet (`radio/sms`, `radio/faucet`) | parts of texts; `claims.jsonl` | collect, settle, reply; claim a coin | the phone that relays texts, ARC | repeats handled at once, kills before a line is written |
| hand-off app (`radio/handoff`) | open wallet, its coins, outbox | fetch coins, sign, receive, send | another phone, WhatsOnChain, ARC | handlers that run while another awaits the network |
| custody block and key ring (`transport/bpv7`) | key records seen; blocks in a bundle | stamp, carry, verify, revoke; stamp a bundle that is still arriving | forwarders | mixed versions, revocation, cuts anywhere |
| flight software in C (`flight/`) | fixed-size key ring, trees in place, key file, numbered receipt files | take records, judge keys, sign to files | ground | full arrays, unsigned time, restarts |
| Solar System Internet (`ssi/`) | event queue, contact plan, rings of nodes | route, forward, spread key news, clear claims | all nodes | a copied key, news that travels with traffic |
| constellation | links by epoch, records, transactions | fly bundles, rebuild routes, audit, pay records on chain | broadcaster or node | lost records, routes that cross themselves, resumed payments |
| Voyager | windows, rounds of losses | send, NACK, resend, gap records | schedule | tracks that end or are missed |
| ground station ledger (`ground/`) | files received, sealed ledger | file, seal, verify, compare | another station | passes that overlap or touch |
| spike (`m0/`, `r2/`), link simulator, IP packets (`ip-sf/`) | sockets and queues; a log | relay, hold, verify; attribute losses | daemons, an outside simulation | outages, end marks that overtake, blame |

What makes each part correct:

- **hub**: it owes a relay only for chunks whose whole custody chain verified; a
  report is verified only with the clinic's manifest and every chunk; bad frames
  that it survives block nothing; a revoked key earns nothing; a restart changes none
  of this, and ends with the hub up if the log can be read through;
- **clinic and relays**: everything paid was claimed by the relay that is paid;
  resends are bounded; a report is delivered in the end;
- **payout**: a handoff is paid once, on evidence, and the ledger has nothing that was
  refused;
- **region**: whoever handed a bundle on is paid for it and nobody else is, and what
  did not arrive is located at the custodian that had it last;
- **gateway**: a bundle leaves the disk only when the peer has all of it, in the
  order of arrival; a payload is rebuilt only from all its fragments; what was
  accepted is settled in the end;
- **convergence layer**: a transfer ends well only when the peer has every segment,
  and each end of a session is closed in the end;
- **payments**: what anybody is told about a payment is so; a coin is given out
  once; the radio sender ends with a receipt or a reason;
- **keys and receipts**: every receipt is judged as its key deserves at that time,
  news reaches the judge with the traffic, and money follows what was carried;
- **trees, blocks, flight code**: each faster or smaller implementation decides as
  the reference does;
- **audits and ledgers**: silence has a record, the record names the right party,
  and what the records say can be rebuilt from them alone.

The processes are single-threaded Node.js programs. A handler without an `await` is
one action; where a handler awaits, the wait is a state of its own and other
handlers come in between. In the relief hub, `t.onFrame` of `node.mjs` contains no
`await`; a kill can cut it short only at the append to the log, the only write it
makes before the inbox. `sendFile` of the clinic awaits each send, so each send is
an action (`SendNext`). The payout tool awaits `fetch`, so building, broadcasting
and recording are separate actions. The gateway's `_pump` awaits connecting,
sending, the wake-up and the retry timer: its state is the place where it awaits
(`pump.pc`), and socket events, which call `_onMessage` and `_teardown`
synchronously, come in between. A promise that an event settled (`ready = "yes"`,
`"acked"`, `"failed"`) is a state of its own, because other events may come before
`_pump` resumes. In `TextGateway` and `RadioLink` a broadcast is two steps, ARC or
the network taking the payment and the answer coming back; in `Handoff` so are fetching
coins and sending the list. Where ARC answers with a status that comes before the
network's decision (`EarlyStatus`, `BroadcastEarly`), that decision is a third step
(`NetworkDecides`, `Settle`), which may never come.

## The modules

Relief kit:

| Module | Models |
|---|---|
| `ReliefRoles` | `makeHub` of `lib/roles.mjs` as functions: keys valid at an instant (`KeyAt`, `IsRevoked`), the checks (`ManifestOk`, `AuditOk`, `Acceptable`), `Finalize`, `Ingest`, on which frames these throw (`Throws`), and which resend requests are due (`Due`, `Request`, `Asked`); `revoke` of `provision.mjs` |
| `ReliefHub` | the hub's process in `node.mjs`: `Receive`, `ReceiveThrows` and `KilledWhileLogging` (frame handler), `Crash`, `Restart`, `Replay`, `Listen` (startup), `Tick` (timer: reload, then requests), `Revoke` (operator), `Advance` (clock); and the fold of the log, the replay loop and `owed` of `payout.mjs` in one step, with the claim that the live hub, a restarted one and the tool agree |
| `ReliefRolesProofs` | lemmas about the operators of `ReliefRoles` |
| `ReliefHubProofs` | the inductive invariants of `ReliefHub` and the proofs, with what the log rebuilds, what a report needs and when requests are made; those of `ReliefPayout` |
| `ReliefDelivery` | abstract: reports are handed in, and may come out |
| `ReliefNet` | clinic, chain of relays and hub over a network that loses, duplicates, reorders and damages frames; crashes of each; implements `ReliefDelivery` |
| `ReliefNetProofs` | the inductive invariant of `ReliefNet` and the proofs |
| `ReliefPayout` | runs of the payout tool, which may overlap (`Build`, `Broadcast`, `BroadcastEarly`, `BroadcastHeld`, `Book`, `Killed`), ARC and the chain (`Settle`); the proofs are in `ReliefHubProofs` |
| `ReliefRegion`, `ReliefRegionProofs` | days of `scale/sim.mjs` (`FileReports`, `Visit`, `HandOver`, `FoundNothing`, `Uplink`, `EndDay`), the faults of `scale/run.mjs` (`AlterChunk`, `ResignPickup`, `FakeManifest`, `ClaimPickup`, `ReplayRecord`, `DropBundles`), and `settle`; its invariants and the proofs |

Gateway:

| Module | Models |
|---|---|
| `Tcpcl` | one end of a TCPCL session of version 4 or 3, as functions: what it does with each message (`OnMessage`), what a transfer sends |
| `StoreAndForward` | abstract: bundles are stored, and forwarded once each in the same order |
| `Gateway` | gateway A (`FromIp`, spool, `_pump`: `Loop`, `TcpConnect`, `Connected`, `Sent`, `Catch`), gateway B (`HearB`, `FromDtn`, `Reassemble`), the connections between them, kills of both; implements `StoreAndForward` |
| `Reassembly` | the gateway's reassembly of pieces of any offset and length, which may overlap; stale sets, the buffer, restarts (run by `Missions`) |
| `GatewayProofs` | the inductive invariant of `Gateway` and the proofs |

Payments (composed by `Payments`):

| Module | Models |
|---|---|
| `Settlement` | `settlePayment` and `arcVerdict`: what ARC, before or after the network decides, or a dry run answers to a payment; frames, texts and sound chunks collected into one |
| `RadioLink` | `sendPayment` and `startGateway` over a radio that loses and garbles frames: tries, NACKs, receipts, timers |
| `TextGateway` | the webhook of `smsServer` with the SMS gateway and the faucet's claims behind it; `claims.jsonl`; kills |
| `Handoff` | the phone page: opening wallets, coins, signing, the payee's list, sending it |
| `PaymentsProofs` | the inductive invariants of `Payments` and the proofs |

Keys and receipts (composed by `SsiNetwork`):

| Module | Models |
|---|---|
| `Keyring` | records, chains of issuers, revocations, the Key Record Block (`keyring.mjs`) |
| `CustodyReceipts` | stamping and verifying version 2 receipts (`receipt-v2.mjs`); claims judged and paid between operators (`settle.mjs`) |
| `ContactRouting` | contact graph routing (`cgr.mjs`), Dijkstra's search as a fold of steps |
| `SsiNetwork` | the event loop: bundles arriving (`Deliver`), leaving (`Forward`) or stranded (`Strand`), the theft (`Compromise`), its detection (`Detect`), the clearing (`ClearPeriod`) |
| `SsiNetworkProofs` | what searches, rings, chains, receipts and clearing compute; the inductive invariant of `SsiNetwork`; the proofs |

Runs and machinery (composed by `Missions`):

| Module | Models |
|---|---|
| `Constellation` | satellites, stations and batch receipts per contact; a route rebuilt and verified from the records |
| `ChainPayments` | fan-outs, payments and anchors of a flight; sending, busy nodes, confirming, another run |
| `Spike` | the four processes over TCP or over bundle daemons with the AAP client's queues |
| `MerkleTrees` | the tree by layers, leaf by leaf and in place, and batches |
| `FlightKeyring` | `keyring.c`, fed what `Keyring` is fed |
| `BundleStream` | blocks, CRCs, integrity blocks and receipts; a receipt spliced into a bundle while it arrives, against the slow path |
| `LongHaul` | tracks, windows, rounds of loss and resend, gap records |
| `OpticalHandoff` | links that fade, the handoff, the two audits |
| `CfsCustody` | the cFS application: self-test, key file, numbered receipt files, restarts |
| `OccultedLink` | the simulated path with its outage and the gap object made from its log |
| `StationLedgers` | two stations: filing, sealing, verifying, corroborating, comparing |
| `PacketBlame` | contacts, gaps and attributions made from the log of an IP simulation |
| `MissionsProofs` | the inductive invariants of `ChainPayments`, `LongHaul`, `Reassembly`, `BundleStream`, `CfsCustody` and `PacketBlame`, and the proofs about them in `Missions` |

`MCReliefHub`, `MCReliefNet`, `MCPayments`, `MCSsiNetwork` and `MCMissions` define
the small instances; that of `Gateway` needs no more than its configuration.
`MCReliefNet` composes `ReliefNet`, `ReliefPayout` and `ReliefRegion` as parts that do
not meet: `Parts` names those a run has, and a behaviour follows one (`part`), with the
fairness of `ReliefNet` for the network.

How they meet. `ReliefHub` and `ReliefNet` both extend `ReliefRoles`: the same hub
is run once with a detailed process and an arbitrary network, and once with a simple
process and the real network. The two meet in what a restart does: `LiveIsRebuilt`
says that a restarted hub has everything back but the counters of the requests it
made, and `HubRestart` of `ReliefNet` resets exactly those. `ReliefPayout` takes
the handoffs the hub proves as given; `LiveIsRebuilt` shows that the tool computes
the same ones. `ReliefRegion` is a simulation of its own, which shares only the
record format with the kit. `SsiNetwork` lets keys, receipts, routes and clearing interact in
one run, and `FlightKeyring` holds the C code to the same `Keyring`. The services of
`Payments` share `Settlement` and its network, but a payment goes one way, so a
behaviour follows one of them (`service`). The programs of `Missions` share only
pure functions; a behaviour follows one of them (`mission`, `audit`), and composing
them loses no interleaving that the code has.

Abstractions, and why they lose nothing the properties tell apart:

- A key is a name (in the relief kit a pair of its node and a version). Nobody signs
  with another node's key, but for the thief of `SsiNetwork` and the one of
  `FlightKeyring`; which frames, texts or records arrive is otherwise free.
- A payload id stands for a sealed report. Clinic, number of chunks and whether
  it decrypts are functions of the id, as they are of the signed manifest.
- A chunk is `intact` or not; a receipt or manifest is `sound` or not; a hash is a
  term over what it hashes. Hashes and signatures are not computed. A chunk frame with
  fields missing has a `form`: `bare` if it is stored and the check throws on it (no
  bytes, no branch, a custody that is no list), `broken` if `ingest` itself throws.
- `dir.relays` is looked up through `KeyAt` for any node with a revocation, as
  `keysAt` does, also for a clinic: its old key can be a relay's key before the
  revocation.
- Clock of the hub: a revocation carries an instant after every frame already
  received. Two events in the same millisecond are not distinguished from that order.
- A bundle of the gateway is its payload's number, its place among the payload's
  bundles and how many there are; it is cut into `Segments` segments. Addresses,
  ingress receipts and byte formats are left out. A connection is two message
  queues; a break loses any suffix of each, at one instant, and each end learns of it
  after it read what did arrive. The timers of sessions (connect, acknowledgement,
  silence) fire at any moment, counted as faults.
- Bundles travel from A to B. The other direction over the same session is the same
  code with no pump behind it (`gateway.mjs:276`).
- In `ReliefNet` no key is revoked and frames arrive at time 0: times matter
  there only for requests, and timers fire at any moment, unless `Patient`.
- A payment is the coins it spends, whom it pays, its change and whether its
  signatures hold. Amounts and fees are left out.
- A block of a bundle is a few cells, the payload as many as it has elements, so
  that a cut can fall into any block, between any two, or into the payload.
- Random draws of the simulations (losses, fades, outages, which of several
  equally near next hops) are choices. A block of the chain holds every
  transaction the pool has (`MineBlock`).
- Scene-setting inputs (contact plans, traffic, key thefts, schedules, fades) are
  chosen by `Init` from small sets.

Faulty variants of definitions (their comments begin with "Fault:")
stand next to the definitions they vary. No specification uses them; each is the bug
that one of the properties detects.

## What is checked

TLC, two workers; the passing runs together take about ten minutes.

| Run | Properties | Bounds | States |
|---|---|---|---|
| `relief_hub` | `PaidIsEarned`, `VerifiedIsComplete`, `RevokedKeyNeverPaid`, `InboxRestored`, `GoodFramesSuffice`, `LiveIsRebuilt`, `LegibleLogRecovers`, `RequestsBackOff` | one report of two chunks; nine kinds of frame; four frames, of which one on which the check or `ingest` throws counts for two; one revocation, one kill, one tick of the clock, two requests in each life of the process | 1.31 M |
| `relief_net` | network: `PaidWasCarried`, `NoAmplification`, `PromiseKept`, `Delivered` | two relays, two chunks, two faults, a crash of the last relay, the clinic and the hub, three requests in each life of the hub, three sendings of a chunk again | 442 k |
| | payout tool: `LedgerIsAccepted`, `OnceOnly` | three handoffs, one of them without an address; two outputs, two runs at a time, one mishap | |
| | region: `PaidHandedOn`, `HonestIsPaid`, `LostIsLocated` | two districts with two couriers each, one clinic, two days with a report of one chunk each, two spoilings of the evidence | |
| `gateway` | `NothingLost`, `OneSession`, `DeliveredWhole`, `StoredAndForwarded`, `Arrives` | two payloads of one or two bundles, two segments each; room for two fragments; two faults, three connections; versions 4 and 3 with acknowledgements | 953 k |
| `ssi_network` | `NewsTravels`, `DestinationJudges`, `NothingForged`, `HonestEarns`, `RouteIsEarliest` | five nodes of three operators; two images and a command at eight combinations of times; eight passes of which any two may be missing; a key copied and revoked at six pairs of times | 22 k |
| `payments` | `ReceiptTellsTruth`, `FaucetPaysOnce`, `HandedOverApart`, `SenderHears` | radio: two frames, two tries, one NACK, two faults, two early timers; text: two parts, texted at most twice, two texts of three claims on two coins, one trouble (a garbled text, a reply not sent or a kill); page: two wallets, an outbox of two, two fetches, two signatures; one payment at a time that ARC has and the network has not decided | 1 630 095 |
| `missions` | `RoutesProve`, `PaidOnChain`, `OnboardAgrees`, `FilesAreNumbered`, `PartsAreKept`, `ScheduleKept`, `RebuiltIsWhole`, `SilenceExplained`, `RunSucceeds` | see below | 658 k |

The properties of `missions`, one program each, and what the instance holds:

| Property | Says | Instance |
|---|---|---|
| `RoutesProve` | the ground rebuilds the route of every bundle from records alone; if a record is lost, exactly the bundles in it fail, but for those that passed a node twice | two planes of four satellites, two stations, two bundles, RF and optical links, one outage an epoch |
| `PaidOnChain` | a confirmation that finds all well means each record is paid and anchored exactly once; an undisturbed run has nothing refused | three records, fan-outs of two, three sets of options, two runs, one fault and a kill |
| `OnboardAgrees` | `TreesAgree`: three ways of building a tree give one root, a streamed proof is the one by layers and fits no other place; `FlightAgrees`: the C key ring judges as the reference until a call returned an error | up to seven leaves, every one watched or not; five keys, thirteen kinds of arrival, three arrivals, room for four records |
| `FilesAreNumbered` | receipt files are this life's receipts in order, above them only older ones | four commands, two restarts, one file fault, two keys |
| `PartsAreKept` | `StampedRight`: stamping a bundle that is still arriving puts the same bytes on the wire as the slow way, seals and receipts hold hop by hop; `BufferIsCounted`: the gateway's count of its reassembly buffer is that of the bytes in it | twenty bundles, three custodians, up to two cells cut off or bytes after the end, pushes of one, two or all cells; pieces as for `RebuiltIsWhole` |
| `ScheduleKept` | transmissions stay within windows, resends wait for the NACK, every wait, a resend's too, has its own gap record | fourteen days, any two missed among six, three bundles each way, three losses, two rounds |
| `RebuiltIsWhole` | what is put together of fragments has every byte, and a set with enough received stays open only for a piece discarded in favour of a shorter one | up to five arrivals of twelve pieces of two bundles, among them pieces that overlap, one outside its total and one of another total; room for five bytes, sets that expire, restarts |
| `SilenceExplained` | `AuditsAgree`: both audits of the optical run say what became of every sampled bundle; `OutageExplained`, `LedgersTell`: the gap object and the ledgers of two stations account for what was silent; `LastIsBlamed`, `OutagesAreOnRecord`: so do the blame for lost packets and the records of their links | seven bundles, three ways to fade on each fading link; three bundles over an outage with one loss; two schedules, two products, five moments; two packets, three routers, three plans for each link, drops |
| `RunSucceeds` | the spike ends, with a verified payload or one of the named faults | two chunks, TCP and daemons, one turned-away bundle, an outage on either relay |

The bounds. Four frames are a manifest, two good chunks and one more, so a bad
frame, a duplicate or a chunk under the replacement key fits in front of, between
or after the ones that complete the report; a frame that throws ends the process, so
what matters is what came before it and the restart after it, and a chunk without its
bytes still finds room before its manifest or after it; one revocation with one kill puts the
replay under a newer directory than the frames arrived under, and the kill may also
fall between two lines of the startup. One tick of the clock lets a request fall due,
before and after a restart; that the wait doubles with each further request of a life
is proved (`RequestsAreSpaced`), for any clock. Two relays are the least with a
receipt that does not name the clinic, with a gap, and with a relay that is neither
first nor last. Two faults together with a crash of each role let a lost frame, or a
repeated request, meet a node that has forgotten. Two couriers of a district and two
districts let a courier claim what another collected, and let a closed road lead to a
relay of another district; of two faults in the evidence one may hide, repeat or undo
the other. With two outputs and two runs of the payout tool, runs that overlap build from
one output or from two, and what is held or answered early meets what another run sends
from the same output. There is one report in
the runs of the network: the clinic's second sending of a file under a new id,
after a crash, is in the model (`Poll`) but not in these instances.

In `gateway` a fragment resent after its payload was complete opens a set that
nothing completes; with room for two fragments it then takes the place of the other
payload's second one, which is the case the buffer's limit is for. Two faults let
a kill, a break or a timeout meet the consequences of another; each costs at most
one connection, so three connections are enough and their bound blocks nothing. Two
segments are the least that can be acknowledged, lost or refused half-way. Payloads
are numbered as they come in, which loses nothing: no two differ but in size.

In `payments` two tries with two faults let the last try fail with and without a
fault of its own; early timers let a repeat meet a broadcast that is under way, the
case of the gateway's `done` map. Three claims, two by one sender and two for one
address, meet both limits; two coins run out. One payment undecided at a time lets a receipt, a line or
a mark be there before the network decides, and a rival of it too. A page that fetches coins twice can get
an answer for a wallet that was closed, or older than what was signed since. In
`ssi_network` the two relays give two ways out of the Moon, so losing two passes
changes the way, strands a bundle, or delays news past a bundle; the six pairs of
times put the copy and its discovery before, between and after the stamps.
In `missions` seven leaves are the least with two odd layers and a complete
subtree beside an incomplete one; three custodians put a receipt before, between and
behind others; five moments let passes of two stations overlap, touch and miss.

`Crashable` is the set of relays that may crash. In `relief_net` it is the last one,
whose entry in the request's route the hub knows once a chunk arrived. What happens
when the first one forgets a report of which only the manifest got through is the
disagreement `relief_net_memory` below. The theorems about the network hold for every
`Crashable`.

Fairness. `FairSpec` of `ReliefHub` asks for weak fairness of the startup (`Startup`):
a supervisor starts a process that ended and the startup has no waits. `FairSpec`
of `ReliefNet` asks for weak fairness of each role: a node handles what arrived,
and the hub's timer fires. Faults and crashes are bounded and never fair. `FairSpec`
of `Gateway` asks for weak fairness of the disjunction `Steps` of what the event loops,
the operating system and the supervisor do: a message that arrived is read, a closed
socket is reported, the pump takes its turns, a killed gateway is started. Between two
faults or payloads such steps come to an end, so none of them is starved. `Payments`
asks for weak fairness of the radio link as a whole: frames are handed on, a fetch
ends one way or the other, and timers fire. `Missions` asks for it of the spike's
four processes, which wait for nothing but a frame, a connection or the end of the
outage. Two assumptions are constants, because the property depends on them:

- `PromptReload`: no frame arrives between a revocation and the hub's reload.
- `Patient`: a request is made only when nothing is in flight. The hub's back-off
  doubles so that it outlasts a network of any finite delay; without it the hub
  spends its requests while its first one is still on the way.

`Delivered` starts where the hub knows which clinic the report is from (a manifest
that verified, or a chunk with a receipt), since it cannot ask before. Its bounds
give each chunk and each report as many requests as there can be faults.

`Arrives` exempts payloads of which B discarded a fragment it had acknowledged (the
history variable `lost`): the code acknowledges before it hands over and reassembles
in memory, so a kill, a full buffer or an expiry loses what A no longer has. It does
not exempt anything A did. `SenderHears` exempts a sender each of whose tries met a
fault or a timer that fired early. `RunSucceeds` exempts what the spike does not
survive: giving up a connection, a bundle the daemon turned away, and an end
mark that overtook what it ends.

`LegibleLogRecovers` starts where the log is `Legible`: its lines are whole, none is a frame
without its chunk, and no chunk without bytes is of a report whose manifest is accepted,
under the directory the hub runs with or would be started with.

Deadlock is not checked where the system may rightly stop: the hub when its log is
full or it is stuck; the network, the gateways, the payments and the
programs of `Missions` when everything is done; the payout tool when nothing is owed.

## Where the code and its documents disagree

Six runs end in a violation, each of a sentence of the repository (quoted in
`PROJECT.json`):

- `relief_torn`: a restarted hub "has its full state back"; a hub killed in the
  middle of an append to `frames.jsonl` does not start. Nor does one with a frame in its
  log on which `ingest` throws: a frame without its chunk (`roles.mjs:235-237`), or a chunk
  without bytes or branch under an accepted manifest (`roles.mjs:196`, `dest.mjs:33-35`,
  `merkle.mjs:60`); such a chunk is not "dropped (and refused)" as `roles.mjs:163` says of
  bad ones. `LegibleLogRecovers` says that these three are all that keeps a hub down.
- `relief_net_memory`: claims and the route in the request lead it back "after a
  restart" of a relay; a relay that passed on only the manifest has neither.
- `relief_payout_twice`: paid ids are "never paid again"; they are if the tool dies
  between ARC's answer and the ledger line.
- `relief_hub_books`: again "its full state back"; a clinic that signs as a custodian
  is refused by the running hub, but accepted, and owed a handoff, by the hub that
  replays the log and by the payout tool once that clinic's key was revoked.
- `faucet_twice`: "a restart never pays the same coin or the same claimant twice"
  (`claims.mjs:7-8`); a faucet killed between the broadcast and its line in
  `claims.jsonl` pays the same claimant again.
- `payments_accepted`: "ACCEPTED means the network took it" (`handoff/src/app.mjs:79`);
  `GOOD` of `arc.mjs` counts five statuses that ARC gives before the network decides.
  What `radio/README.md:40` says of ACCEPTED, that a broadcaster took it, does hold
  (`ReceiptTellsTruth`).

Other limits of the code are part of what the properties say instead:

- A frame that arrives after `revokedAt` but before the timer reloads the config is
  accepted under the old key and stays accepted in the running hub (`PromptReload`
  excludes it from `RevokedKeyNeverPaid`).
- A revoked key of a clinic counts as a relay's (`keysAt`), so what the log rebuilds
  is proved under `RolesApart`: no frame has a custody receipt of a clinic.
- `scale/sim.mjs:148` says the paths of a delivered bundle are tried "shortest first";
  `:159` sorts them longest first, and the properties of `ReliefRegion` hold for that
  order: it is what locates a missing bundle at the custodian that took it last, also
  when another courier claims its pickup.
- The count of requests and the next request's time are not in the frame log, so
  `maxResends` and the back-off hold for each life of the hub process
  (`RequestsBackOff` compares requests of one life; `NoAmplification` counts all).
- Over a version 3 session without acknowledgements a bundle is deleted when it is
  written to the socket; the instance of `gateway` has acknowledgements.
- A faucet killed between the broadcast and its line, or told of a failure that was
  none, has paid a claim that it does not count: `FaucetPaysOnce` allows one coin more
  for each (`unsure`). That is more than `claims.mjs:7-8` allows, see `faucet_twice`.
- A line of `payouts.jsonl` whose transaction ARC answered early may be of a transaction the
  network then refuses; its handoffs count as paid (`LedgerIsAccepted` says that no
  other line is without its transaction). Runs of the payout tool that overlap may pay from
  two outputs; `OnceOnly` is about runs one after the other (`overlapped`).
- A late answer to a fetch of coins (`app.mjs:217`), or a pasted funding transaction, puts a
  spent coin back on the page, and the next payment spends it again. `HandedOverApart` is
  about payments signed from one reading of the coins.
- The clearing judges each receipt by its place, signature and key. It does not compare the
  bundle that a receipt names with that of the claim (`settle.mjs:31-59`), as `verifyBundleV2`
  does (`receipt-v2.mjs:150-155`), so an honest receipt put at the head of another delivered
  bundle, or one that a custodian adds for what it did not carry, would be credited.
  `NothingForged` and `HonestEarns` are about the claims of `run.mjs:51-67`: every delivery
  and five forgeries with the copied key.
- The region's settlement is checked and proved for the six spoilings of `scale/run.mjs`.
- cFS receipt files are numbered from one in each life of the application, so a
  restart overwrites the oldest; `FilesAreNumbered` speaks of the files this life
  announced.
- The attribution of lost packets cannot tell a packet dropped where it was created
  from one not yet sent, nor one in flight after its first link from one held;
  `LastIsBlamed` names the two cases.
- Fragments are kept by offset alone (`gateway.mjs:224`), so of two that begin at the same
  byte the first to come is kept, also if it is the shorter: the bundle then stays open
  although "offsets 0..total are all covered" (`gateway.mjs:210`) by what arrived, until
  the set expires. `RebuiltIsWhole` says that this is the only way for it to stay open.
- A lost record of a bundle that passed twice through a node can leave a shorter route
  that verifies (`LossIsNoticed`).

## What is proved

TLAPS proves, for every set of nodes, clinics, relays, reports, frames, handoffs,
outputs, tool runs, coins, claims and wallets, every chain of relays and every region,
every flight of records, width of a fan-out and set of options for its payment,
every contact plan, traffic, compromise, set of operators and of their nodes and keys,
and every number of payloads, bundles, segments, connections, frames, texts, tries,
days and faults:

| Module | Theorem | Statement |
|---|---|---|
| `ReliefHubProofs` | `TypeCorrect` | `Spec => []TypeOK` |
| | `Traceable` | `Spec => []HubInvariant` |
| | `PaymentsAreEarned` | `Spec => []PaidIsEarned` |
| | `VerifiedReportsAreComplete` | `Spec => []VerifiedIsComplete` |
| | `RevokedKeysEarnNothing` | `PromptReload => (Spec => []RevokedKeyNeverPaid)` |
| | `ReplayIsFaithful` | `PromptReload /\ RolesApart => (Spec => []Replayed)` |
| | `LiveHubIsRebuilt` | `PromptReload /\ RolesApart => (Spec => []LiveIsRebuilt)` |
| | `InboxComesBack` | `PromptReload /\ RolesApart => (Spec => []InboxRestored)` |
| | `BareChunksAreNeverChecked` | `Spec => []BareIsUnchecked` |
| | `GoodFramesAreEnough` | `PromptReload /\ RolesApart => (Spec => []GoodFramesSuffice)` |
| | `RequestsAreSpaced` | `Spec => RequestsBackOff` |
| | `PayoutTypeCorrect` | `PayoutSpec => []PayoutTypeOK` |
| | `LedgerIsTrue` | `PayoutSpec => []LedgerIsAccepted` |
| | `OnlyVerifiedIsPaid` | `PayoutSpec => []PaidWasVerified` |
| | `HandoffsAreBookedOnce` | `PayoutSpec => [](~overlapped => BookedOnce)` |
| | `CleanRunsPayOnce` | `PayoutSpec => [](~overlapped => PaidOnceUnlessFaulty)` |
| | `RunsPayOnce` | `PayoutSpec => []OnceOnly` |
| `ReliefNetProofs` | `NetTypes` | `Spec => []NetTypeOK` |
| | `OnlyCarriersArePaid` | `Spec => []PaidWasCarried` |
| | `SendsAreBounded` | `Spec => []NoAmplification` |
| | `NetKeepsPromise` | `Spec => PromiseKept`, the refinement of `ReliefDelivery` |
| `GatewayProofs` | `GatewayIsTyped` | `Acknowledged => (Spec => []GatewayTypeOK)` |
| | `NothingIsLost` | `Acknowledged => (Spec => []NothingLost)` |
| | `ThereIsOneSession` | `Acknowledged => (Spec => []OneSession)` |
| | `DeliveryIsWhole` | `Acknowledged => (Spec => []DeliveredWhole)` |
| | `LinkKeepsPromise` | `Acknowledged => (Spec => StoredAndForwarded)`, the refinement of `StoreAndForward` |
| `ReliefRegionProofs` | `RegionTypeCorrect` | `RegionSpec => []RegionTypeOK` |
| | `PayoutsAreForHandoffs` | `RegionSpec => []PaidHandedOn` |
| | `HandoffsArePaid` | `RegionSpec => []HonestIsPaid` |
| | `MissingBundlesAreLocated` | `RegionSpec => []LostIsLocated` |
| `PaymentsProofs` | `ReceiptsAreTrue` | `Spec => []ReceiptTellsTruth` |
| | `FaucetPaysWithinLimits` | `Spec => []FaucetPaysOnce` |
| | `PaymentsSpendApart` | `Spec => []HandedOverApart` |
| `MissionsProofs` | `ConfirmedIsPaidOnce` | `Spec => []PaidOnChain` |
| | `ScheduleIsKept` | `Spec => []ScheduleKept` |
| | `FragmentsAreWhole` | `Spec => []RebuiltIsWhole` |
| | `FilesAreInOrder` | `Spec => []FilesAreNumbered` |
| | `LastHolderIsBlamed` | `Spec => []LastIsBlamed` |
| | `NothingIsLostInParts` | `Spec => []PartsAreKept` |
| `SsiNetworkProofs` | `NetworkInvariant` | `Spec => []IInv` |
| | `NewsAlwaysTravels` | `Spec => []NewsTravels` |
| | `RoutesAreEarliest` | `Spec => []RouteIsEarliest` |
| | `DestinationsJudge` | `Spec => []DestinationJudges` |
| | `CarriageIsEarned` | `Spec => []HonestEarns` |
| | `NobodyForges` | `Spec => []NothingForged` |

The hub's rest on `ConstantsAssumption` and `HubAssumption` (types of the constants,
the pinned nodes are nodes, every report has a chunk); the network's on the first
and `NetAssumption` (types, one clinic); the payout tool's on
`PayoutAssumption` (types, and `NoFund` is no output); the gateway's on
`TcpclAssumption` and `GatewayAssumption` (types, `None` is nothing else, a bundle
has a segment, the bundles are the parts of payloads) and on `Acknowledged`: the
layers one runs over acknowledge, as version 4 always does. The region's rest on
`RegionAssumption` (numbers), the payments' on `TextAssumption` (coins of the faucet
are outputs with an order) and `HandoffAssumption` (a coin on the network has an owner;
the output a payment's change makes is none that exists, and another one for each
payment, since a transaction's id is a hash over what it spends), the payments on chain on
`ChainAssumption` (a flight has a record, its minutes are numbered in the order of their
first records, and no option asks for more records than there are), the mission's on
`HaulAssumption` (times are natural numbers, a track is shorter than a day, a bundle takes
time to send), the fragments' on `PieceAssumption` (numbers, and finitely many bundles they are of), the
receipt files' on `CfsAssumption` (numbers), and the stamped bundles' on `StreamAssumption`
(a bundle that sets out has its primary block as number 0; receipts it carries already are
about its payload; no integrity block covers a custody block, `bpsec.mjs:5-7`); the blame for packets needs none. Those of the network of operators rest on
`KeyringAssumption` and `RoutingAssumption` (types, and finitely many nodes),
`NetworkAssumption` (nodes belong to operators; the keys of
the ceremony are apart and the anchors are the roots; chains may have three keys, a
block has room for the two records of the news, and a bundle for the receipts of a longest
path) and `InputAssumption` (bundles are set out, and the last contact ends, while the keys of
the launch are valid; a copy is found out after it was made and after the launch; no
bundle carries the label that a forger invents). `PromptReload` says that
no frame comes between a revocation and the hub's reload, `RolesApart` that the clinic
of a report is no relay and that no frame has a custody receipt of a clinic; what
happens otherwise is told above. The first three
theorems about the payout tool hold for any number of overlapping runs, the other three as
long as no run began while another was under way (`overlapped`).

The argument for the hub. `PaidIsEarned` alone is not inductive: a payment is made when a
chunk is checked, which may be long after its frame was logged, so the invariant
must trace the chunks the hub holds as well. `HubInvariant` has two parts.

- `Evidence`: every chunk held is a logged frame (`Proves`); an accepted one is
  custodied with keys of the nodes named (`ChunkCustodied`), which needs that every
  key in a directory, old or new, belongs to its node (`KeysOwned`); a verified
  report has its manifest and an accepted chunk per index; the inbox and the
  payments refer to logged frames only, since the log outlives the process.
- `Revocations`: no frame is from the future; the hub's directory lists a subset of
  the revocations on disk; under `PromptReload` every revocation not yet loaded is
  later than every frame, and what the hub accepted is free of keys its directory
  had revoked at arrival (`HubUnrevoked`). The first two facts make a reload
  preserve the last: a revocation that is new to the hub is later than everything
  it holds.

Lemmas about the operators come first (`ReliefRolesProofs`, then `KeyAt` returns keys of the node asked
for; what `Acceptable` implies; what `Finalize`, `IngestFrame` and `Ingest`
preserve, given a set of log lines that contains the frame), then one step per
action. An append enlarges the set of log lines, and everything about `Lines` is
monotone in it. A count of chunk indexes equal to `ChunkCount` is turned into "an
accepted chunk for every index" with the theorems on cardinality.

The argument for the replay. A restarted hub folds the log, and an induction over the
log is out of the prover's reach. The run of hubs that the log itself passes through
takes its place: `At(S)` says that `S` is a sequence of hubs, each `Ingest` of the one
before and the next line, and that the process holds its `pos`-th. `Replayed` says that
there is such a run; an append makes it longer by one hub (`RunGrows`), and a reload
of the directory leaves it the same run, because both directories judge each line alike
(`RunUnder`). That they do is `Known`: a revocation ends keys at an instant after every
frame, and `KeyAt` before that instant is what it was (`KeyAtBefore`,
`RevokedAgrees`); this is where a clinic's old key has to be no relay's, and why a frame
must not come before the reload. The end of the run is `Rebuilt` (`FoldIsRebuilt`), so the
live hub, the restarted one and the payout tool agree but for requests, which change
nothing a frame can tell (`IngestFrameAlike`, `TickTold`). Verified reports stay so along
the run (`VerifiedStays`), hence the inbox is restored; once a good manifest is in, the
first good copy of a chunk stays (`Settles`), hence good frames suffice.
`RequestsAreSpaced` needs none of this and no assumption: the log is in order of arrival, the
hub remembers the last frame of each report as far as it has read, and each request of
this life is as late as all those before it allow (`Paced`).

The argument for the network. A payment is made when the hub accepts a chunk, a
claim is written when a relay forwards one, and between the two the chunk is in
flight, repeated, or held by a hub that lacks the manifest. `NetInvariant` has three
parts.

- `Handed`: every frame in flight, and the file being sent, is of a report the
  clinic's node keeps. With it, a frame at the hub maps to a step of
  `ReliefDelivery`, `Poll` maps to handing in, and every other step to a stutter
  (`OnlyFramesFile`); a report that came out stays out (`ReportStays`).
- `ReceiptsAreClaimed`: every receipt, in a frame in flight, in a chunk the hub
  holds or in what it owes, is claimed by its signer for that very chunk. Faults keep the
  receipts of a frame (`FaultAdds`), a relay adds its own with its claim
  (`RelayFrameAdds`), the hub files what a frame brought and no more
  (`FiledChunks`), and a claim is never taken back, also by a crash (`ClaimsStay`).
- `SendsAreCounted`: requests in flight and handled are numbered below the number
  made; a chunk was sent once by `sendFile` if that got past it (`Begun`), and again
  at most as often as the clinic remembers now (`resent`, `seen`) and could have
  remembered in each life it forgot. A crash moves what it remembered into
  that last summand.

The argument for the payout tool. `LedgerIsAccepted` is not inductive: a line is
written when a run that ARC told "accepted" resumes, so `PayoutInvariant` says of
every such run that its transaction is on the chain or was answered early and not taken,
and of every transaction built, held or answered early that it pays something, and only what was verified and has an address. An
output that is spent stays spent by the same payments, because a transaction pays
something: that is what keeps an old line true when other transactions are sent or one
that ARC has is mined. `SequentialInvariant` adds, while runs have not overlapped, that the
transaction under way pays nothing the ledger has, and, in a clean history, that what
the chain has is in the ledger or in the answered run about to write it.

The argument for the gateway. `NothingLost` could fail in one step only: `Sent`
deletes the file the pump remembers, so that its bundle must be with B. Whether it is
was decided several steps before, by whoever ended the transfer, and perhaps on
another connection. `GatewayInvariant` follows a transfer backwards.

- `PumpKnows`: an open connection is the pump's session or the one it dials, so a
  word can only come in on these; a close event of an earlier session finds
  `ready = "listened"` only if that session is the current one. `OneSession` is its
  first part.
- `Greeting`: the ends greet each other in turn, one word on the way at a time; once
  A is established nothing but segments goes one way, and nothing but answers to
  them the other. It bounds what a handler can meet, and it is why a transfer that
  begins finds the connection empty.
- `Quiet` and `Transferring`: when the pump awaits no transfer there is no segment and
  no acknowledgement on its connection. While it does, the segments on the way are a
  run under one number and of one bundle, the acknowledgements on the way are rising
  and below the first of these segments, and B expects that one if it expects any
  (`Under`). So an acknowledgement of all segments is the last of its transfer, none
  before it could end it, and it is on the way only when B has the bundle.
- `FilesAreNamed`: names tell files apart, are below the next name and stay so when a
  restarted spool reads its next name from disk (`NextNameIsNew`), hence the file that
  is deleted is the one that was sent.

A handler is first described field by field (`AnswerAType`, `HeardAFields`, ...),
then by what it does to a greeting and to a transfer (`GreetedA`, `TransferHeardB`,
...). All that happens at B, kills and breaks included, is one lemma about
connections that follow each other (`Follows`, `FarSide`); the three places where the
pump goes on are one lemma about a turn (`TurnKeeps`).

Two more results need the order of what goes over the link (`Ordered`). A bundle is
`Due` when all that were stored before it are with B already. Names of files are in the
order of storing, and the pump takes the first, so what a transfer carries is due
(`InOrder`); when B has all of it, the log of B grows by just that bundle, which is the
step of `StoreAndForward`, or does not grow if an earlier life of A had sent it. A
fragment is held only of a bundle that B acknowledged, and fragments of a payload agree
on how it was split, so a set that is full is the payload (`FromDtnReassembles`).

The argument for the region. A record may be claimed, replayed or signed anew, but not
invented: `RecordsTell` says that any record of a courier names a clinic before it, and
that a relay took from a courier what it signed for. A path that ends at a relay thus
has two hops, and whoever stands before another hop on a path gave it the bundle
(`BeforeAnother`); the last one of a delivered bundle gave it to the hub. That is all
`PaidHandedOn` needs. For the other direction `Tracked` follows every bundle: it goes from
its clinic to one courier and one relay (`HandedInTurn`, `HandedOnce`), which holds because
what waits at a clinic was handed to nobody (`Waiting`) and what a courier carries to no
relay (`Carried`); whoever took it has a record of it (`OnRecord`), and a record of a
pickup, also a claimed one, names the bundle's clinic (`RecordsHonest`). So the courier's and
the relay's records make a path (`RouteOnRecord`), no path is longer (`ShortPaths`), and
the one that is tried first is of that length (`LongestIsFirst`): whichever it is, it
names that courier and that relay.

The argument for the payments. One service runs in a behaviour, and what the steps of
another leave alone is said once each (`TruthInvariant`, `PageOrNothing`).

- What a person is told comes from `settlePayment`, and is so at that moment. It stays
  so because a payment that ARC or the network took in (`Accepted`) is not given up: what
  leaves `early` is in `taken`, and that never shrinks.
  `TruthInvariant` follows a status from the broadcast to the gateway's `done` map,
  the receipt on the air, and the sender, or into the reply of a text.
- Claims on the faucet are served one at a time while repeated texts queue
  (`OneAtATime`), so the count of lines made before the broadcast still holds after it.
  Every coin whose broadcast was begun is under way, has a good line, or is counted as
  unsure (`Accounted`), so a claimant has at most as many coins on the chain as its
  limit allows plus those in doubt; a coin in any line is not chosen again (`Booked`).
- On the page, two fetches of coins may be under way while wallets open and payments
  are signed. `SpentIsGone` says that a coin spent since the last reading is not on the page
  before the next; a change has its signer as owner and is no coin of anyone else
  (`OwnChange`), so coins of the page have one owner each (`CoinsPlaced`).

The argument for the payments on chain. Runs with other options spend from the same
funding output, so what one run left behind, killed or not, is in the way of the next.
That a record is paid once does not follow from one run's transactions being on the
chain; it has to be excluded that another run's are there too.

- A transaction is what it was built from, so what a run builds is a matter of
  arithmetic: lots and their places on fan-outs (`LotsAre`, `FansAre`, `PlacesAre`),
  minutes and anchors (`MinutesAre`, `AnchorIs`), and the output each spends.
- `SpentOnce` says of a set of transactions that it has what its members spend from and
  that no two spend one output. In such a set, two chains of fan-outs from one funding are
  one as far as both go (`OneChain`). If all that a run wants is there, its first anchor
  has spent the change of its last fan-out, so nothing continues that chain; a payment of
  any other run hangs on a fan-out of the same chain, at a place that the run's own payment
  has spent (`OnlyItsPayments`). Another anchor would have begun at another last fan-out;
  there is none, and the amounts in the last one tell how many records the run pays
  (`SameLastSameLimit`), so its roots are the run's own (`OnlyItsAnchors`). Hence each
  record is paid and anchored once (`WantedIsOnce`).
- `ChainInvariant`: pool and mined are such sets, mined is part of the pool, and a
  confirmation was given when all that is wanted was mined. A block keeps this, and so does
  dropping transactions, since whatever spends from them is dropped with them.
- `NothingLeftOut`, for the other half of `PaidOnChain`: in a run that nothing disturbs
  every transaction is in the pool or still to be sent. Fan-outs go first and anchors
  in order, so what the next one spends from is there (`PaymentsAcceptable`,
  `NextAnchorAcceptable`), and transactions of a run spend apart (`SpendsDiffer`).

The argument for the mission. What `ScheduleKept` says of transmissions is about the
past, so each clause needs to know what still can be added to it. `HaulInvariant` adds that
every transmission is of a link and round already reached, that those of this round end
before the link is free and land before `landed`, that a bundle which has neither to go nor
been lost has got through (`AllGoThrough`), and that what waited for a window of this link
is noted, with that window, for the gap record made when the link is done
(`DelaysAreNoted`). Windows of two
days do not touch and come in the order of days, so the first in which a bundle fits is the
earliest (`NextStartFits`), and the window that was closed last before it is the one the
gap record names.

The argument for the fragments. `Complete` follows parts from one to the next as the code's
loop does; that this means every byte is there is an argument by the first part behind a
missing byte (`CompleteCovers`), and for parts within their bundle the converse holds
too (`CoversIsComplete`). `PieceInvariant` says that an open set is within its total, is not
complete, and has a part at the offset of every piece that came for it. So if what came
covers the bundle and no part is shorter than a piece at its offset, the parts cover it
as well, and the set would have been complete. Stale sets, refused pieces and restarts take
whole sets with all that came for them.

The argument for the buffer. `partialBytes` is a running count, and `BufferIsCounted` says
it is the sum of what the open sets hold. `CountInvariant` says the same of each set's own
`bytes`. A new piece, a set that is dropped and all stale sets at once each change one sum
by a known amount; that the order in which a set is summed does not matter is
proved, not assumed of the fold (`BufferKeepsCount`).

The argument for stamping on the way. Both ways of stamping are recursive: the slow one takes
the bytes apart into blocks, the fast one scans a head that grows with every push.
`StreamInvariant` avoids following either through the pushes.

- There is a sequence of blocks that the bytes on the wire were laid out from, each beginning
  where the one before ends (`Laid`). Cutting bytes off or adding some keeps the blocks. The
  slow way decodes just these blocks, if all of them are there and sound (`SlowIs`).
- A receiver is at one of three places in them: it has failed, at a bundle that is not
  going to be good; it is in the payload and has copied as much of it as came; or it is before
  the payload, with a head that ends inside a block. A push of any length moves it on from one
  of these to the same or the next (`RxAt`). When all has come, what it makes of
  the blocks is what the slow way makes (`FastIsSlow`).
- Hop by hop (`Stamped`): the block that is put in has a number that no other has, and so
  leaves payload and integrity blocks as they were; no integrity block covers a custody
  block, so the seals hold; the receipts are those of the source and then one for each
  custodian that the bundle has passed.

The proof corrected the statement of `StampsAgree`. The two ways may differ for
a bundle with a CRC of unknown type, and this was at first asked of the bundle that the slow
way puts out. But the slow way replaces the custody block, and with it an unknown CRC type in
that very block, so the question has to be asked of the bundle that came in. The instance
has such a bundle now. In `BundleStream` blocks are picked by a function on `0 .. n`
(`Only`), and so is the scan of a push, since such functions can be reasoned about with
`Induction`.

The argument for the receipt files. Commands are numbered, so `FilesInvariant` bounds what
any file answers by the number sent; a new receipt answers a later command than every
file there is, which is why the files above it are older, and a restart begins again
below files that stay as they were.

The argument for the blame. `BlameInvariant` follows each packet through the log: its last
arrival is at the router it is at or behind, the last link noted for it is the one before or
behind that router, and the log has a drop or a loss of it exactly if it was dropped or
lost, and there. An entry is about one packet, and `OthersStay` covers all others.

The argument for keys, receipts and routes. Nearly all that happens here is a fold: over
contacts, records, receipts, claims. The library's induction theorems cannot be used, but that
every set of numbers has a least one can; so `Induction` is stated of a set of numbers,
a fold is the last value of a function on `0 .. n` (`FoldIterates`, `FoldExists`), and a fact
about it is carried along that function.

- Routes. `SearchInv` says that whatever the search has reached was reached by a contact from
  a node it is done with, and `Relaxed` that no contact from such a node reaches anything
  sooner. Nodes are done with in the order of their arrivals (`InOrder`), because no
  contact arrives before it starts; so what the reference definition finds with any number
  of contacts is no sooner than the search (`SearchIsEarliest`), and the contacts found from
  the last one back lead from the node to the destination (`HopsFacts`).
- Rings. A ring holds what the launch gave it or, from some instant on, the revocation and
  the new record as well (`RingOk`, `HeardBy`); taking in the records of a bundle makes the
  one of the other and changes nothing afterwards (`FirstNews`, `OldNews`). What the chains,
  revocations and statuses of such a ring come to is computed once, depth by depth, for
  every key (`VerdictsSettle`, `RingSaysSo`), and so is what it carries onward
  (`CarryFacts`, `PassedOn`): all of the news, or nothing.
- `IInv`: events are in the order of their times and detection is among them until it has
  happened (`QueueOk`); each bundle has one receipt for each signed hop of its path,
  committed to those before it (`ReceiptsOk`), signed with the key its node had, or the new one
  once that travels with it (`KeyOk`); and if a custodian on the path knew of the revocation,
  the bundle carries it (`NewsRode`). The present is the time of the last event; it is
  in no variable, so the invariant says that there is one.
- Judgements. A verdict is given on arrival with the ring of that moment, while
  `DestinationJudges` speaks of the ring there is now. Between two states a ring stays or hears
  the news after all that has been delivered (`RingsGrow`), and such a ring judges earlier
  receipts alike (`JudgedStays`).
- Clearing. Claims come in any order, and a claim is credited against what earlier ones were.
  `Cleared` says of the lines after any number of claims that none is doubled and each is of
  a receipt that earns, and that no receipt that earns is left out. Every forgery is one of four kinds
  (`ForgeryKinds`): a receipt added last, made with the stolen key at the end of the period,
  when the owner has heard and no later receipt is witness to its time; a receipt put under the
  last one, whose commitment then fails; one on a bundle that was never delivered; and an
  honest delivery once more. None of them earns, and none takes the place of one that does.
- Sums. What is to be paid is a sum over a set of lines, what was carried is a sum
  over the deliveries. A finite set adds up the same in any order (`AnyOrder`), and
  each line has a hop of its own (`LinesWithin`), so the first sum is within the second.

The type invariants (`TypeOK`) and the strengthening invariants are only proved:
a theorem covers every instance a run could check.

Model-checked only: liveness (`LegibleLogRecovers`, `Delivered`, `Arrives`,
`SenderHears`, `RunSucceeds`), which the prover does not handle under fairness; and, of
`Missions`, `RoutesProve`, `OnboardAgrees`, and of `SilenceExplained` all but `LastIsBlamed`.
Most of what these say is what a fold or a recursive function over data yields for
every input. The folds of `SsiNetwork` and the scans of `BundleStream` show that such a
statement can be proved with `Induction`, at the price of a lemma for each fold; the
routes and trees of `Constellation` and `MerkleTrees` have many of them nested.

## What is not modelled

The dashboard, the refusal list, amounts and fees are left out of the relief kit:
they are displayed or computed from what is modelled. Encryption, hashing and
encodings are assumed to work. Of frames with fields missing those are modelled on which
`ingest` or the check throws; a frame that is no JSON, or of no known kind, is refused
before it touches anything. A log line complete but for its newline, to which
the next append would be joined, is not distinguished from a whole one. The config
file is replaced in one step. The validation of a deployment file is not modelled.

Of the gateway: TLS, allow lists, the byte parsers and their limits, keepalive
messages (their timeout is modelled), the HTTP and UDP front ends, ingress receipts,
bundles sent by B, and an orderly stop, which ends the process like a kill.

Of the payments: the contents of a payment (`checkOffline` holds or not), sound and
radio modulation, HAM framing, webhook signatures, the adapters to radios and
providers, planning a faucet's fan-out, recording and camera. In `Handoff` payments
cross between phones whole or not at all; the Nearby link's own handshake is not
modelled.

Of keys and bundles: CBOR and COSE bytes and the cryptography of bpsec. Of `ssi`,
`constellation` and `voyager`: orbits, ephemerides, distances, sweeps over many
seeds, explorer pages, and the variants that drive another implementation. Of
`ChainPayments`: fees, amounts, block timing and the proof of work of headers.

Of the region: when a terminal is up and how many bundles it carries, the length of
roads, and the measurements of `run.mjs`.

The interoperability scripts (ION, HDTN, Hardy, µD3TN, Mars and mix scenarios) and the relief
kit's realnet experiments drive or measure other programs; contact plans
are compiled by a pure translator; benchmarks, demonstrations, explorer pages and
drafts keep no state. Each is listed in `PROJECT.json` with the reason.

Work that would pay next: the routes of `Constellation` as theorems, with the folds as in
`SsiNetworkProofs`.
