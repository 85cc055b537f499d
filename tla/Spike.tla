-------------------------------- MODULE Spike --------------------------------
(***************************************************************************)
(* A payload from a source over two relays to a destination, each a        *)
(* process of its own: over TCP (m0/node.mjs), where a relay may hold its  *)
(* outbound frames while its link is down, and over a BPv7 daemon per node *)
(* (r2/agent-node.mjs, r2/aap.mjs), where the receipts ride in the bundle  *)
(* and the daemons keep no order.  Nodes are 1 (source) to 4               *)
(* (destination).  What the agents sign and hash is not damaged on either  *)
(* way, so of their checks those of the custody chain decide.              *)
(*                                                                         *)
(* External: TCP, the daemons (a store per hop, a confirmation or a NACK   *)
(* per bundle handed over).                                                *)
(***************************************************************************)
EXTENDS Integers, Sequences, FiniteSets, SequencesExt

CONSTANTS
  Chunks,     \* bundles of the payload
  MaxNacks,   \* bound: bundles a daemon turns away
  NoResult

ASSUME SpikeAssumption == Chunks \in Nat \ {0, 1} /\ MaxNacks \in Nat

VARIABLES
  way,        \* "tcp" or "bpv7"
  occulted,   \* the relay that owns the occulted link, 0 if none does
  down,       \* its link is down
  queue,      \* the frames it holds
  up,         \* the processes that are connected onwards and listen
  unsent,     \* what the source has still to send
  pipe,       \* pipe[n]: the frames between node n and the next
  stored,     \* stored[n]: bundles its daemon has still to confirm
  toConfirm,  \* toConfirm[n]: sends its client waits for (confirmQ)
  dest,       \* the destination
  nacks, early,
  gaveUp      \* the process that gave up connecting, 0 if none did

spikeVars == <<way, occulted, down, queue, up, unsent, pipe, stored, toConfirm, dest, nacks, early, gaveUp>>

SpikeNodes == 1 .. 4
RelayNodes == {2, 3}
Destination == 4

SpikeReceipt(i, n) == [bundle |-> i, prevHop |-> n - 1, thisHop |-> n]

Manifest == [type |-> "manifest"]
BundleFrame(i) == [type |-> "bundle", index |-> i, custody |-> <<>>]
CustodyFrame(r) == [type |-> "custody", receipt |-> r]
Eof == [type |-> "eof"]

Idle4 == [n \in 1 .. 3 |-> <<>>]

SpikeInit ==
  /\ way \in {"tcp", "bpv7"}
  /\ occulted \in IF way = "tcp" THEN {0} \cup RelayNodes ELSE {0}
  /\ down \in IF occulted # 0 THEN BOOLEAN ELSE {FALSE}
  /\ queue = <<>> /\ up = {} /\ pipe = Idle4
  /\ unsent = <<Manifest>> \o [i \in 1 .. Chunks |-> BundleFrame(i)] \o <<Eof>>
  /\ stored = [n \in 1 .. 3 |-> 0] /\ toConfirm = stored
  /\ dest = [manifest |-> FALSE, bundles |-> <<>>, custody |-> {}, armed |-> FALSE,
             scheduled |-> FALSE, result |-> NoResult]
  /\ nacks = 0 /\ early = FALSE /\ gaveUp = 0

-----------------------------------------------------------------------------
(* Start.  Over TCP a relay listens once it is connected to the next node, *)
(* which it tries for a while; the daemons are there before the agents.    *)

Start(n) ==
  /\ n \notin up /\ gaveUp # n
  /\ way = "tcp" => n = Destination \/ n + 1 \in up
  /\ up' = up \cup {n}
  /\ UNCHANGED <<way, occulted, down, queue, unsent, pipe, stored, toConfirm, dest, nacks, early, gaveUp>>

\* The next node is not there within the tries: the process ends.
GiveUp ==
  /\ way = "tcp" /\ gaveUp = 0
  /\ \E n \in SpikeNodes \ {Destination} : n \notin up /\ n + 1 \notin up /\ gaveUp' = n
  /\ UNCHANGED <<way, occulted, down, queue, up, unsent, pipe, stored, toConfirm, dest, nacks, early>>

\* The link of the occulted relay goes down once and comes up again, with the
\* frames it held in the order in which they came.
LinkDown ==
  /\ occulted \in up /\ ~down
  /\ down' = TRUE
  /\ UNCHANGED <<way, occulted, queue, up, unsent, pipe, stored, toConfirm, dest, nacks, early, gaveUp>>

\* Fault: the frame that was held last goes out first.
FlushBackwards(w, q) == w \o Reverse(q)

Flush(w, q) == w \o q

LinkUp ==
  /\ occulted \in up /\ down
  /\ down' = FALSE /\ occulted' = 0 /\ queue' = <<>>
  /\ pipe' = [pipe EXCEPT ![occulted] = Flush(@, queue)]
  /\ UNCHANGED <<way, up, unsent, stored, toConfirm, dest, nacks, early, gaveUp>>

-----------------------------------------------------------------------------

\* Frames of node n go on the pipe, into the queue of an occulted relay, or to
\* the daemon, which stores the bundle or turns it away; wires: without what
\* the node has just taken.
Hand(n, frames, wires) ==
  \/ /\ way = "tcp"
     /\ IF occulted = n /\ down
        THEN queue' = queue \o frames /\ pipe' = wires
        ELSE pipe' = [wires EXCEPT ![n] = @ \o frames] /\ UNCHANGED queue
     /\ UNCHANGED <<stored, nacks, toConfirm>>
  \/ /\ way = "bpv7"
     /\ toConfirm' = [toConfirm EXCEPT ![n] = @ + 1]
     /\ \/ /\ pipe' = [wires EXCEPT ![n] = @ \o frames]
           /\ stored' = [stored EXCEPT ![n] = @ + 1] /\ UNCHANGED nacks
        \/ /\ nacks < MaxNacks
           /\ nacks' = nacks + 1 /\ pipe' = wires /\ UNCHANGED stored
     /\ UNCHANGED queue

\* The daemon confirms what it stored and the oldest call that waits resolves;
\* a NACK resolves none (aap.mjs:57-58).
ConfirmSend(n) ==
  /\ stored[n] > 0
  /\ stored' = [stored EXCEPT ![n] = @ - 1]
  /\ toConfirm' = [toConfirm EXCEPT ![n] = @ - 1]
  /\ UNCHANGED <<way, occulted, down, queue, up, unsent, pipe, dest, nacks, early, gaveUp>>

\* The source sends the manifest, the bundles and an end mark; through a
\* daemon each only when the one before it is confirmed.
SendNext ==
  /\ 1 \in up /\ unsent # <<>>
  /\ way = "tcp" => 2 \in up
  /\ toConfirm[1] = 0
  /\ Hand(1, <<Head(unsent)>>, pipe)
  /\ unsent' = Tail(unsent)
  /\ UNCHANGED <<way, occulted, down, up, dest, early, gaveUp>>

\* The frames that may arrive next at the end of a pipe.
Incoming(n) == IF way = "tcp" THEN {1} \cap DOMAIN pipe[n] ELSE DOMAIN pipe[n]

\* A relay passes everything on, a bundle with its receipt: after the bundle
\* over TCP, within it over BPv7.
Passed(f, n) ==
  CASE f.type # "bundle" -> <<f>>
    [] way = "tcp" -> <<f, CustodyFrame(SpikeReceipt(f.index, n))>>
    [] OTHER -> <<[f EXCEPT !.custody = Append(@, SpikeReceipt(f.index, n))]>>

RelayFrame(n) ==
  /\ n \in up
  /\ \E k \in Incoming(n - 1) :
       Hand(n, Passed(pipe[n - 1][k], n), [pipe EXCEPT ![n - 1] = RemoveAt(@, k)])
  /\ UNCHANGED <<way, occulted, down, up, unsent, dest, early, gaveUp>>

-----------------------------------------------------------------------------
(* The destination keeps what comes and judges it when a grace time has    *)
(* passed since it had the manifest and as many bundles as that says, or   *)
(* since the end mark.                                                     *)

Awaited(d) == d.manifest /\ Len(d.bundles) >= Chunks

\* maybeFinish
Scheduled(d) ==
  IF ~d.scheduled /\ Awaited(d) THEN [d EXCEPT !.scheduled = TRUE, !.armed = TRUE] ELSE d

Took(d, f) ==
  CASE f.type = "manifest" -> Scheduled([d EXCEPT !.manifest = TRUE])
    [] f.type = "bundle" ->
         Scheduled([d EXCEPT !.bundles = Append(@, f.index), !.custody = @ \cup ToSet(f.custody)])
    [] f.type = "custody" -> [d EXCEPT !.custody = @ \cup {f.receipt}]
    [] f.type = "eof" -> IF d.scheduled THEN d ELSE [d EXCEPT !.armed = TRUE]

Receive ==
  /\ Destination \in up /\ dest.result = NoResult
  /\ \E k \in Incoming(3) :
       /\ pipe' = [pipe EXCEPT ![3] = RemoveAt(@, k)]
       /\ dest' = Took(dest, pipe[3][k])
       /\ early' = (early \/ (pipe[3][k].type = "eof" /\ ~Awaited(dest)))
  /\ UNCHANGED <<way, occulted, down, queue, up, unsent, stored, toConfirm, nacks, gaveUp>>

\* A chunk is kept by its index, one that came twice once; the payload is
\* reassembled when there are as many as the manifest says.
PayloadWhole(d) == ToSet(d.bundles) = 1 .. Chunks

\* verifyChain: the receipts recorded for a bundle, put in the order of the
\* pinned hops.
ChainOf(d, i) == {r \in d.custody : r.bundle = i}

\* Each is by its hop and linked to the one before it.
ChainOk(i) ==
  LET own == ChainOf(dest, i)
  IN  /\ Cardinality(own) = Cardinality(RelayNodes)
      /\ {r.thisHop : r \in own} = RelayNodes
      /\ \A r, s \in own : r.thisHop < s.thisHop => s.prevHop = r.thisHop

\* The result: the payload is whole and the chain of the bundle that came
\* first holds. Without a manifest or a bundle the process throws.
Finish ==
  /\ dest.armed /\ dest.result = NoResult
  /\ dest' = [dest EXCEPT !.result =
       IF ~dest.manifest \/ dest.bundles = <<>> THEN "crashed"
       ELSE IF PayloadWhole(dest) /\ ChainOk(Head(dest.bundles)) THEN "ok"
       ELSE "failed"]
  /\ UNCHANGED <<way, occulted, down, queue, up, unsent, pipe, stored, toConfirm, nacks, early,
                 gaveUp>>

SpikeSteps ==
  \/ \E n \in SpikeNodes : Start(n)
  \/ LinkUp \/ SendNext \/ Receive \/ Finish
  \/ \E n \in RelayNodes : RelayFrame(n)
  \/ \E n \in 1 .. 3 : ConfirmSend(n)

SpikeNext == SpikeSteps \/ GiveUp \/ LinkDown

-----------------------------------------------------------------------------

\* The payload is verified and the chain of the first bundle whole, or a
\* process gave up connecting, a daemon turned a bundle away or an end mark
\* came before what it ends; in this last case the destination judges, or
\* throws, too early (node.mjs:149-162, agent-node.mjs:80-87).
RunIsOver == dest.result = "ok" \/ gaveUp # 0 \/ nacks > 0 \/ (way = "bpv7" /\ early)
=============================================================================
