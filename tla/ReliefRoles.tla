---------------------------- MODULE ReliefRoles ----------------------------
(***************************************************************************)
(* The hub of the relief kit as a function: what makeHub in                *)
(* relief/kit/lib/roles.mjs makes of one frame, and which resend requests  *)
(* it owes.  The hub daemon (ReliefHub) applies it to live frames and to   *)
(* its frame log, the payout tool applies it to the log alone, and the     *)
(* network (ReliefNet) applies it to what the relays deliver.              *)
(*                                                                         *)
(* Abstractions.  A signing key is the pair <<node, version>>: version 0   *)
(* is provisioned, each revocation issues the next.  A payload id stands   *)
(* for one sealed report, so the clinic, the chunk count and whether the   *)
(* hub can decrypt it are functions of the id.  A chunk is its index plus  *)
(* "intact": the bytes hash to the leaf, and the leaf with the branch the  *)
(* clinic prepared for that index leads to the manifest's root.  A receipt *)
(* is "sound" when its record verifies and it names this bundle.  Fields   *)
(* may be missing: a chunk frame is "bare" when it is stored but the check *)
(* throws on it (no bytes, no branch, a custody that is no list) and       *)
(* "broken" when ingest itself throws (no bundle, a null receipt).         *)
(* The refusal list and the duplicate counter are only displayed and are   *)
(* left out.                                                               *)
(***************************************************************************)
EXTENDS Integers, FiniteSets, Sequences

CONSTANTS
  Nodes,        \* node ids (EIDs)
  Clinics,      \* those pinned in directory.clinics
  Relays,       \* those pinned in directory.relays
  NoNode,       \* "no frame yet" in an entry's via
  Payloads,     \* report ids
  ClinicOf,     \* the clinic that prepared a report: manifest.meta.clinic
  ChunkCount,   \* its number of chunks: manifest.chunkCount
  Opens,        \* whether the hub's key decrypts it under that id
  ResendAfter,  \* resendAfterMs
  MaxResends    \* maxResends

ASSUME ConstantsAssumption ==
  /\ Clinics \subseteq Nodes
  /\ Relays \subseteq Nodes
  /\ NoNode \notin Nodes
  /\ ClinicOf \in [Payloads -> Nodes]
  /\ ChunkCount \in [Payloads -> Nat \ {0}]
  /\ Opens \in [Payloads -> BOOLEAN]
  /\ ResendAfter \in Nat
  /\ MaxResends \in Nat

Keys == Nodes \X Nat

Index(id) == 0 .. (ChunkCount[id] - 1)

-----------------------------------------------------------------------------
(* The directory and the key in force at an instant of the hub's clock.    *)

Revocation == [eid : Nodes, pub : Keys, revokedAt : Nat]

Directory == [clinics : [Clinics -> Keys],
              relays  : [Relays -> Keys],
              revoked : SUBSET Revocation]

Provisioned == [clinics |-> [n \in Clinics |-> <<n, 0>>],
                relays  |-> [n \in Relays |-> <<n, 0>>],
                revoked |-> {}]

LaterRevocations(revoked, eid, at) ==
  {r \in revoked : r.eid = eid /\ at < r.revokedAt}

\* Fault: keys of the past are forgotten.
KeyAtNow(book, revoked, eid, at) == {book[n] : n \in {m \in DOMAIN book : m = eid}}

\* The key valid for eid at time at, as a set of at most one key (a node the
\* book does not list has none): the key that was revoked first after at, else
\* the current one.
KeyAt(book, revoked, eid, at) ==
  LET later == LaterRevocations(revoked, eid, at)
  IN  IF later # {}
      THEN {r.pub : r \in {s \in later : \A u \in later : s.revokedAt <= u.revokedAt}}
      ELSE {book[n] : n \in {m \in DOMAIN book : m = eid}}

\* Fault: a revoked key is bad for frames of any time.
IsEverRevoked(revoked, key, at) == \E r \in revoked : r.pub = key

IsRevoked(revoked, key, at) == \E r \in revoked : r.pub = key /\ at >= r.revokedAt

\* provision.mjs --revoke: the old key goes on the revoked list as of time at
\* and the node gets a fresh one.
KeyOf(dir, n) == IF n \in Clinics THEN dir.clinics[n] ELSE dir.relays[n]

Revoked(dir, n, at) ==
  LET old   == KeyOf(dir, n)
      fresh == <<n, old[2] + 1>>
  IN  [clinics |-> [c \in Clinics |-> IF c = n THEN fresh ELSE dir.clinics[c]],
       relays  |-> [r \in Relays |-> IF r = n /\ n \notin Clinics THEN fresh ELSE dir.relays[r]],
       revoked |-> dir.revoked \cup {[eid |-> n, pub |-> old, revokedAt |-> at]}]

-----------------------------------------------------------------------------
(* Frames.                                                                 *)

Receipt == [hop : Nodes, key : Keys, prev : Nodes, sound : BOOLEAN]

ManifestFrame == [kind : {"manifest"}, id : Payloads, signer : Keys,
                  sound : BOOLEAN, lastHop : Nodes]

ChunkFrame == [kind : {"chunk"}, id : Payloads, index : Nat, intact : BOOLEAN,
               form : {"whole", "bare", "broken"}, custody : Seq(Receipt), lastHop : Nodes]

Frame == ManifestFrame \cup ChunkFrame

-----------------------------------------------------------------------------
(* The checks.                                                             *)

\* Fault: the manifest is checked under the key it carries, not the pinned one.
ManifestOkUnpinned(f, at, dir) == f.sound /\ ~IsRevoked(dir.revoked, f.signer, at)

\* makeDest behind the revocation check: the manifest verifies and its signer
\* is the key pinned for the named clinic when it arrived.
ManifestOk(f, at, dir) ==
  /\ f.sound
  /\ ~IsRevoked(dir.revoked, f.signer, at)
  /\ f.signer \in KeyAt(dir.clinics, dir.revoked, ClinicOf[f.id], at)

\* auditCustodyChain with origin = the clinic, and no gap allowed.
Continuous(custody, origin) ==
  \A k \in DOMAIN custody :
    custody[k].prev = IF k = 1 THEN origin ELSE custody[k - 1].hop

\* Fault: a stretch without receipts is accepted.
AuditOkWithGaps(custody, origin, at, dir) ==
  /\ custody # <<>>
  /\ \A k \in DOMAIN custody :
       /\ custody[k].sound
       /\ custody[k].key \in KeyAt(dir.relays, dir.revoked, custody[k].hop, at)

AuditOk(custody, origin, at, dir) ==
  /\ custody # <<>>
  /\ \A k \in DOMAIN custody :
       /\ custody[k].sound
       /\ custody[k].key \in KeyAt(dir.relays, dir.revoked, custody[k].hop, at)
  /\ Continuous(custody, origin)

Acceptable(id, c, dir) ==
  /\ c.intact
  /\ c.index \in Index(id)
  /\ \A k \in DOMAIN c.custody : ~IsRevoked(dir.revoked, c.custody[k].key, c.at)
  /\ AuditOk(c.custody, ClinicOf[id], c.at, dir)

-----------------------------------------------------------------------------
(* What the hub keeps of one report, and how a frame changes it.           *)

Chunk == [index : Nat, intact : BOOLEAN, bare : BOOLEAN, custody : Seq(Receipt),
          at : Nat, ok : BOOLEAN]

Entry == [manifest : BOOLEAN,   \* a manifest that verified (others are discarded at once)
          chunks   : SUBSET Chunk,
          report   : {"none", "verified", "refused"},
          lastAt   : Nat,
          via      : Nodes \cup {NoNode},
          route    : Seq(Nodes), \* p.route; its head is p.origin
          resends  : Nat,
          nextAt   : Nat]

EmptyEntry == [manifest |-> FALSE, chunks |-> {}, report |-> "none", lastAt |-> 0,
               via |-> NoNode, route |-> <<>>, resends |-> 0, nextAt |-> 0]

Held(e) == {c.index : c \in e.chunks}

\* Fault: a chunk that fails its checks is refused but not dropped.
FinalizeKeepingBad(id, e, dir) ==
  IF ~e.manifest \/ e.report # "none" THEN e
  ELSE LET good == {c \in e.chunks : c.ok \/ Acceptable(id, c, dir)}
       IN  [e EXCEPT !.chunks = (e.chunks \ good) \cup {[c EXCEPT !.ok = TRUE] : c \in good},
                     !.report = IF Cardinality({c.index : c \in good}) < ChunkCount[id]
                                THEN "none"
                                ELSE IF Opens[id] THEN "verified" ELSE "refused"]

\* finalize: with the manifest known and no report yet, every unchecked chunk
\* is checked and a bad one dropped; once all are there the report is opened.
\* This is for chunks on which the check returns: Throws says when it does not,
\* and nothing but the log outlives that (ReliefHub).
Finalize(id, e, dir) ==
  IF ~e.manifest \/ e.report # "none" THEN e
  ELSE LET kept == {[c EXCEPT !.ok = TRUE] :
                      c \in {d \in e.chunks : d.ok \/ Acceptable(id, d, dir)}}
       IN  [e EXCEPT !.chunks = kept,
                     !.report = IF Cardinality({c.index : c \in kept}) < ChunkCount[id]
                                THEN "none"
                                ELSE IF Opens[id] THEN "verified" ELSE "refused"]

Touched(e, f, at) == [e EXCEPT !.lastAt = at, !.via = f.lastHop]

IngestManifest(e, f, at, dir) ==
  LET t == Touched(e, f, at)
  IN  IF t.manifest THEN t
      ELSE Finalize(f.id, [t EXCEPT !.manifest = ManifestOk(f, at, dir)], dir)

RouteOf(f) == <<f.custody[1].prev>> \o [k \in DOMAIN f.custody |-> f.custody[k].hop]

\* Fault: the chunk is filed under the arrival time of the frame before it.
IngestChunkLate(e, f, at, dir) ==
  LET t == [Touched(e, f, at) EXCEPT !.route = IF f.custody = <<>> THEN @ ELSE RouteOf(f)]
      c == [index |-> f.index, intact |-> f.intact, bare |-> f.form = "bare",
            custody |-> f.custody, at |-> e.lastAt, ok |-> FALSE]
  IN  IF f.index \in Held(t) \/ t.report = "verified" THEN t
      ELSE Finalize(f.id, [t EXCEPT !.chunks = @ \cup {c}], dir)

IngestChunk(e, f, at, dir) ==
  LET t == [Touched(e, f, at) EXCEPT !.route = IF f.custody = <<>> THEN @ ELSE RouteOf(f)]
      c == [index |-> f.index, intact |-> f.intact, bare |-> f.form = "bare",
            custody |-> f.custody, at |-> at, ok |-> FALSE]
  IN  IF f.index \in Held(t) \/ t.report = "verified" THEN t
      ELSE Finalize(f.id, [t EXCEPT !.chunks = @ \cup {c}], dir)

IngestFrame(e, f, at, dir) ==
  IF f.kind = "manifest" THEN IngestManifest(e, f, at, dir) ELSE IngestChunk(e, f, at, dir)

\* ingest does not return: the frame is broken, or a bare chunk comes to be
\* checked, when it is stored under a known manifest or when the manifest it
\* waited for is accepted.
Throws(h, f, at, dir) ==
  LET e == h.entries[f.id]
  IN  IF f.kind = "manifest"
      THEN /\ ~e.manifest /\ e.report = "none" /\ ManifestOk(f, at, dir)
           /\ \E c \in e.chunks : c.bare
      ELSE \/ f.form = "broken"
           \/ f.form = "bare" /\ e.manifest /\ e.report = "none" /\ f.index \notin Held(e)

\* The handoffs a report's accepted chunks earn: one per receipt.
Earned(id, e) ==
  UNION {{<<c.custody[k].hop, id, c.index>> : k \in DOMAIN c.custody} :
           c \in {d \in e.chunks : d.ok}}

Hub == [entries : [Payloads -> Entry], paid : SUBSET (Nodes \X Payloads \X Nat)]

EmptyHub == [entries |-> [id \in Payloads |-> EmptyEntry], paid |-> {}]

Ingest(h, f, at, dir) ==
  LET e == IngestFrame(h.entries[f.id], f, at, dir)
  IN  [entries |-> [h.entries EXCEPT ![f.id] = e], paid |-> h.paid \cup Earned(f.id, e)]

-----------------------------------------------------------------------------
(* Resend requests.                                                        *)

\* p.clinic ?? p.origin: where a request for the report would go, as a set.
Requestee(id, e) ==
  IF e.manifest THEN {ClinicOf[id]}
  ELSE IF e.route # <<>> THEN {Head(e.route)} ELSE {}

Missing(id, e) == IF e.manifest THEN Index(id) \ Held(e) ELSE {}

\* Everything tick asks of a report but the hour.
Wanting(id, e) ==
  /\ e.report = "none"
  /\ e.via # NoNode
  /\ e.resends < MaxResends
  /\ Requestee(id, e) \cap Clinics # {}

Due(id, e, t) ==
  /\ Wanting(id, e)
  /\ t >= e.lastAt + ResendAfter
  /\ t >= e.nextAt

Request(id, e) ==
  [id |-> id, manifest |-> ~e.manifest, indexes |-> Missing(id, e),
   route |-> IF e.route # <<>> THEN e.route
             ELSE <<CHOOSE n \in Requestee(id, e) : TRUE, e.via>>]

\* Fault: the wait does not double.
AskedSteadily(e, t) == [e EXCEPT !.resends = @ + 1, !.nextAt = t + ResendAfter]

Asked(e, t) == [e EXCEPT !.resends = @ + 1, !.nextAt = t + ResendAfter * 2 ^ (e.resends + 1)]
=============================================================================
