------------------------------ MODULE Keyring ------------------------------
(* Offline key management (transport/bpv7/keyring.mjs): key records and      *)
(* revocations, and the rules by which a verifier that holds only its        *)
(* anchors decides who may sign for which node.                              *)
(*                                                                           *)
(* A ring is the sequence of the records one node has seen, in the order in  *)
(* which it first saw them, each with the earliest time it saw it. A key     *)
(* record is [kind, subject, key, roles, notBefore, notAfter, issuedAt,      *)
(* issuer], a revocation [kind, target, effectiveFrom, issuedAt, issuer]; a  *)
(* record verifies under the key it names as issuer, since issueKey and      *)
(* revokeKey write the id of the key that signs. "No revocation" is Never, a *)
(* time later than every other.                                              *)
EXTENDS Integers, FiniteSets, Sequences, SequencesExt

CONSTANTS
  Keys,             \* every key of the system
  AnchorEid,        \* the anchors, each with the node it names (or NoNode)
  MaxDepth,         \* MAX_DEPTH: how long a chain of issuers may be
  MaxBlockRecords,  \* MAX_BLOCK_RECORDS: the capacity of a Key Record Block
  SkewMs,           \* skewMs of the ring
  Never             \* the time that stands for null

Anchors == DOMAIN AnchorEid

ASSUME KeyringAssumption ==
  /\ Anchors \subseteq Keys
  /\ MaxDepth \in Nat \ {0} /\ MaxBlockRecords \in Nat /\ SkewMs \in Nat
  /\ Never \in Nat

Roles == {"custody", "issue", "revoke"}

IssueKey(issuer, subject, key, roles, notBefore, notAfter, issuedAt) ==
  [kind |-> "key", subject |-> subject, key |-> key, roles |-> roles,
   notBefore |-> notBefore, notAfter |-> notAfter, issuedAt |-> issuedAt,
   issuer |-> issuer]

RevokeKey(signer, target, effectiveFrom, issuedAt) ==
  [kind |-> "revoke", target |-> target, effectiveFrom |-> effectiveFrom,
   issuedAt |-> issuedAt, issuer |-> signer]

IsKey(r) == r.kind = "key"
IsRevocation(r) == r.kind = "revoke"

----------------------------------------------------------------------------
\* A ring takes a record once; a second sighting can only make it older.
Knows(ring, r) == \E i \in DOMAIN ring : ring[i].rec = r

Add(ring, r, seenAt) ==
  IF Knows(ring, r)
  THEN [i \in DOMAIN ring |->
          IF ring[i].rec = r /\ seenAt < ring[i].seenAt
          THEN [ring[i] EXCEPT !.seenAt = seenAt] ELSE ring[i]]
  ELSE Append(ring, [rec |-> r, seenAt |-> seenAt])

Ingest(ring, block, at) == FoldLeft(LAMBDA acc, r : Add(acc, r, at), ring, block)

IsRecordOf(e, k) == IsKey(e.rec) /\ e.rec.key = k

\* The elements of a sequence that are in S, in their order.
Among(seq, S) ==
  LET kept[i \in 0 .. Len(seq)] ==
        IF i = 0 THEN <<>>
        ELSE IF seq[i] \in S THEN Append(kept[i - 1], seq[i]) ELSE kept[i - 1]
  IN  kept[Len(seq)]

KeyRecords(ring, k) == Among(ring, {e \in ToSet(ring) : IsRecordOf(e, k)})

Revocations(ring, k) ==
  {ring[i].rec : i \in {j \in DOMAIN ring :
      IsRevocation(ring[j].rec) /\ ring[j].rec.target = k}}

\* pubOf finds the key itself: in an anchor, or in any record that carries it.
PubKnown(ring, k) == k \in Anchors \/ \E i \in DOMAIN ring : IsRecordOf(ring[i], k)

InWindow(r, t) == r.notBefore - SkewMs <= t /\ t <= r.notAfter + SkewMs

----------------------------------------------------------------------------
(* chainOf and revokedFrom call each other, each call one level deeper.      *)
(* Level d below gives both for every key; at MaxDepth a key that is no      *)
(* anchor has no chain, and nothing counts as revoked.                       *)

NoChain == [ok |-> FALSE, rec |-> <<>>, ids |-> <<>>, roles |-> {}]

AnchorChain(k) == [ok |-> TRUE, rec |-> <<>>, ids |-> <<k>>, roles |-> Roles]

AnchorOf(chain) == Last(chain.ids)

\* A key record counts under what is known of its issuer one level up.
Counts(up, e) ==
  LET issuer == up.chain[e.rec.issuer]
  IN  /\ issuer.ok
      /\ "issue" \in issuer.roles
      /\ issuer.rec # <<>> => InWindow(Head(issuer.rec), e.rec.issuedAt)
      /\ e.seenAt < up.revoked[e.rec.issuer]

\* The first record that counts, in the order in which they were seen.
Chain(ring, up, k) ==
  LET i == SelectInSeq(ring, LAMBDA e : IsRecordOf(e, k) /\ Counts(up, e))
  IN  IF i = 0 THEN NoChain
      ELSE [ok |-> TRUE, rec |-> <<ring[i].rec>>,
            ids |-> <<k>> \o up.chain[ring[i].rec.issuer].ids,
            roles |-> ring[i].rec.roles]

MayRevoke(chain, signer, k) ==
  \/ signer = k
  \/ chain[k].ok /\ signer \in ToSet(chain[k].ids)
  \/ signer \in Anchors
  \/ /\ chain[signer].ok /\ "revoke" \in chain[signer].roles
     /\ chain[k].ok /\ AnchorOf(chain[signer]) = AnchorOf(chain[k])

Earliest(times) ==
  IF times = {} THEN Never ELSE CHOOSE t \in times : \A u \in times : t <= u

RevokedAt(ring, up, k) ==
  Earliest({r.effectiveFrom : r \in {v \in Revocations(ring, k) :
      PubKnown(ring, v.issuer) /\ MayRevoke(up.chain, v.issuer, k)}})

Verdicts(ring) ==
  LET level[d \in 0 .. MaxDepth] ==
        IF d = MaxDepth
        THEN [chain |-> [k \in Keys |-> IF k \in Anchors THEN AnchorChain(k)
                                        ELSE NoChain],
              revoked |-> [k \in Keys |-> Never]]
        ELSE LET up == level[d + 1]
             IN  [chain |-> [k \in Keys |->
                               IF k \in Anchors THEN AnchorChain(k)
                               ELSE Chain(ring, up, k)],
                  revoked |-> [k \in Keys |-> RevokedAt(ring, up, k)]]
  IN  level[0]

----------------------------------------------------------------------------
\* Candidate keys of a node: whether they are valid is decided by Status.
PubsFor(ring, eid) ==
  {a \in Anchors : AnchorEid[a] = eid} \cup
  {ring[i].rec.key : i \in {j \in DOMAIN ring :
      IsKey(ring[j].rec) /\ ring[j].rec.subject = eid}}

\* May key k sign in this role for eid at time t, and from when is it revoked?
Judge(verdicts, k, eid, t, role) ==
  LET c == verdicts.chain[k]
  IN  [ok |-> /\ c.ok
              /\ IF c.rec # <<>>
                 THEN /\ Head(c.rec).subject = eid
                      /\ role \in c.roles
                      /\ InWindow(Head(c.rec), t)
                 ELSE AnchorEid[k] = eid,
       revokedFrom |-> verdicts.revoked[k]]

Status(ring, k, eid, t, role) == Judge(Verdicts(ring), k, eid, t, role)

\* What a custodian passes on: every revocation, then the chains asked for.
ForCarriage(ring, ids) ==
  LET chain == Verdicts(ring).chain
      records(es) == [i \in DOMAIN es |-> es[i].rec]
      ofChain(k) == FlattenSeq([i \in DOMAIN chain[k].ids |->
                                  records(KeyRecords(ring, chain[k].ids[i]))])
  IN  records(Among(ring, {e \in ToSet(ring) : IsRevocation(e.rec)}))
        \o FlattenSeq([i \in DOMAIN ids |-> ofChain(ids[i])])

NoDuplicates(records) ==
  FoldLeft(LAMBDA acc, r : IF Contains(acc, r) THEN acc ELSE Append(acc, r), <<>>, records)

RevocationsFirst(records) ==
  Among(records, {r \in ToSet(records) : IsRevocation(r)})
    \o Among(records, {r \in ToSet(records) : ~IsRevocation(r)})

Capped(records) ==
  SubSeq(records, 1, IF Len(records) < MaxBlockRecords THEN Len(records) ELSE MaxBlockRecords)

\* Fault: the sort the other way round.
CarryRecordsKeysFirst(block, records) ==
  Capped(Among(block \o records, {r \in ToSet(block \o records) : IsKey(r)})
           \o Among(block \o records, {r \in ToSet(block \o records) : IsRevocation(r)}))

\* A Key Record Block after carryRecords: no duplicates, revocations first,
\* and no more than the block holds.
CarryRecords(block, records) == Capped(RevocationsFirst(NoDuplicates(block \o records)))
============================================================================
