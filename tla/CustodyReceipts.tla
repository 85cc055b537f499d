--------------------------- MODULE CustodyReceipts ---------------------------
(* Custody receipts, version 2 (transport/bpv7/receipt-v2.mjs): what a       *)
(* custodian adds to block 224 of a bundle, and the check of a whole chain   *)
(* against a key ring.                                                       *)
(*                                                                           *)
(* A bundle is [source, created, fragment, payload, version, receipts,       *)
(* records, hopCount, previous]: fragment is <<>> or <<offset, total>>,      *)
(* payload stands for the payload's hash, version is that of the receipts    *)
(* (0 when there is no block 224), records are those of block 225, and       *)
(* previous is the Previous Node block (NoNode when absent). A receipt names *)
(* the key that signed it; chain is <<digest>> or <<>>, hops <<in, out>> or  *)
(* <<>>.                                                                     *)
EXTENDS Keyring

CONSTANTS
  MaxReceipts, NoNode,
  Operators, OpOf, Owner, RatePerByte  \* who clears with whom

\* The size of a gap that nothing sizes, and the count of an absent block.
Unsized == -1
NoCount == -1

Whole(b) == <<b.source, b.created>>
Identity(b) == Whole(b) \o b.fragment

\* SHA-256 over the receipts so far: it tells any two lists apart.
ChainDigest(items) ==
  [i \in DOMAIN items |-> <<items[i].this, items[i].key, items[i].bundle,
                            items[i].receivedAt, items[i].forwardedAt>>]

PrevOf(b, prevHop) == IF prevHop # NoNode THEN prevHop ELSE b.previous

Receipt(b, key, eid, opts) ==
  [prev |-> PrevOf(b, opts.prevHop), this |-> eid, key |-> key,
   bundle |-> Identity(b), payload |-> b.payload,
   receivedAt |-> opts.receivedAt, forwardedAt |-> opts.forwardedAt,
   hops |-> IF opts.hops /\ b.hopCount # NoCount
            THEN <<b.hopCount, opts.hopsReleased>> ELSE <<>>,
   chain |-> IF opts.chain THEN <<ChainDigest(b.receipts)>> ELSE <<>>]

\* stampBundleV2. It refuses a bundle with version 1 receipts, with MaxReceipts
\* of them or without a previous node; the network's bundles never get there.
Stamp(b, key, eid, opts) ==
  [b EXCEPT !.version = 2, !.receipts = Append(@, Receipt(b, key, eid, opts))]

----------------------------------------------------------------------------
Committed(items, i) ==
  items[i].chain # <<>> => items[i].chain[1] = ChainDigest(SubSeq(items, 1, i - 1))

Signed(ring, f) == f.key \in PubsFor(ring, f.this)

KeyState(ring, f) == Status(ring, f.key, f.this, f.forwardedAt, "custody")

Covers(f, b) ==
  \/ f.bundle = Identity(b) /\ f.payload = b.payload
  \/ b.fragment # <<>> /\ f.bundle = Whole(b)

\* Fault: believes the time a revoked key wrote.
WitnessedByItself(items, keys, i, arrivedAt) ==
  items[i].forwardedAt < keys[i].revokedFrom

\* A signature of a key revoked from T was made before T, and somebody whom
\* the revocation does not touch saw it before T: a later custodian whose
\* receipt commits to it, or the verifier itself.
Witnessed(items, keys, i, arrivedAt) ==
  LET T == keys[i].revokedFrom
  IN  T # Never =>
        /\ items[i].forwardedAt < T
        /\ \/ \E j \in i + 1 .. Len(items) :
                /\ items[j].chain # <<>> /\ keys[j].ok /\ keys[j].revokedFrom = Never
                /\ items[j].receivedAt < T
           \/ arrivedAt < T

\* The stretches without a receipt: before each receipt, and after the last.
PrevEid(items, i, origin) == IF i = 1 THEN origin ELSE items[i - 1].this
PrevHops(items, i) == IF i = 1 THEN <<>> ELSE items[i - 1].hops

Size(before, count) ==
  IF before # <<>> /\ count # NoCount THEN count - before[2] ELSE Unsized

GapBefore(items, i, origin) ==
  LET f == items[i]
      after == PrevEid(items, i, origin)
      size == Size(PrevHops(items, i), IF f.hops = <<>> THEN NoCount ELSE f.hops[1])
  IN  IF after # NoNode /\ f.prev # after
      THEN <<[after |-> after, before |-> f.this, lastUnsigned |-> f.prev, size |-> size]>>
      ELSE IF size > 0
      THEN <<[after |-> after, before |-> f.this, lastUnsigned |-> NoNode, size |-> size]>>
      ELSE <<>>

GapAfter(b, origin, last) ==
  LET n == Len(b.receipts)
      after == PrevEid(b.receipts, n + 1, origin)
  IN  IF last # NoNode /\ last # after
      THEN <<[after |-> after, before |-> NoNode, lastUnsigned |-> last,
              size |-> Size(PrevHops(b.receipts, n + 1), b.hopCount)]>>
      ELSE <<>>

Gaps(b, origin, last) ==
  FlattenSeq([i \in DOMAIN b.receipts |-> GapBefore(b.receipts, i, origin)])
    \o GapAfter(b, origin, last)

\* verifyBundleV2 against a key ring; route is <<>> or the pinned custodians.
Verify(b, ring, arrivedAt, origin, lastNode, route) ==
  LET items == b.receipts
      keys == [i \in DOMAIN items |-> KeyState(ring, items[i])]
      last == IF lastNode # NoNode THEN lastNode ELSE b.previous
  IN  [ok |-> /\ b.version = 2 /\ Len(items) <= MaxReceipts
              /\ route # <<>> => /\ Len(route) = Len(items)
                                 /\ \A i \in DOMAIN items :
                                      /\ items[i].this = route[i]
                                      /\ PrevEid(items, i, origin)
                                           \in {NoNode, items[i].prev}
              /\ \A i \in DOMAIN items :
                   /\ Committed(items, i)
                   /\ Signed(ring, items[i])
                   /\ keys[i].ok
                   /\ Covers(items[i], b)
                   /\ Witnessed(items, keys, i, arrivedAt),
       gaps |-> Gaps(b, origin, last)]

----------------------------------------------------------------------------
(* Clearing between operators (ssi/settle.mjs): every claim is a delivered   *)
(* bundle with its receipts; each receipt in it is judged on its own, and    *)
(* earns its custodian's operator once per bundle.                           *)

NothingCredited == {}

\* A revoked key's receipt needs a witness, as in Verify, but here a later
\* receipt is a witness only if it would be credited itself.
Creditable(ring, claim, i) ==
  LET items == claim.bundle.receipts
      keys == [j \in DOMAIN items |->
                 [KeyState(ring, items[j]) EXCEPT !.ok = @ /\ Signed(ring, items[j])]]
  IN  keys[i].ok /\ Witnessed(items, keys, i, claim.arrivedAt)

\* A tampered chain earns nothing for anyone, nor does a bundle that the
\* owner never received.
Admitted(claim, delivered) ==
  /\ Identity(claim.bundle) \in delivered
  /\ \A i \in DOMAIN claim.bundle.receipts : Committed(claim.bundle.receipts, i)

Line(claim, i) ==
  LET hop == claim.bundle.receipts[i].this
  IN  [bundle |-> Identity(claim.bundle), hop |-> hop, op |-> OpOf[hop],
       bytes |-> claim.bundle.bytes, receipt |-> claim.bundle.receipts[i]]

\* Fault: one bad receipt spoils the rest of its claim.
CreditReceiptOfGoodClaim(ring, claim, credited, i) ==
  IF /\ \A j \in DOMAIN claim.bundle.receipts : Creditable(ring, claim, j)
     /\ Line(claim, i).op # Owner
  THEN credited \cup {Line(claim, i)} ELSE credited

CreditReceipt(ring, claim, credited, i) ==
  LET line == Line(claim, i)
  IN  IF /\ Creditable(ring, claim, i)
         /\ line.op # Owner
         /\ ~\E c \in credited : c.bundle = line.bundle /\ c.hop = line.hop
      THEN credited \cup {line} ELSE credited

Credit(ring, delivered, credited, claim) ==
  IF Admitted(claim, delivered)
  THEN FoldLeft(LAMBDA acc, i : CreditReceipt(ring, claim, acc, i), credited,
                [i \in DOMAIN claim.bundle.receipts |-> i])
  ELSE credited

Clear(claims, ring, delivered) ==
  FoldLeft(LAMBDA acc, claim : Credit(ring, delivered, acc, claim),
           NothingCredited, claims)

\* The statement of an operator, and what it is paid (ssi/hardy/pay.mjs).
Statement(op, credited) ==
  LET lines == {c \in credited : c.op = op}
      bytes == FoldSet(LAMBDA c, sum : c.bytes + sum, 0, lines)
  IN  [operator |-> op, payer |-> Owner, bundles |-> Cardinality(lines),
       bytes |-> bytes, amount |-> bytes * RatePerByte[op],
       receipts |-> {c.receipt : c \in lines}]

Statements(credited) ==
  {s \in {Statement(op, credited) : op \in Operators \ {Owner}} : s.bundles > 0}

Payable(statements) == {s \in statements : s.amount >= 1}
============================================================================
