---------------------------- MODULE BundleStream ----------------------------
(***************************************************************************)
(* A custodian that takes a bundle while it arrives (transport/bpv7/       *)
(* fast-stamp.mjs): it looks for the payload block, from there on copies,  *)
(* hashes and sums what comes without reading it, and splices a receipt in *)
(* before the payload. A bundle goes over a few such hops, cut anywhere,   *)
(* perhaps truncated or with bytes after its end.                          *)
(***************************************************************************)
EXTENDS Integers, Sequences, FiniteSets, FiniteSetsExt, SequencesExt

(***************************************************************************)
(* BPv7 bundles on the wire (transport/bpv7/bundle.mjs, cbor.mjs) and what *)
(* a custodian does to one: a version 1 receipt (custody-block.mjs), a     *)
(* version 2 receipt (receipt-v2.mjs), in a block under or beside an       *)
(* integrity block (bpsec.mjs).                                            *)
(*                                                                         *)
(* A bundle is the sequence of its blocks, the primary block first. A      *)
(* block is [type, number, crc, shape, data]: crc is "none", "good", "bad" *)
(* or "unknown" (a CRC type that is none of the three, with an empty CRC), *)
(* shape is "ok" or "odd" (a wrong number of fields, data that is no byte  *)
(* string, an EID that does not read). On the wire a block is a few cells, *)
(* [block, k], so that it may arrive in parts; a payload's data is a       *)
(* sequence, a cell for each element, between a head of two cells and one  *)
(* for its CRC.                                                            *)
(***************************************************************************)

CONSTANTS BlockCapacity,  \* MAX_RECEIPTS
          NoHop           \* no previous hop

Payload == "payload"
Custody == "custody"
Previous == "previous"
Bib == "bib"

Block(type, number, crc, data) ==
  [type |-> type, number |-> number, crc |-> crc, shape |-> "ok", data |-> data]

HasCrc(b) == b.crc # "none"
Sound(b) == b.shape = "ok" /\ b.crc # "bad"

Width(b) == IF b.type = Payload THEN 2 + Len(b.data) + (IF HasCrc(b) THEN 1 ELSE 0) ELSE 2

Cells(b) == [k \in 1 .. Width(b) |-> [block |-> b, k |-> k]]
Open == [k |-> 0]
Close == [k |-> -1]

\* encodeBundle
Encode(blocks) ==
  <<Open>> \o FlattenSeq([i \in DOMAIN blocks |-> Cells(blocks[i])]) \o <<Close>>

\* decodeAt: the block at p is whole.
WholeAt(wire, p) == p \in DOMAIN wire /\ p + Width(wire[p].block) - 1 <= Len(wire)

-----------------------------------------------------------------------------

Refused == [ok |-> FALSE, blocks |-> <<>>]
Taken(blocks) == [ok |-> TRUE, blocks |-> blocks]

\* The blocks up to the end of the bundle; refused when it does not end.
Items(wire) ==
  LET from[p \in 2 .. Len(wire) + 2] ==
        IF p > Len(wire) THEN Refused
        ELSE IF wire[p] = Close THEN IF p = Len(wire) THEN Taken(<<>>) ELSE Refused
        ELSE IF ~WholeAt(wire, p) THEN Refused
        ELSE LET rest == from[p + Width(wire[p].block)]
             IN  IF rest.ok THEN Taken(<<wire[p].block>> \o rest.blocks) ELSE Refused
  IN  from[2]

DistinctNumbers(blocks) == \A i, j \in DOMAIN blocks : blocks[i].number = blocks[j].number => i = j

\* decodeBundle
DecodeBundle(wire) ==
  LET items == Items(wire)
      blocks == items.blocks
  IN  IF /\ items.ok /\ Len(blocks) >= 2
         /\ blocks[1].type = "primary"
         /\ \A i \in DOMAIN blocks : Sound(blocks[i])
         /\ Last(blocks).type = Payload
         /\ DistinctNumbers(Tail(blocks))
      THEN items ELSE Refused

\* The blocks that are in S, in their order.
Only(blocks, S) ==
  LET kept[i \in 0 .. Len(blocks)] ==
        IF i = 0 THEN <<>>
        ELSE IF blocks[i] \in S THEN Append(kept[i - 1], blocks[i]) ELSE kept[i - 1]
  IN  kept[Len(blocks)]

OfType(blocks, type) == Only(blocks, {b \in ToSet(blocks) : b.type = type})

\* payloadOf: the first.
PayloadOf(blocks) == Head(OfType(blocks, Payload)).data

\* Fault: the number after that of the last block put.
NextNumberByCount(blocks) == Len(blocks)

NextNumber(blocks) ==
  Min({n \in 2 .. Len(blocks) + 1 : \A i \in DOMAIN blocks : blocks[i].number # n})

\* putBlock: in the place before the payload, under the number it had.
PutBlock(blocks, type, crc, data) ==
  LET old == OfType(blocks, type)
      number == IF old = <<>> THEN NextNumber(blocks) ELSE Head(old).number
      others == Only(blocks, {b \in ToSet(blocks) : b.type # type})
  IN  Front(others) \o <<Block(type, number, crc, data), Last(others)>>

-----------------------------------------------------------------------------
(* Integrity blocks. A MAC is what it is computed over.                    *)

Numbered(blocks, n) == Only(blocks, {b \in ToSet(blocks) : b.number = n})

\* ippt, with all scope flags.
Ippt(blocks, n, bibNumber) ==
  LET target == Head(Numbered(blocks, n))
  IN  [primary |-> blocks[1], type |-> target.type, number |-> n, bib |-> bibNumber, data |-> target.data]

\* addBib: over blocks that give up their CRC.
AddBib(blocks0, targets) ==
  LET blocks == [i \in DOMAIN blocks0 |->
                   IF blocks0[i].number \in targets THEN [blocks0[i] EXCEPT !.crc = "none"] ELSE blocks0[i]]
      number == NextNumber(blocks)
      asb == [macs |-> {Ippt(blocks, n, number) : n \in targets}]
  IN  Front(blocks) \o <<Block(Bib, number, "none", asb), Last(blocks)>>

\* verifyBibs
BibsVerify(blocks) ==
  /\ OfType(blocks, Bib) # <<>>
  /\ \A b \in ToSet(OfType(blocks, Bib)) : \A mac \in b.data.macs :
       LET target == Numbered(blocks, mac.number)
       IN  target # <<>> /\ ~HasCrc(Head(target)) /\ mac = Ippt(blocks, mac.number, b.number)

-----------------------------------------------------------------------------
(* Custody blocks: data is [version, receipts], with version 0 when the    *)
(* block holds an empty list and 3 when it mixes the two.                  *)

CustodyBlocks(blocks) == OfType(blocks, Custody)

PreviousNode(blocks) ==
  LET b == OfType(blocks, Previous) IN IF b = <<>> THEN NoHop ELSE Head(b).data

PrevHop(blocks, hop) == IF hop # NoHop THEN hop ELSE PreviousNode(blocks)

Receipt(version, prev, eid, identity, payload) ==
  [version |-> version, prev |-> prev, this |-> eid, bundle |-> identity, payload |-> payload]

Receipts(blocks) ==
  IF CustodyBlocks(blocks) = <<>> THEN <<>> ELSE Head(CustodyBlocks(blocks)).data.receipts

\* readCustody and readBlockItems: what a custodian of a version finds there.
Readable(blocks, version) ==
  LET found == CustodyBlocks(blocks)
  IN  \/ found = <<>>
      \/ Len(found) = 1 /\ Head(found).data.version \in IF version = 1 THEN {0, 1} ELSE {2}

WithReceipt(blocks, version, r) ==
  PutBlock(blocks, Custody, "good", [version |-> version, receipts |-> Append(Receipts(blocks), r)])

\* stampBundle: the ids are those of the first receipt, or read from the
\* payload by the first custodian.
StampBundle(wire, eid, hop) ==
  LET bundle == DecodeBundle(wire)
      blocks == bundle.blocks
      about == IF Receipts(blocks) # <<>> THEN Head(Receipts(blocks)).payload ELSE PayloadOf(blocks)
  IN  IF bundle.ok /\ Readable(blocks, 1) /\ PrevHop(blocks, hop) # NoHop
      THEN Taken(WithReceipt(blocks, 1, Receipt(1, PrevHop(blocks, hop), eid, blocks[1].data, about)))
      ELSE Refused

\* stampBundleV2
StampBundleV2(wire, eid, hop) ==
  LET bundle == DecodeBundle(wire)
      blocks == bundle.blocks
  IN  IF /\ bundle.ok /\ Readable(blocks, 2) /\ PrevHop(blocks, hop) # NoHop
         /\ Len(Receipts(blocks)) < BlockCapacity
      THEN Taken(WithReceipt(blocks, 2, Receipt(2, PrevHop(blocks, hop), eid, blocks[1].data, PayloadOf(blocks))))
      ELSE Refused

-----------------------------------------------------------------------------
(* Hop by hop.                                                             *)

CONSTANTS
  Originals,  \* bundles that may set out
  Custodians, \* the hops, a sequence of EIDs
  MaxCut,     \* bound: cells lost at the end
  MaxPush     \* bound: cells of one push, short of the rest

\* What sets out: the primary block is number 0, receipts that are there already
\* are about the payload, and no integrity block covers a custody block
\* (bpsec.mjs:7).
ASSUME StreamAssumption ==
  /\ BlockCapacity \in Nat /\ MaxCut \in Nat /\ MaxPush \in Nat
  /\ Custodians \in Seq(ToSet(Custodians))
  /\ \A blocks \in Originals :
       /\ blocks \in Seq(ToSet(blocks))
       /\ \A i \in DOMAIN blocks :
            LET b == blocks[i]
            IN  /\ b.number \in Nat /\ (b.type = "primary" => b.number = 0)
                /\ b.crc \in {"none", "good", "bad", "unknown"}
                /\ b.type = Payload => b.data \in Seq(ToSet(b.data))
                /\ b.type = Custody =>
                     /\ b.data.receipts \in Seq(ToSet(b.data.receipts))
                     /\ b.data.receipts # <<>> => Head(b.data.receipts).payload = PayloadOf(blocks)
                /\ b.type = Bib => \A mac \in b.data.macs : \A j \in DOMAIN blocks :
                                     blocks[j].type = Custody => blocks[j].number # mac.number

VARIABLES
  original,   \* the bundle that set out
  hop,        \* the custodian whose turn it is
  wire,       \* what comes to it
  delivered,  \* cells of it that were pushed
  rx,         \* its receiver
  stampers    \* the versions with which it was stamped so far

streamVars == <<original, hop, wire, delivered, rx, stampers>>

-----------------------------------------------------------------------------
(* The receiver: head and next while it looks for the payload, then p with *)
(* the payload's place, buf, and the cells that hash and CRC ran over.     *)

NewReceiver ==
  [state |-> "head", head |-> <<>>, next |-> 2, raws |-> <<>>, p |-> <<>>, size |-> 0, buf |-> <<>>,
   sha |-> <<>>, crc |-> <<>>]

Failed(r) == [r EXCEPT !.state = "failed"]

\* Fault: what came with the payload's head is not hashed.
BodyAfterHead(r, chunk) ==
  LET at == Len(r.buf)
      buf == r.buf \o chunk
      part(first, last) == SubSeq(buf, Max({at + 1, first}), Min({Len(buf), last}))
      P == Head(r.p)
  IN  IF Len(buf) > r.size THEN Failed(r)
      ELSE [r EXCEPT !.buf = buf, !.sha = IF at = 0 THEN @ ELSE @ \o part(P.dataStart, P.dataEnd),
                     !.crc = @ \o part(P.start, P.crcStart - 1)]

\* #body: into place; hash and CRC over what of it is theirs.
Body(r, chunk) ==
  LET at == Len(r.buf)
      buf == r.buf \o chunk
      part(first, last) == SubSeq(buf, Max({at + 1, first}), Min({Len(buf), last}))
      P == Head(r.p)
  IN  IF Len(buf) > r.size THEN Failed(r)
      ELSE [r EXCEPT !.buf = buf, !.sha = @ \o part(P.dataStart, P.dataEnd),
                     !.crc = @ \o part(P.start, P.crcStart - 1)]

\* One turn of #scan: the payload's head is there, another block is whole, the
\* bundle ends too early, or more bytes are waited for.
ScanStep(r) ==
  LET cell == r.head[r.next]
      b == cell.block
      dataStart == r.next + 2
      end == r.next + Width(b) - 1
  IN  CASE r.state # "head" \/ r.next > Len(r.head) -> r
        [] r.state = "head" /\ r.next <= Len(r.head) /\ cell = Close -> Failed(r)
        [] OTHER ->
             IF r.raws # <<>> /\ b.type = Payload
             THEN IF r.next + 1 > Len(r.head) THEN r
                  ELSE IF b.shape # "ok" THEN Failed(r)
                  ELSE Body([r EXCEPT !.state = "body", !.size = end + 1,
                               !.p = <<[block |-> b, start |-> r.next, dataStart |-> dataStart,
                                        dataEnd |-> dataStart + Len(b.data) - 1,
                                        crcStart |-> dataStart + Len(b.data), end |-> end]>>],
                            r.head)
             ELSE IF ~WholeAt(r.head, r.next) THEN r
             ELSE [r EXCEPT !.raws = Append(@, b), !.next = end + 1]

\* push
Push(r, chunk) ==
  CASE r.state = "body" -> Body(r, chunk)
    [] r.state = "head" ->
         LET turns == Len(r.head) + Len(chunk)
             scanned[i \in 0 .. turns] ==
               IF i = 0 THEN [r EXCEPT !.head = @ \o chunk] ELSE ScanStep(scanned[i - 1])
         IN  scanned[turns]
    [] OTHER -> r

\* checkCrc of the fast path throws on a CRC type it does not know.
FastSound(b) == Sound(b) /\ b.crc # "unknown"

\* finish: the checks of decodeBundle on what is there.
FinishOk(r) ==
  /\ r.state = "body" /\ Len(r.buf) = r.size
  /\ Last(r.buf) = Close
  /\ LET P == Head(r.p)
         blocks == Append(r.raws, P.block)
     IN  /\ P.block.crc # "none" =>
              P.block.crc = "good" /\ r.crc = SubSeq(r.buf, P.start, P.crcStart - 1)
         /\ blocks[1].type = "primary"
         /\ \A i \in DOMAIN r.raws : FastSound(r.raws[i])
         /\ DistinctNumbers(Tail(blocks))

\* stampReceivedParts
StampReceived(r, eid, prevHop) ==
  LET blocks == Append(r.raws, Head(r.p).block)
      hash == [k \in DOMAIN r.sha |-> r.sha[k].block.data[r.sha[k].k - 2]]
  IN  IF /\ FinishOk(r) /\ Readable(blocks, 2) /\ PrevHop(blocks, prevHop) # NoHop
         /\ Len(Receipts(blocks)) < BlockCapacity
      THEN Taken(WithReceipt(blocks, 2, Receipt(2, PrevHop(blocks, prevHop), eid, blocks[1].data, hash)))
      ELSE Refused

-----------------------------------------------------------------------------

Arriving(blocks) ==
  {SubSeq(Encode(blocks), 1, Len(Encode(blocks)) - cut) : cut \in 0 .. MaxCut}
    \cup {Append(Encode(blocks), Close)}

StreamInit ==
  /\ original \in Originals
  /\ hop = 1 /\ delivered = 0 /\ rx = NewReceiver /\ stampers = <<>>
  /\ wire \in Arriving(original)

Here == hop <= Len(Custodians)

PushNext ==
  /\ Here /\ delivered < Len(wire)
  /\ \E n \in (1 .. MaxPush) \cup {Len(wire) - delivered} :
       /\ delivered + n <= Len(wire)
       /\ rx' = Push(rx, SubSeq(wire, delivered + 1, delivered + n))
       /\ delivered' = delivered + n
  /\ UNCHANGED <<original, hop, wire, stampers>>

\* The custodian passes the bundle on under its receipt, in one way or the
\* other; one that it cannot take goes no further. The agent below tells it
\* who sent it, or leaves it to the Previous Node block.
PassOn ==
  /\ Here /\ delivered = Len(wire)
  /\ \E prevHop \in {NoHop, IF hop = 1 THEN "source" ELSE Custodians[hop - 1]},
        how \in {"v1", "v2", "fast"} :
       LET out == CASE how = "v1" -> StampBundle(wire, Custodians[hop], prevHop)
                    [] how = "v2" -> StampBundleV2(wire, Custodians[hop], prevHop)
                    [] how = "fast" -> StampReceived(rx, Custodians[hop], prevHop)
       IN  /\ out.ok
           /\ wire' = Encode(out.blocks)
           /\ stampers' = Append(stampers, IF how = "v1" THEN 1 ELSE 2)
  /\ hop' = hop + 1 /\ delivered' = 0 /\ rx' = NewReceiver
  /\ UNCHANGED original

StreamNext == PushNext \/ PassOn

-----------------------------------------------------------------------------

\* Bundles that decodeBundle takes and the fast path does not: a second
\* payload block, a CRC of unknown type.
Lenient(blocks) ==
  \/ Len(OfType(blocks, Payload)) > 1
  \/ \E i \in DOMAIN blocks : blocks[i].crc = "unknown"

\* However a bundle is cut on its way, damaged, short or too long: the fast
\* path takes what the slow one takes and puts the same bytes on the wire
\* (fast-stamp.mjs:17-18 and 123), save for bundles that the slow one
\* ought to refuse as well.
StampsAgree ==
  Here /\ delivered = Len(wire) =>
    \A prevHop \in {NoHop, "source"} :
      LET fast == StampReceived(rx, Custodians[hop], prevHop)
          slow == StampBundleV2(wire, Custodians[hop], prevHop)
      IN  fast = slow \/ (slow.ok /\ ~fast.ok /\ Lenient(DecodeBundle(wire).blocks))

\* What a custodian passed on, the next can read; its integrity block holds
\* as it did at the source; its custody block holds the receipts of all the
\* custodians in order, all of one version and about this payload
\* (custody-block.mjs:9-13, receipt-v2.mjs:5-7, bpsec.mjs:5-8).
SealHolds ==
  stampers # <<>> =>
    LET bundle == DecodeBundle(wire)
        added == Receipts(bundle.blocks)
        before == Len(Receipts(original))
    IN  /\ bundle.ok
        /\ BibsVerify(original) => BibsVerify(bundle.blocks)
        /\ Len(added) = before + Len(stampers)
        /\ \A i \in DOMAIN stampers :
             /\ added[before + i].this = Custodians[i]
             /\ added[before + i].version = stampers[1]
             /\ added[before + i].payload = PayloadOf(original)

\* The fast path is the slow one, and what both make holds.
StampedRight == StampsAgree /\ SealHolds
=============================================================================
