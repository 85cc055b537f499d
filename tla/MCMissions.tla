---------------------------- MODULE MCMissions ----------------------------
(* Small instances of the runs: 2 planes of 4 satellites with two bundles; *)
(* 3 custody receipts, the third of a second bundle; 2 chunks through the  *)
(* spike; trees of up to 7 leaves; a key ring of 5 keys, with one anchor,  *)
(* and room for 4 records; bundles of up to 3 custodians; 3 bundles each   *)
(* way over 14 days of tracks with up to 2 missed; 7 bundles over fading   *)
(* optical links; 4 signing commands to a spacecraft; 3 bundles over a     *)
(* path with an outage; 2 stations and 2 products; 2 packets over 2 links; *)
(* 5 pieces of 2 bundles of 4 and 2 bytes, room for 5.                     *)
EXTENDS Missions

MCStations == <<[eid |-> 100, p |-> 0, s0 |-> 1], [eid |-> 101, p |-> 0, s0 |-> 3]>>
MCSources == {3}

MCReceipts == <<1, 1, 2>>
MCPayOptions ==
  {[batch |-> 1, limit |-> 2], [batch |-> 1, limit |-> 3], [batch |-> 2, limit |-> 3]}

(* A is the anchor, I an issuer, N a node, T a thief of the identity of N, *)
(* L a late key.                                                           *)
MCRecords ==
  [issuer |-> IssueKey("A", "op", "I", {"issue", "revoke"}, 1, 6, 1),
   node |-> IssueKey("I", "n1", "N", {"custody"}, 1, 5, 2),
   late |-> IssueKey("I", "n2", "L", {"custody"}, 2, 9, 8),
   thief |-> IssueKey("I", "n1", "T", {"custody"}, 1, 9, 2),
   again |-> IssueKey("N", "n3", "L", {"custody"}, 1, 9, 2),
   rootOut |-> RevokeKey("A", "I", 4, 4),
   self |-> RevokeKey("N", "N", 3, 5),
   byIssuer |-> RevokeKey("I", "N", 2, 5),
   byThief |-> RevokeKey("T", "N", 1, 5)]
MCOther == [kind |-> "other"]
MCArrivals ==
  {<<MCRecords[x]>> : x \in DOMAIN MCRecords}
    \cup {<<MCRecords.issuer, MCRecords.node>>, <<MCRecords.thief, MCRecords.self>>,
          <<MCRecords.rootOut, MCRecords.issuer, MCRecords.node>>,
          <<MCRecords.self, MCOther, MCRecords.thief>>}
MCAnchorEid == [k \in {"A"} |-> "none"]

(* Bundles with and without CRCs and integrity blocks, with up to three    *)
(* receipts, and ones that do not decode.                                  *)
MCPrimary(c) == Block("primary", 0, c, <<"src", 5>>)
MCPayload(n, c) == Block(Payload, n, c, <<"x", "y">>)
MCPrevious(n) == Block(Previous, n, "none", "source")
MCReceipt(v) == Receipt(v, "source", "o", <<"src", 5>>, <<"x", "y">>)
MCCustody(n, v) ==
  Block(Custody, n, "good", [version |-> v, receipts |-> IF v = 0 THEN <<>> ELSE <<MCReceipt(v)>>])
MCPlain == <<MCPrimary("good"), MCPrevious(2), MCPayload(1, "good")>>
MCOriginals ==
  {MCPlain, AddBib(MCPlain, {1}),
   AddBib(<<MCPrimary("good"), MCPrevious(3), MCPayload(1, "none")>>, {0, 1}),
   <<MCPrimary("good"), MCPayload(1, "bad")>>, <<MCPrimary("none"), MCPayload(2, "good")>>,
   <<MCPrimary("good"), [MCPrevious(2) EXCEPT !.shape = "odd"], MCPayload(1, "none")>>,
   <<MCPrimary("good"), MCPrevious(1), MCPayload(1, "none")>>,
   <<MCPrimary("good"), MCPrevious(2), [MCPayload(1, "none") EXCEPT !.shape = "odd"]>>,
   <<MCPrimary("good"), MCPrevious(2)>>, <<MCPrevious(2), MCPayload(1, "none")>>,
   <<MCPrimary("bad"), MCPayload(1, "none")>>,
   <<MCPrimary("good"), MCPayload(3, "good"), MCPrevious(2)>>,
   <<MCPrimary("good"), MCPayload(1, "none"), MCPayload(2, "none")>>,
   <<MCPrimary("good"), [MCPrevious(2) EXCEPT !.crc = "unknown"], MCPayload(1, "none")>>,
   <<MCPrimary("good"), [MCCustody(3, 2) EXCEPT !.crc = "unknown"], MCPayload(1, "good")>>,
   <<MCPrimary("good"), MCCustody(3, 2), MCCustody(4, 2), MCPayload(1, "good")>>}
    \cup {<<MCPrimary("good"), MCCustody(3, v), MCPayload(1, "good")>> : v \in 0 .. 3}
MCCustodians == <<"c1", "c2", "c3">>

MCMissed == {m \in SUBSET (0 .. 5) : Cardinality(m) <= 2}
MCSpaceTx == <<2, 1, 2>>
MCNackTx(n) == n
MCReadyAt == [down |-> 11, up |-> 17]

(* Links that never fade, that fade once, and that fade twice.             *)
MCFades ==
  {<<>>, <<[after |-> 5, for |-> 3]>>, <<[after |-> 2, for |-> 2], [after |-> 5, for |-> 4]>>}

(* Passes that overlap another station's, their neighbour, or both.        *)
MCPass(id, start, end) == [id |-> id, start |-> start, end |-> end]
MCSchedules ==
  <<{<<MCPass(1, 1, 2), MCPass(2, 4, 5)>>, <<MCPass(1, 1, 3), MCPass(2, 3, 5)>>},
    {<<MCPass(7, 2, 4)>>}>>

(* A link without events, with one outage, and one that starts down.       *)
MCEvent(at, status) == [at |-> at, status |-> status]
MCPlans ==
  {<<>>, <<MCEvent(2, "down"), MCEvent(3, "up")>>,
   <<MCEvent(1, "up"), MCEvent(3, "up"), MCEvent(3, "down")>>}

(* Halves, a longer first piece and one that was cut again, an overlap; one*)
(* without a byte, one of another total and one that is outside its total. *)
MCPiece(k, total, at, len) == [adu |-> k, total |-> total, at |-> at, len |-> len]
MCPieces ==
  {MCPiece("a", 4, 0, 2), MCPiece("a", 4, 2, 2), MCPiece("a", 4, 0, 3), MCPiece("a", 4, 2, 1),
   MCPiece("a", 4, 3, 1), MCPiece("a", 4, 1, 2), MCPiece("a", 4, 1, 0), MCPiece("a", 5, 2, 2),
   MCPiece("a", 4, 3, 2), MCPiece("b", 2, 0, 1), MCPiece("b", 2, 1, 1), MCPiece("b", 0, 0, 0)}
=============================================================================
