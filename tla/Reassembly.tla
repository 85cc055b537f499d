----------------------------- MODULE Reassembly -----------------------------
(***************************************************************************)
(* How the gateway puts fragments together again (_reassemble in           *)
(* gateway/gateway.mjs): pieces of any offset and length, also of a bundle *)
(* that was fragmented again on its way, so that pieces overlap; one buffer*)
(* for all, in bytes; sets that are too old go when the next piece comes.  *)
(* Gateway has the same over fragments that never overlap, with sessions   *)
(* and losses around it.                                                   *)
(***************************************************************************)
EXTENDS Integers, FiniteSets, Functions

CONSTANTS
  Adus,               \* bundles, by source and creation time
  Pieces,             \* what may arrive: [adu, total, at, len]
  MaxReassemblyBytes,
  SetLifetime,
  LastPieceTime, MaxPieces \* bounds

\* A piece has a part of the payload, and says how long this is.
ASSUME PieceAssumption ==
  /\ IsFiniteSet(Adus) /\ MaxReassemblyBytes \in Nat
  /\ \A x \in Pieces : x.adu \in Adus /\ x.total \in Nat /\ x.at \in Nat /\ x.len \in Nat

VARIABLES
  partial,      \* by bundle, its set: [total, parts, first, bytes, since]
  partialBytes,
  pieceTime,
  pieces,       \* pieces so far
  cameIn,     \* history: by bundle, the pieces that came for its set
  rebuilt       \* history: the sets that were complete

pieceVars == <<partial, partialBytes, pieceTime, pieces, cameIn, rebuilt>>

Closed == [total |-> 0, parts |-> {}, first |-> FALSE, bytes |-> 0, since |-> 0]

PieceInit ==
  /\ partial = [k \in Adus |-> Closed] /\ partialBytes = 0
  /\ pieceTime = 0 /\ pieces = 0
  /\ cameIn = [k \in Adus |-> {}] /\ rebuilt = {}

PieceTick ==
  /\ pieceTime < LastPieceTime /\ pieceTime' = pieceTime + 1
  /\ UNCHANGED <<partial, partialBytes, pieces, cameIn, rebuilt>>

\* The gateway starts again: it keeps its sets in memory.
GatewayRestart ==
  /\ partialBytes # 0
  /\ partial' = [k \in Adus |-> Closed] /\ partialBytes' = 0
  /\ cameIn' = [k \in Adus |-> {}]
  /\ UNCHANGED <<pieceTime, pieces, rebuilt>>

Stale(k) == partial[k].total > 0 /\ pieceTime - partial[k].since > SetLifetime

SumOver(size) == FoldFunction(LAMBDA n, sum : n + sum, 0, size)

Bytes(parts) == SumOver([p \in parts |-> p.len])

\* Fault: stale sets go, but not what they hold of the buffer.
KeptAll == partialBytes

\* What is left in the buffer once stale sets are gone.
Kept == partialBytes - SumOver([k \in {a \in Adus : Stale(a)} |-> partial[k].bytes])

\* Fault: whether there is as much as the bundle is long.
CompleteBySize(parts, total) == Bytes(parts) >= total

\* Whether the parts follow each other without a hole, up to the end.
Complete(parts, total) ==
  /\ \A p \in parts : p.at = 0 \/ \E q \in parts : q.at < p.at /\ p.at <= q.at + q.len
  /\ \E p \in parts : total <= p.at + p.len

\* A set of another total, or no room: the piece is refused, stale sets are
\* gone, and a new set stays without a part. The parts are known by their
\* offset alone: of two with the same offset the first is kept.
TakePiece(x) ==
  LET fresh == [k \in Adus |-> IF Stale(k) THEN Closed ELSE partial[k]]
      came == [k \in Adus |-> IF Stale(k) THEN {} ELSE cameIn[k]]
      e == IF fresh[x.adu].total > 0 THEN fresh[x.adu]
           ELSE [Closed EXCEPT !.total = x.total, !.since = pieceTime]
      new == ~\E p \in e.parts : p.at = x.at
      fits == Kept + x.len <= MaxReassemblyBytes
      parts == IF new THEN e.parts \cup {[at |-> x.at, len |-> x.len]} ELSE e.parts
      more == IF new THEN x.len ELSE 0
      first == e.first \/ x.at = 0
  IN  IF e.total # x.total \/ (new /\ ~fits)
      THEN /\ partial' = [fresh EXCEPT ![x.adu] = e]
           /\ partialBytes' = Kept /\ cameIn' = came /\ UNCHANGED rebuilt
      ELSE IF Complete(parts, e.total) /\ first
      THEN /\ partial' = [fresh EXCEPT ![x.adu] = Closed]
           /\ partialBytes' = Kept - e.bytes
           /\ cameIn' = [came EXCEPT ![x.adu] = {}]
           /\ rebuilt' = rebuilt \cup {[total |-> e.total, parts |-> parts]}
      ELSE /\ partial' = [fresh EXCEPT ![x.adu] =
                            [e EXCEPT !.parts = parts, !.bytes = @ + more, !.first = first]]
           /\ partialBytes' = Kept + more
           /\ cameIn' = [came EXCEPT ![x.adu] = @ \cup {[at |-> x.at, len |-> x.len]}]
           /\ UNCHANGED rebuilt

\* A piece that is not within its own total is refused first.
PieceArrives ==
  /\ pieces < MaxPieces /\ pieces' = pieces + 1
  /\ \E x \in Pieces :
       IF x.total = 0 \/ x.at + x.len > x.total
       THEN UNCHANGED <<partial, partialBytes, cameIn, rebuilt>>
       ELSE TakePiece(x)
  /\ UNCHANGED pieceTime

PieceNext == PieceTick \/ GatewayRestart \/ PieceArrives

-----------------------------------------------------------------------------

Covers(parts, total) ==
  \A byte \in 0 .. total - 1 : \E p \in parts : p.at <= byte /\ byte < p.at + p.len

\* What is rebuilt has every byte of the bundle from some piece, and none from
\* outside it; and though a set should stay open only "until offsets 0..total
\* are all covered" (gateway.mjs:210), it does stay open with enough received,
\* but only where a piece was discarded for a shorter one of the same offset
\* (gateway.mjs:224).
RebuiltIsWhole ==
  /\ \A b \in rebuilt : /\ Covers(b.parts, b.total)
                        /\ \A p \in b.parts : p.at + p.len <= b.total
  /\ \A k \in Adus : partial[k].total > 0 /\ Covers(cameIn[k], partial[k].total) =>
       \E x \in cameIn[k], p \in partial[k].parts : x.at = p.at /\ x.len > p.len

\* The buffer's count is that of the bytes in it, within the limit: no order of
\* pieces, refusals and stale sets makes it leak (gateway.mjs:220-232).
BufferIsCounted ==
  /\ partialBytes = SumOver([k \in Adus |-> Bytes(partial[k].parts)])
  /\ partialBytes <= MaxReassemblyBytes
=============================================================================
