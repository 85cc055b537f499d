---------------------------- MODULE Settlement ----------------------------
(***************************************************************************)
(* What happens to a signed payment at the edge of the internet:           *)
(* settlePayment (radio/lib/gateway.mjs), shared by the radio and the SMS  *)
(* gateway, and arcVerdict (agent/lib/arc.mjs), shared by everything that  *)
(* broadcasts.  ARC and the network are external: a coin is spent once, a  *)
(* payment of coins nobody has seen is answered as an orphan, a payment    *)
(* the network has taken is known, and any answer may be lost.  ARC may    *)
(* also answer before the network has decided, with one of the five        *)
(* statuses that come before SEEN_ON_NETWORK; the network decides later.   *)
(*                                                                         *)
(* A payment is the set of coins it spends, the party it pays, the coin    *)
(* that brings the change back, and whether its signatures and amounts     *)
(* check (checkOffline).                                                   *)
(***************************************************************************)
EXTENDS Naturals, FiniteSets, TLC

CONSTANTS
  Genuine,  \* coins on the chain from the start
  NoCoin,   \* no change
  MaxEarly  \* bound: payments ARC has undecided at one time

ASSUME SettlementAssumption == NoCoin \notin Genuine /\ MaxEarly \in Nat

VARIABLES
  taken,  \* payments the network took
  early,  \* those ARC took in before the network decided, while it has not
          \* taken them: it may, or may never
  real    \* --spend-real-bsv: the broadcaster is ARC; FALSE: a dry run

settleVars == <<taken, early, real>>

Payment(in, to, change, signed) ==
  [in |-> in, to |-> to, change |-> change, signed |-> signed]

\* Coins somebody has seen on the chain, and those still unspent.
KnownCoins == (Genuine \cup {tx.change : tx \in taken}) \ {NoCoin}
Unspent == KnownCoins \ UNION {tx.in : tx \in taken}

-----------------------------------------------------------------------------

\* ARC's txStatus, by what the network makes of the payment.
TxStatus(tx) ==
  CASE tx \in taken -> "MINED"
    [] ~tx.signed -> "REJECTED"
    [] ~(tx.in \subseteq KnownCoins) -> "SEEN_IN_ORPHAN_MEMPOOL"
    [] ~(tx.in \subseteq Unspent) -> "DOUBLE_SPEND_ATTEMPTED"
    [] OTHER -> "SEEN_ON_NETWORK"

\* The statuses that come before the network's decision.
EarlyStatus ==
  {"STORED", "ANNOUNCED_TO_NETWORK", "REQUESTED_BY_NETWORK", "SENT_TO_NETWORK", "ACCEPTED_BY_NETWORK"}

GoodStatus == EarlyStatus \cup {"SEEN_ON_NETWORK", "MINED", "ALREADY_KNOWN"}

\* Fault: HTTP 200 is enough.
VerdictByHttpCode(answer) == answer \notin {"NO_ANSWER", "REJECTED"}

\* arcVerdict: the status decides, or the text of an error for a payment
\* that is already known.
Verdict(answer) == answer \in GoodStatus

After(tx) ==
  IF TxStatus(tx) = "SEEN_ON_NETWORK" THEN taken \cup {tx} ELSE taken

\* What one call of ARC can come to: what the network and ARC have then, and
\* the answer seen.  ARC itself refuses a payment that is not signed.
Outcomes(tx) ==
  LET seen == {TxStatus(tx)} \cup (IF tx \in taken THEN {"ALREADY_KNOWN"} ELSE {})
  IN  [taken : {After(tx)}, early : {early \ After(tx)}, answer : seen \cup {"NO_ANSWER"}]
        \cup [taken : {taken}, early : {early}, answer : {"NO_ANSWER"}]
        \cup (IF tx.signed /\ tx \notin taken /\ Cardinality(early \cup {tx}) <= MaxEarly
              THEN [taken : {taken}, early : {early \cup {tx}}, answer : EarlyStatus \cup {"NO_ANSWER"}]
              ELSE {})

\* A call reached ARC and its answer is not back.
Reached(tx) ==
  /\ \E o \in Outcomes(tx) : taken' = o.taken /\ early' = o.early
  /\ <<taken, early>>' # <<taken, early>>

\* The network takes a payment ARC has.
NetworkDecides ==
  \E tx \in early :
    /\ TxStatus(tx) = "SEEN_ON_NETWORK"
    /\ taken' = After(tx)
    /\ early' = early \ {tx}
    /\ UNCHANGED real

\* broadcast(tx): dryRun, or arcBroadcaster with a thrown fetch caught.
Broadcast(tx) ==
  IF real
  THEN {[taken |-> o.taken, early |-> o.early, ok |-> Verdict(o.answer), sent |-> TRUE] : o \in Outcomes(tx)}
  ELSE {[taken |-> taken, early |-> early, ok |-> TRUE, sent |-> FALSE]}

-----------------------------------------------------------------------------

NoStatus == "none"

Status(b) ==
  CASE ~b.ok -> "BROADCAST_FAILED"
    [] b.ok /\ b.sent -> "ACCEPTED"
    [] OTHER -> "VALID_NOT_SENT"

\* settlePayment: the network's state after it, and the status the receipt
\* carries.
Settle(tx) ==
  IF tx.signed
  THEN {[taken |-> b.taken, early |-> b.early, status |-> Status(b)] : b \in Broadcast(tx)}
  ELSE {[taken |-> taken, early |-> early, status |-> "REJECTED"]}

\* A broadcaster took the payment in: the network has it, or ARC does.
Accepted(tx) == tx \in taken \cup early

\* What a receipt's status says is so: "a broadcaster took it" for ACCEPTED
\* (radio/README.md).
Truthful(status, tx) ==
  /\ status = "ACCEPTED" => Accepted(tx)
  /\ status = "REJECTED" => ~tx.signed
  /\ status = "BROADCAST_FAILED" => real /\ tx.signed
  /\ status = "VALID_NOT_SENT" => ~real /\ tx.signed

-----------------------------------------------------------------------------
(* On its way there a payment is cut into pieces: radio frames             *)
(* (radio/lib/frame.mjs), parts of a text message (radio/sms/text.mjs) and *)
(* chunks of sound (radio/lib/sound.mjs).  The three collect by the        *)
(* payment's hash, drop the collection when it is complete, and refuse a   *)
(* payment that does not hash to its name.                                 *)
(*                                                                         *)
(* A piece is its index, the number of pieces, the type it claims, and     *)
(* whether its data came through as sent: what a hash can tell.            *)

Piece(index, of, type, intact) ==
  [index |-> index, of |-> of, type |-> type, intact |-> intact]

\* split, paymentTexts, soundChunks: every piece of a payment.
Pieces(of, type) == [i \in 1 .. of |-> Piece(i, of, type, TRUE)]

\* A collection: what the first piece said, and the data by index.
NothingYet == [of |-> 0, type |-> "none", got |-> [i \in {} |-> TRUE]]

Begun(c) == c.of # 0
Opened(c, p) == IF Begun(c) THEN c ELSE [NothingYet EXCEPT !.of = p.of, !.type = p.type]

\* add: a piece that disagrees with the first about the count or the type is
\* ignored; a repeated piece replaces the one before it.
Collected(c, p) ==
  LET o == Opened(c, p)
  IN  IF o.of = p.of /\ o.type = p.type
      THEN [o EXCEPT !.got = [i \in {p.index} |-> p.intact] @@ o.got] ELSE o

Complete(c) == Begun(c) /\ Cardinality(DOMAIN c.got) >= c.of
HashesToName(c) == \A i \in DOMAIN c.got : c.got[i]

Missing(c) == (1 .. c.of) \ DOMAIN c.got

\* What add returns, and what it keeps.
Result(c, p) ==
  LET n == Collected(c, p)
  IN  CASE ~Complete(n) -> "incomplete"
        [] Complete(n) /\ HashesToName(n) -> "whole"
        [] OTHER -> "corrupt"
Kept(c, p) == IF Complete(Collected(c, p)) THEN NothingYet ELSE Collected(c, p)
=============================================================================
