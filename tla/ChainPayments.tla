---------------------------- MODULE ChainPayments ----------------------------
(***************************************************************************)
(* Paying the satellites on chain for the records of a flight              *)
(* (constellation/ttn-run.mjs through a broadcaster, teranode-run.mjs on a *)
(* node of one's own).  A funding output is split by chained fan-outs into *)
(* one input per payment; a payment pays the nodes of a lot of records and *)
(* commits to them; each minute's records are anchored by a root.  All     *)
(* transactions are built before the first is sent and depend on nothing   *)
(* but the funding output and the options, so a transaction is its         *)
(* content here.  Only a run that reaches its end leaves a state file.     *)
(*                                                                         *)
(* Amounts, fees, payout keys, proof of work of the headers and the sample *)
(* of bundles whose routes are proved again are left out.                  *)
(***************************************************************************)
EXTENDS Integers, Sequences, FiniteSets, FiniteSetsExt, SequencesExt

CONSTANTS
  FlightReceipts, \* a sequence: the minute of each record of the flight
  PerFan,         \* outputs of one fan-out
  PayOptions,     \* what an operator may ask for: [batch, limit]
  Passes,         \* passes over what a busy node turned away
  PayRuns,        \* bound: runs of the tool
  PayFailures     \* bound: calls that fail in the end, or transactions forgotten

\* Minutes are counted in the order of their first records.
ASSUME ChainAssumption ==
  /\ FlightReceipts \in Seq(Nat) /\ FlightReceipts # <<>> /\ PerFan \in Nat \ {0}
  /\ \A i \in DOMAIN FlightReceipts :
       /\ FlightReceipts[i] \in 1 .. i
       /\ \A m \in 1 .. FlightReceipts[i] : \E j \in 1 .. i : FlightReceipts[j] = m
  /\ \A o \in PayOptions : o.batch \in Nat \ {0} /\ o.limit \in 1 .. Len(FlightReceipts)

VARIABLES
  pool,     \* transactions the network has accepted
  mined,
  tool,     \* the run under way
  saved,    \* the state file: the options and what was rejected
  report,   \* the last confirmation: its options and funding, if all was well
  payRuns, payFailures

payvars == <<pool, mined, tool, saved, report, payRuns, payFailures>>

NoRecord == [pc |-> "none"]
Idle == [pc |-> "idle"]

-----------------------------------------------------------------------------
(* The transactions of a run.                                              *)

\* The n-th output of a transaction, counted from 0, and a funding output.
Out(tx, n) == [of |-> tx, n |-> n]
Coin(fund, n) == Out([kind |-> "funding", fund |-> fund], n)

\* The k-th fan-out of a run; amounts are those of its payments, in records.
Fan(fund, k, amounts) == [kind |-> "fan", fund |-> fund, k |-> k, amounts |-> amounts]

\* A payment for a lot of records out of one output; in a batch it has change.
Payment(fan, n, lot, batched) ==
  [kind |-> "payment", fund |-> fan.fund, fan |-> fan, n |-> n, lot |-> lot, batched |-> batched]

\* A root over the records of a minute, after those of the minutes before.
Anchor(fund, from, roots) == [kind |-> "anchor", fund |-> fund, from |-> from, roots |-> roots]

\* Fault: the anchors begin at the first output of the last fan-out.
ChangeIsFirst(fan) == 0

\* The change of a fan-out is its last output.
Change(fan) == Len(fan.amounts)

\* A fan-out that another one follows is full.
FullFan(fund, k) == Fan(fund, k, [n \in 1 .. PerFan |-> 1])

\* The output a transaction spends; every one has a single input.
Spends(tx) ==
  CASE tx.kind = "fan" -> IF tx.k = 1 THEN Coin(tx.fund, 0)
                          ELSE LET prev == FullFan(tx.fund, tx.k - 1) IN Out(prev, Change(prev))
    [] tx.kind = "payment" -> Out(tx.fan, tx.n)
    [] tx.kind = "anchor" -> IF Len(tx.roots) = 1 THEN tx.from
                             ELSE Out(Anchor(tx.fund, tx.from, Front(tx.roots)), 1)

\* Its outputs that go back to the funding key and that a run spends.
Gives(tx) ==
  CASE tx.kind = "fan" -> 0 .. Len(tx.amounts)
    [] tx.kind = "payment" -> {}
    [] tx.kind = "anchor" -> {1}

\* The records in lots of one payment each.
LotCount(o) == (o.limit + o.batch - 1) \div o.batch
Lot(o, g) == (g - 1) * o.batch + 1 .. Min({g * o.batch, o.limit})

\* Batches hang on one fan-out, single payments on a chain of them.
FanWidth(o) == IF o.batch > 1 THEN LotCount(o) ELSE PerFan
FanCount(o) == (LotCount(o) + FanWidth(o) - 1) \div FanWidth(o)

FanTxs(o, fund) ==
  [k \in 1 .. FanCount(o) |->
     LET before == (k - 1) * FanWidth(o)
     IN  Fan(fund, k, [n \in 1 .. Min({FanWidth(o), LotCount(o) - before}) |-> Cardinality(Lot(o, before + n))])]

Payments(o, fund) ==
  [g \in 1 .. LotCount(o) |->
     Payment(FanTxs(o, fund)[(g - 1) \div FanWidth(o) + 1], (g - 1) % FanWidth(o), Lot(o, g), o.batch > 1)]

\* One anchor per minute, in the order of the records, each spending the
\* change of the one before it; the first that of the last fan-out, or on a
\* node of one's own a coinbase.
Minutes(o) == Max({FlightReceipts[i] : i \in 1 .. o.limit})

AnchorFund(o, fund, node) ==
  LET last == FanTxs(o, fund)[FanCount(o)]
  IN  IF node = "teranode" THEN Coin(fund, 1) ELSE Out(last, Change(last))

AnchorBatches(o, fund, node) ==
  [k \in 1 .. Minutes(o) |->
     Anchor(fund, AnchorFund(o, fund, node),
            [m \in 1 .. k |-> {i \in 1 .. o.limit : FlightReceipts[i] = m}])]

AllTxs(o, fund, node) == FanTxs(o, fund) \o Payments(o, fund) \o AnchorBatches(o, fund, node)

-----------------------------------------------------------------------------
(* The network (external).                                                 *)

Acceptable(tx) ==
  \/ tx \in pool
  \/ LET coin == Spends(tx)
     IN  /\ coin.of.kind # "funding" => coin.of \in pool /\ coin.n \in Gives(coin.of)
         /\ \A other \in pool : Spends(other) # coin

\* A call with all its retries: accepted; or it fails in the end, whether or
\* not the transaction arrived; or the network refuses it.
Submit(tx, ok) ==
  \/ /\ Acceptable(tx) /\ ok
     /\ pool' = pool \cup {tx} /\ UNCHANGED payFailures
  \/ /\ Acceptable(tx) /\ ~ok /\ payFailures < PayFailures
     /\ pool' \in {pool, pool \cup {tx}} /\ payFailures' = payFailures + 1
  \/ /\ ~Acceptable(tx) /\ ~ok
     /\ UNCHANGED <<pool, payFailures>>

\* A block, with all that is waiting.
MineBlock ==
  /\ pool # mined
  /\ mined' = pool
  /\ UNCHANGED <<pool, tool, saved, report, payRuns, payFailures>>

\* Transactions that no miner took are dropped, with all that spend theirs.
Forget ==
  /\ payFailures < PayFailures
  /\ \E gone \in SUBSET (pool \ mined) \ {{}} :
       /\ \A tx \in pool : Spends(tx).of \in gone => tx \in gone
       /\ pool' = pool \ gone
  /\ payFailures' = payFailures + 1
  /\ UNCHANGED <<mined, tool, saved, report, payRuns>>

-----------------------------------------------------------------------------
(* The tool.                                                               *)

PayInit ==
  /\ pool = {} /\ mined = {} /\ tool = Idle /\ saved = NoRecord /\ report = NoRecord
  /\ payRuns = 0 /\ payFailures = 0

\* The broadcaster's runs are given the same funding output; a run on a node
\* of one's own mines coins to a key made for it.
StartRun(o, node) ==
  /\ tool = Idle /\ payRuns < PayRuns
  /\ payRuns' = payRuns + 1
  /\ LET fund == IF node = "teranode" THEN payRuns + 1 ELSE 0
     IN  tool' = [pc |-> "fans", node |-> node, opt |-> o, fund |-> fund,
                  fans |-> FanTxs(o, fund), pays |-> ToSet(Payments(o, fund)),
                  anchors |-> AnchorBatches(o, fund, node), rejected |-> {}, pass |-> 0]
  /\ UNCHANGED <<pool, mined, saved, report, payFailures>>

\* On a node of one's own every record is paid by a transaction of its own.
WholeFlight == [batch |-> 1, limit |-> Len(FlightReceipts)]

Busy == tool.pc \in {"fans", "pays", "anchors", "resend"}

\* Killed, or given up: no trace but what was sent.
Kill ==
  /\ Busy
  /\ tool' = Idle
  /\ UNCHANGED <<pool, mined, saved, report, payRuns, payFailures>>

\* Fan-outs in order; the run ends at the first that is not accepted.
SendFan ==
  /\ tool.pc = "fans"
  /\ \E ok \in BOOLEAN :
       /\ Submit(Head(tool.fans), ok)
       /\ tool' = IF ~ok THEN Idle
                  ELSE [tool EXCEPT !.fans = Tail(@), !.pc = IF Len(tool.fans) = 1 THEN "pays" ELSE @]
  /\ UNCHANGED <<mined, saved, report, payRuns>>

\* Payments, by several workers, in any order.
SendPayment ==
  /\ tool.pc = "pays" /\ tool.pays # {}
  /\ \E tx \in tool.pays, ok \in BOOLEAN :
       /\ Submit(tx, ok)
       /\ tool' = [tool EXCEPT !.pays = @ \ {tx}, !.rejected = IF ok THEN @ ELSE @ \cup {tx}]
  /\ UNCHANGED <<mined, saved, report, payRuns>>

\* On a node of one's own what was turned away is sent again, a few times.
SendAgain ==
  /\ tool.pc = "pays" /\ tool.pays = {}
  /\ tool' = IF tool.node = "teranode" /\ tool.rejected # {} /\ tool.pass < Passes
             THEN [tool EXCEPT !.pays = tool.rejected, !.rejected = {}, !.pass = @ + 1]
             ELSE [tool EXCEPT !.pc = "anchors"]
  /\ UNCHANGED <<pool, mined, saved, report, payRuns, payFailures>>

\* Anchors in order; one that the node refuses ends the run, one that the
\* broadcaster refuses is noted.
SendAnchor ==
  /\ tool.pc = "anchors" /\ tool.anchors # <<>>
  /\ \E ok \in BOOLEAN :
       /\ Submit(Head(tool.anchors), ok)
       /\ tool' = IF tool.node = "teranode" /\ ~ok THEN Idle
                  ELSE [tool EXCEPT !.anchors = Tail(@),
                                    !.rejected = IF ok THEN @ ELSE @ \cup {Head(tool.anchors)}]
  /\ UNCHANGED <<mined, saved, report, payRuns>>

\* The state file, over that of the run before.
Save ==
  /\ tool.pc = "anchors" /\ tool.anchors = <<>> /\ tool.node = "arcade"
  /\ saved' = [pc |-> "saved", opt |-> tool.opt, rejected |-> tool.rejected]
  /\ tool' = Idle
  /\ UNCHANGED <<pool, mined, report, payRuns, payFailures>>

\* Fault: a transaction that was accepted counts as mined.
IsSeen(tx) == tx \in pool

IsMined(tx) == tx \in mined

Wanted(o, fund, node) == ToSet(Payments(o, fund)) \cup ToSet(AnchorBatches(o, fund, node))

\* --confirm, or the end of a run on a node of one's own: all that was sent
\* was accepted and is mined.  A lookup that fails makes it fail.
Confirms(o, fund, node, rejected) ==
  report' \in {NoRecord} \cup
    (IF rejected = {} /\ \A tx \in Wanted(o, fund, node) : IsMined(tx)
     THEN {[pc |-> "ok", opt |-> o, fund |-> fund, node |-> node]} ELSE {})

ConfirmPayments ==
  /\ tool = Idle /\ saved # NoRecord
  /\ Confirms(saved.opt, 0, "arcade", saved.rejected)
  /\ UNCHANGED <<pool, mined, tool, saved, payRuns, payFailures>>

ConfirmOwn ==
  /\ tool.pc = "anchors" /\ tool.anchors = <<>> /\ tool.node = "teranode"
  /\ Confirms(tool.opt, tool.fund, "teranode", tool.rejected)
  /\ tool' = Idle
  /\ UNCHANGED <<pool, mined, saved, payRuns, payFailures>>

\* --rebroadcast: the same transactions are built again, only if they are
\* those of the state file, and what is not mined is sent again in order.
Rebroadcast ==
  /\ tool = Idle /\ saved # NoRecord /\ payRuns < PayRuns
  /\ payRuns' = payRuns + 1
  /\ tool' = [pc |-> "resend", opt |-> saved.opt,
              due |-> {tx \in ToSet(AllTxs(saved.opt, 0, "arcade")) : ~IsMined(tx)}]
  /\ UNCHANGED <<pool, mined, saved, report, payFailures>>

Resend ==
  /\ tool.pc = "resend"
  /\ LET all == AllTxs(tool.opt, 0, "arcade")
     IN  \/ /\ tool.due = {}
            /\ tool' = Idle /\ UNCHANGED <<pool, payFailures>>
         \/ \E i \in DOMAIN all, ok \in BOOLEAN :
              /\ all[i] \in tool.due /\ \A j \in 1 .. i - 1 : all[j] \notin tool.due
              /\ Submit(all[i], ok)
              /\ tool' = [tool EXCEPT !.due = @ \ {all[i]}]
  /\ UNCHANGED <<mined, saved, report, payRuns>>

PayNext ==
  \/ \E o \in PayOptions : StartRun(o, "arcade")
  \/ StartRun(WholeFlight, "teranode")
  \/ SendFan \/ SendPayment \/ SendAgain \/ SendAnchor \/ Save \/ Kill
  \/ ConfirmPayments \/ ConfirmOwn \/ Rebroadcast \/ Resend
  \/ MineBlock \/ Forget

-----------------------------------------------------------------------------

\* A confirmation that finds all well means that every record of the run is
\* paid by exactly one mined transaction of its funding and anchored by
\* exactly one, whatever was killed, lost, resent or tried with other options
\* before (ttn-run.mjs:417-444, teranode-run.mjs:226).
EachPaidOnce ==
  report # NoRecord =>
    LET ours(kind) == {tx \in mined : tx.fund = report.fund /\ tx.kind = kind}
    IN  \A r \in 1 .. report.opt.limit :
          /\ Cardinality({tx \in ours("payment") : r \in tx.lot}) = 1
          /\ Cardinality({tx \in ours("anchor") : r \in Last(tx.roots)}) = 1

\* A run that nothing disturbs has none of its transactions refused: they
\* spend distinct outputs and each goes out after those it spends
\* (ttn-run.mjs:198-278, 323-338).
NothingRefused ==
  /\ saved # NoRecord
  /\ payFailures = 0
  /\ pool \subseteq ToSet(AllTxs(saved.opt, 0, "arcade")) \cup {tx \in pool : tx.fund # 0}
  => saved.rejected = {}

\* A confirmed run is on the chain, and what is built can be mined.
PaidOnChain == EachPaidOnce /\ NothingRefused
=============================================================================
