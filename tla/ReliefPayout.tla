---------------------------- MODULE ReliefPayout ----------------------------
(***************************************************************************)
(* relief/kit/payout.mjs with --spend-real-bsv, run by an operator as      *)
(* often as they like: read what the hub verified and what payouts.jsonl   *)
(* says was paid, build one transaction for the difference, broadcast it   *)
(* through ARC, and append it to payouts.jsonl if ARC's answer is a good   *)
(* one.  ARC and the chain are external: an output is spent once, the same *)
(* transaction again is already known, a transaction ARC answers as an     *)
(* orphan may still be mined, and one it answers with one of the five good *)
(* statuses before SEEN_ON_NETWORK may never be (agent/lib/arc.mjs).       *)
(*                                                                         *)
(* A handoff is a relay and a bundle id.  "verified" is hub.paid of        *)
(* ReliefHub, recomputed by the tool from the hub's log (LiveIsRebuilt);   *)
(* it only grows.  Fees and amounts are left out.                          *)
(***************************************************************************)
EXTENDS Naturals, FiniteSets

CONSTANTS
  Handoffs,   \* what there is to earn
  Payable,    \* the handoffs of relays with a payTo address
  Funds,      \* funding outputs that pay the funder
  Tools,      \* runs of the tool at one time
  NoFund,
  MaxMishaps   \* bound: tool runs killed, answers lost, transactions held by ARC

ASSUME PayoutAssumption ==
  /\ Payable \subseteq Handoffs
  /\ NoFund \notin Funds
  /\ MaxMishaps \in Nat

VARIABLES
  verified,  \* handoffs the hub's log proves
  ledger,    \* payouts.jsonl: one record per payout recorded as paid
  run,       \* the tool runs: step, transaction, and ARC's verdict
  spent,     \* which handoffs the transaction mined from each output pays; {}: unspent
  held,      \* transactions ARC answered badly and the network may still take
  early,     \* those ARC answered good before the network decided
  overlapped, \* history: a run began while another was under way
  mishaps

payoutVars == <<verified, ledger, run, spent, held, early, overlapped, mishaps>>

Tx == [fund : Funds, paid : SUBSET Handoffs]

NoTx == [fund |-> NoFund, paid |-> {}]

Idle == [pc |-> "idle", tx |-> NoTx, ok |-> FALSE]

PayoutTypeOK ==
  /\ verified \subseteq Handoffs
  /\ ledger \subseteq Tx
  /\ run \in [Tools -> [pc : {"idle", "built", "answered"}, tx : Tx \cup {NoTx}, ok : BOOLEAN]]
  /\ spent \in [Funds -> SUBSET Handoffs]
  /\ held \subseteq Tx
  /\ early \subseteq Tx
  /\ overlapped \in BOOLEAN
  /\ mishaps \in 0 .. MaxMishaps

PayoutInit ==
  /\ verified = {}
  /\ ledger = {}
  /\ run = [t \in Tools |-> Idle]
  /\ spent = [f \in Funds |-> {}]
  /\ held = {}
  /\ early = {}
  /\ overlapped = FALSE
  /\ mishaps = 0

-----------------------------------------------------------------------------

\* The hub logs a frame that proves another handoff.
Verify(h) ==
  /\ h \notin verified
  /\ verified' = verified \cup {h}
  /\ UNCHANGED <<ledger, run, spent, held, early, overlapped, mishaps>>

Already == UNION {line.paid : line \in ledger}

\* Fault: one unpaid handoff brings the paid ones along.
BuildWhole(t, f) ==
  LET due == verified \cap Payable
  IN  /\ run[t].pc = "idle"
      /\ ~(due \subseteq Already)
      /\ run' = [run EXCEPT ![t] = [pc |-> "built", tx |-> [fund |-> f, paid |-> due], ok |-> FALSE]]
      /\ overlapped' = (overlapped \/ \E u \in Tools : run[u].pc # "idle")
      /\ UNCHANGED <<verified, ledger, spent, held, early, mishaps>>

\* owed, then buildPayout: one transaction for everything payable not yet
\* recorded; nothing to pay ends the run.
Build(t, f) ==
  LET due == (verified \ Already) \cap Payable
  IN  /\ run[t].pc = "idle"
      /\ due # {}
      /\ run' = [run EXCEPT ![t] = [pc |-> "built", tx |-> [fund |-> f, paid |-> due], ok |-> FALSE]]
      /\ overlapped' = (overlapped \/ \E u \in Tools : run[u].pc # "idle")
      /\ UNCHANGED <<verified, ledger, spent, held, early, mishaps>>

Answer(t, ok) == run' = [run EXCEPT ![t].pc = "answered", ![t].ok = ok]

Exit(t) == run' = [run EXCEPT ![t] = Idle]

\* One more fault.
Mishap == mishaps < MaxMishaps /\ mishaps' = mishaps + 1

\* The network takes a transaction whose output is unspent; one it already
\* took is known; any other spends an output twice.
Accepted(tx) == spent[tx.fund] \in {{}, tx.paid}

Broadcast(t) ==
  LET tx == run[t].tx
  IN  /\ run[t].pc = "built"
      /\ IF Accepted(tx)
         THEN spent' = [spent EXCEPT ![tx.fund] = tx.paid] /\ Answer(t, TRUE)
         ELSE Answer(t, FALSE) /\ UNCHANGED spent
      /\ UNCHANGED <<verified, ledger, held, early, overlapped, mishaps>>

\* ARC has the transaction and answers with a good status before the network
\* has decided: STORED and the four after it, up to ACCEPTED_BY_NETWORK.
BroadcastEarly(t) ==
  /\ run[t].pc = "built"
  /\ early' = early \cup {run[t].tx}
  /\ Answer(t, TRUE)
  /\ UNCHANGED <<verified, ledger, spent, held, overlapped, mishaps>>

\* ARC keeps the transaction but answers with a status that is not a good one.
BroadcastHeld(t) ==
  /\ run[t].pc = "built"
  /\ Mishap
  /\ held' = held \cup {run[t].tx}
  /\ Answer(t, FALSE)
  /\ UNCHANGED <<verified, ledger, spent, early, overlapped>>

\* The network takes, later, what ARC has; it may never do so.
Settle(tx) ==
  /\ spent[tx.fund] = {}
  /\ spent' = [spent EXCEPT ![tx.fund] = tx.paid]
  /\ held' = held \ {tx}
  /\ early' = early \ {tx}
  /\ UNCHANGED <<verified, ledger, run, overlapped, mishaps>>

\* Fault: any answer counts as acceptance.
BookAnyAnswer(t) ==
  /\ run[t].pc = "answered"
  /\ ledger' = ledger \cup {run[t].tx}
  /\ Exit(t)
  /\ UNCHANGED <<verified, spent, held, early, overlapped, mishaps>>

\* Recorded as paid only if ARC accepted it.
Book(t) ==
  /\ run[t].pc = "answered"
  /\ ledger' = IF run[t].ok THEN ledger \cup {run[t].tx} ELSE ledger
  /\ Exit(t)
  /\ UNCHANGED <<verified, spent, held, early, overlapped, mishaps>>

\* The run is killed, or fetch throws: before the request reaches ARC or after.
Killed(t) ==
  /\ run[t].pc # "idle"
  /\ Mishap
  /\ Exit(t)
  /\ UNCHANGED <<verified, ledger, spent, held, early, overlapped>>

PayoutNext ==
  \/ \E h \in Handoffs : Verify(h)
  \/ \E t \in Tools :
       \/ \E f \in Funds : Build(t, f)
       \/ Broadcast(t)
       \/ BroadcastEarly(t)
       \/ BroadcastHeld(t)
       \/ Book(t)
       \/ Killed(t)
  \/ \E tx \in held \cup early : Settle(tx)

PayoutSpec == PayoutInit /\ [][PayoutNext]_payoutVars

-----------------------------------------------------------------------------

\* A relay is paid on chain at most once for a handoff ("Paid ids are kept in
\* payouts.jsonl and never paid again", payout.mjs).
PaidOnce == \A f, g \in Funds : f # g => spent[f] \cap spent[g] = {}

\* The same where it can be kept: none of the runs killed and no transaction
\* mined after a bad answer, with any funding outputs and also when what was
\* answered early is mined late (the exclusion in owed).
PaidOnceUnlessFaulty == mishaps = 0 => PaidOnce

\* payouts.jsonl claims no payment that was refused: a line's transaction is on
\* the chain, or ARC answered it with a good status that came before the
\* network's word and the network has not taken it, yet or ever ("record the
\* payout as paid only if ARC accepted it", broadcastPayout), whatever is killed,
\* lost, refused or run twice at one time.
LedgerIsAccepted == \A line \in ledger : spent[line.fund] = line.paid \/ line \in early

\* No handoff is booked twice.
BookedOnce == \A a, b \in ledger : a # b => a.paid \cap b.paid = {}

\* Money leaves only for handoffs the hub's evidence supports, to relays with an
\* address (the payable filter in buildPayout).
PaidWasVerified == \A f \in Funds : spent[f] \subseteq verified \cap Payable

\* As long as the operator waits for one run to end before starting the next,
\* nothing is booked twice, even when runs are killed after ARC took their
\* transaction, nor, as long as nothing goes wrong, paid twice
\* (payout.mjs:13-14).
OnceOnly == ~overlapped => BookedOnce /\ PaidOnceUnlessFaulty
=============================================================================
