---------------------------- MODULE MCPayments ----------------------------
(* A payment of two frames, a payment of two texts and three claims on a   *)
(* faucet of two coins, and a page with two wallets, one of them with a    *)
(* coin, and a list of two.  Coins are numbers: 1 belongs to a wallet, 3   *)
(* was announced by a faucet, 11 and 12 are a faucet's fan-out, 101 and up *)
(* are change.                                                             *)
EXTENDS Payments

MCRadioTx == Payment({1}, "payee", NoCoin, TRUE)
MCTextTx == Payment({1}, "payee", NoCoin, TRUE)
MCClaims == {[who |-> "alice", to |-> "a1"], [who |-> "alice", to |-> "a2"],
             [who |-> "bob", to |-> "a2"]}
MCStrangers == {[who |-> "alice", to |-> "a1"], [who |-> "bob", to |-> "a2"]}
MCOwnerOf == [c \in {1, 3, 11, 12} |-> IF c = 1 THEN "w1" ELSE "faucet"]
MCChangeCoin(n) == 100 + n
=============================================================================
