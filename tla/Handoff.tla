------------------------------ MODULE Handoff ------------------------------
(***************************************************************************)
(* The phone page (radio/handoff/src/app.mjs) on two phones: the payer's,  *)
(* with a wallet open in a tab, and the payee's, with its list of payments *)
(* waiting to be sent.  Payments pass between them as QR codes, sound or   *)
(* over the Nearby link, whole or not at all (the assemblers are           *)
(* those of Settlement); WhatsOnChain and ARC are external.                *)
(*                                                                         *)
(* The page runs one handler at a time, but a handler that awaits the      *)
(* network lets others run: fetching coins and broadcasting take two       *)
(* steps each.  Keys are their addresses; fees are left out, so a payment  *)
(* spends one coin and brings one coin of change back.                     *)
(***************************************************************************)
EXTENDS Settlement, Sequences, FiniteSetsExt, SequencesExt

CONSTANTS
  Wallets,     \* keys the payer may open
  OwnerOf,     \* whose key a genuine coin is locked to
  NoWallet,
  Payees,      \* addresses paid; Me among them
  Me,          \* the address on the payee's page
  DemoCoin,    \* the funding a demo payment makes up
  BearerCoin,  \* a faucet's coin whose key was announced
  ChangeCoin(_), \* the coin that brings back the change of the n-th payment
  MaxOutbox,   \* the outbox keeps this many
  MaxSigned,   \* bound: payments signed
  MaxFetches   \* bound: times coins are asked for or pasted

ASSUME HandoffAssumption ==
  /\ NoWallet \notin Wallets /\ Me \in Payees /\ DemoCoin \notin Genuine
  /\ {MaxOutbox, MaxSigned, MaxFetches} \subseteq Nat
  /\ DOMAIN OwnerOf = Genuine
  /\ \A n \in 1 .. MaxSigned :
       /\ ChangeCoin(n) \notin Genuine \cup {DemoCoin, NoCoin}
       /\ \A m \in 1 .. MaxSigned : m # n => ChangeCoin(m) # ChangeCoin(n)

VARIABLES
  wallet,    \* the payer's tab: the open key
  stored,    \* the key its sessionStorage keeps across a reload
  coins,     \* coins: what the page takes for spendable
  asking,    \* answers of WhatsOnChain under way
  current,   \* the payment loaded on the Pay tab, and those signed so far
  fetches,   \* how often coins were asked for, and how often they came
  outbox,    \* the payee's list: payment, and whether it is marked sent
  lastGot,   \* lastReceived
  sending    \* payments whose broadcast the payee's page awaits

pageVars == <<wallet, stored, coins, asking, current, fetches, outbox, lastGot, sending>>
payeeVars == <<outbox, lastGot, sending>>
payerVars == <<wallet, stored, coins, asking, current, fetches>>

NoPayment == Payment({}, Me, NoCoin, FALSE)

PageInit ==
  /\ wallet = NoWallet /\ stored = NoWallet /\ coins = {} /\ asking = {}
  /\ fetches = [asked |-> 0, came |-> 0]
  /\ current = [tx |-> NoPayment, signed |-> <<>>]
  /\ outbox = <<>> /\ lastGot = NoPayment /\ sending = {}

-----------------------------------------------------------------------------

\* Whose key a coin is locked to: change goes back to the key that paid.
Owner(c) ==
  IF c \in DOMAIN OwnerOf THEN OwnerOf[c]
  ELSE LET s == CHOOSE x \in Range(current.signed) : x.tx.change = c IN s.by

\* setWallet: the key is kept in this tab, the coins are not known yet.
OpenWallet(w) ==
  /\ wallet' = w /\ stored' = w /\ coins' = {}
  /\ UNCHANGED <<asking, current, fetches, payeeVars, settleVars>>

\* runLock: Lock, Close wallet, another tab's message, or a quarter of an hour
\* without a touch.
Lock ==
  /\ wallet # NoWallet
  /\ wallet' = NoWallet /\ stored' = NoWallet /\ coins' = {}
  /\ UNCHANGED <<asking, current, fetches, payeeVars, settleVars>>

\* The tab is loaded again: the key comes back from sessionStorage, nothing
\* else does.
Reload ==
  /\ wallet' = stored /\ coins' = {} /\ asking' = {}
  /\ current' = [current EXCEPT !.tx = NoPayment]
  /\ UNCHANGED <<stored, fetches, payeeVars, settleVars>>

\* Get my coins, or Pay them with none loaded: WhatsOnChain lists what is
\* unspent as it sees it now, and the page hears of it later.
AskCoins ==
  /\ wallet # NoWallet /\ fetches.asked < MaxFetches
  /\ fetches' = [fetches EXCEPT !.asked = @ + 1]
  /\ asking' = asking \cup {{c \in Unspent : Owner(c) = wallet}}
  /\ UNCHANGED <<wallet, stored, coins, current, payeeVars, settleVars>>

CoinsAnswered(answer) ==
  /\ coins' = answer
  /\ asking' = asking \ {answer}
  /\ fetches' = [fetches EXCEPT !.came = @ + 1]
  /\ UNCHANGED <<wallet, stored, current, payeeVars, settleVars>>

\* fundAdd: the coins of a pasted transaction that pay the key and are not on
\* the page.
PasteFunding ==
  /\ wallet # NoWallet /\ fetches.asked < MaxFetches
  /\ fetches' = [asked |-> fetches.asked + 1, came |-> fetches.came + 1]
  /\ \E c \in KnownCoins \ coins : Owner(c) = wallet /\ coins' = coins \cup {c}
  /\ UNCHANGED <<wallet, stored, asking, current, payeeVars, settleVars>>

\* buildFromCoins: the coins locked to the open key.
Mine == {c \in coins : Owner(c) = wallet}

\* Fault: the coins a payment spends stay on the page.
CoinsAfterKept(c, change) == coins \cup {change}

\* sign: the coins it spends are gone; its change is a coin for the next one.
CoinsAfter(c, change) == (coins \ {c}) \cup {change}

Loaded(tx, by) ==
  current' = [tx |-> tx, signed |-> Append(current.signed, [tx |-> tx, by |-> by, reading |-> fetches.came])]

\* Sign, to whoever is typed in; or to the device the Nearby link named.
Sign ==
  /\ wallet # NoWallet /\ Len(current.signed) < MaxSigned
  /\ \E c \in Mine, to \in Payees :
       LET change == ChangeCoin(Len(current.signed) + 1)
       IN  /\ Loaded(Payment({c}, to, change, TRUE), wallet)
           /\ coins' = CoinsAfter(c, change)
  /\ UNCHANGED <<wallet, stored, asking, fetches, payeeVars, settleVars>>

\* Try a demo payment, to the payer's own address or a random one: signed, but
\* its funding is made up.
Demo ==
  /\ Len(current.signed) < MaxSigned
  /\ \E to \in Payees \ {Me} :
       Loaded(Payment({DemoCoin}, to, NoCoin, TRUE), NoWallet)
  /\ UNCHANGED <<wallet, stored, coins, asking, fetches, payeeVars, settleVars>>

\* Broadcast on the Pay tab: not offered for a demo.
BroadcastPay ==
  /\ current.tx.in # {} /\ current.tx.in # {DemoCoin}
  /\ Reached(current.tx)
  /\ UNCHANGED <<pageVars, real>>
-----------------------------------------------------------------------------

Entry(tx, sent) == [tx |-> tx, sent |-> sent]
Listed(tx) == \E i \in DOMAIN outbox : outbox[i].tx = tx
MarkedSent(tx) == \E i \in DOMAIN outbox : outbox[i].tx = tx /\ outbox[i].sent

\* outbox.filter: the entries of other payments, in their order.
Others(tx) ==
  LET kept == {i \in DOMAIN outbox : outbox[i].tx # tx}
      place(k) == CHOOSE i \in kept : Cardinality({j \in kept : j <= i}) = k
  IN  [k \in 1 .. Cardinality(kept) |-> outbox[place(k)]]

Newest(list) == SubSeq(list, 1, IF Len(list) < MaxOutbox THEN Len(list) ELSE MaxOutbox)

\* addToOutbox: to the front, with its sent mark, and the oldest drops out.
AddToOutbox(tx) == outbox' = Newest(<<Entry(tx, MarkedSent(tx))>> \o Others(tx))

\* received: kept when it is signed and pays the payee, or when no address
\* was entered to check that against.
Receive ==
  /\ current.tx # NoPayment
  /\ lastGot' = current.tx
  /\ \E checked \in BOOLEAN :
       IF current.tx.signed /\ (checked => current.tx.to = Me)
       THEN AddToOutbox(current.tx) ELSE UNCHANGED outbox
  /\ UNCHANGED <<payerVars, sending, settleVars>>

\* forwardAnyway: carried for somebody else.
ForwardAnyway ==
  /\ lastGot.signed
  /\ AddToOutbox(lastGot)
  /\ UNCHANGED <<payerVars, lastGot, sending, settleVars>>

\* Sweep to my address: a bearer coin heard from a faucet.
SweepBearer ==
  /\ AddToOutbox(Payment({BearerCoin}, Me, NoCoin, TRUE))
  /\ UNCHANGED <<payerVars, lastGot, sending, settleVars>>

RemoveEntry(tx) ==
  /\ Listed(tx)
  /\ outbox' = Others(tx)
  /\ UNCHANGED <<payerVars, lastGot, sending, settleVars>>

\* Broadcast now: the answer is awaited.
BroadcastEntry(tx) ==
  /\ Listed(tx) /\ ~MarkedSent(tx)
  /\ sending' = sending \cup {tx}
  /\ UNCHANGED <<payerVars, outbox, lastGot, settleVars>>

\* The answer marks the payment in the list as it is by then.
EntryAnswered(tx) ==
  /\ \E o \in Outcomes(tx) :
       /\ taken' = o.taken /\ early' = o.early
       /\ outbox' = [i \in DOMAIN outbox |->
            IF outbox[i].tx = tx /\ Verdict(o.answer) THEN Entry(tx, TRUE) ELSE outbox[i]]
  /\ sending' = sending \ {tx}
  /\ UNCHANGED <<payerVars, lastGot, real>>

PageNext ==
  \/ \E w \in Wallets : OpenWallet(w)
  \/ Lock \/ Reload \/ AskCoins \/ PasteFunding \/ Sign \/ Demo \/ BroadcastPay
  \/ \E answer \in asking : CoinsAnswered(answer)
  \/ Receive \/ ForwardAnyway \/ SweepBearer
  \/ \E e \in Range(outbox) : RemoveEntry(e.tx) \/ BroadcastEntry(e.tx)
  \/ \E tx \in sending : EntryAnswered(tx)

-----------------------------------------------------------------------------

\* Payments signed from one reading of the coins spend coins of their own and
\* none of another's, each of the key that signed it, through locks, reloads and
\* changes of wallet (the filter in sign, app.mjs:236-238).  A later reading, an
\* answer that was under way or a pasted funding transaction, may bring a spent
\* coin back: payments of two readings may meet in one coin.
HandedOverApart ==
  \A i, j \in DOMAIN current.signed :
    LET s == current.signed[i]
        t == current.signed[j]
    IN  s.by # NoWallet =>
          /\ \A c \in s.tx.in : Owner(c) = s.by
          /\ i # j /\ s.reading = t.reading => s.tx.in \cap t.tx.in = {}
=============================================================================
