---------------------------- MODULE TextGateway ----------------------------
(***************************************************************************)
(* The number people text: smsServer's /android webhook                    *)
(* (radio/sms/server.mjs) in front of the faucet's claims                  *)
(* (radio/faucet/claims.mjs) and the SMS gateway (radio/sms/gateway.mjs),  *)
(* combined as faucet/cli.mjs serve does.                                  *)
(*                                                                         *)
(* The phone that relays the texts is external: it signs and calls the     *)
(* webhook for every text it received and calls again after an answer that *)
(* is not 200.  Texts arrive in any order.  The process may be killed: the *)
(* gateway's maps are gone, claims.jsonl stays.                            *)
(***************************************************************************)
EXTENDS Settlement, Sequences, FiniteSetsExt

CONSTANTS
  TextTx,      \* the payment the payer texts
  Parts,       \* how many texts it takes
  Claims,      \* claims people text: who is counted, and the address
  FaucetCoins, \* the coins of the fan-out, in the order they are given out
  PerSender, PerAddress,
  MaxSends,    \* bound: texts of the payment, and texts of a claim
  MaxTrouble   \* bound: garbled texts, replies the phone could not send, kills

ASSUME TextAssumption ==
  /\ Parts \in Nat \ {0}
  /\ {PerSender, PerAddress, MaxSends, MaxTrouble} \subseteq Nat
  /\ FaucetCoins \subseteq Nat

VARIABLES
  inbox,    \* texts whose webhook call has not been answered with 200
  sms,      \* the SMS gateway: parts, the texts whose handler awaits a
            \* settlement, done
  payer,    \* what the payer knows: the receipt
  queue,    \* claims waiting for the one before them
  serving,  \* claims being paid: the coin taken and the claim
  ledger,   \* claims.jsonl: coin, claim, ok
  served,   \* every payment of a coin that was begun
  unsure,   \* those whose outcome the faucet never learned
  sent,     \* texts sent
  trouble

textVars == <<inbox, sms, payer, queue, serving, ledger, served, unsure, sent, trouble>>
claimVars == <<queue, serving, ledger, served, unsure>>

EmptySms == [parts |-> NothingYet, awaited |-> <<>>, done |-> NoStatus]

TextInit ==
  /\ inbox = {} /\ sms = EmptySms /\ payer = [receipt |-> NoStatus]
  /\ queue = <<>> /\ serving = {} /\ ledger = <<>>
  /\ served = {} /\ unsure = {}
  /\ sent = [payment |-> 0, claims |-> 0]
  /\ trouble = 0

Trouble == trouble < MaxTrouble /\ trouble' = trouble + 1

-----------------------------------------------------------------------------

\* The payer texts every part, one of them perhaps garbled, and texts them
\* again while there is no receipt.
TextPayment ==
  /\ payer.receipt = NoStatus
  /\ sent.payment < MaxSends
  /\ sent' = [sent EXCEPT !.payment = @ + 1]
  /\ \/ UNCHANGED trouble /\ inbox' = inbox \cup {Pieces(Parts, "PAY")[i] : i \in 1 .. Parts}
     \/ /\ Trouble
        /\ \E bad \in 1 .. Parts :
             inbox' = inbox \cup {[Pieces(Parts, "PAY")[i] EXCEPT !.intact = i # bad] : i \in 1 .. Parts}
  /\ UNCHANGED <<sms, payer, claimVars, settleVars>>

TextClaim ==
  /\ sent.claims < MaxSends
  /\ sent' = [sent EXCEPT !.claims = @ + 1]
  /\ \E c \in Claims : inbox' = inbox \cup {c}
  /\ UNCHANGED <<sms, payer, claimVars, settleVars, trouble>>

\* android.send(from, reply): the reply reaches the phone of whoever wrote,
\* or the call fails, the webhook answers 500, and the text is to be handled
\* again.
ReplyTo(text, remaining, hears, deaf) ==
  \/ inbox' = remaining /\ hears /\ UNCHANGED trouble
  \/ Trouble /\ inbox' = remaining \cup {text} /\ deaf

Hears(status) == payer' = [payer EXCEPT !.receipt = status]

\* smsGateway's handle, for a part of the payment.  The texts that came so
\* far may be a day old: then they are forgotten first.
HandlePart(text) ==
  /\ text \notin Claims
  /\ \E parts \in {sms.parts, NothingYet} :
       LET result == Result(parts, text)
           rest == inbox \ {text}
           kept == [sms EXCEPT !.parts = Kept(parts, text)]
       IN  CASE result = "incomplete" ->
                  sms' = kept /\ inbox' = rest /\ UNCHANGED <<payer, trouble>>
             [] result = "corrupt" ->
                  sms' = kept /\ ReplyTo(text, rest, UNCHANGED payer, UNCHANGED payer)
             [] result = "whole" /\ sms.done # NoStatus ->
                  sms' = kept /\ ReplyTo(text, rest, Hears(sms.done), UNCHANGED payer)
             [] OTHER ->
                  /\ sms' = [kept EXCEPT !.awaited = Append(@, text)]
                  /\ inbox' = rest
                  /\ UNCHANGED <<payer, trouble>>
  /\ UNCHANGED <<claimVars, sent, settleVars>>

\* settlePayment resolves: done is set and the receipt is texted back.
SettleText ==
  /\ \E i \in DOMAIN sms.awaited : \E s \in Settle(TextTx) :
       /\ taken' = s.taken /\ early' = s.early
       /\ sms' = [sms EXCEPT !.done = s.status,
                             !.awaited = SubSeq(@, 1, i - 1) \o SubSeq(@, i + 1, Len(@))]
       /\ ReplyTo(sms.awaited[i], inbox, Hears(s.status), UNCHANGED payer)
  /\ UNCHANGED <<claimVars, sent, real>>

-----------------------------------------------------------------------------

\* handle: claims are taken one at a time.
HandleClaim(text) ==
  /\ text \in Claims
  /\ queue' = Append(queue, text)
  /\ inbox' = inbox \ {text}
  /\ UNCHANGED <<sms, payer, serving, ledger, served, unsure, sent, trouble, settleVars>>

Good(line) == line.ok
CountOf(field, value) ==
  Cardinality({i \in DOMAIN ledger : Good(ledger[i]) /\ ledger[i].claim[field] = value})

Used == {ledger[i].coin : i \in DOMAIN ledger}
Left == FaucetCoins \ Used

Refused(c) ==
  \/ CountOf("who", c.who) >= PerSender
  \/ CountOf("to", c.to) >= PerAddress
  \/ Left = {}

\* Fault: claims are served side by side.
MayServeAnyTime == TRUE

\* queue.then: the claim before this one has been answered.
MayServe == serving = {}

\* claim: refused, or the lowest coin that is not used is signed over to the
\* claimant and the broadcast is awaited.
ServeClaim ==
  /\ queue # <<>> /\ MayServe
  /\ queue' = Tail(queue)
  /\ LET c == Head(queue)
     IN  IF Refused(c)
         THEN /\ ReplyTo(c, inbox, TRUE, TRUE)
              /\ UNCHANGED <<serving, served>>
         ELSE /\ serving' = serving \cup {[coin |-> Min(Left), claim |-> c]}
              /\ served' = served \cup {[coin |-> Min(Left), claim |-> c]}
              /\ UNCHANGED <<inbox, trouble>>
  /\ UNCHANGED <<sms, payer, ledger, unsure, sent, settleVars>>

Sweep(s) == Payment({s.coin}, s.claim.to, NoCoin, TRUE)

\* The payment is with ARC, or with the network, before the answer is back.
SweepReached(s) ==
  /\ real /\ Reached(Sweep(s))
  /\ UNCHANGED <<textVars, real>>

\* The broadcast is answered: record() appends to claims.jsonl, then the
\* reply.  A failed broadcast uses up the coin, not the claimant's turn.
BookClaim(s) ==
  /\ \E b \in Broadcast(Sweep(s)) :
       /\ taken' = b.taken /\ early' = b.early
       /\ ledger' = Append(ledger, [coin |-> s.coin, claim |-> s.claim, ok |-> b.ok])
       /\ unsure' = IF b.ok THEN unsure ELSE unsure \cup {s}
  /\ serving' = serving \ {s}
  /\ ReplyTo(s.claim, inbox, TRUE, TRUE)
  /\ UNCHANGED <<sms, payer, queue, served, sent, real>>

\* The process is killed and started again: claims.jsonl is read back, every
\* call that was being answered is made again.
Restart ==
  /\ Trouble
  /\ sms' = EmptySms /\ queue' = <<>> /\ serving' = {}
  /\ unsure' = unsure \cup serving
  /\ inbox' = inbox \cup {sms.awaited[i] : i \in DOMAIN sms.awaited}
                    \cup {queue[i] : i \in DOMAIN queue} \cup {s.claim : s \in serving}
  /\ UNCHANGED <<payer, ledger, served, sent, settleVars>>

TextNext ==
  \/ TextPayment \/ TextClaim \/ SettleText \/ ServeClaim \/ Restart
  \/ \E text \in inbox : HandlePart(text) \/ HandleClaim(text)
  \/ \E s \in serving : SweepReached(s) \/ BookClaim(s)

-----------------------------------------------------------------------------

\* Coins on the chain that were paid out for claims with this value.
PaidOut(field, value) ==
  {s.coin : s \in {x \in served : x.claim[field] = value /\ Sweep(x) \in taken}}
Unsure(field, value) == {s \in unsure : s.claim[field] = value}

\* No claimant and no address is paid more often than the limits say, but for
\* one coin more for each of theirs whose broadcast failed or was never booked
\* (what that allows a restart to do is in NobodyPaidAgain); no coin is given
\* out twice in claims.jsonl, and what is marked ok there the network took or
\* ARC took in, whenever the faucet is killed (claims.mjs:35-46).
FaucetPaysOnce ==
  /\ \A c \in Claims :
       /\ Cardinality(PaidOut("who", c.who)) <= PerSender + Cardinality(Unsure("who", c.who))
       /\ Cardinality(PaidOut("to", c.to)) <= PerAddress + Cardinality(Unsure("to", c.to))
  /\ \A i, j \in DOMAIN ledger : i # j => ledger[i].coin # ledger[j].coin
  /\ real => \A i \in DOMAIN ledger :
       ledger[i].ok => Accepted(Sweep(ledger[i]))

\* The same without that allowance for a kill: only a broadcast that failed, and
\* is in claims.jsonl as failed, lets a claimant have one coin more ("written to
\* claims.jsonl before the reply, so a restart never pays the same coin or the
\* same claimant twice", claims.mjs:7-8).
NobodyPaidAgain ==
  \A c \in Claims :
    LET failed == {i \in DOMAIN ledger : ~Good(ledger[i]) /\ ledger[i].claim.who = c.who}
    IN  Cardinality(PaidOut("who", c.who)) <= PerSender + Cardinality(failed)
=============================================================================
