----------------------------- MODULE Payments -----------------------------
(***************************************************************************)
(* The ways a signed payment gets from a person without internet to the    *)
(* network: a LoRa radio (RadioLink), a text message or a claim on a       *)
(* faucet (TextGateway), another phone (Handoff).  They are processes of   *)
(* their own that meet only in the network, so a behaviour follows one of  *)
(* them.                                                                   *)
(***************************************************************************)
EXTENDS RadioLink, TextGateway, Handoff

VARIABLE service

vars == <<radioVars, textVars, pageVars, settleVars, service>>

Init ==
  /\ RadioInit /\ TextInit /\ PageInit
  /\ taken = {} /\ early = {}
  /\ \/ service \in {"radio", "text"} /\ real \in BOOLEAN
     \/ service = "page" /\ real = TRUE

Radio == service = "radio" /\ RadioNext /\ UNCHANGED <<textVars, pageVars, service>>
Text == service = "text" /\ TextNext /\ UNCHANGED <<radioVars, pageVars, service>>
Page == service = "page" /\ PageNext /\ UNCHANGED <<radioVars, textVars, service>>

\* What ARC answered early is decided, on no clock of theirs.
Network == NetworkDecides /\ UNCHANGED <<radioVars, textVars, pageVars, service>>

Next == Radio \/ Text \/ Page \/ Network

\* The two event loops of a radio link run, ARC answers or the fetch fails,
\* and the timers fire.
Spec == Init /\ [][Next]_vars /\ WF_vars(Radio)

-----------------------------------------------------------------------------

\* What a person is shown about a payment is so: a gateway's receipt, by radio
\* (sender.mjs:21) or by text (sms/gateway.mjs:27), and the sent mark of the
\* page's list (handoff/src/app.mjs:383), however often the payment was sent,
\* repeated, settled twice at once or answered late.  "ACCEPTED" and the mark
\* say that a broadcaster took it (radio/README.md:40), which ARC may do before
\* the network decides.
ReceiptTellsTruth ==
  /\ snd.receipt # NoStatus => Truthful(snd.receipt, RadioTx)
  /\ payer.receipt # NoStatus => Truthful(payer.receipt, TextTx)
  /\ \A i \in DOMAIN outbox : outbox[i].sent => Accepted(outbox[i].tx)

\* What the page tells its reader of a gateway's receipt ("ACCEPTED means the
\* network took it", handoff/src/app.mjs:79).
AcceptedIsTaken ==
  /\ snd.receipt = "ACCEPTED" => RadioTx \in taken
  /\ payer.receipt = "ACCEPTED" => TextTx \in taken

\* The sender of a radio payment ends with a receipt of the gateway unless
\* each of its tries met a fault or was cut short: NACKs, repeats and the
\* gateway's own limit on asking never use up a try for nothing
\* (sender.mjs:28-39, gateway.mjs:46-79).
SenderHears == service = "radio" => <>AnsweredOrExcused
=============================================================================
