----------------------------- MODULE RadioLink -----------------------------
(***************************************************************************)
(* One payment over a radio link: sendPayment (radio/lib/sender.mjs) on    *)
(* one side, startGateway (radio/lib/gateway.mjs) on the other, frames     *)
(* that are lost or garbled between them (radio/lib/link.mjs), and the     *)
(* network behind the gateway (Settlement).                                *)
(*                                                                         *)
(* Every frame of the payment names it by its hash, so one payment is one  *)
(* entry of the gateway's maps.  A NACK and a receipt fit one frame at the *)
(* default MTU, so the sender's reassembler hands each on as it comes.     *)
(* Each timer may fire when it is due, which is what "patient" says below; *)
(* it may also fire early, up to MaxHasty times: frames take seconds in    *)
(* the air and ARC takes as long as it takes.                              *)
(***************************************************************************)
EXTENDS Settlement, Sequences

CONSTANTS
  RadioTx,    \* the payment
  Frames,     \* how many frames it takes
  Tries,      \* sendPayment's tries
  MaxNacks,   \* startGateway's maxNacks
  MaxFaults,  \* bound: frames lost or garbled
  MaxHasty    \* bound: timers that fire while an answer is under way

ASSUME RadioAssumption ==
  {Frames, Tries} \subseteq Nat \ {0} /\ {MaxNacks, MaxFaults, MaxHasty} \subseteq Nat

VARIABLES
  snd,     \* the sender: its step, the frames it has still to send, the try
           \* it is at, the frames a NACK asked for, the receipt it accepted
  uplink,  \* frames on the air to the gateway
  downlink,\* NACKs and receipts on the air to the sender
  gw,      \* the gateway: parts, nacks, settlements under way, done
  faults, hasty

radioVars == <<snd, uplink, downlink, gw, faults, hasty>>

AllFrames == [i \in 1 .. Frames |-> i]
NoResend == {}
InOrder(frames) == SelectSeq(AllFrames, LAMBDA i : i \in frames)

RadioInit ==
  /\ snd = [pc |-> "sending", queue |-> AllFrames, attempt |-> 1,
            resend |-> NoResend, receipt |-> NoStatus]
  /\ uplink = <<>> /\ downlink = <<>>
  /\ gw = [parts |-> NothingYet, nacks |-> 0, settling |-> 0,
           done |-> NoStatus, fresh |-> FALSE]
  /\ faults = 0 /\ hasty = 0

-----------------------------------------------------------------------------

\* One frame goes out: it arrives, or it is lost, or it arrives garbled.
OnAir(link, intact, garbled) ==
  \/ link' = Append(link, intact) /\ UNCHANGED faults
  \/ /\ faults < MaxFaults
     /\ faults' = faults + 1
     /\ link' \in {link} \cup {Append(link, g) : g \in garbled}

\* sendPayment: for (const i of toSend) await radio.send(frames[i]).
SendFrame ==
  /\ snd.pc = "sending" /\ snd.queue # <<>>
  /\ LET f == Pieces(Frames, "PAY")[Head(snd.queue)]
     IN  OnAir(uplink, f, {[f EXCEPT !.intact = FALSE]})
  /\ snd' = [snd EXCEPT !.queue = Tail(@)]
  /\ UNCHANGED <<downlink, gw, settleVars, hasty>>

\* The next burst: the loop's condition, attempt++, resend = null.
Burst(s, queue) ==
  IF s.attempt <= Tries
  THEN [s EXCEPT !.pc = "sending", !.queue = queue, !.resend = NoResend]
  ELSE [s EXCEPT !.pc = "done"]

\* Silence: the whole payment again, as another try.
AfterSilence(s) == Burst([s EXCEPT !.attempt = @ + 1], AllFrames)

\* What the sender does when it wakes: a receipt ends it, a NACK is answered
\* without using up a try.
Woken(s) ==
  CASE s.receipt # NoStatus -> [s EXCEPT !.pc = "done"]
    [] s.receipt = NoStatus /\ s.resend # NoResend -> Burst(s, InOrder(s.resend))
    [] OTHER -> AfterSilence(s)

Answered == snd.receipt # NoStatus \/ snd.resend # NoResend

\* The burst is over: with an answer in hand there is nothing to wait for.
EndBurst ==
  /\ snd.pc = "sending" /\ snd.queue = <<>>
  /\ snd' = IF Answered THEN Woken(snd) ELSE [snd EXCEPT !.pc = "waiting"]
  /\ UNCHANGED <<uplink, downlink, gw, settleVars, faults, hasty>>

\* wake?.(): the answer came while the sender waited.
Wake ==
  /\ snd.pc = "waiting" /\ Answered
  /\ snd' = Woken(snd)
  /\ UNCHANGED <<uplink, downlink, gw, settleVars, faults, hasty>>

\* Nothing is on its way to the sender and nothing will be.
Quiet == uplink = <<>> /\ downlink = <<>> /\ gw.settling = 0
NackDue == Quiet /\ snd.pc # "sending" /\ ~Answered /\ Begun(gw.parts)
SilenceDue == Quiet /\ ~NackDue

\* A timer that is due, or one that fires all the same.
Fires(due) ==
  \/ due /\ UNCHANGED hasty
  \/ ~due /\ hasty < MaxHasty /\ hasty' = hasty + 1

\* setTimeout(r, waitMs), which is longer than the gateway's nackAfterMs / 2.
Silence ==
  /\ snd.pc = "waiting" /\ ~Answered
  /\ Fires(SilenceDue)
  /\ snd' = AfterSilence(snd)
  /\ gw' = [gw EXCEPT !.fresh = FALSE]
  /\ UNCHANGED <<uplink, downlink, settleVars, faults>>

\* radio.onFrame of the sender: a NACK is for resending, a receipt of the
\* pinned gateway that names this payment ends the wait.
HearAnswer ==
  /\ downlink # <<>>
  /\ LET m == Head(downlink)
     IN  snd' = IF m.type = "NACK" THEN [snd EXCEPT !.resend = m.missing]
                ELSE [snd EXCEPT !.receipt = m.status]
  /\ downlink' = Tail(downlink)
  /\ UNCHANGED <<uplink, gw, settleVars, faults, hasty>>

-----------------------------------------------------------------------------

Nack(missing) == [type |-> "NACK", missing |-> missing, status |-> NoStatus]
Receipt(status) == [type |-> "RECEIPT", missing |-> {}, status |-> status]

\* Fault: a payment that is done is not heard again.
RepeatUnanswered == gw.done # NoStatus /\ UNCHANGED <<gw, downlink, faults>>

\* A repeat of a payment that is done: its receipt again, once per burst.
Repeat ==
  /\ gw.done # NoStatus
  /\ \/ gw.fresh /\ UNCHANGED <<gw, downlink, faults>>
     \/ gw' = [gw EXCEPT !.fresh = TRUE] /\ OnAir(downlink, Receipt(gw.done), {})

\* parts.add, and settle begins when the payment is whole.
Collect(p) ==
  /\ gw.done = NoStatus
  /\ gw' = [gw EXCEPT !.parts = Kept(@, p),
                      !.settling = @ + IF Result(gw.parts, p) = "whole" THEN 1 ELSE 0]
  /\ UNCHANGED <<downlink, faults>>

\* radio.onFrame of the gateway.
HearFrame ==
  /\ uplink # <<>>
  /\ Repeat \/ Collect(Head(uplink))
  /\ uplink' = Tail(uplink)
  /\ UNCHANGED <<snd, settleVars, hasty>>

\* settle: the broadcaster answers, done is set, the receipt goes out.
Settled ==
  /\ gw.settling > 0
  /\ \E s \in Settle(RadioTx) :
       /\ taken' = s.taken /\ early' = s.early
       /\ gw' = [gw EXCEPT !.settling = @ - 1, !.done = s.status, !.fresh = TRUE]
       /\ OnAir(downlink, Receipt(s.status), {})
  /\ UNCHANGED <<snd, uplink, hasty, real>>

\* The gateway's timer: a message gone quiet is asked for, and dropped when
\* it was asked for maxNacks times.
Ask ==
  /\ Begun(gw.parts)
  /\ Fires(NackDue)
  /\ IF gw.nacks < MaxNacks
     THEN /\ gw' = [gw EXCEPT !.nacks = @ + 1]
          /\ OnAir(downlink, Nack(Missing(gw.parts)), {})
     ELSE /\ gw' = [gw EXCEPT !.nacks = 0, !.parts = NothingYet]
          /\ UNCHANGED <<downlink, faults>>
  /\ UNCHANGED <<snd, uplink, settleVars>>

RadioNext ==
  \/ SendFrame \/ EndBurst \/ Wake \/ Silence \/ HearAnswer
  \/ HearFrame \/ Settled \/ Ask

-----------------------------------------------------------------------------

\* The sender holds a receipt of the gateway, or every one of its tries met
\* a fault or was cut short.
AnsweredOrExcused ==
  snd.pc = "done" /\ (snd.receipt # NoStatus \/ faults + hasty >= Tries)
=============================================================================
