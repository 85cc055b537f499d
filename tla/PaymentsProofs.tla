--------------------------- MODULE PaymentsProofs ---------------------------
(***************************************************************************)
(* Proofs about the ways a payment gets to the network, for every number   *)
(* of frames, texts, tries, claims, coins, keys and faults.  The network   *)
(* only takes, so what a receipt said once stays so.  A claim on a faucet  *)
(* is served alone, so the lines of claims.jsonl it was counted by are all *)
(* there are.  A coin that a payment of the page spent is off the page     *)
(* until the coins are read anew.                                          *)
(***************************************************************************)
EXTENDS Payments, FiniteSetTheorems, SequenceTheorems, TLAPS

-----------------------------------------------------------------------------
(* Lists, whatever they are lists of.                                      *)

List(s) == \E S : s \in Seq(S)

LEMMA ListIsIndexed ==
  ASSUME NEW s, List(s)
  PROVE  Len(s) \in Nat /\ DOMAIN s = 1 .. Len(s)
BY DEF List

LEMMA ListInSeq ==
  ASSUME NEW s, List(s), NEW S, \A i \in DOMAIN s : s[i] \in S
  PROVE  s \in Seq(S)
<1>1. PICK T : s \in Seq(T)
  BY DEF List
<1>2. s \in [1 .. Len(s) -> T] /\ Len(s) \in Nat /\ DOMAIN s = 1 .. Len(s)
  BY <1>1, LenProperties
<1>3. s = [i \in 1 .. Len(s) |-> s[i]]
  BY <1>2
<1>4. s \in [1 .. Len(s) -> S]
  BY <1>2, <1>3
<1> QED
  BY <1>2, <1>4, SeqDef

LEMMA ListAppend ==
  ASSUME NEW s, List(s), NEW e
  PROVE  /\ List(Append(s, e)) /\ Len(Append(s, e)) = Len(s) + 1
         /\ DOMAIN Append(s, e) = 1 .. Len(s) + 1
         /\ Append(s, e)[Len(s) + 1] = e
         /\ \A i \in DOMAIN s : Append(s, e)[i] = s[i]
<1>1. PICK S : s \in Seq(S)
  BY DEF List
<1>2. s \in Seq(S \cup {e})
  BY <1>1, SeqMonotonic
<1> DEFINE T == S \cup {e}
<1>3. e \in T /\ s \in Seq(T)
  BY <1>2
<1> HIDE DEF T
<1>4. /\ Append(s, e) \in Seq(T)
      /\ Len(Append(s, e)) = Len(s) + 1
      /\ \A i \in 1 .. Len(s) : Append(s, e)[i] = s[i]
      /\ Append(s, e)[Len(s) + 1] = e
  BY <1>3, AppendProperties
<1>5. DOMAIN Append(s, e) = 1 .. Len(s) + 1 /\ DOMAIN s = 1 .. Len(s)
  BY <1>3, <1>4, LenProperties
<1> QED
  BY <1>4, <1>5 DEF List

LEMMA ListTail ==
  ASSUME NEW s, List(s), s # <<>>
  PROVE  /\ List(Tail(s)) /\ 1 \in DOMAIN s /\ Head(s) = s[1]
         /\ \A i \in DOMAIN Tail(s) : i + 1 \in DOMAIN s /\ Tail(s)[i] = s[i + 1]
<1>1. PICK S : s \in Seq(S)
  BY DEF List
<1>2. Tail(s) \in Seq(S) /\ Len(s) \in Nat \ {0} /\ DOMAIN s = 1 .. Len(s)
  BY <1>1, HeadTailProperties, EmptySeq, LenProperties
<1>3. /\ Len(Tail(s)) = Len(s) - 1 /\ DOMAIN Tail(s) = 1 .. Len(Tail(s))
      /\ Head(s) = s[1] /\ \A i \in 1 .. Len(Tail(s)) : Tail(s)[i] = s[i + 1]
  BY <1>1, <1>2, HeadTailProperties, LenProperties
<1> QED
  BY <1>2, <1>3 DEF List

LEMMA ListOf ==
  ASSUME NEW n \in Nat, NEW f, f = [i \in 1 .. n |-> f[i]]
  PROVE  List(f) /\ Len(f) = n
<1> DEFINE S == {f[i] : i \in 1 .. n}
<1>1. f \in [1 .. n -> S]
  OBVIOUS
<1>2. f \in Seq(S)
  BY <1>1, SeqDef
<1>3. DOMAIN f = 1 .. n
  BY <1>1
<1> HIDE DEF S
<1>4. Len(f) \in Nat /\ DOMAIN f = 1 .. Len(f)
  BY <1>2, LenProperties
<1>5. Len(f) = n
  <2>1. Len(f) \in 1 .. Len(f) \/ Len(f) = 0
    BY <1>4
  <2>2. n \in 1 .. n \/ n = 0
    OBVIOUS
  <2>3. 1 .. n = 1 .. Len(f)
    BY <1>3, <1>4
  <2>4. (Len(f) = 0 \/ Len(f) <= n) /\ (n = 0 \/ n <= Len(f))
    BY <1>4, <2>1, <2>2, <2>3
  <2> QED
    BY <1>4, <2>4
<1> QED
  BY <1>2, <1>5 DEF List

-----------------------------------------------------------------------------
(* What a broadcaster took in it keeps, and the network only takes.        *)

USE DEF settleVars

\* The payments a broadcaster took in.
Got == taken \cup early

USE DEF Got

\* What a receipt with this status says of a payment, when a broadcaster took
\* in the payments in T.
Says(status, tx, T) ==
  /\ status = "ACCEPTED" => tx \in T
  /\ status = "REJECTED" => ~tx.signed
  /\ status = "BROADCAST_FAILED" => real /\ tx.signed
  /\ status = "VALID_NOT_SENT" => ~real /\ tx.signed

LEMMA OutcomeIsSo ==
  ASSUME NEW tx, NEW o \in Outcomes(tx)
  PROVE  /\ Got \subseteq o.taken \cup o.early /\ o.taken \cup o.early \subseteq Got \cup {tx}
         /\ Verdict(o.answer) => tx \in o.taken \cup o.early
<1>1. TxStatus(tx) \in GoodStatus => tx \in After(tx)
  BY DEF TxStatus, GoodStatus, EarlyStatus, After
<1>2. taken \subseteq After(tx) /\ After(tx) \subseteq taken \cup {tx}
  BY DEF After
<1>3. CASE o \in [taken : {After(tx)}, early : {early \ After(tx)},
                  answer : {TxStatus(tx), "NO_ANSWER"} \cup (IF tx \in taken THEN {"ALREADY_KNOWN"} ELSE {})]
  <2>1. Verdict(o.answer) => tx \in After(tx)
    BY <1>1, <1>2, <1>3 DEF Verdict, GoodStatus, EarlyStatus
  <2> QED
    BY <1>2, <1>3, <2>1
<1>4. CASE o \in [taken : {taken}, early : {early}, answer : {"NO_ANSWER"}]
  BY <1>4 DEF Verdict, GoodStatus, EarlyStatus
<1>5. CASE o \in [taken : {taken}, early : {early \cup {tx}}, answer : EarlyStatus \cup {"NO_ANSWER"}]
  BY <1>5
<1>6. \/ o \in [taken : {After(tx)}, early : {early \ After(tx)},
                answer : {TxStatus(tx), "NO_ANSWER"} \cup (IF tx \in taken THEN {"ALREADY_KNOWN"} ELSE {})]
      \/ o \in [taken : {taken}, early : {early}, answer : {"NO_ANSWER"}]
      \/ o \in [taken : {taken}, early : {early \cup {tx}}, answer : EarlyStatus \cup {"NO_ANSWER"}]
  BY DEF Outcomes
<1> QED
  BY <1>3, <1>4, <1>5, <1>6

LEMMA BroadcastIsSo ==
  ASSUME NEW tx, NEW b \in Broadcast(tx)
  PROVE  /\ (b.sent <=> real) /\ b.ok \in BOOLEAN
         /\ Got \subseteq b.taken \cup b.early
         /\ ~b.ok => real
         /\ b.ok /\ real => tx \in b.taken \cup b.early
<1>1. CASE real
  <2>1. PICK o \in Outcomes(tx) :
          b = [taken |-> o.taken, early |-> o.early, ok |-> Verdict(o.answer), sent |-> TRUE]
    BY <1>1 DEF Broadcast
  <2>2. Verdict(o.answer) \in BOOLEAN
    BY DEF Verdict
  <2> QED
    BY <1>1, <2>1, <2>2, OutcomeIsSo
<1>2. CASE ~real
  <2>1. b = [taken |-> taken, early |-> early, ok |-> TRUE, sent |-> FALSE]
    BY <1>2 DEF Broadcast
  <2> QED
    BY <1>2, <2>1
<1> QED
  BY <1>1, <1>2

LEMMA SettleIsSo ==
  ASSUME NEW tx, NEW s \in Settle(tx)
  PROVE  Got \subseteq s.taken \cup s.early /\ Says(s.status, tx, s.taken \cup s.early)
<1>1. CASE tx.signed
  <2>1. PICK b \in Broadcast(tx) : s = [taken |-> b.taken, early |-> b.early, status |-> Status(b)]
    BY <1>1 DEF Settle
  <2>2. /\ (b.sent <=> real) /\ Got \subseteq b.taken \cup b.early /\ (~b.ok => real)
        /\ b.ok /\ real => tx \in b.taken \cup b.early
    BY BroadcastIsSo
  <2>3. Says(Status(b), tx, b.taken \cup b.early)
    BY <1>1, <2>2 DEF Status, Says
  <2> QED
    BY <2>1, <2>2, <2>3
<1>2. CASE ~tx.signed
  BY <1>2 DEF Settle, Says
<1> QED
  BY <1>1, <1>2

\* What the network decides of the payments ARC has adds none and loses none.
LEMMA DecisionAddsNone ==
  ASSUME NetworkDecides
  PROVE  real' = real /\ Got' = Got
BY DEF NetworkDecides, After

\* What was said stays so.
LEMMA StaysSo ==
  ASSUME NEW status, NEW tx, NEW T, NEW U, T \subseteq U, Says(status, tx, T)
  PROVE  Says(status, tx, U)
BY DEF Says

-----------------------------------------------------------------------------
(* What every receipt says is so: by radio.                                *)

\* The fields of the processes' states; what is in them does not matter here.
RadioShape ==
  /\ snd = [pc |-> snd.pc, queue |-> snd.queue, attempt |-> snd.attempt, resend |-> snd.resend,
            receipt |-> snd.receipt]
  /\ gw = [parts |-> gw.parts, nacks |-> gw.nacks, settling |-> gw.settling, done |-> gw.done, fresh |-> gw.fresh]
  /\ List(downlink)

\* Every status the gateway keeps, sends or has told is so.
RadioTells ==
  /\ Says(gw.done, RadioTx, Got)
  /\ \A i \in DOMAIN downlink : Says(downlink[i].status, RadioTx, Got)
  /\ Says(snd.receipt, RadioTx, Got)

LEMMA NoStatusSaysNothing ==
  ASSUME NEW tx, NEW T
  PROVE  Says(NoStatus, tx, T)
BY DEF Says, NoStatus

\* An answer on the air is the one sent now or one that was there.
LEMMA DownlinkKeeps ==
  ASSUME List(downlink), NEW m, OnAir(downlink, m, {})
  PROVE  /\ List(downlink')
         /\ \A i \in DOMAIN downlink' :
              downlink'[i] = m \/ (i \in DOMAIN downlink /\ downlink'[i] = downlink[i])
<1>1. downlink' \in {downlink, Append(downlink, m)}
  BY DEF OnAir
<1> DEFINE longer == Append(downlink, m)
<1>2. Len(downlink) \in Nat /\ DOMAIN downlink = 1 .. Len(downlink)
  BY ListIsIndexed
<1>3. /\ List(longer) /\ DOMAIN longer = 1 .. Len(downlink) + 1
      /\ longer[Len(downlink) + 1] = m
      /\ \A i \in DOMAIN downlink : longer[i] = downlink[i]
  BY ListAppend
<1> HIDE DEF longer
<1>4. \A i \in DOMAIN longer : longer[i] = m \/ (i \in DOMAIN downlink /\ longer[i] = downlink[i])
  BY <1>2, <1>3
<1> QED
  BY <1>1, <1>3, <1>4 DEF longer

\* It is enough to look at what a step puts in place of the old.
LEMMA RadioStillTells ==
  ASSUME RadioTells, real' = real, Got \subseteq Got',
         Says(gw'.done, RadioTx, Got'), Says(snd'.receipt, RadioTx, Got'),
         \A i \in DOMAIN downlink' :
           Says(downlink'[i].status, RadioTx, Got')
           \/ \E j \in DOMAIN downlink : downlink'[i] = downlink[j]
  PROVE  RadioTells'
<1>1. \A j \in DOMAIN downlink : Says(downlink[j].status, RadioTx, Got')
  BY StaysSo DEF RadioTells
<1>2. \A i \in DOMAIN downlink' : Says(downlink'[i].status, RadioTx, Got')
  BY <1>1
<1>3. Says(gw.done, RadioTx, Got)' /\ Says(snd.receipt, RadioTx, Got)'
  BY DEF Says
<1>4. (\A i \in DOMAIN downlink : Says(downlink[i].status, RadioTx, Got))'
  BY <1>2 DEF Says
<1> QED
  BY <1>3, <1>4 DEF RadioTells

LEMMA WokenShape ==
  ASSUME NEW s, s = [pc |-> s.pc, queue |-> s.queue, attempt |-> s.attempt, resend |-> s.resend,
                     receipt |-> s.receipt],
         NEW t \in {Woken(s), AfterSilence(s), [s EXCEPT !.pc = "waiting"]}
  PROVE  /\ t = [pc |-> t.pc, queue |-> t.queue, attempt |-> t.attempt, resend |-> t.resend,
                 receipt |-> t.receipt]
         /\ t.receipt = s.receipt
BY DEF Woken, AfterSilence, Burst

LEMMA RadioStepTells ==
  ASSUME RadioShape, RadioTells, RadioNext
  PROVE  RadioShape' /\ RadioTells' /\ real' = real /\ Got \subseteq Got'
<1>1. CASE SendFrame
  <2>1. /\ snd' = [snd EXCEPT !.queue = Tail(snd.queue)]
        /\ UNCHANGED <<downlink, gw, settleVars>>
    BY <1>1 DEF SendFrame
  <2>2. snd'.receipt = snd.receipt /\ RadioShape'
    BY <2>1 DEF RadioShape, List
  <2> QED
    BY <2>1, <2>2 DEF RadioTells, Says
<1>2. CASE EndBurst \/ Wake
  <2>1. /\ snd' \in {Woken(snd), [snd EXCEPT !.pc = "waiting"]}
        /\ UNCHANGED <<downlink, gw, settleVars>>
    BY <1>2 DEF EndBurst, Wake
  <2>2. snd'.receipt = snd.receipt /\ RadioShape'
    BY <2>1, WokenShape DEF RadioShape, List
  <2> QED
    BY <2>1, <2>2 DEF RadioTells, Says
<1>3. CASE Silence
  <2>1. /\ snd' = AfterSilence(snd) /\ gw' = [gw EXCEPT !.fresh = FALSE]
        /\ UNCHANGED <<downlink, settleVars>>
    BY <1>3 DEF Silence
  <2>2. snd'.receipt = snd.receipt /\ gw'.done = gw.done /\ RadioShape'
    BY <2>1, WokenShape DEF RadioShape, List
  <2> QED
    BY <2>1, <2>2 DEF RadioTells, Says
<1>4. CASE HearAnswer
  <2> DEFINE m == Head(downlink)
  <2>1. /\ downlink # <<>> /\ downlink' = Tail(downlink)
        /\ snd' \in {[snd EXCEPT !.resend = m.missing], [snd EXCEPT !.receipt = m.status]}
        /\ UNCHANGED <<gw, settleVars>>
    BY <1>4 DEF HearAnswer
  <2>2. /\ List(downlink') /\ 1 \in DOMAIN downlink /\ m = downlink[1]
        /\ \A i \in DOMAIN downlink' : \E j \in DOMAIN downlink : downlink'[i] = downlink[j]
    BY <2>1, ListTail DEF RadioShape
  <2>3. Says(m.status, RadioTx, Got)
    BY <2>2 DEF RadioTells
  <2> HIDE DEF m
  <2>4. snd'.receipt \in {snd.receipt, m.status}
    BY <2>1 DEF RadioShape
  <2>5. snd' = [pc |-> snd'.pc, queue |-> snd'.queue, attempt |-> snd'.attempt, resend |-> snd'.resend,
            receipt |-> snd'.receipt]
    BY <2>1 DEF RadioShape
  <2>6. RadioShape'
    BY <2>1, <2>2, <2>5 DEF RadioShape
  <2>7. Says(snd'.receipt, RadioTx, Got') /\ Says(gw'.done, RadioTx, Got')
    BY <2>1, <2>3, <2>4 DEF RadioTells
  <2> QED
    BY <2>1, <2>2, <2>6, <2>7, RadioStillTells
<1>5. CASE HearFrame
  <2>1. /\ snd' = snd /\ Got' = Got /\ real' = real
        /\ Repeat \/ Collect(Head(uplink))
    BY <1>5 DEF HearFrame
  <2>2. CASE downlink' = downlink
    <3>1. gw'.done = gw.done
      BY <2>1, <2>2 DEF Repeat, Collect, RadioShape
    <3>2. gw' = [parts |-> gw'.parts, nacks |-> gw'.nacks, settling |-> gw'.settling,
                 done |-> gw'.done, fresh |-> gw'.fresh]
      BY <2>1, <2>2 DEF Repeat, Collect, RadioShape
    <3> QED
      BY <2>1, <2>2, <3>1, <3>2 DEF RadioShape, RadioTells, Says, List
  <2>3. CASE downlink' # downlink
    <3>1. gw' = [gw EXCEPT !.fresh = TRUE] /\ OnAir(downlink, Receipt(gw.done), {})
      BY <2>1, <2>3 DEF Repeat, Collect
    <3>2. Receipt(gw.done).status = gw.done /\ gw'.done = gw.done
      BY <3>1 DEF Receipt, RadioShape
    <3>3. RadioShape'
      BY <2>1, <3>1, DownlinkKeeps DEF RadioShape
    <3>4. \A i \in DOMAIN downlink' :
             Says(downlink'[i].status, RadioTx, Got')
             \/ \E j \in DOMAIN downlink : downlink'[i] = downlink[j]
      BY <2>1, <3>1, <3>2, DownlinkKeeps DEF RadioShape, RadioTells
    <3> QED
      BY <2>1, <3>2, <3>3, <3>4, RadioStillTells DEF RadioTells
  <2> QED
    BY <2>2, <2>3
<1>6. CASE Settled
  <2>1. PICK s \in Settle(RadioTx) :
          /\ taken' = s.taken /\ early' = s.early
          /\ gw' = [gw EXCEPT !.settling = gw.settling - 1, !.done = s.status, !.fresh = TRUE]
          /\ OnAir(downlink, Receipt(s.status), {})
    BY <1>6 DEF Settled
  <2>2. snd' = snd /\ real' = real
    BY <1>6 DEF Settled
  <2>3. Got \subseteq Got' /\ Says(s.status, RadioTx, Got')
    BY <2>1, SettleIsSo
  <2>4. Receipt(s.status).status = s.status /\ gw'.done = s.status
    BY <2>1 DEF Receipt, RadioShape
  <2>5. RadioShape'
    BY <2>1, <2>2, DownlinkKeeps DEF RadioShape
  <2>6. \A i \in DOMAIN downlink' :
           Says(downlink'[i].status, RadioTx, Got')
           \/ \E j \in DOMAIN downlink : downlink'[i] = downlink[j]
    BY <2>1, <2>3, <2>4, DownlinkKeeps DEF RadioShape
  <2>7. Says(snd'.receipt, RadioTx, Got')
    BY <2>2, <2>3, StaysSo DEF RadioTells
  <2> QED
    BY <2>2, <2>3, <2>4, <2>5, <2>6, <2>7, RadioStillTells
<1>7. CASE Ask
  <2> DEFINE m == Nack(Missing(gw.parts))
  <2>1. /\ snd' = snd /\ Got' = Got /\ real' = real
        /\ \/ gw' = [gw EXCEPT !.nacks = gw.nacks + 1] /\ OnAir(downlink, m, {})
           \/ gw' = [gw EXCEPT !.nacks = 0, !.parts = NothingYet] /\ downlink' = downlink
    BY <1>7 DEF Ask
  <2>2. m.status = NoStatus
    BY DEF Nack
  <2> HIDE DEF m
  <2>3. gw'.done = gw.done
    BY <2>1 DEF RadioShape
  <2>4. gw' = [parts |-> gw'.parts, nacks |-> gw'.nacks, settling |-> gw'.settling,
               done |-> gw'.done, fresh |-> gw'.fresh]
    BY <2>1 DEF RadioShape
  <2>5. /\ List(downlink')
        /\ \A i \in DOMAIN downlink' :
             downlink'[i] = m \/ (i \in DOMAIN downlink /\ downlink'[i] = downlink[i])
    BY <2>1, DownlinkKeeps DEF RadioShape
  <2>6. RadioShape'
    BY <2>1, <2>4, <2>5 DEF RadioShape
  <2>7. \A i \in DOMAIN downlink' :
           Says(downlink'[i].status, RadioTx, Got')
           \/ \E j \in DOMAIN downlink : downlink'[i] = downlink[j]
    BY <2>2, <2>5, NoStatusSaysNothing
  <2> QED
    BY <2>1, <2>3, <2>6, <2>7, RadioStillTells DEF RadioTells
<1> QED
  BY <1>1, <1>2, <1>3, <1>4, <1>5, <1>6, <1>7 DEF RadioNext

-----------------------------------------------------------------------------
(* By text.                                                                *)

TextShape ==
  /\ sms = [parts |-> sms.parts, awaited |-> sms.awaited, done |-> sms.done]
  /\ payer = [receipt |-> payer.receipt]

TextTells == Says(sms.done, TextTx, Got) /\ Says(payer.receipt, TextTx, Got)

LEMMA TextStillTells ==
  ASSUME real' = real, Says(sms'.done, TextTx, Got'), Says(payer'.receipt, TextTx, Got')
  PROVE  TextTells'
BY DEF TextTells, Says

LEMMA TextStepTells ==
  ASSUME TextShape, TextTells, TextNext
  PROVE  TextShape' /\ TextTells' /\ real' = real /\ Got \subseteq Got'
<1>1. CASE UNCHANGED <<sms, payer, settleVars>>
  BY <1>1 DEF TextShape, TextTells, Says
<1>2. ASSUME NEW text \in inbox, HandlePart(text)
      PROVE  TextShape' /\ TextTells' /\ real' = real /\ Got \subseteq Got'
  <2>1. Got' = Got /\ real' = real
    BY <1>2 DEF HandlePart
  <2>2. PICK parts \in {sms.parts, NothingYet} :
          LET result == Result(parts, text)
              rest == inbox \ {text}
              kept == [sms EXCEPT !.parts = Kept(parts, text)]
          IN  CASE result = "incomplete" ->
                     sms' = kept /\ inbox' = rest /\ UNCHANGED <<payer, trouble>>
                [] result = "corrupt" ->
                     sms' = kept /\ ReplyTo(text, rest, UNCHANGED payer, UNCHANGED payer)
                [] result = "whole" /\ sms.done # NoStatus ->
                     sms' = kept /\ ReplyTo(text, rest, Hears(sms.done), UNCHANGED payer)
                [] OTHER ->
                     /\ sms' = [kept EXCEPT !.awaited = Append(@, text)]
                     /\ inbox' = rest
                     /\ UNCHANGED <<payer, trouble>>
    BY <1>2 DEF HandlePart
  <2> DEFINE kept == [sms EXCEPT !.parts = Kept(parts, text)]
  <2>3. /\ sms' \in {kept, [kept EXCEPT !.awaited = Append(kept.awaited, text)]}
        /\ payer' = payer \/ Hears(sms.done)
    BY <2>2, Zenon DEF ReplyTo
  <2>4. sms'.done = sms.done
    BY <2>3 DEF TextShape
  <2>5. sms' = [parts |-> sms'.parts, awaited |-> sms'.awaited, done |-> sms'.done]
    BY <2>3 DEF TextShape
  <2>6. payer' = [receipt |-> payer'.receipt] /\ payer'.receipt \in {payer.receipt, sms.done}
    BY <2>3 DEF TextShape, Hears
  <2> QED
    BY <2>1, <2>4, <2>5, <2>6, TextStillTells DEF TextShape, TextTells
<1>3. CASE SettleText
  <2>1. PICK i \in DOMAIN sms.awaited, s \in Settle(TextTx) :
          /\ taken' = s.taken /\ early' = s.early
          /\ sms' = [sms EXCEPT !.done = s.status,
                                !.awaited = SubSeq(sms.awaited, 1, i - 1)
                                            \o SubSeq(sms.awaited, i + 1, Len(sms.awaited))]
          /\ ReplyTo(sms.awaited[i], inbox, Hears(s.status), UNCHANGED payer)
    BY <1>3 DEF SettleText
  <2>2. real' = real
    BY <1>3 DEF SettleText
  <2>3. Got \subseteq Got' /\ Says(s.status, TextTx, Got')
    BY <2>1, SettleIsSo
  <2>4. sms'.done = s.status /\ sms' = [parts |-> sms'.parts, awaited |-> sms'.awaited, done |-> sms'.done]
    BY <2>1 DEF TextShape
  <2>5. payer' = [receipt |-> payer'.receipt] /\ payer'.receipt \in {payer.receipt, s.status}
    BY <2>1 DEF TextShape, ReplyTo, Hears
  <2>6. Says(payer'.receipt, TextTx, Got')
    BY <2>3, <2>5, StaysSo DEF TextTells
  <2> QED
    BY <2>2, <2>3, <2>4, <2>5, <2>6, TextStillTells DEF TextShape
<1>4. CASE Restart
  <2>1. sms' = EmptySms /\ UNCHANGED <<payer, settleVars>>
    BY <1>4 DEF Restart
  <2>2. Says(sms'.done, TextTx, Got') /\ Says(payer'.receipt, TextTx, Got')
    BY <2>1, NoStatusSaysNothing DEF EmptySms, TextTells
  <2> QED
    BY <2>1, <2>2, TextStillTells DEF TextShape, EmptySms
<1>5. ASSUME NEW s \in serving, SweepReached(s) \/ BookClaim(s)
      PROVE  TextShape' /\ TextTells' /\ real' = real /\ Got \subseteq Got'
  <2>1. UNCHANGED <<sms, payer, real>>
    BY <1>5 DEF SweepReached, BookClaim, textVars
  <2>2. Got \subseteq Got'
    <3>1. CASE SweepReached(s)
      BY <3>1, OutcomeIsSo DEF SweepReached, Reached
    <3>2. CASE BookClaim(s)
      <4>1. PICK b \in Broadcast(Sweep(s)) : taken' = b.taken /\ early' = b.early
        BY <3>2 DEF BookClaim
      <4> QED
        BY <4>1, BroadcastIsSo
    <3> QED
      BY <1>5, <3>1, <3>2
  <2>3. Says(sms'.done, TextTx, Got') /\ Says(payer'.receipt, TextTx, Got')
    BY <2>1, <2>2, StaysSo DEF TextTells
  <2> QED
    BY <2>1, <2>2, <2>3, TextStillTells DEF TextShape
<1>6. TextPayment \/ TextClaim \/ ServeClaim => UNCHANGED <<sms, payer, settleVars>>
  BY DEF TextPayment, TextClaim, ServeClaim
<1>7. \A text : HandleClaim(text) => UNCHANGED <<sms, payer, settleVars>>
  BY DEF HandleClaim
<1> QED
  BY <1>1, <1>2, <1>3, <1>4, <1>5, <1>6, <1>7 DEF TextNext

-----------------------------------------------------------------------------
(* The payee's list, and the page's marks on it.                           *)

\* A set of numbers has a least one.
LEMMA LeastIsThere ==
  ASSUME NEW S, S \subseteq Nat, S # {}
  PROVE  \E m \in S : \A x \in S : m <= x
<1>1. PICK a \in S : TRUE
  OBVIOUS
<1> DEFINE below(m) == {x \in S : x <= m}
           T == {below(m) : m \in below(a)}
<1>2. IsFiniteSet(below(a))
  <2>1. a \in Int /\ IsFiniteSet(0 .. a)
    BY FS_Interval
  <2>2. ASSUME NEW x \in below(a) PROVE x \in 0 .. a
    <3>1. x \in Nat /\ x <= a
      OBVIOUS
    <3> QED
      BY <2>1, <3>1
  <2> HIDE DEF below
  <2>3. below(a) \in SUBSET (0 .. a)
    BY <2>2
  <2> QED
    BY <2>1, <2>3, FS_Subset
<1>3. T \subseteq SUBSET below(a) /\ T # {}
  <2>1. a \in below(a)
    <3>1. a \in Nat /\ a <= a
      OBVIOUS
    <3> QED
      BY <3>1
  <2>2. ASSUME NEW m \in below(a) PROVE below(m) \subseteq below(a)
    <3>1. m \in Nat /\ m <= a /\ a \in Nat /\ S \subseteq Nat
      OBVIOUS
    <3>2. \A x \in S : x <= m => x <= a
      BY <3>1
    <3> QED
      BY <3>2
  <2> HIDE DEF below
  <2> QED
    BY <2>1, <2>2
<1>4. IsWellFoundedOn(StrictSubsetOrdering(below(a)), SUBSET below(a))
  BY <1>2, FS_FiniteSubsetsOfFinite, FS_StrictSubsetOrderingWellFounded
<1> HIDE DEF T
<1>5. PICK U \in T : \A V \in T : ~(<<V, U>> \in StrictSubsetOrdering(below(a)))
  BY <1>3, <1>4, WFMin
<1>6. PICK m \in below(a) : U = below(m)
  BY <1>5 DEF T
<1>7. ASSUME NEW y \in S, y < m PROVE FALSE
  <2>0. m \in S /\ m <= a /\ y \in Nat /\ m \in Nat /\ a \in Nat /\ y <= a
    BY <1>7
  <2>1. y \in below(a) /\ below(y) \in T
    BY <2>0 DEF T
  <2>2. below(y) \subseteq below(m) /\ m \in below(m) /\ m \notin below(y)
    <3>1. \A x \in S : x <= y => x <= m
      BY <1>7, <2>0
    <3>2. m <= m /\ ~(m <= y)
      BY <1>7, <2>0
    <3> QED
      BY <2>0, <3>1, <3>2
  <2>3. <<below(y), U>> \in StrictSubsetOrdering(below(a))
    BY <1>3, <1>6, <2>1, <2>2 DEF StrictSubsetOrdering
  <2> QED
    BY <1>5, <2>1, <2>3
<1>8. \A x \in S : m <= x
  <2>1. m \in Nat
    OBVIOUS
  <2> QED
    BY <1>7, <2>1
<1> QED
  BY <1>8

\* The k-th of the entries that are kept is there.
LEMMA PlaceIsThere ==
  ASSUME NEW n \in Nat, NEW kept \in SUBSET (1 .. n), NEW k \in 1 .. Cardinality(kept)
  PROVE  \E i \in kept : Cardinality({j \in kept : j <= i}) = k
<1> DEFINE upto(i) == {j \in kept : j <= i}
           far == {i \in 0 .. n : Cardinality(upto(i)) >= k}
<1>1. IsFiniteSet(kept) /\ Cardinality(kept) \in Nat /\ k \in Nat /\ k >= 1
  <2>1. IsFiniteSet(1 .. n)
    BY FS_Interval
  <2>2. IsFiniteSet(kept) /\ Cardinality(kept) \in Nat
    BY <2>1, FS_Subset, FS_CardinalityType
  <2> QED
    BY <2>2
<1>2. \A i : IsFiniteSet(upto(i)) /\ Cardinality(upto(i)) \in Nat
  BY <1>1, FS_Subset, FS_CardinalityType
<1>3. upto(n) = kept /\ upto(0) = {}
  <2>1. \A j \in kept : j \in Nat /\ 1 <= j /\ j <= n
    OBVIOUS
  <2>2. \A j \in kept : j <= n /\ ~(j <= 0)
    BY <2>1
  <2> QED
    BY <2>2
<1>4. n \in far /\ far \subseteq Nat /\ 0 \notin far
  BY <1>1, <1>3, FS_EmptySet
<1> HIDE DEF far
<1>5. PICK m \in far : \A i \in far : m <= i
  BY <1>4, LeastIsThere
<1>6. m \in 1 .. n /\ m - 1 \in 0 .. n /\ m \in Nat
  BY <1>4, <1>5 DEF far
<1>7. m - 1 \notin far
  BY <1>5, <1>6
<1>8. Cardinality(upto(m)) >= k /\ ~(Cardinality(upto(m - 1)) >= k)
  BY <1>5, <1>6, <1>7 DEF far
<1>9. CASE m \in kept
  <2>1. upto(m) = upto(m - 1) \cup {m} /\ m \notin upto(m - 1)
    <3>1. \A j \in kept : j <= m <=> j <= m - 1 \/ j = m
      BY <1>6
    <3>2. ~(m <= m - 1)
      BY <1>6
    <3> QED
      BY <1>9, <3>1, <3>2
  <2> HIDE DEF upto
  <2>2. Cardinality(upto(m)) = Cardinality(upto(m - 1)) + 1
    BY <1>2, <2>1, FS_AddElement
  <2>3. Cardinality(upto(m)) = k
    BY <1>1, <1>2, <1>8, <2>2
  <2> QED
    BY <1>9, <2>3 DEF upto
<1>10. CASE m \notin kept
  <2>1. upto(m) = upto(m - 1)
    <3>1. \A j \in kept : j <= m <=> j <= m - 1 \/ j = m
      BY <1>6
    <3> QED
      BY <1>10, <3>1
  <2> QED
    BY <1>8, <2>1
<1> QED
  BY <1>9, <1>10

LEMMA OthersAreListed ==
  ASSUME List(outbox), NEW tx
  PROVE  /\ List(Others(tx))
         /\ \A k \in DOMAIN Others(tx) : \E i \in DOMAIN outbox : Others(tx)[k] = outbox[i]
<1> DEFINE kept == {i \in DOMAIN outbox : outbox[i].tx # tx}
           place(k) == CHOOSE i \in kept : Cardinality({j \in kept : j <= i}) = k
<1>1. Len(outbox) \in Nat /\ DOMAIN outbox = 1 .. Len(outbox)
  BY ListIsIndexed
<1>2. kept \subseteq 1 .. Len(outbox)
  BY <1>1
<1>3. Others(tx) = [k \in 1 .. Cardinality(kept) |-> outbox[place(k)]]
  BY DEF Others
<1>4. kept \subseteq DOMAIN outbox
  OBVIOUS
<1> HIDE DEF kept
<1>5. Cardinality(kept) \in Nat
  <2>1. IsFiniteSet(1 .. Len(outbox))
    BY <1>1, FS_Interval
  <2> QED
    BY <1>2, <2>1, FS_Subset, FS_CardinalityType
<1>6. ASSUME NEW k \in 1 .. Cardinality(kept)
      PROVE  place(k) \in kept
  <2>1. \E i \in kept : Cardinality({j \in kept : j <= i}) = k
    BY <1>1, <1>2, PlaceIsThere, ZenonT(60)
  <2> QED
    BY <2>1
<1> HIDE DEF place
<1>7. List(Others(tx))
  BY <1>3, <1>5, ListOf
<1>8. ASSUME NEW k \in DOMAIN Others(tx)
      PROVE  \E i \in DOMAIN outbox : Others(tx)[k] = outbox[i]
  BY <1>3, <1>4, <1>6
<1> QED
  BY <1>7, <1>8

LEMMA AddedIsListed ==
  ASSUME List(outbox), NEW tx, AddToOutbox(tx)
  PROVE  /\ List(outbox')
         /\ \A k \in DOMAIN outbox' :
              outbox'[k] = Entry(tx, MarkedSent(tx)) \/ \E i \in DOMAIN outbox : outbox'[k] = outbox[i]
<1> DEFINE e == Entry(tx, MarkedSent(tx))
           rest == Others(tx)
           list == <<e>> \o rest
           n == IF Len(list) < MaxOutbox THEN Len(list) ELSE MaxOutbox
<1>1. outbox' = SubSeq(list, 1, n)
  BY DEF AddToOutbox, Newest
<1>2. List(rest) /\ \A k \in DOMAIN rest : \E i \in DOMAIN outbox : rest[k] = outbox[i]
  BY OthersAreListed
<1> HIDE DEF rest, e
<1>3. PICK S : rest \in Seq(S)
  BY <1>2 DEF List
<1> DEFINE T == S \cup {e}
<1>4. <<e>> \in Seq(T) /\ rest \in Seq(T) /\ Len(<<e>>) = 1 /\ <<e>>[1] = e
  BY <1>3, SeqMonotonic
<1> HIDE DEF T
<1>5. /\ list \in Seq(T) /\ Len(list) = 1 + Len(rest)
      /\ \A i \in 1 .. 1 + Len(rest) :
           list[i] = IF i <= 1 THEN <<e>>[i] ELSE rest[i - 1]
  BY <1>4, ConcatProperties
<1>6. Len(rest) \in Nat /\ DOMAIN rest = 1 .. Len(rest)
  BY <1>4, LenProperties
<1> HIDE DEF list
<1>7. n \in Nat /\ n <= Len(list)
  BY <1>5, <1>6, HandoffAssumption
<1> HIDE DEF n
<1>8. \A i \in 1 .. n : list[i] \in T
  BY <1>5, <1>6, <1>7, ElementOfSeq
<1>9. /\ outbox' \in Seq(T) /\ Len(outbox') = n
      /\ \A i \in 1 .. n : outbox'[i] = list[i]
  <2>1. /\ SubSeq(list, 1, n) \in Seq(T)
        /\ Len(SubSeq(list, 1, n)) = IF 1 <= n THEN n - 1 + 1 ELSE 0
        /\ \A i \in 1 .. n - 1 + 1 : SubSeq(list, 1, n)[i] = list[1 + i - 1]
    BY <1>7, <1>8, SubSeqProperties
  <2>2. \A i \in 1 .. n : i \in 1 .. n - 1 + 1 /\ 1 + i - 1 = i
    BY <1>7
  <2> QED
    BY <1>1, <1>7, <2>1, <2>2
<1>10. DOMAIN outbox' = 1 .. n
  BY <1>9, LenProperties
<1>11. ASSUME NEW k \in DOMAIN outbox'
       PROVE  outbox'[k] = e \/ \E i \in DOMAIN outbox : outbox'[k] = outbox[i]
  <2>1. k \in 1 .. 1 + Len(rest) /\ outbox'[k] = list[k]
    BY <1>5, <1>6, <1>7, <1>9, <1>10
  <2>2. CASE k <= 1
    BY <1>4, <1>5, <1>6, <2>1, <2>2
  <2>3. CASE ~(k <= 1)
    <3>1. k - 1 \in DOMAIN rest /\ outbox'[k] = rest[k - 1]
      BY <1>5, <1>6, <2>1, <2>3
    <3> QED
      BY <1>2, <3>1
  <2> QED
    BY <2>2, <2>3
<1> QED
  BY <1>9, <1>11 DEF List, e

\* The sent marks on the list are so.
PageTells == List(outbox) /\ \A i \in DOMAIN outbox : outbox[i].sent => outbox[i].tx \in Got

LEMMA PageStepTells ==
  ASSUME PageTells, PageNext
  PROVE  PageTells' /\ real' = real /\ Got \subseteq Got'
<1>1. CASE UNCHANGED <<outbox, settleVars>>
  BY <1>1 DEF PageTells, List
<1>2. ASSUME NEW tx, AddToOutbox(tx), UNCHANGED <<settleVars>>
      PROVE  PageTells' /\ real' = real /\ Got \subseteq Got'
  <2>1. Entry(tx, MarkedSent(tx)).sent => tx \in Got
    BY DEF Entry, MarkedSent, PageTells
  <2>2. Entry(tx, MarkedSent(tx)).tx = tx
    BY DEF Entry
  <2> QED
    BY <1>2, <2>1, <2>2, AddedIsListed DEF PageTells
<1>3. ASSUME NEW tx, RemoveEntry(tx)
      PROVE  PageTells' /\ real' = real /\ Got \subseteq Got'
  <2>1. outbox' = Others(tx) /\ UNCHANGED <<settleVars>>
    BY <1>3 DEF RemoveEntry
  <2> QED
    BY <2>1, OthersAreListed DEF PageTells
<1>4. ASSUME NEW tx, EntryAnswered(tx)
      PROVE  PageTells' /\ real' = real /\ Got \subseteq Got'
  <2>1. PICK o \in Outcomes(tx) :
          /\ taken' = o.taken /\ early' = o.early
          /\ outbox' = [i \in DOMAIN outbox |->
               IF outbox[i].tx = tx /\ Verdict(o.answer) THEN Entry(tx, TRUE) ELSE outbox[i]]
    BY <1>4 DEF EntryAnswered
  <2>2. Got \subseteq Got' /\ (Verdict(o.answer) => tx \in Got')
    BY <2>1, OutcomeIsSo
  <2>3. Len(outbox) \in Nat /\ DOMAIN outbox = 1 .. Len(outbox)
    BY ListIsIndexed DEF PageTells
  <2>4. outbox' = [i \in 1 .. Len(outbox) |-> outbox'[i]]
    BY <2>1, <2>3
  <2>5. List(outbox')
    BY <2>3, <2>4, ListOf
  <2>6. ASSUME NEW i \in DOMAIN outbox', outbox'[i].sent PROVE outbox'[i].tx \in Got'
    <3>1. i \in DOMAIN outbox
      BY <2>1
    <3>2. CASE outbox[i].tx = tx /\ Verdict(o.answer)
      BY <2>1, <2>2, <3>1, <3>2 DEF Entry
    <3>3. CASE ~(outbox[i].tx = tx /\ Verdict(o.answer))
      <4>1. outbox'[i] = outbox[i]
        BY <2>1, <3>1, <3>3
      <4> QED
        BY <2>2, <2>6, <3>1, <4>1 DEF PageTells
    <3> QED
      BY <3>2, <3>3
  <2>7. real' = real
    BY <1>4 DEF EntryAnswered
  <2> QED
    BY <2>2, <2>5, <2>6, <2>7 DEF PageTells
<1>5. CASE BroadcastPay
  <2>1. PICK o \in Outcomes(current.tx) : taken' = o.taken /\ early' = o.early
    BY <1>5 DEF BroadcastPay, Reached
  <2>2. Got \subseteq Got'
    BY <2>1, OutcomeIsSo
  <2>3. UNCHANGED <<outbox, real>>
    BY <1>5 DEF BroadcastPay, pageVars
  <2> QED
    BY <2>2, <2>3 DEF PageTells
<1>6. CASE Receive \/ ForwardAnyway \/ SweepBearer
  <2>1. /\ UNCHANGED <<settleVars>>
        /\ outbox' = outbox \/ \E tx : AddToOutbox(tx)
    BY <1>6 DEF Receive, ForwardAnyway, SweepBearer
  <2> QED
    BY <1>1, <1>2, <2>1
<1>7. ASSUME \/ \E w \in Wallets : OpenWallet(w)
             \/ Lock \/ Reload \/ AskCoins \/ PasteFunding \/ Sign \/ Demo
             \/ \E answer \in asking : CoinsAnswered(answer)
             \/ \E tx : BroadcastEntry(tx)
      PROVE  UNCHANGED <<outbox, settleVars>>
  BY <1>7 DEF OpenWallet, Lock, Reload, AskCoins, PasteFunding, Sign, Demo, CoinsAnswered,
              BroadcastEntry, payeeVars, payerVars
<1> QED
  BY <1>1, <1>3, <1>4, <1>5, <1>6, <1>7 DEF PageNext

TruthInvariant == RadioShape /\ RadioTells /\ TextShape /\ TextTells /\ PageTells

LEMMA TruthInit == Init => TruthInvariant
<1> SUFFICES ASSUME Init PROVE TruthInvariant
  OBVIOUS
<1>1. List(<<>>)
  BY EmptySeq DEF List
<1>2. RadioShape /\ RadioTells
  BY <1>1, NoStatusSaysNothing DEF Init, RadioInit, RadioShape, RadioTells
<1>3. TextShape /\ TextTells
  BY NoStatusSaysNothing DEF Init, TextInit, EmptySms, TextShape, TextTells
<1>4. PageTells
  BY <1>1 DEF Init, PageInit, PageTells
<1> QED
  BY <1>2, <1>3, <1>4 DEF TruthInvariant

\* What a step of another service leaves alone stays so.
LEMMA TruthOutlives ==
  ASSUME real' = real, Got \subseteq Got'
  PROVE  /\ RadioShape /\ RadioTells /\ UNCHANGED radioVars => RadioShape' /\ RadioTells'
         /\ TextShape /\ TextTells /\ UNCHANGED textVars => TextShape' /\ TextTells'
         /\ PageTells /\ UNCHANGED pageVars => PageTells'
<1>1. ASSUME RadioShape, RadioTells, UNCHANGED radioVars
      PROVE  RadioShape' /\ RadioTells'
  <2>1. UNCHANGED <<snd, gw, downlink>>
    BY <1>1 DEF radioVars
  <2>2. Says(gw'.done, RadioTx, Got') /\ Says(snd'.receipt, RadioTx, Got')
    BY <1>1, <2>1, StaysSo DEF RadioTells
  <2> QED
    BY <1>1, <2>1, <2>2, RadioStillTells DEF RadioShape, List
<1>2. ASSUME TextShape, TextTells, UNCHANGED textVars
      PROVE  TextShape' /\ TextTells'
  <2>1. UNCHANGED <<sms, payer>>
    BY <1>2 DEF textVars
  <2>2. Says(sms'.done, TextTx, Got') /\ Says(payer'.receipt, TextTx, Got')
    BY <1>2, <2>1, StaysSo DEF TextTells
  <2> QED
    BY <1>2, <2>1, <2>2, TextStillTells DEF TextShape
<1>3. PageTells /\ UNCHANGED pageVars => PageTells'
  BY DEF pageVars, PageTells, List
<1> QED
  BY <1>1, <1>2, <1>3

LEMMA TruthStep == TruthInvariant /\ [Next]_vars => TruthInvariant'
<1> SUFFICES ASSUME TruthInvariant, [Next]_vars PROVE TruthInvariant'
  OBVIOUS
<1> USE DEF TruthInvariant
<1>1. CASE Radio
  <2>1. RadioNext /\ UNCHANGED textVars /\ UNCHANGED pageVars
    BY <1>1 DEF Radio
  <2> QED
    BY <2>1, RadioStepTells, TruthOutlives
<1>2. CASE Text
  <2>1. TextNext /\ UNCHANGED radioVars /\ UNCHANGED pageVars
    BY <1>2 DEF Text
  <2> QED
    BY <2>1, TextStepTells, TruthOutlives
<1>3. CASE Page
  <2>1. PageNext /\ UNCHANGED radioVars /\ UNCHANGED textVars
    BY <1>3 DEF Page
  <2> QED
    BY <2>1, PageStepTells, TruthOutlives
<1>4. CASE UNCHANGED vars
  <2>1. UNCHANGED radioVars /\ UNCHANGED textVars /\ UNCHANGED pageVars /\ UNCHANGED <<settleVars>>
    BY <1>4 DEF vars
  <2> QED
    BY <2>1, TruthOutlives
<1>5. CASE Network
  <2>1. UNCHANGED radioVars /\ UNCHANGED textVars /\ UNCHANGED pageVars /\ real' = real /\ Got \subseteq Got'
    BY <1>5, DecisionAddsNone DEF Network
  <2> QED
    BY <2>1, TruthOutlives
<1> QED
  BY <1>1, <1>2, <1>3, <1>4, <1>5 DEF Next

\* What a person is shown about a payment is so, however long the payment,
\* however often it is tried, and whatever is lost on the way
\* (gateway.mjs:46-79, sms/gateway.mjs:27, handoff/src/app.mjs:383): a payment
\* shown as accepted or sent is one the network took or that ARC took in before
\* the network decided, and neither gives a payment up.
THEOREM ReceiptsAreTrue == Spec => []ReceiptTellsTruth
<1>1. TruthInvariant => ReceiptTellsTruth
  BY DEF TruthInvariant, RadioTells, TextTells, PageTells, ReceiptTellsTruth, Says, Truthful, Accepted
<1> QED
  BY <1>1, TruthInit, TruthStep, PTL DEF Spec

LEMMA NetworkGrows ==
  ASSUME TruthInvariant, [Next]_vars
  PROVE  real' = real /\ Got \subseteq Got'
<1>1. CASE Radio \/ Text \/ Page
  BY <1>1, RadioStepTells, TextStepTells, PageStepTells, Zenon DEF TruthInvariant, Radio, Text, Page
<1>2. CASE Network
  BY <1>2, DecisionAddsNone DEF Network
<1>3. CASE UNCHANGED vars
  BY <1>3 DEF vars
<1> QED
  BY <1>1, <1>2, <1>3 DEF Next

-----------------------------------------------------------------------------
(* The faucet's claims.                                                    *)

Payout == [coin : FaucetCoins, claim : Claims]
Line == [coin : FaucetCoins, claim : Claims, ok : BOOLEAN]

FaucetTypeOK ==
  /\ queue \in Seq(Claims) /\ ledger \in Seq(Line)
  /\ served \subseteq Payout /\ serving \subseteq served
  /\ unsure \subseteq served /\ IsFiniteSet(unsure)

\* A claim is served alone, with a coin that is in no line, and within the
\* limits by what the lines say.
OneAtATime ==
  \A s \in serving :
    /\ serving = {s} /\ s.coin \notin Used
    /\ CountOf("who", s.claim.who) < PerSender
    /\ CountOf("to", s.claim.to) < PerAddress

\* What was begun is under way, unsure, or booked as paid.
Accounted ==
  \A s \in served :
    \/ s \in serving \cup unsure
    \/ \E i \in DOMAIN ledger : ledger[i].ok /\ ledger[i].coin = s.coin /\ ledger[i].claim = s.claim

WithinLimits ==
  \A c \in Claims : CountOf("who", c.who) <= PerSender /\ CountOf("to", c.to) <= PerAddress

Booked ==
  /\ \A i, j \in DOMAIN ledger : i # j => ledger[i].coin # ledger[j].coin
  /\ real => \A i \in DOMAIN ledger : ledger[i].ok => Sweep(ledger[i]) \in Got

FaucetInvariant == FaucetTypeOK /\ OneAtATime /\ Accounted /\ WithinLimits /\ Booked

\* The values of a function on a finite set are no more than its arguments.
LEMMA ImageIsSmaller ==
  ASSUME NEW S, IsFiniteSet(S), NEW f, NEW T, T = {f[x] : x \in S}
  PROVE  IsFiniteSet(T) /\ Cardinality(T) <= Cardinality(S)
<1> DEFINE g == [x \in S |-> f[x]]
<1>1. g \in Surjection(S, T)
  BY DEF Surjection
<1> QED
  BY <1>1, FS_Surjection

\* The lines that count for a claimant or an address.
Counted(field, value) == {i \in DOMAIN ledger : Good(ledger[i]) /\ ledger[i].claim[field] = value}

LEMMA CountIsNatural ==
  ASSUME FaucetTypeOK, NEW field, NEW value
  PROVE  IsFiniteSet(Counted(field, value)) /\ CountOf(field, value) \in Nat
         /\ CountOf(field, value) = Cardinality(Counted(field, value))
<1>1. Len(ledger) \in Nat /\ DOMAIN ledger = 1 .. Len(ledger)
  BY DEF FaucetTypeOK
<1>2. IsFiniteSet(1 .. Len(ledger))
  BY <1>1, FS_Interval
<1>3. Counted(field, value) \in SUBSET (1 .. Len(ledger))
  BY <1>1 DEF Counted
<1>4. IsFiniteSet(Counted(field, value)) /\ Cardinality(Counted(field, value)) \in Nat
  BY <1>2, <1>3, FS_Subset, FS_CardinalityType
<1> QED
  BY <1>4 DEF CountOf, Counted

\* A line more counts for its claimant and its address, when it is good.
LEMMA LineCounts ==
  ASSUME FaucetTypeOK, NEW line \in Line, ledger' = Append(ledger, line), NEW field, NEW value
  PROVE  CountOf(field, value)' =
           IF line.ok /\ line.claim[field] = value THEN CountOf(field, value) + 1 ELSE CountOf(field, value)
<1> DEFINE n == Len(ledger) + 1
<1>1. /\ n - 1 \in Nat /\ n \in Nat /\ DOMAIN ledger = 1 .. n - 1 /\ DOMAIN ledger' = 1 .. n
      /\ ledger'[n] = line /\ \A i \in 1 .. n - 1 : ledger'[i] = ledger[i]
  BY DEF FaucetTypeOK
<1> HIDE DEF n
<1>2. n \in 1 .. n /\ n \notin 1 .. n - 1 /\ 1 .. n = 1 .. n - 1 \cup {n}
  BY <1>1
<1>3. Counted(field, value)' =
        IF line.ok /\ line.claim[field] = value
        THEN Counted(field, value) \cup {n} ELSE Counted(field, value)
  BY <1>1, <1>2 DEF Counted, Good
<1>4. n \notin Counted(field, value)
  BY <1>1, <1>2 DEF Counted
<1>5. CountOf(field, value)' = Cardinality(Counted(field, value)')
  BY DEF CountOf, Counted
<1>6. IsFiniteSet(Counted(field, value)) /\ CountOf(field, value) = Cardinality(Counted(field, value))
  BY CountIsNatural
<1>7. Cardinality(Counted(field, value) \cup {n}) = Cardinality(Counted(field, value)) + 1
  BY <1>4, <1>6, FS_AddElement
<1> QED
  BY <1>3, <1>5, <1>6, <1>7

\* The lowest coin that is left is left.
LEMMA MinIsLeft ==
  ASSUME Left # {}
  PROVE  Min(Left) \in Left
<1>1. Left \subseteq Nat
  BY TextAssumption DEF Left
<1>2. \E m \in Left : \A x \in Left : m <= x
  BY <1>1, LeastIsThere
<1> QED
  BY <1>2 DEF Min

LEMMA FaucetInit == Init => FaucetInvariant
<1> SUFFICES ASSUME Init PROVE FaucetInvariant
  OBVIOUS
<1>1. queue = <<>> /\ serving = {} /\ ledger = <<>> /\ served = {} /\ unsure = {}
  BY DEF Init, TextInit
<1>2. FaucetTypeOK
  BY <1>1, FS_EmptySet DEF FaucetTypeOK
<1>3. ASSUME NEW field, NEW value PROVE CountOf(field, value) = 0
  <2>1. Counted(field, value) = {}
    BY <1>1 DEF Counted
  <2> QED
    BY <1>2, <2>1, CountIsNatural, FS_EmptySet
<1>4. PerSender \in Nat /\ PerAddress \in Nat
  BY TextAssumption
<1>5. WithinLimits
  BY <1>3, <1>4 DEF WithinLimits
<1> QED
  BY <1>1, <1>2, <1>5 DEF FaucetInvariant, OneAtATime, Accounted, Booked

\* At most the queue changed.
LEMMA FaucetRests ==
  ASSUME FaucetInvariant, queue' \in Seq(Claims),
         UNCHANGED <<serving, ledger, served, unsure, real>>, Got \subseteq Got'
  PROVE  FaucetInvariant'
<1>1. ASSUME NEW field, NEW value PROVE CountOf(field, value)' = CountOf(field, value)
  BY DEF CountOf
<1>2. FaucetTypeOK'
  BY DEF FaucetInvariant, FaucetTypeOK
<1>3. OneAtATime'
  BY <1>1 DEF FaucetInvariant, OneAtATime, Used
<1>4. Accounted' /\ WithinLimits'
  BY <1>1 DEF FaucetInvariant, Accounted, WithinLimits
<1>5. Booked'
  BY DEF FaucetInvariant, Booked, Sweep
<1> QED
  BY <1>2, <1>3, <1>4, <1>5 DEF FaucetInvariant

LEMMA ServeKeeps ==
  ASSUME FaucetInvariant, ServeClaim
  PROVE  FaucetInvariant'
<1> DEFINE c == Head(queue)
           s == [coin |-> Min(Left), claim |-> c]
<1>1. /\ queue # <<>> /\ serving = {} /\ queue' = Tail(queue)
      /\ UNCHANGED <<ledger, unsure, settleVars>>
  BY DEF ServeClaim, MayServe
<1>2. c \in Claims /\ queue' \in Seq(Claims)
  BY <1>1, HeadTailProperties DEF FaucetInvariant, FaucetTypeOK
<1>3. CASE Refused(c)
  <2>1. UNCHANGED <<serving, served>>
    BY <1>3 DEF ServeClaim
  <2> QED
    BY <1>1, <1>2, <2>1, FaucetRests
<1>4. CASE ~Refused(c)
  <2>1. serving' = serving \cup {s} /\ served' = served \cup {s}
    BY <1>4 DEF ServeClaim
  <2>2. /\ ~(CountOf("who", c.who) >= PerSender) /\ ~(CountOf("to", c.to) >= PerAddress)
        /\ Min(Left) \in FaucetCoins /\ Min(Left) \notin Used
    BY <1>4, MinIsLeft DEF Refused, Left
  <2> HIDE DEF c
  <2>3. s \in Payout /\ s.coin = Min(Left) /\ s.claim = c
    BY <1>2, <2>2 DEF Payout
  <2> HIDE DEF s
  <2>4. ASSUME NEW field, NEW value
        PROVE  CountOf(field, value)' = CountOf(field, value) /\ CountOf(field, value) \in Nat
    BY <1>1, CountIsNatural DEF CountOf, FaucetInvariant
  <2>5. FaucetTypeOK'
    BY <1>1, <1>2, <2>1, <2>3 DEF FaucetInvariant, FaucetTypeOK
  <2>6. PerSender \in Nat /\ PerAddress \in Nat
    BY TextAssumption
  <2>7. serving' = {s} /\ Used' = Used
    BY <1>1, <2>1 DEF Used
  <2>8. OneAtATime'
    BY <2>2, <2>3, <2>4, <2>6, <2>7 DEF OneAtATime
  <2>9. Accounted'
    BY <1>1, <2>1 DEF FaucetInvariant, Accounted
  <2>10. WithinLimits' /\ Booked'
    BY <1>1, <2>4 DEF FaucetInvariant, WithinLimits, Booked, Sweep
  <2> QED
    BY <2>5, <2>8, <2>9, <2>10 DEF FaucetInvariant
<1> QED
  BY <1>3, <1>4

LEMMA BookKeeps ==
  ASSUME FaucetInvariant, NEW s \in serving, BookClaim(s)
  PROVE  FaucetInvariant'
<1>1. PICK b \in Broadcast(Sweep(s)) :
        /\ taken' = b.taken /\ early' = b.early
        /\ ledger' = Append(ledger, [coin |-> s.coin, claim |-> s.claim, ok |-> b.ok])
        /\ unsure' = IF b.ok THEN unsure ELSE unsure \cup {s}
  BY DEF BookClaim
<1>2. UNCHANGED <<queue, served, real>> /\ serving' = serving \ {s}
  BY DEF BookClaim
<1> DEFINE line == [coin |-> s.coin, claim |-> s.claim, ok |-> b.ok]
           n == Len(ledger) + 1
<1>3. /\ b.ok \in BOOLEAN /\ Got \subseteq Got' /\ (b.ok /\ real => Sweep(s) \in Got')
  BY <1>1, BroadcastIsSo
<1>4. s \in Payout /\ s.coin \in FaucetCoins /\ s.claim \in Claims /\ s \in served
  BY DEF FaucetInvariant, FaucetTypeOK, Payout
<1>5. line \in Line /\ line.coin = s.coin /\ line.claim = s.claim /\ line.ok = b.ok
  BY <1>3, <1>4 DEF Line
<1>6. ledger' = Append(ledger, line)
  BY <1>1
<1> HIDE DEF line
<1>7. /\ n \in Nat /\ n - 1 \in Nat /\ DOMAIN ledger = 1 .. n - 1 /\ DOMAIN ledger' = 1 .. n
      /\ ledger'[n] = line /\ \A i \in 1 .. n - 1 : ledger'[i] = ledger[i]
      /\ ledger' \in Seq(Line)
  BY <1>5, <1>6 DEF FaucetInvariant, FaucetTypeOK
<1> HIDE DEF n
<1>8. n \in 1 .. n /\ n \notin 1 .. n - 1 /\ 1 .. n = 1 .. n - 1 \cup {n}
  BY <1>7
<1>9. FaucetTypeOK'
  <2>1. IsFiniteSet(unsure \cup {s})
    BY FS_AddElement DEF FaucetInvariant, FaucetTypeOK
  <2> QED
    BY <1>1, <1>2, <1>4, <1>7, <2>1 DEF FaucetInvariant, FaucetTypeOK
<1>10. serving' = {} /\ serving = {s}
  BY <1>2 DEF FaucetInvariant, OneAtATime
<1>11. OneAtATime'
  BY <1>10 DEF OneAtATime
<1>12. Accounted'
  <2> SUFFICES ASSUME NEW p \in served
               PROVE  \/ p \in serving' \cup unsure'
                      \/ \E i \in DOMAIN ledger' :
                           ledger'[i].ok /\ ledger'[i].coin = p.coin /\ ledger'[i].claim = p.claim
    BY <1>2 DEF Accounted
  <2>1. CASE p \in unsure
    BY <1>1, <2>1
  <2>2. CASE p = s
    BY <1>1, <1>5, <1>7, <1>8, <2>2
  <2>3. CASE \E i \in DOMAIN ledger : ledger[i].ok /\ ledger[i].coin = p.coin /\ ledger[i].claim = p.claim
    BY <1>7, <1>8, <2>3
  <2> QED
    BY <1>10, <2>1, <2>2, <2>3 DEF FaucetInvariant, Accounted
<1>13. ASSUME NEW field, NEW value
       PROVE  /\ CountOf(field, value)' =
                   IF line.ok /\ line.claim[field] = value THEN CountOf(field, value) + 1 ELSE CountOf(field, value)
              /\ CountOf(field, value) \in Nat
  BY <1>5, <1>6, LineCounts, CountIsNatural DEF FaucetInvariant
<1>14. WithinLimits'
  <2> SUFFICES ASSUME NEW c \in Claims
               PROVE  CountOf("who", c.who)' <= PerSender /\ CountOf("to", c.to)' <= PerAddress
    BY DEF WithinLimits
  <2>1. /\ CountOf("who", c.who) <= PerSender /\ CountOf("to", c.to) <= PerAddress
        /\ CountOf("who", s.claim.who) < PerSender /\ CountOf("to", s.claim.to) < PerAddress
    BY DEF FaucetInvariant, WithinLimits, OneAtATime
  <2>2. PerSender \in Nat /\ PerAddress \in Nat
    BY TextAssumption
  <2>3. CountOf("who", c.who)' <= PerSender
    <3>1. line.claim["who"] = c.who => CountOf("who", c.who) < PerSender
      BY <1>5, <2>1
    <3> HIDE DEF CountOf
    <3> QED
      BY <1>13, <2>1, <2>2, <3>1
  <2>4. CountOf("to", c.to)' <= PerAddress
    <3>1. line.claim["to"] = c.to => CountOf("to", c.to) < PerAddress
      BY <1>5, <2>1
    <3> QED
      BY <1>13, <2>1, <2>2, <3>1
  <2> QED
    BY <2>3, <2>4
<1>15. Booked'
  <2>1. \A i \in DOMAIN ledger : ledger[i].coin # s.coin
    BY DEF FaucetInvariant, OneAtATime, Used
  <2>2. \A i, j \in DOMAIN ledger' : i # j => ledger'[i].coin # ledger'[j].coin
    BY <1>5, <1>7, <1>8, <2>1 DEF FaucetInvariant, Booked
  <2>3. ASSUME real, NEW i \in DOMAIN ledger', ledger'[i].ok PROVE Sweep(ledger'[i]) \in Got'
    <3>1. CASE i = n
      <4>1. Sweep(line) = Sweep(s)
        BY <1>5 DEF Sweep
      <4> QED
        BY <1>3, <1>5, <1>7, <2>3, <3>1, <4>1
    <3>2. CASE i \in 1 .. n - 1
      <4>1. ledger'[i] = ledger[i] /\ i \in DOMAIN ledger
        BY <1>7, <3>2
      <4>2. Sweep(ledger[i]) \in Got
        BY <2>3, <4>1 DEF FaucetInvariant, Booked
      <4> QED
        BY <1>3, <4>1, <4>2
    <3> QED
      BY <1>7, <1>8, <3>1, <3>2
  <2> QED
    BY <1>2, <2>2, <2>3 DEF Booked, Sweep
<1> QED
  BY <1>9, <1>11, <1>12, <1>14, <1>15 DEF FaucetInvariant

LEMMA RestartKeeps ==
  ASSUME FaucetInvariant, Restart
  PROVE  FaucetInvariant'
<1>1. /\ queue' = <<>> /\ serving' = {} /\ unsure' = unsure \cup serving
      /\ UNCHANGED <<ledger, served, settleVars>>
  BY DEF Restart
<1>2. IsFiniteSet(unsure \cup serving)
  <2>1. serving = {} \/ \E s : serving = {s}
    BY DEF FaucetInvariant, OneAtATime
  <2> QED
    BY <2>1, FS_AddElement, ZenonT(60) DEF FaucetInvariant, FaucetTypeOK
<1>3. FaucetTypeOK'
  BY <1>1, <1>2 DEF FaucetInvariant, FaucetTypeOK
<1>4. ASSUME NEW field, NEW value PROVE CountOf(field, value)' = CountOf(field, value)
  BY <1>1 DEF CountOf
<1>5. OneAtATime' /\ Accounted' /\ WithinLimits' /\ Booked'
  BY <1>1, <1>4 DEF FaucetInvariant, OneAtATime, Accounted, WithinLimits, Booked, Sweep
<1> QED
  BY <1>3, <1>5 DEF FaucetInvariant

LEMMA FaucetStep == TruthInvariant /\ FaucetInvariant /\ [Next]_vars => FaucetInvariant'
<1> SUFFICES ASSUME TruthInvariant, FaucetInvariant, [Next]_vars PROVE FaucetInvariant'
  OBVIOUS
<1>1. real' = real /\ Got \subseteq Got'
  BY NetworkGrows
<1>2. CASE UNCHANGED claimVars
  BY <1>1, <1>2, FaucetRests DEF claimVars, FaucetInvariant, FaucetTypeOK
<1>3. CASE Text
  <2>1. TextNext
    BY <1>3 DEF Text
  <2>2. CASE TextPayment \/ TextClaim \/ SettleText \/ (\E text \in inbox : HandlePart(text))
              \/ (\E s \in serving : SweepReached(s))
    <3>1. UNCHANGED claimVars
      BY <2>2 DEF TextPayment, TextClaim, SettleText, HandlePart, SweepReached, claimVars, textVars
    <3> QED
      BY <1>2, <3>1, SMTT(60)
  <2>3. ASSUME NEW text, HandleClaim(text) PROVE FaucetInvariant'
    <3>1. queue' \in Seq(Claims) /\ UNCHANGED <<serving, ledger, served, unsure, real, Got>>
      BY <2>3 DEF HandleClaim, FaucetInvariant, FaucetTypeOK
    <3> QED
      BY <3>1, FaucetRests
  <2> QED
    BY <2>1, <2>2, <2>3, ServeKeeps, BookKeeps, RestartKeeps DEF TextNext
<1>4. CASE Radio \/ Page \/ Network \/ UNCHANGED vars
  <2>1. UNCHANGED claimVars
    BY <1>4 DEF Radio, Page, Network, vars, textVars, claimVars
  <2> QED
    BY <1>2, <2>1
<1> QED
  BY <1>3, <1>4 DEF Next

\* No more coins are on the chain for a claimant or an address than its good
\* lines, the claim under way and the unsure ones.
LEMMA PaidOutBound ==
  ASSUME FaucetInvariant, NEW field, NEW value, NEW limit \in Nat,
         CountOf(field, value) <= limit,
         \A s \in serving : s.claim[field] = value => CountOf(field, value) < limit
  PROVE  Cardinality(PaidOut(field, value)) <= limit + Cardinality(Unsure(field, value))
<1> DEFINE booked == {ledger[i].coin : i \in Counted(field, value)}
           now == {s.coin : s \in {x \in serving : x.claim[field] = value}}
           doubtful == {s.coin : s \in Unsure(field, value)}
<1>1. PaidOut(field, value) \subseteq booked \cup now \cup doubtful
  <2> SUFFICES ASSUME NEW s \in served, s.claim[field] = value
               PROVE  s.coin \in booked \cup now \cup doubtful
    BY DEF PaidOut
  <2>1. CASE s \in serving
    BY <2>1
  <2>2. CASE s \in unsure
    BY <2>2 DEF Unsure
  <2>3. CASE \E i \in DOMAIN ledger : ledger[i].ok /\ ledger[i].coin = s.coin /\ ledger[i].claim = s.claim
    <3>1. PICK i \in DOMAIN ledger : ledger[i].ok /\ ledger[i].coin = s.coin /\ ledger[i].claim = s.claim
      BY <2>3
    <3>2. i \in Counted(field, value)
      BY <3>1 DEF Counted, Good
    <3> QED
      BY <3>1, <3>2
  <2> QED
    BY <2>1, <2>2, <2>3 DEF FaucetInvariant, Accounted
<1>2. IsFiniteSet(Counted(field, value)) /\ CountOf(field, value) = Cardinality(Counted(field, value))
      /\ CountOf(field, value) \in Nat
  BY CountIsNatural DEF FaucetInvariant
<1>3. IsFiniteSet(booked) /\ Cardinality(booked) <= CountOf(field, value)
  <2> DEFINE f == [i \in Counted(field, value) |-> ledger[i].coin]
  <2>1. booked = {f[i] : i \in Counted(field, value)}
    OBVIOUS
  <2> HIDE DEF f, booked
  <2> QED
    BY <1>2, <2>1, ImageIsSmaller
<1>4. IsFiniteSet(Unsure(field, value)) /\ Cardinality(Unsure(field, value)) \in Nat
  <2>1. Unsure(field, value) \in SUBSET unsure
    BY DEF Unsure
  <2> QED
    BY <2>1, FS_Subset, FS_CardinalityType DEF FaucetInvariant, FaucetTypeOK
<1>5. IsFiniteSet(doubtful) /\ Cardinality(doubtful) <= Cardinality(Unsure(field, value))
  <2> DEFINE f == [s \in Unsure(field, value) |-> s.coin]
  <2>1. doubtful = {f[s] : s \in Unsure(field, value)}
    OBVIOUS
  <2> HIDE DEF f, doubtful
  <2> QED
    BY <1>4, <2>1, ImageIsSmaller
<1>6. now = {} \/ (CountOf(field, value) < limit /\ \E coin : now = {coin})
  <2>1. ASSUME NEW s \in serving, s.claim[field] = value PROVE now = {s.coin}
    <3>1. serving = {s}
      BY DEF FaucetInvariant, OneAtATime
    <3> QED
      BY <2>1, <3>1
  <2> QED
    BY <2>1
<1>7. IsFiniteSet(now) /\ Cardinality(now) \in Nat /\ CountOf(field, value) + Cardinality(now) <= limit
  <2> HIDE DEF now
  <2>1. CASE now = {}
    BY <1>2, <2>1, FS_EmptySet
  <2>2. CASE CountOf(field, value) < limit /\ \E coin : now = {coin}
    <3>1. IsFiniteSet(now) /\ Cardinality(now) = 1
      BY <2>2, FS_Singleton
    <3> QED
      BY <1>2, <2>2, <3>1
  <2> QED
    BY <1>6, <2>1, <2>2
<1> HIDE DEF booked, now, doubtful
<1>8. /\ IsFiniteSet(booked \cup now)
      /\ Cardinality(booked \cup now) <= Cardinality(booked) + Cardinality(now)
      /\ IsFiniteSet(booked \cup now \cup doubtful)
      /\ Cardinality(booked \cup now \cup doubtful) <= Cardinality(booked \cup now) + Cardinality(doubtful)
  <2>1. ASSUME NEW S, NEW T, IsFiniteSet(S), IsFiniteSet(T)
        PROVE  IsFiniteSet(S \cup T) /\ Cardinality(S \cup T) <= Cardinality(S) + Cardinality(T)
    <3>1. /\ IsFiniteSet(S \cup T)
          /\ Cardinality(S \cup T) = Cardinality(S) + Cardinality(T) - Cardinality(S \cap T)
      BY <2>1, FS_Union
    <3>2. IsFiniteSet(S \cap T)
      BY <2>1, FS_Subset
    <3>3. Cardinality(S) \in Nat /\ Cardinality(T) \in Nat /\ Cardinality(S \cap T) \in Nat
      BY <2>1, <3>2, FS_CardinalityType
    <3> QED
      BY <3>1, <3>3
  <2>2. /\ IsFiniteSet(booked \cup now)
        /\ Cardinality(booked \cup now) <= Cardinality(booked) + Cardinality(now)
    BY <1>3, <1>7, <2>1
  <2> QED
    BY <1>5, <2>1, <2>2
<1>9. Cardinality(PaidOut(field, value)) <= Cardinality(booked \cup now \cup doubtful)
  BY <1>1, <1>8, FS_Subset
<1>10. /\ Cardinality(booked) \in Nat /\ Cardinality(doubtful) \in Nat
       /\ Cardinality(booked \cup now) \in Nat /\ Cardinality(booked \cup now \cup doubtful) \in Nat
       /\ Cardinality(PaidOut(field, value)) \in Nat
  <2>1. IsFiniteSet(PaidOut(field, value))
    BY <1>1, <1>8, FS_Subset
  <2> QED
    BY <1>3, <1>5, <1>8, <2>1, FS_CardinalityType
<1> QED
  BY <1>2, <1>3, <1>4, <1>5, <1>7, <1>8, <1>9, <1>10

\* No claimant and no address is paid more often than the limits say, but for
\* one coin more for each of theirs whose broadcast failed or was never booked
\* (NobodyPaidAgain, without that allowance for a kill, does not hold), and
\* every good line of claims.jsonl is a coin of its own that the network took or
\* ARC took in (claims.mjs:35-46):
\* a claim is under way alone, counted before its coin is taken, and a coin
\* that was begun is booked or known to be in doubt.
THEOREM FaucetPaysWithinLimits == Spec => []FaucetPaysOnce
<1>1. FaucetInvariant => FaucetPaysOnce
  <2> SUFFICES ASSUME FaucetInvariant PROVE FaucetPaysOnce
    OBVIOUS
  <2>1. ASSUME NEW c \in Claims
        PROVE  /\ Cardinality(PaidOut("who", c.who)) <= PerSender + Cardinality(Unsure("who", c.who))
               /\ Cardinality(PaidOut("to", c.to)) <= PerAddress + Cardinality(Unsure("to", c.to))
    <3>1. PerSender \in Nat /\ PerAddress \in Nat
      BY TextAssumption
    <3>2. CountOf("who", c.who) <= PerSender /\ CountOf("to", c.to) <= PerAddress
      BY DEF FaucetInvariant, WithinLimits
    <3>3. ASSUME NEW s \in serving
          PROVE  /\ s.claim["who"] = c.who => CountOf("who", c.who) < PerSender
                 /\ s.claim["to"] = c.to => CountOf("to", c.to) < PerAddress
      <4>1. /\ CountOf("who", s.claim.who) < PerSender
            /\ CountOf("to", s.claim.to) < PerAddress
        BY DEF FaucetInvariant, OneAtATime
      <4> QED
        BY <4>1
    <3> QED
      BY <3>1, <3>2, <3>3, PaidOutBound
  <2> QED
    BY <2>1 DEF FaucetInvariant, Booked, FaucetPaysOnce, Accepted
<1> QED
  BY <1>1, TruthInit, TruthStep, FaucetInit, FaucetStep, PTL DEF Spec

-----------------------------------------------------------------------------
(* The page's coins.                                                       *)

PageTypeOK ==
  /\ current = [tx |-> current.tx, signed |-> current.signed]
  /\ List(current.signed) /\ Len(current.signed) <= MaxSigned
  /\ \A i \in DOMAIN current.signed :
       /\ current.signed[i].by \in Wallets \cup {NoWallet}
       /\ current.signed[i].reading \in Nat
  /\ fetches \in [asked : Nat, came : Nat]
  /\ wallet \in Wallets \cup {NoWallet} /\ stored \in Wallets \cup {NoWallet}
  /\ List(outbox)

\* The change a payment brings is a coin of its own.
OwnChange ==
  \A i \in DOMAIN current.signed : current.signed[i].tx.change \in {NoCoin, ChangeCoin(i)}

\* Coins that have an owner: from the start, or change of a signed payment.
Placed == Genuine \cup ({current.signed[i].tx.change : i \in DOMAIN current.signed} \ {NoCoin})

\* The change of the payments the page and the network know is a coin that
\* has an owner.
PaymentsKnown ==
  /\ current.tx.change \in Placed \cup {NoCoin} /\ lastGot.change \in Placed \cup {NoCoin}
  /\ \A i \in DOMAIN outbox : outbox[i].tx.change \in Placed \cup {NoCoin}
  /\ \A tx \in sending \cup Got : tx.change \in Placed \cup {NoCoin}

CoinsPlaced == coins \subseteq Placed /\ \A answer \in asking : answer \subseteq Placed

\* A payment spends the demo's coin, or coins of the key that signed it.
SpendsOwn ==
  \A i \in DOMAIN current.signed :
    LET s == current.signed[i] IN
      /\ s.tx.in \subseteq Placed \cup {DemoCoin}
      /\ s.by # NoWallet => \A c \in s.tx.in : c \in Placed /\ Owner(c) = s.by

\* A coin that was spent is off the page until the coins are read anew.
SpentIsGone ==
  \A i \in DOMAIN current.signed :
    LET s == current.signed[i] IN
      s.reading <= fetches.came /\ (s.reading = fetches.came => s.tx.in \cap coins = {})

Apart ==
  \A i, j \in DOMAIN current.signed :
    LET s == current.signed[i]
        t == current.signed[j]
    IN  i # j /\ s.reading = t.reading /\ s.by # NoWallet => s.tx.in \cap t.tx.in = {}

PageInvariant ==
  /\ PageTypeOK /\ OwnChange /\ PaymentsKnown /\ CoinsPlaced /\ SpendsOwn /\ SpentIsGone /\ Apart

\* The coin of a change is the signer's.
LEMMA ChangeIsTheSigners ==
  ASSUME NEW signed, List(signed), Len(signed) <= MaxSigned,
         \A i \in DOMAIN signed : signed[i].tx.change \in {NoCoin, ChangeCoin(i)},
         NEW i \in DOMAIN signed, NEW c, c = signed[i].tx.change, c # NoCoin
  PROVE  /\ c \notin DOMAIN OwnerOf
         /\ (CHOOSE x \in Range(signed) : x.tx.change = c) = signed[i]
<1>1. /\ Len(signed) \in Nat /\ DOMAIN signed = 1 .. Len(signed) /\ MaxSigned \in Nat
  BY ListIsIndexed, HandoffAssumption
<1>2. \A j \in DOMAIN signed : j \in 1 .. MaxSigned
  BY <1>1
<1>3. c = ChangeCoin(i)
  OBVIOUS
<1>4. c \notin DOMAIN OwnerOf
  BY <1>2, <1>3, HandoffAssumption
<1>5. ASSUME NEW j \in DOMAIN signed, signed[j].tx.change = c PROVE j = i
  BY <1>2, <1>3, <1>5, HandoffAssumption
<1>6. \A x \in Range(signed) : x.tx.change = c => x = signed[i]
  BY <1>5 DEF Range
<1>7. signed[i] \in Range(signed) /\ signed[i].tx.change = c
  BY DEF Range
<1>8. (CHOOSE x \in Range(signed) : x.tx.change = c) = signed[i]
  BY <1>6, <1>7
<1> QED
  BY <1>4, <1>8

\* The next change is nobody's yet.
LEMMA NextChangeIsFresh ==
  ASSUME PageTypeOK, OwnChange, Len(current.signed) < MaxSigned
  PROVE  ChangeCoin(Len(current.signed) + 1) \notin Placed \cup {DemoCoin, NoCoin}
<1> DEFINE n == Len(current.signed) + 1
<1>1. /\ n \in 1 .. MaxSigned /\ \A j \in DOMAIN current.signed : j \in 1 .. MaxSigned /\ j # n
  <2>1. Len(current.signed) \in Nat /\ DOMAIN current.signed = 1 .. Len(current.signed) /\ MaxSigned \in Nat
    BY ListIsIndexed, HandoffAssumption DEF PageTypeOK
  <2> QED
    BY <2>1
<1> HIDE DEF n
<1>2. ChangeCoin(n) \notin Genuine \cup {DemoCoin, NoCoin}
  BY <1>1, HandoffAssumption
<1>3. \A j \in DOMAIN current.signed : ChangeCoin(n) # current.signed[j].tx.change
  <2> SUFFICES ASSUME NEW j \in DOMAIN current.signed PROVE ChangeCoin(n) # current.signed[j].tx.change
    OBVIOUS
  <2>1. ChangeCoin(n) # ChangeCoin(j) /\ current.signed[j].tx.change \in {NoCoin, ChangeCoin(j)}
    BY <1>1, HandoffAssumption DEF OwnChange
  <2> QED
    BY <1>2, <2>1
<1>4. ChangeCoin(n) \notin Placed \cup {DemoCoin, NoCoin}
  BY <1>2, <1>3 DEF Placed
<1> QED
  BY <1>4 DEF n

LEMMA PlacedIsReal == PageTypeOK /\ OwnChange => DemoCoin \notin Placed /\ NoCoin \notin Placed
<1> SUFFICES ASSUME PageTypeOK, OwnChange PROVE DemoCoin \notin Placed /\ NoCoin \notin Placed
  OBVIOUS
<1>1. \A j \in DOMAIN current.signed : j \in 1 .. MaxSigned
  <2>1. /\ Len(current.signed) \in Nat /\ DOMAIN current.signed = 1 .. Len(current.signed)
        /\ Len(current.signed) <= MaxSigned /\ MaxSigned \in Nat
    BY ListIsIndexed, HandoffAssumption DEF PageTypeOK
  <2> QED
    BY <2>1
<1>2. \A j \in DOMAIN current.signed :
         current.signed[j].tx.change = NoCoin \/ current.signed[j].tx.change # DemoCoin
  BY <1>1, HandoffAssumption DEF OwnChange
<1> QED
  BY <1>2, HandoffAssumption, SettlementAssumption DEF Placed

\* A payment is signed.
LEMMA SigningKeeps ==
  ASSUME PageInvariant, NEW tx, NEW by \in Wallets \cup {NoWallet},
         Len(current.signed) < MaxSigned, Loaded(tx, by),
         tx.change \in {NoCoin, ChangeCoin(Len(current.signed) + 1)},
         tx.in \subseteq coins \cup {DemoCoin},
         by # NoWallet => \A c \in tx.in : c \in Placed /\ Owner(c) = by,
         coins' \subseteq (coins \ tx.in) \cup ({tx.change} \ {NoCoin}),
         UNCHANGED <<wallet, stored, asking, fetches, outbox, lastGot, sending, Got>>
  PROVE  PageInvariant'
<1> DEFINE n == Len(current.signed) + 1
           e == [tx |-> tx, by |-> by, reading |-> fetches.came]
<1>1. /\ PageTypeOK /\ OwnChange /\ PaymentsKnown /\ CoinsPlaced /\ SpendsOwn /\ SpentIsGone /\ Apart
  BY DEF PageInvariant
<1>2. current' = [tx |-> tx, signed |-> Append(current.signed, e)]
  BY DEF Loaded
<1>3. e.tx = tx /\ e.by = by /\ e.reading = fetches.came /\ fetches.came \in Nat
  BY <1>1 DEF PageTypeOK
<1> HIDE DEF e
<1>4. Len(current.signed) \in Nat /\ DOMAIN current.signed = 1 .. Len(current.signed) /\ MaxSigned \in Nat
  BY <1>1, ListIsIndexed, HandoffAssumption DEF PageTypeOK
<1>5. /\ current'.tx = tx /\ current' = [tx |-> current'.tx, signed |-> current'.signed]
      /\ List(current'.signed) /\ Len(current'.signed) = n
      /\ DOMAIN current'.signed = 1 .. n /\ current'.signed[n] = e
      /\ \A i \in DOMAIN current.signed : current'.signed[i] = current.signed[i]
  BY <1>1, <1>2, ListAppend DEF PageTypeOK
<1>6. /\ n \in Nat /\ n <= MaxSigned /\ DOMAIN current'.signed = DOMAIN current.signed \cup {n}
      /\ n \notin DOMAIN current.signed /\ DOMAIN current.signed = 1 .. n - 1
  BY <1>4, <1>5
<1>7. ChangeCoin(n) \notin Placed \cup {DemoCoin, NoCoin} /\ DemoCoin \notin Placed /\ NoCoin \notin Placed
  BY <1>1, NextChangeIsFresh, PlacedIsReal
<1>8. tx.change \in {NoCoin, ChangeCoin(n)}
  OBVIOUS
<1> HIDE DEF n
<1>9. PageTypeOK'
  <2>1. \A i \in DOMAIN current'.signed :
          current'.signed[i].by \in Wallets \cup {NoWallet} /\ current'.signed[i].reading \in Nat
    BY <1>1, <1>3, <1>5, <1>6 DEF PageTypeOK
  <2>2. List(outbox)'
    BY <1>1 DEF PageTypeOK, List
  <2> QED
    BY <1>1, <1>5, <1>6, <2>1, <2>2 DEF PageTypeOK
<1>10. OwnChange'
  <2>1. \A i \in DOMAIN current'.signed : current'.signed[i].tx.change \in {NoCoin, ChangeCoin(i)}
    BY <1>1, <1>3, <1>5, <1>6, <1>8 DEF OwnChange
  <2> QED
    BY <2>1 DEF OwnChange
<1>11. Placed' = Placed \cup ({tx.change} \ {NoCoin})
  <2>1. {current'.signed[i].tx.change : i \in DOMAIN current'.signed}
          = {current.signed[i].tx.change : i \in DOMAIN current.signed} \cup {tx.change}
    BY <1>3, <1>5, <1>6
  <2> QED
    BY <2>1 DEF Placed
<1>12. ASSUME NEW c \in Placed PROVE Owner(c)' = Owner(c)
  <2>1. CASE c \in Genuine
    BY <2>1, HandoffAssumption DEF Owner
  <2>2. CASE c \notin Genuine
    <3>1. PICK i \in DOMAIN current.signed : c = current.signed[i].tx.change /\ c # NoCoin
      BY <2>2 DEF Placed
    <3>2. Owner(c) = current.signed[i].by
      <4>1. /\ List(current.signed) /\ Len(current.signed) <= MaxSigned
            /\ \A k \in DOMAIN current.signed : current.signed[k].tx.change \in {NoCoin, ChangeCoin(k)}
        BY <1>1 DEF PageTypeOK, OwnChange
      <4> DEFINE signed == current.signed
      <4> HIDE DEF signed
      <4>2. /\ List(signed) /\ Len(signed) <= MaxSigned /\ i \in DOMAIN signed
            /\ \A k \in DOMAIN signed : signed[k].tx.change \in {NoCoin, ChangeCoin(k)}
            /\ c = signed[i].tx.change /\ c # NoCoin
        BY <3>1, <4>1 DEF signed
      <4>3. /\ c \notin DOMAIN OwnerOf
            /\ (CHOOSE x \in Range(signed) : x.tx.change = c) = signed[i]
        BY <4>2, ChangeIsTheSigners
      <4> QED
        BY <4>3 DEF Owner, signed
    <3>3. i \in DOMAIN current'.signed /\ current'.signed[i] = current.signed[i]
      BY <1>5, <1>6
    <3>4. /\ List(current'.signed) /\ Len(current'.signed) <= MaxSigned
          /\ \A k \in DOMAIN current'.signed : current'.signed[k].tx.change \in {NoCoin, ChangeCoin(k)}
      BY <1>9, <1>10 DEF PageTypeOK, OwnChange
    <3>5. /\ c \notin DOMAIN OwnerOf
          /\ (CHOOSE x \in Range(current'.signed) : x.tx.change = c) = current'.signed[i]
      <4> DEFINE signed == current'.signed
      <4>1. /\ List(signed) /\ Len(signed) <= MaxSigned /\ i \in DOMAIN signed
            /\ \A k \in DOMAIN signed : signed[k].tx.change \in {NoCoin, ChangeCoin(k)}
            /\ c = signed[i].tx.change /\ c # NoCoin
        BY <3>1, <3>3, <3>4
      <4> HIDE DEF signed
      <4>2. /\ c \notin DOMAIN OwnerOf
            /\ (CHOOSE x \in Range(signed) : x.tx.change = c) = signed[i]
        BY <4>1, ChangeIsTheSigners
      <4> QED
        BY <4>2 DEF signed
    <3>6. Owner(c)' = current'.signed[i].by
      BY <3>5 DEF Owner
    <3> QED
      BY <3>2, <3>3, <3>6
  <2> QED
    BY <2>1, <2>2
<1>13. PaymentsKnown'
  BY <1>1, <1>5, <1>11 DEF PaymentsKnown
<1>14. CoinsPlaced'
  BY <1>1, <1>11 DEF CoinsPlaced
<1>15. SpendsOwn'
  <2> SUFFICES ASSUME NEW i \in DOMAIN current'.signed
               PROVE  /\ current'.signed[i].tx.in \subseteq Placed' \cup {DemoCoin}
                      /\ current'.signed[i].by # NoWallet =>
                           \A c \in current'.signed[i].tx.in :
                             c \in Placed' /\ Owner(c)' = current'.signed[i].by
    BY DEF SpendsOwn
  <2>1. CASE i \in DOMAIN current.signed
    <3>1. current'.signed[i] = current.signed[i]
      BY <1>5, <2>1
    <3>2. /\ current.signed[i].tx.in \subseteq Placed \cup {DemoCoin}
          /\ current.signed[i].by # NoWallet =>
               \A c \in current.signed[i].tx.in : c \in Placed /\ Owner(c) = current.signed[i].by
      BY <1>1, <2>1 DEF SpendsOwn
    <3> QED
      BY <1>11, <1>12, <3>1, <3>2
  <2>2. CASE i = n
    <3>1. tx.in \subseteq Placed \cup {DemoCoin}
      BY <1>1 DEF CoinsPlaced
    <3>2. current'.signed[i].tx = tx /\ current'.signed[i].by = by
      BY <1>3, <1>5, <2>2
    <3> QED
      BY <1>11, <1>12, <3>1, <3>2
  <2> QED
    BY <1>6, <2>1, <2>2
<1>16. SpentIsGone'
  <2> SUFFICES ASSUME NEW i \in DOMAIN current'.signed
               PROVE  /\ current'.signed[i].reading <= fetches.came
                      /\ current'.signed[i].reading = fetches.came =>
                           current'.signed[i].tx.in \cap coins' = {}
    BY DEF SpentIsGone
  <2>1. CASE i \in DOMAIN current.signed
    <3>1. /\ current'.signed[i] = current.signed[i]
          /\ current.signed[i].reading <= fetches.came
          /\ current.signed[i].reading = fetches.came => current.signed[i].tx.in \cap coins = {}
          /\ current.signed[i].tx.in \subseteq Placed \cup {DemoCoin}
      BY <1>1, <1>5, <2>1 DEF SpentIsGone, SpendsOwn
    <3> QED
      BY <1>7, <1>8, <3>1
  <2>2. CASE i = n
    <3>1. tx.change \notin tx.in \/ tx.change = NoCoin
      BY <1>1, <1>7, <1>8 DEF CoinsPlaced
    <3>2. current'.signed[i].tx = tx /\ current'.signed[i].reading = fetches.came
      BY <1>3, <1>5, <2>2
    <3> QED
      BY <1>3, <3>1, <3>2
  <2> QED
    BY <1>6, <2>1, <2>2
<1>17. Apart'
  <2>1. ASSUME NEW i \in DOMAIN current.signed, current.signed[i].reading = fetches.came,
               current.signed[i].by # NoWallet \/ by # NoWallet
        PROVE  current.signed[i].tx.in \cap tx.in = {}
    <3>1. current.signed[i].tx.in \cap coins = {}
      BY <1>1, <2>1 DEF SpentIsGone
    <3>2. DemoCoin \notin current.signed[i].tx.in \cap tx.in
      BY <1>1, <1>7, <2>1 DEF SpendsOwn
    <3> QED
      BY <3>1, <3>2
  <2> SUFFICES ASSUME NEW i \in DOMAIN current'.signed, NEW j \in DOMAIN current'.signed, i # j,
                      current'.signed[i].reading = current'.signed[j].reading,
                      current'.signed[i].by # NoWallet
               PROVE  current'.signed[i].tx.in \cap current'.signed[j].tx.in = {}
    BY DEF Apart
  <2>2. CASE i \in DOMAIN current.signed /\ j \in DOMAIN current.signed
    BY <1>1, <1>5, <2>2 DEF Apart
  <2>3. CASE i \in DOMAIN current.signed /\ j = n
    <3>1. current'.signed[i] = current.signed[i] /\ current'.signed[j] = e
      BY <1>5, <2>3
    <3> QED
      BY <1>3, <2>1, <2>3, <3>1
  <2>4. CASE i = n /\ j \in DOMAIN current.signed
    <3>1. current'.signed[j] = current.signed[j] /\ current'.signed[i] = e
      BY <1>5, <2>4
    <3> QED
      BY <1>3, <2>1, <2>4, <3>1
  <2> QED
    BY <1>6, <2>2, <2>3, <2>4
<1> QED
  BY <1>9, <1>10, <1>13, <1>14, <1>15, <1>16, <1>17 DEF PageInvariant

\* No payment is signed.
LEMMA NothingSigned ==
  ASSUME PageInvariant, current'.signed = current.signed,
         PageTypeOK', PaymentsKnown', CoinsPlaced', SpentIsGone'
  PROVE  PageInvariant'
<1>1. Placed' = Placed /\ \A c : Owner(c)' = Owner(c)
  BY DEF Placed, Owner
<1>2. OwnChange'
  BY DEF PageInvariant, OwnChange
<1>3. SpendsOwn'
  BY <1>1 DEF PageInvariant, SpendsOwn
<1>4. Apart'
  BY DEF PageInvariant, Apart
<1> QED
  BY <1>2, <1>3, <1>4 DEF PageInvariant

\* The payer's page, but for signing.
LEMMA PayerKeeps ==
  ASSUME PageInvariant, UNCHANGED <<outbox, lastGot, sending, Got>>,
         current'.signed = current.signed, PageTypeOK',
         current'.tx.change \in Placed \cup {NoCoin},
         coins' \subseteq Placed, \A answer \in asking' : answer \subseteq Placed,
         (fetches'.came = fetches.came /\ coins' \subseteq coins) \/ fetches'.came > fetches.came
  PROVE  PageInvariant'
<1>1. Placed' = Placed
  BY DEF Placed
<1>2. PaymentsKnown' /\ CoinsPlaced'
  BY <1>1 DEF PageInvariant, PaymentsKnown, CoinsPlaced
<1>3. SpentIsGone'
  <2>1. fetches.came \in Nat /\ fetches'.came \in Nat
    BY DEF PageInvariant, PageTypeOK
  <2> SUFFICES ASSUME NEW i \in DOMAIN current.signed
               PROVE  /\ current.signed[i].reading <= fetches'.came
                      /\ current.signed[i].reading = fetches'.came =>
                           current.signed[i].tx.in \cap coins' = {}
    BY DEF SpentIsGone
  <2>2. /\ current.signed[i].reading \in Nat /\ current.signed[i].reading <= fetches.came
        /\ current.signed[i].reading = fetches.came => current.signed[i].tx.in \cap coins = {}
    BY DEF PageInvariant, SpentIsGone, PageTypeOK
  <2> QED
    BY <2>1, <2>2
<1> QED
  BY <1>2, <1>3, NothingSigned

\* The payee's page, and the network.
LEMMA PayeeKeeps ==
  ASSUME PageInvariant, UNCHANGED payerVars, List(outbox'),
         lastGot'.change \in Placed \cup {NoCoin},
         \A i \in DOMAIN outbox' : outbox'[i].tx.change \in Placed \cup {NoCoin},
         \A tx \in sending' \cup Got' : tx.change \in Placed \cup {NoCoin}
  PROVE  PageInvariant'
<1>1. UNCHANGED <<wallet, stored, coins, asking, current, fetches>>
  BY DEF payerVars
<1>2. Placed' = Placed
  BY <1>1 DEF Placed
<1>3. PageTypeOK'
  BY <1>1 DEF PageInvariant, PageTypeOK, List
<1>4. PaymentsKnown' /\ CoinsPlaced' /\ SpentIsGone'
  BY <1>1, <1>2 DEF PageInvariant, PaymentsKnown, CoinsPlaced, SpentIsGone
<1> QED
  BY <1>1, <1>3, <1>4, NothingSigned

LEMMA ListedKeeps ==
  ASSUME PageInvariant, NEW tx, tx.change \in Placed \cup {NoCoin}, AddToOutbox(tx)
  PROVE  List(outbox') /\ \A i \in DOMAIN outbox' : outbox'[i].tx.change \in Placed \cup {NoCoin}
<1>1. Entry(tx, MarkedSent(tx)).tx = tx
  BY DEF Entry
<1>2. List(outbox)
  BY DEF PageInvariant, PageTypeOK
<1>3. \A i \in DOMAIN outbox : outbox[i].tx.change \in Placed \cup {NoCoin}
  BY DEF PageInvariant, PaymentsKnown
<1> QED
  BY <1>1, <1>2, <1>3, AddedIsListed

LEMMA KnownArePlaced == PaymentsKnown => KnownCoins \subseteq Placed
BY SettlementAssumption DEF PaymentsKnown, KnownCoins, Placed

LEMMA PageKeeps ==
  ASSUME PageInvariant, PageNext
  PROVE  PageInvariant'
<1>1. /\ PageTypeOK /\ OwnChange /\ PaymentsKnown /\ CoinsPlaced /\ SpendsOwn /\ SpentIsGone /\ Apart
  BY DEF PageInvariant
<1>2. fetches.came \in Nat /\ fetches.asked \in Nat
  BY <1>1 DEF PageTypeOK
<1>3. NoPayment.change = NoCoin
  BY DEF NoPayment, Payment
<1>4. KnownCoins \subseteq Placed
  BY <1>1, KnownArePlaced
<1>5. ASSUME NEW w \in Wallets \cup {NoWallet}, wallet' = w, stored' = w, coins' = {},
             UNCHANGED <<asking, current, fetches, payeeVars, Got>>
      PROVE  PageInvariant'
  <2>1. UNCHANGED <<outbox, lastGot, sending, Got, current, asking, fetches>>
    BY <1>5 DEF payeeVars
  <2>2. PageTypeOK'
    BY <1>1, <1>5, <2>1 DEF PageTypeOK, List
  <2> QED
    BY <1>1, <1>5, <2>1, <2>2, PayerKeeps DEF PaymentsKnown, CoinsPlaced
<1>6. CASE (\E w \in Wallets : OpenWallet(w)) \/ Lock
  BY <1>5, <1>6 DEF OpenWallet, Lock
<1>7. CASE Reload
  <2>1. /\ wallet' = stored /\ coins' = {} /\ asking' = {}
        /\ current' = [current EXCEPT !.tx = NoPayment]
        /\ UNCHANGED <<stored, fetches, outbox, lastGot, sending, Got>>
    BY <1>7 DEF Reload, payeeVars
  <2>2. /\ current'.tx = NoPayment /\ current'.signed = current.signed
        /\ current' = [tx |-> current'.tx, signed |-> current'.signed]
    BY <1>1, <2>1 DEF PageTypeOK
  <2>3. PageTypeOK'
    BY <1>1, <2>1, <2>2 DEF PageTypeOK, List
  <2> QED
    BY <1>3, <2>1, <2>2, <2>3, PayerKeeps
<1>8. CASE AskCoins
  <2>1. /\ fetches' = [fetches EXCEPT !.asked = fetches.asked + 1]
        /\ asking' = asking \cup {{c \in Unspent : Owner(c) = wallet}}
        /\ UNCHANGED <<wallet, stored, coins, current, outbox, lastGot, sending, Got>>
    BY <1>8 DEF AskCoins, payeeVars
  <2>2. fetches'.came = fetches.came /\ PageTypeOK'
    BY <1>1, <1>2, <2>1 DEF PageTypeOK, List
  <2>3. \A answer \in asking' : answer \subseteq Placed
    BY <1>1, <1>4, <2>1 DEF CoinsPlaced, Unspent
  <2> QED
    BY <1>1, <2>1, <2>2, <2>3, PayerKeeps DEF PaymentsKnown, CoinsPlaced
<1>9. ASSUME NEW answer \in asking, CoinsAnswered(answer)
      PROVE  PageInvariant'
  <2>1. /\ coins' = answer /\ asking' = asking \ {answer}
        /\ fetches' = [fetches EXCEPT !.came = fetches.came + 1]
        /\ UNCHANGED <<wallet, stored, current, outbox, lastGot, sending, Got>>
    BY <1>9 DEF CoinsAnswered, payeeVars
  <2>2. fetches'.came > fetches.came /\ PageTypeOK'
    BY <1>1, <1>2, <2>1 DEF PageTypeOK, List
  <2> QED
    BY <1>1, <2>1, <2>2, PayerKeeps DEF PaymentsKnown, CoinsPlaced
<1>10. CASE PasteFunding
  <2>1. /\ fetches' = [asked |-> fetches.asked + 1, came |-> fetches.came + 1]
        /\ \E c \in KnownCoins \ coins : coins' = coins \cup {c}
        /\ UNCHANGED <<wallet, stored, asking, current, outbox, lastGot, sending, Got>>
    BY <1>10 DEF PasteFunding, payeeVars
  <2>2. fetches'.came > fetches.came /\ PageTypeOK'
    BY <1>1, <1>2, <2>1 DEF PageTypeOK, List
  <2>3. coins' \subseteq Placed
    BY <1>1, <1>4, <2>1 DEF CoinsPlaced
  <2> QED
    BY <1>1, <2>1, <2>2, <2>3, PayerKeeps DEF PaymentsKnown, CoinsPlaced
<1>11. CASE Sign
  <2> DEFINE change == ChangeCoin(Len(current.signed) + 1)
  <2>1. PICK c \in Mine, to \in Payees :
          /\ Loaded(Payment({c}, to, change, TRUE), wallet)
          /\ coins' = CoinsAfter(c, change)
    BY <1>11 DEF Sign
  <2>2. /\ Len(current.signed) < MaxSigned
        /\ UNCHANGED <<wallet, stored, asking, fetches, outbox, lastGot, sending, Got>>
    BY <1>11 DEF Sign, payeeVars
  <2> DEFINE tx == Payment({c}, to, change, TRUE)
  <2>3. tx.in = {c} /\ tx.change = change
    BY DEF Payment
  <2>4. c \in coins /\ Owner(c) = wallet /\ c \in Placed
    BY <1>1 DEF Mine, CoinsPlaced
  <2>5. change # NoCoin
    BY <1>1, <2>2, NextChangeIsFresh
  <2>6. coins' \subseteq (coins \ {c}) \cup {change}
    BY <2>1 DEF CoinsAfter
  <2>7. wallet \in Wallets \cup {NoWallet}
    BY <1>1 DEF PageTypeOK
  <2>8. Loaded(tx, wallet)
    BY <2>1
  <2>9. tx.change \in {NoCoin, ChangeCoin(Len(current.signed) + 1)}
    BY <2>3
  <2> HIDE DEF tx, change
  <2>10. /\ tx.in \subseteq coins \cup {DemoCoin}
         /\ wallet # NoWallet => \A d \in tx.in : d \in Placed /\ Owner(d) = wallet
         /\ coins' \subseteq (coins \ tx.in) \cup ({tx.change} \ {NoCoin})
    BY <2>3, <2>4, <2>5, <2>6
  <2> QED
    BY <2>2, <2>7, <2>8, <2>9, <2>10, SigningKeeps
<1>12. CASE Demo
  <2>1. PICK to \in Payees \ {Me} : Loaded(Payment({DemoCoin}, to, NoCoin, TRUE), NoWallet)
    BY <1>12 DEF Demo
  <2>2. /\ Len(current.signed) < MaxSigned
        /\ UNCHANGED <<wallet, stored, coins, asking, fetches, outbox, lastGot, sending, Got>>
    BY <1>12 DEF Demo, payeeVars
  <2> DEFINE tx == Payment({DemoCoin}, to, NoCoin, TRUE)
  <2>3. tx.in = {DemoCoin} /\ tx.change = NoCoin
    BY DEF Payment
  <2>4. Loaded(tx, NoWallet)
    BY <2>1
  <2>5. DemoCoin \notin coins
    BY <1>1, PlacedIsReal DEF CoinsPlaced
  <2> HIDE DEF tx
  <2>6. /\ tx.in \subseteq coins \cup {DemoCoin}
        /\ coins' \subseteq (coins \ tx.in) \cup ({tx.change} \ {NoCoin})
        /\ tx.change \in {NoCoin, ChangeCoin(Len(current.signed) + 1)}
    BY <2>2, <2>3, <2>5
  <2> DEFINE by == NoWallet
  <2>7. by \in Wallets \cup {NoWallet} /\ ~(by # NoWallet) /\ Loaded(tx, by)
    BY <2>4
  <2> HIDE DEF by
  <2> QED
    BY <2>2, <2>6, <2>7, SigningKeeps
<1>13. CASE BroadcastPay
  <2>1. PICK o \in Outcomes(current.tx) : taken' = o.taken /\ early' = o.early
    BY <1>13 DEF BroadcastPay, Reached
  <2>2. Got' \subseteq Got \cup {current.tx}
    BY <2>1, OutcomeIsSo
  <2>3. UNCHANGED payerVars /\ UNCHANGED <<outbox, lastGot, sending>>
    BY <1>13 DEF BroadcastPay, pageVars, payerVars
  <2>4. List(outbox')
    BY <1>1, <2>3 DEF PageTypeOK, List
  <2> QED
    BY <1>1, <2>2, <2>3, <2>4, PayeeKeeps DEF PaymentsKnown
<1>14. ASSUME UNCHANGED payerVars, UNCHANGED <<sending, Got>>,
              lastGot' \in {lastGot, current.tx},
              outbox' = outbox \/ \E tx : tx.change \in Placed \cup {NoCoin} /\ AddToOutbox(tx)
       PROVE  PageInvariant'
  <2>1. List(outbox') /\ \A i \in DOMAIN outbox' : outbox'[i].tx.change \in Placed \cup {NoCoin}
    <3>1. CASE outbox' = outbox
      BY <1>1, <3>1 DEF PageTypeOK, List, PaymentsKnown
    <3> QED
      BY <1>14, <3>1, ListedKeeps
  <2> QED
    BY <1>1, <1>14, <2>1, PayeeKeeps DEF PaymentsKnown
<1>15. CASE Receive \/ ForwardAnyway \/ SweepBearer
  <2>1. Payment({BearerCoin}, Me, NoCoin, TRUE).change = NoCoin
    BY DEF Payment
  <2> QED
    BY <1>1, <1>14, <1>15, <2>1 DEF Receive, ForwardAnyway, SweepBearer, PaymentsKnown
<1>16. ASSUME NEW e \in Range(outbox), RemoveEntry(e.tx) \/ BroadcastEntry(e.tx)
       PROVE  PageInvariant'
  <2>1. e.tx.change \in Placed \cup {NoCoin}
    BY <1>1 DEF Range, PaymentsKnown
  <2>2. UNCHANGED payerVars /\ UNCHANGED <<lastGot, Got>>
    BY <1>16 DEF RemoveEntry, BroadcastEntry
  <2>3. sending' \subseteq sending \cup {e.tx} /\ outbox' \in {outbox, Others(e.tx)}
    BY <1>16 DEF RemoveEntry, BroadcastEntry
  <2>4. List(outbox) /\ \A i \in DOMAIN outbox : outbox[i].tx.change \in Placed \cup {NoCoin}
    BY <1>1 DEF PageTypeOK, PaymentsKnown
  <2>5. List(Others(e.tx)) /\ \A i \in DOMAIN Others(e.tx) : Others(e.tx)[i].tx.change \in Placed \cup {NoCoin}
    BY <2>4, OthersAreListed
  <2>6. List(outbox') /\ \A i \in DOMAIN outbox' : outbox'[i].tx.change \in Placed \cup {NoCoin}
    BY <2>3, <2>4, <2>5
  <2> QED
    BY <1>1, <2>1, <2>2, <2>3, <2>6, PayeeKeeps DEF PaymentsKnown
<1>17. ASSUME NEW tx \in sending, EntryAnswered(tx)
       PROVE  PageInvariant'
  <2>1. PICK o \in Outcomes(tx) :
          /\ taken' = o.taken /\ early' = o.early
          /\ outbox' = [i \in DOMAIN outbox |->
               IF outbox[i].tx = tx /\ Verdict(o.answer) THEN Entry(tx, TRUE) ELSE outbox[i]]
    BY <1>17 DEF EntryAnswered
  <2>2. Got' \subseteq Got \cup {tx}
    BY <2>1, OutcomeIsSo
  <2>3. Len(outbox) \in Nat /\ DOMAIN outbox = 1 .. Len(outbox)
    BY <1>1, ListIsIndexed DEF PageTypeOK
  <2>4. outbox' = [i \in 1 .. Len(outbox) |-> outbox'[i]]
    BY <2>1, <2>3
  <2>5. List(outbox')
    BY <2>3, <2>4, ListOf
  <2>6. \A i \in DOMAIN outbox' : i \in DOMAIN outbox /\ outbox'[i].tx \in {tx, outbox[i].tx}
    BY <2>1 DEF Entry
  <2>7. UNCHANGED payerVars /\ lastGot' = lastGot /\ sending' \subseteq sending
    BY <1>17 DEF EntryAnswered
  <2>8. \A i \in DOMAIN outbox' : outbox'[i].tx.change \in Placed \cup {NoCoin}
    BY <1>1, <2>6 DEF PaymentsKnown
  <2> QED
    BY <1>1, <2>2, <2>5, <2>7, <2>8, PayeeKeeps DEF PaymentsKnown
<1> QED
  BY <1>6, <1>7, <1>8, <1>9, <1>10, <1>11, <1>12, <1>13, <1>15, <1>16, <1>17 DEF PageNext

\* Only the page signs.
PageOrNothing ==
  /\ service = "page" => PageInvariant
  /\ service # "page" => current.signed = <<>>

LEMMA PageStart == Init => PageOrNothing
<1> SUFFICES ASSUME Init PROVE PageOrNothing
  OBVIOUS
<1>1. /\ wallet = NoWallet /\ stored = NoWallet /\ coins = {} /\ asking = {}
      /\ fetches = [asked |-> 0, came |-> 0]
      /\ current = [tx |-> NoPayment, signed |-> <<>>]
      /\ outbox = <<>> /\ lastGot = NoPayment /\ sending = {} /\ Got = {}
  BY DEF Init, PageInit
<1>2. List(<<>>) /\ Len(<<>>) = 0 /\ DOMAIN <<>> = {} /\ MaxSigned \in Nat
  BY EmptySeq, HandoffAssumption DEF List
<1>3. NoPayment.change = NoCoin
  BY DEF NoPayment, Payment
<1>4. current.signed = <<>> /\ current.tx = NoPayment
  BY <1>1
<1>5. PageTypeOK
  BY <1>1, <1>2, <1>4 DEF PageTypeOK
<1>6. DOMAIN current.signed = {} /\ DOMAIN outbox = {}
  BY <1>1, <1>2, <1>4
<1>7. OwnChange /\ SpendsOwn /\ SpentIsGone /\ Apart
  BY <1>6 DEF OwnChange, SpendsOwn, SpentIsGone, Apart
<1>8. PaymentsKnown /\ CoinsPlaced
  BY <1>1, <1>3, <1>4, <1>6 DEF PaymentsKnown, CoinsPlaced
<1> QED
  BY <1>4, <1>5, <1>7, <1>8 DEF PageOrNothing, PageInvariant

LEMMA PageStep == PageOrNothing /\ [Next]_vars => PageOrNothing'
<1> SUFFICES ASSUME PageOrNothing, [Next]_vars PROVE PageOrNothing'
  OBVIOUS
<1>1. CASE Page
  <2>1. PageNext /\ service = "page" /\ service' = service
    BY <1>1 DEF Page
  <2> QED
    BY <2>1, PageKeeps DEF PageOrNothing
<1>2. CASE (Radio \/ Text) /\ service # "page"
  <2>1. UNCHANGED <<current, service>>
    BY <1>2 DEF Radio, Text, pageVars
  <2> QED
    BY <1>2, <2>1 DEF PageOrNothing
<1>3. CASE UNCHANGED vars
  <2>1. UNCHANGED payerVars /\ UNCHANGED <<outbox, lastGot, sending, Got, current, service>>
    BY <1>3 DEF vars, pageVars, payerVars
  <2>2. PageInvariant => PageInvariant'
    <3>1. PageInvariant =>
            /\ List(outbox') /\ lastGot'.change \in Placed \cup {NoCoin}
            /\ \A i \in DOMAIN outbox' : outbox'[i].tx.change \in Placed \cup {NoCoin}
            /\ \A tx \in sending' \cup Got' : tx.change \in Placed \cup {NoCoin}
      BY <2>1 DEF PageInvariant, PageTypeOK, PaymentsKnown, List
    <3> QED
      BY <2>1, <3>1, PayeeKeeps
  <2> QED
    BY <2>1, <2>2 DEF PageOrNothing
<1>4. Radio \/ Text => service # "page"
  BY DEF Radio, Text
<1>5. CASE Network
  <2>1. /\ Got' = Got /\ UNCHANGED payerVars
        /\ UNCHANGED <<outbox, lastGot, sending, current, service>>
    BY <1>5, DecisionAddsNone DEF Network, pageVars, payerVars
  <2>2. PageInvariant => PageInvariant'
    <3>1. PageInvariant =>
            /\ List(outbox') /\ lastGot'.change \in Placed \cup {NoCoin}
            /\ \A i \in DOMAIN outbox' : outbox'[i].tx.change \in Placed \cup {NoCoin}
            /\ \A tx \in sending' \cup Got' : tx.change \in Placed \cup {NoCoin}
      BY <2>1 DEF PageInvariant, PageTypeOK, PaymentsKnown, List
    <3> QED
      BY <2>1, <3>1, PayeeKeeps
  <2> QED
    BY <2>1, <2>2 DEF PageOrNothing
<1> QED
  BY <1>1, <1>2, <1>3, <1>4, <1>5 DEF Next

\* Payments signed on the page from one reading of the coins spend different
\* coins, of the key that signed them (app.mjs:230-243): what a payment spent is off the page until the coins are
\* read anew, whatever answers were under way, and a change is its signer's.
THEOREM PaymentsSpendApart == Spec => []HandedOverApart
<1>1. PageOrNothing => HandedOverApart
  <2>1. PageInvariant => HandedOverApart
    BY DEF PageInvariant, SpendsOwn, Apart, HandedOverApart
  <2>2. current.signed = <<>> => HandedOverApart
    <3>1. DOMAIN <<>> = {}
      BY EmptySeq
    <3> QED
      BY <3>1 DEF HandedOverApart
  <2> QED
    BY <2>1, <2>2 DEF PageOrNothing
<1> QED
  BY <1>1, PageStart, PageStep, PTL DEF Spec
=============================================================================
