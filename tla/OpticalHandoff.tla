--------------------------- MODULE OpticalHandoff ---------------------------
(***************************************************************************)
(* A handoff between optical links (constellation/optical-isl.mjs): A to B *)
(* in one plane, B to C across planes until the handoff, then B to C2 once *)
(* it is acquired, and on to D. Links fade; what a fade cuts is sent again *)
(* on the next interval. C2 keeps no custody, and C changes the content of *)
(* one bundle. The ground audits a sample twice: by the receipts in the    *)
(* bundle and by the batch receipts of the contacts.                       *)
(*                                                                         *)
(* Fades are random draws there, choices among a few here. A receipt keeps *)
(* what the audits read of it; hashes and signatures are left out.         *)
(***************************************************************************)
EXTENDS Integers, Sequences, FiniteSets, FiniteSetsExt, SequencesExt

CONSTANTS
  IslTotal, IslGap, IslTx,  \* bundles, the time between two, the time of one on a link
  SampleEvery, IslTampered, \* sampled bundles, and the one C changes
  HandoffAt, AcqTime, IslEnd,
  IslFades                  \* sequences of [after, for]: how a link may fade

VARIABLES
  islUp,       \* by link, the intervals in which it is up
  islFree,     \* by link, when it has sent what it was given
  islNext,     \* the bundle whose turn it is
  islContacts, \* the batches of the custodians
  islSamples   \* the sampled bundles that reached the ground

islVars == <<islUp, islFree, islNext, islContacts, islSamples>>

Custodial == {"A", "B", "C", "D"}
Origin == "origin"
Fading == {"AB", "BC", "BC2", "CD", "C2D"}
IslLinks == Fading \cup {"SA", "DG"}
SenderOn == [SA |-> Origin, AB |-> "A", BC |-> "B", BC2 |-> "B", CD |-> "C", C2D |-> "C2", DG |-> "D"]
ReceiverOn == [SA |-> "A", AB |-> "B", BC |-> "C", BC2 |-> "C2", CD |-> "D", C2D |-> "D"]

\* upIntervals: [from, to) without the fades.
UpIntervals(from, to, fades) ==
  LET drawn == FoldLeft(LAMBDA s, fade :
                          LET at == s.t + fade.after
                          IN  IF at >= to THEN s
                              ELSE [t |-> Min({to, at + fade.for}),
                                    up |-> IF at > s.t THEN Append(s.up, <<s.t, at>>) ELSE s.up],
                        [t |-> from, up |-> <<>>], fades)
  IN  IF drawn.t < to THEN Append(drawn.up, <<drawn.t, to>>) ELSE drawn.up

IslFrom(l) == IF l = "BC2" THEN HandoffAt + AcqTime ELSE 0
IslTo(l) == IF l = "BC" THEN HandoffAt ELSE IslEnd

\* send: on the first interval that it fits in; <<>> if there is none.
Send(l, at) ==
  LET start(i) == Max({at, islFree[l], islUp[l][i][1]})
      fits == {i \in DOMAIN islUp[l] : start(i) + IslTx <= islUp[l][i][2]}
  IN  IF fits = {} THEN <<>> ELSE <<[end |-> start(Min(fits)) + IslTx, contact |-> Min(fits)]>>

Stop(l, x) ==
  [link |-> l, node |-> ReceiverOn[l], prev |-> SenderOn[l], contact |-> x.contact, at |-> x.end]

\* Fault: the contacts of two neighbours share their numbers.
ContactKeyByNumber(stop) == <<stop.node, stop.contact>>

ContactKey(stop) == <<stop.node, stop.prev, stop.contact>>

\* hold: the bundle joins the batch of its contact.
Hold(contacts, stop, b, content) ==
  LET new == [key |-> ContactKey(stop), this |-> stop.node, prev |-> stop.prev,
              window |-> islUp[stop.link][stop.contact], from |-> stop.at, to |-> stop.at,
              leaves |-> <<>>]
      old == {c \in contacts : c.key = new.key}
      c == IF old = {} THEN new ELSE CHOOSE o \in old : TRUE
  IN  (contacts \ old)
        \cup {[c EXCEPT !.leaves = Append(@, <<b, content>>), !.to = Max({@, stop.at})]}

Sampled(b) == b % SampleEvery = 0

\* stampAt: a custodian holds the bundle, and signs for what it passes on;
\* C changes one content in between. Only samples carry bytes.
StampAt(s, stop, b) ==
  LET content == IF stop.node = "C" /\ b = IslTampered /\ Sampled(b) THEN "changed" ELSE s.content
      receipt == [this |-> stop.node, prev |-> stop.prev, content |-> content]
      visited == [s EXCEPT !.path = Append(@, stop.node)]
  IN  IF stop.node \notin Custodial THEN visited
      ELSE [visited EXCEPT !.contacts = Hold(@, stop, b, s.content), !.content = content,
                           !.receipts = IF Sampled(b) THEN Append(@, receipt) ELSE @]

\* One bundle over its hops: to C as long as there is a place on that link,
\* else to C2; without a place there either it stays with B.
CarryBundle ==
  LET b == islNext
      sa == Head(Send("SA", b * IslGap))
      ab == Head(Send("AB", sa.end))
      across == IF Send("BC", ab.end) # <<>> THEN "BC" ELSE "BC2"
      x == Send(across, ab.end)
      out == IF across = "BC" THEN "CD" ELSE "C2D"
      down == Head(Send(out, Head(x).end))
      stops == <<Stop("SA", sa), Stop("AB", ab)>>
                 \o IF x = <<>> THEN <<>> ELSE <<Stop(across, Head(x)), Stop(out, down)>>
      ends == [l \in {stops[i].link : i \in DOMAIN stops} |->
                 (CHOOSE stop \in ToSet(stops) : stop.link = l).at]
      s == FoldLeft(LAMBDA acc, stop : StampAt(acc, stop, b),
                    [contacts |-> islContacts, content |-> "sent", receipts |-> <<>>, path |-> <<>>],
                    stops)
      sample == [bundle |-> b, content |-> s.content, receipts |-> s.receipts, path |-> s.path]
  IN  /\ b < IslTotal
      /\ islNext' = b + 1
      /\ islFree' = [l \in IslLinks |->
                       IF l \in DOMAIN ends THEN ends[l]
                       ELSE IF l = "DG" /\ x # <<>> THEN Head(Send(l, down.end)).end ELSE islFree[l]]
      /\ islContacts' = s.contacts
      /\ islSamples' = islSamples \cup (IF x # <<>> /\ Sampled(b) THEN {sample} ELSE {})
      /\ UNCHANGED islUp

IslInit ==
  /\ \E fades \in [Fading -> IslFades] :
       islUp = [l \in IslLinks |-> UpIntervals(IslFrom(l), IslTo(l), IF l \in Fading THEN fades[l] ELSE <<>>)]
  /\ islFree = [l \in IslLinks |-> 0]
  /\ islNext = 0 /\ islContacts = {} /\ islSamples = {}

IslStep == CarryBundle

-----------------------------------------------------------------------------
(* The audits.                                                             *)

\* By the receipts in the bundle (verifyBundleV2).
BundleAudit(s) ==
  LET before(i) == IF i = 1 THEN Origin ELSE s.receipts[i - 1].this
  IN  IF \E i \in DOMAIN s.receipts : s.receipts[i].content # s.content THEN "changed"
      ELSE IF Last(s.receipts).this # "D" \/ \E i \in DOMAIN s.receipts : s.receipts[i].prev # before(i)
      THEN "gap" ELSE "complete"

\* The batch receipts with a proof for the bundle, in the order of the nodes.
BatchEntries(s) ==
  LET of(n) == {c \in islContacts : c.this = n /\ \E i \in DOMAIN c.leaves : c.leaves[i][1] = s.bundle}
      nodes == SelectSeq(<<"A", "B", "C", "D">>, LAMBDA n : of(n) # {})
  IN  [i \in DOMAIN nodes |->
         LET c == CHOOSE c \in of(nodes[i]) : TRUE
         IN  [this |-> c.this, prev |-> c.prev, inTree |-> <<s.bundle, s.content>> \in ToSet(c.leaves)]]

\* One step of the walk along the receipts: the one for the node at hand, else,
\* over a gap, one whose sender signed for nothing that is left.
WalkOn(w) ==
  LET after == {i \in DOMAIN w.left : w.left[i].prev = w.at}
      orphans == {i \in DOMAIN w.left : \A j \in DOMAIN w.left : w.left[j].this # w.left[i].prev}
      i == IF after # {} THEN Min(after) ELSE IF orphans # {} THEN Min(orphans) ELSE 1
  IN  [at |-> w.left[i].this, left |-> RemoveAt(w.left, i), gap |-> w.gap \/ after = {}]

BatchAudit(s) ==
  LET entries == BatchEntries(s)
      walk == FoldLeft(LAMBDA w, e : WalkOn(w), [at |-> Origin, left |-> entries, gap |-> FALSE], entries)
  IN  IF \E i \in DOMAIN entries : ~entries[i].inTree THEN "changed"
      ELSE IF walk.gap \/ walk.at # "D" THEN "gap" ELSE "complete"

\* Both audits say of every sampled bundle what became of it: changed by C, a
\* gap where the relay without custody had it, or complete; whatever faded and
\* was sent again, however long it waited for the handoff. And what a batch
\* receipt covers was received in the contact that it names, one bundle after
\* another (optical-isl.mjs:16-29).
AuditsAgree ==
  /\ \A s \in islSamples :
       LET truth == IF s.bundle = IslTampered /\ "C" \in ToSet(s.path) THEN "changed"
                    ELSE IF "C2" \in ToSet(s.path) THEN "gap" ELSE "complete"
       IN  BundleAudit(s) = truth /\ BatchAudit(s) = truth
  /\ \A c \in islContacts :
       /\ c.window[1] + IslTx <= c.from /\ c.to <= c.window[2]
       /\ c.to - c.from >= (Len(c.leaves) - 1) * IslTx
=============================================================================
