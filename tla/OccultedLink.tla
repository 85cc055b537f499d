----------------------------- MODULE OccultedLink -----------------------------
(***************************************************************************)
(* The simulated path of transport/sim.mjs: source, two relays, and a      *)
(* destination, with an outage on the link between the relays, jitter and  *)
(* loss; and the gap object (agent/lib/gap.mjs) that accounts for what was *)
(* late or missing. Jitter and loss are pseudo-random there, choices here. *)
(***************************************************************************)
EXTENDS Integers, Sequences, FiniteSets, FiniteSetsExt, SequencesExt

CONSTANTS
  SimBundles, Stagger, ProcessTime, LinkDelay, SimJitters,
  DownAt, UpAt,    \* the outage of the second link
  MaxSimLosses     \* bound

VARIABLES
  simTurn,     \* the bundle under way
  simHop,      \* links it has crossed
  simTime,     \* when it leaves
  simCustody,  \* by bundle, its receipts
  simArrivals, \* the bundles that arrived, with their times
  simDelayed, simLost

simVars == <<simTurn, simHop, simTime, simCustody, simArrivals, simDelayed, simLost>>

Occulted == 2

\* Fault: a bundle that leaves when the outage begins still gets across.
CrossAtLate(link, t) == IF link = Occulted /\ DownAt < t /\ t < UpAt THEN UpAt ELSE t

\* held
CrossAt(link, t) == IF link = Occulted /\ DownAt <= t /\ t < UpAt THEN UpAt ELSE t

SimInit ==
  /\ simTurn = 1 /\ simHop = 0 /\ simTime = 0
  /\ simCustody = [b \in 1 .. SimBundles |-> <<>>]
  /\ simArrivals = <<>> /\ simDelayed = {} /\ simLost = {}

\* The next bundle sets out.
NextBundle ==
  /\ simTurn' = simTurn + 1 /\ simHop' = 0
  /\ simTime' = simTurn * Stagger

Late(t) == simDelayed' = simDelayed \cup (IF CrossAt(simHop + 1, t) # t THEN {simTurn} ELSE {})

SimLose ==
  /\ simTurn <= SimBundles /\ Cardinality(simLost) < MaxSimLosses
  /\ Late(simTime)
  /\ simLost' = simLost \cup {simTurn}
  /\ NextBundle
  /\ UNCHANGED <<simCustody, simArrivals>>

\* One link: to a relay, which stamps the bundle, or to the destination.
SimCross ==
  /\ simTurn <= SimBundles
  /\ Late(simTime)
  /\ \E jitter \in SimJitters :
       LET arrival == CrossAt(simHop + 1, simTime) + LinkDelay + jitter
           receipt == [relay |-> simHop + 1, receivedAt |-> arrival, forwardedAt |-> arrival + ProcessTime]
       IN  IF simHop < 2
           THEN /\ simCustody' = [simCustody EXCEPT ![simTurn] = Append(@, receipt)]
                /\ simHop' = simHop + 1 /\ simTime' = receipt.forwardedAt
                /\ UNCHANGED <<simTurn, simArrivals>>
           ELSE /\ simArrivals' = Append(simArrivals, [bundle |-> simTurn, at |-> arrival])
                /\ NextBundle
                /\ UNCHANGED simCustody
  /\ UNCHANGED simLost

SimNext == SimCross \/ SimLose

\* In order of arrival, of two that arrive together the first sent.
ArrivalOrder ==
  SortSeq(simArrivals, LAMBDA a, b : a.at < b.at \/ (a.at = b.at /\ a.bundle < b.bundle))

\* gapObject: the first outage of the link in its log, and whom it touched.
OutageGap(events, delayed, lost) ==
  LET down == SelectSeq(events, LAMBDA e : e.event = "down")
      up == SelectSeq(events, LAMBDA e : e.event = "up" /\ (down # <<>> => e.t >= down[1].t))
  IN  [downAt |-> IF down = <<>> THEN <<>> ELSE <<down[1].t>>,
       upAt |-> IF up = <<>> THEN <<>> ELSE <<up[1].t>>,
       delayed |-> delayed, lost |-> lost]

SimGap ==
  OutageGap(<<[event |-> "down", t |-> DownAt], [event |-> "up", t |-> UpAt]>>, simDelayed, simLost)

-----------------------------------------------------------------------------

\* The gap object leaves no silence unexplained ("silence is documented",
\* gap.mjs:1-4): at the end every bundle has come out once or is in it as
\* lost; every bundle that left for the outage crossed only after it and is in
\* it as delayed, nobody else is; and a bundle that took longer over the link
\* than jitter explains is.
OutageExplained ==
  LET out == ToSet(ArrivalOrder)
      sent == {b \in 1 .. SimBundles : b < simTurn}
      left(b) == simCustody[b][1].forwardedAt
      ready == {b \in 1 .. SimBundles : Len(simCustody[b]) >= 1 /\ (b < simTurn \/ simHop >= 2)}
      crossed == {b \in ready : Len(simCustody[b]) >= 2}
  IN  /\ Len(simArrivals) = Cardinality(out)
      /\ {a.bundle : a \in out} = sent \ SimGap.lost /\ SimGap.lost \subseteq sent
      /\ \A i \in 2 .. Len(simArrivals) : ArrivalOrder[i - 1].at <= ArrivalOrder[i].at
      /\ \A b \in ready :
           (SimGap.downAt[1] <= left(b) /\ left(b) < SimGap.upAt[1]) <=> b \in SimGap.delayed
      /\ \A b \in crossed :
           LET took == simCustody[b][2].receivedAt - left(b)
           IN  /\ b \in SimGap.delayed => simCustody[b][2].receivedAt >= SimGap.upAt[1] + LinkDelay
               /\ took > LinkDelay + Max(SimJitters) => b \in SimGap.delayed
=============================================================================
