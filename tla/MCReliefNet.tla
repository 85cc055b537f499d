---------------------------- MODULE MCReliefNet ----------------------------
(* A clinic, two relays in a row and the hub; the payout tool, two runs of *)
(* it at a time, with two outputs to pay from, handoffs h1 and h2 of relays*)
(* with an address and h3 of one without; and the region, of a clinic, two *)
(* districts of two couriers each, two days and two ways to spoil the      *)
(* evidence. None of them waits for another, so a behaviour follows one.   *)
EXTENDS ReliefNet, ReliefPayout, ReliefRegion, TLC

CONSTANTS clinic, r1, r2, hubNode, p1, Parts

MCNodes == {clinic, r1, r2, hubNode}
MCClinics == {clinic}
MCRelays == {r1, r2}
MCNextHop == (clinic :> r1) @@ (r1 :> r2) @@ (r2 :> hubNode)

MCLastRelay == {r2}

MCOnePayload == {p1}
MCClinicOf == [id \in Payloads |-> clinic]
MCOneChunk == [id \in Payloads |-> 1]
MCTwoChunks == [id \in Payloads |-> 2]
MCOpens == [id \in Payloads |-> TRUE]

VARIABLE part

MCvars == <<vars, payoutVars, regionVars, part>>

MCInit == Init /\ PayoutInit /\ RegionInit /\ part \in Parts

NetPart == part = "net" /\ Next /\ UNCHANGED <<payoutVars, regionVars, part>>
PayoutPart == part = "payout" /\ PayoutNext /\ UNCHANGED <<vars, regionVars, part>>
RegionPart == part = "region" /\ RegionNext /\ UNCHANGED <<vars, payoutVars, part>>

InNet(A) == part = "net" /\ A /\ UNCHANGED <<payoutVars, regionVars, part>>

\* Fair as FairSpec of the network of frames is.
MCSpec ==
  /\ MCInit /\ [][NetPart \/ PayoutPart \/ RegionPart]_MCvars
  /\ WF_MCvars(InNet(Clinic)) /\ WF_MCvars(InNet(Relay)) /\ WF_MCvars(InNet(HubActs))
=============================================================================
