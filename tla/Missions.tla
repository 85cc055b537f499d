------------------------------ MODULE Missions ------------------------------
(***************************************************************************)
(* The custody machinery and the runs built on it: bundles over a          *)
(* constellation whose routes the ground rebuilds (Constellation), the     *)
(* payments of such a run (ChainPayments), the four-process spike (Spike), *)
(* the trees of records and their roots (MerkleTrees), the key ring a      *)
(* spacecraft keeps (FlightKeyring), a bundle stamped while it arrives     *)
(* (BundleStream), a mission to a Voyager (LongHaul), and the programs     *)
(* that account for what others carried: the audits after an optical       *)
(* handoff (OpticalHandoff), the receipts a spacecraft writes to files     *)
(* (CfsCustody), the gap object of the simulated path (OccultedLink), the  *)
(* ledgers of two ground stations (StationLedgers) and the attribution of  *)
(* lost IP packets (PacketBlame); and the gateway's reassembly of pieces   *)
(* that overlap (Reassembly).  They are programs of their own that share no*)
(* state, so a behaviour follows one of them; the others stay in a start   *)
(* of theirs.                                                              *)
(***************************************************************************)
EXTENDS Constellation, ChainPayments, Spike, MerkleTrees, FlightKeyring, BundleStream, LongHaul,
        OpticalHandoff, CfsCustody, OccultedLink, StationLedgers, PacketBlame, Reassembly

-----------------------------------------------------------------------------
(* The programs that account.                                              *)

VARIABLE audit

auditVars == <<islVars, cfsVars, simVars, groundVars, blameVars, audit>>

AuditInit ==
  /\ audit \in {"optical", "cfs", "path", "stations", "packets"}
  /\ IslInit /\ (audit # "optical" => \A l \in Fading : Len(islUp[l]) = 1)
  /\ CfsInit /\ (audit # "cfs" => keyFile = NoSeed /\ app.tested)
  /\ SimInit
  /\ GroundInit /\ (audit # "stations" => schedule = [s \in GroundStations |-> CHOOSE p \in Schedules[s] : TRUE])
  /\ BlameInit /\ (audit # "packets" => linkEvents = [l \in IpLinks |-> <<>>])

AuditNext ==
  /\ UNCHANGED audit
  /\ \/ audit = "optical" /\ IslStep /\ UNCHANGED <<cfsVars, simVars, groundVars, blameVars>>
     \/ audit = "cfs" /\ CfsNext /\ UNCHANGED <<islVars, simVars, groundVars, blameVars>>
     \/ audit = "path" /\ SimNext /\ UNCHANGED <<islVars, cfsVars, groundVars, blameVars>>
     \/ audit = "stations" /\ GroundNext /\ UNCHANGED <<islVars, cfsVars, simVars, blameVars>>
     \/ audit = "packets" /\ BlameNext /\ UNCHANGED <<islVars, cfsVars, simVars, groundVars>>

\* What others carried, or did not, is accounted for: by the audits after an
\* optical handoff, by the gap object of the simulated path, by the passes of
\* two stations' ledgers, and by the attribution of the packets that reached no
\* application and the gap records of their links.
SilenceExplained == AuditsAgree /\ OutageExplained /\ LedgersTell /\ LastIsBlamed /\ OutagesAreOnRecord

-----------------------------------------------------------------------------
(* All of them.                                                            *)

VARIABLE mission

vars == <<flight, payvars, spikeVars, treeVars, flightVars, streamVars, haulVars, auditVars, pieceVars, mission>>

\* The starts of the others that a behaviour does not follow are fixed.
Init ==
  /\ mission \in {"constellation", "payments", "spike", "trees", "keyring", "stream", "voyager", "audits",
                 "pieces"}
  /\ FlightInit /\ (mission # "constellation" => links = "rf")
  /\ PayInit
  /\ SpikeInit /\ (mission # "spike" => way = "tcp" /\ occulted = 0)
  /\ TreeInit
  /\ RingInit
  /\ StreamInit /\ (mission # "stream" => original = CHOOSE o \in Originals : TRUE)
  /\ (mission # "stream" => wire = Encode(original))
  /\ HaulInit /\ (mission # "voyager" => missed = {} /\ direction = "down")
  /\ AuditInit /\ (mission # "audits" => audit = "path")
  /\ PieceInit

Fly ==
  /\ mission = "constellation" /\ FlightNext
  /\ UNCHANGED <<payvars, spikeVars, treeVars, flightVars, streamVars, haulVars, auditVars, pieceVars, mission>>

PayUp ==
  /\ mission = "payments" /\ PayNext
  /\ UNCHANGED <<flight, spikeVars, treeVars, flightVars, streamVars, haulVars, auditVars, pieceVars, mission>>

RunSpike ==
  /\ mission = "spike" /\ SpikeNext
  /\ UNCHANGED <<flight, payvars, treeVars, flightVars, streamVars, haulVars, auditVars, pieceVars, mission>>

GrowTree ==
  /\ mission = "trees" /\ TreeNext
  /\ UNCHANGED <<flight, payvars, spikeVars, flightVars, streamVars, haulVars, auditVars, pieceVars, mission>>

KeepKeys ==
  /\ mission = "keyring" /\ RingNext
  /\ UNCHANGED <<flight, payvars, spikeVars, treeVars, streamVars, haulVars, auditVars, pieceVars, mission>>

Stamp ==
  /\ mission = "stream" /\ StreamNext
  /\ UNCHANGED <<flight, payvars, spikeVars, treeVars, flightVars, haulVars, auditVars, pieceVars, mission>>

Haul ==
  /\ mission = "voyager" /\ HaulNext
  /\ UNCHANGED <<flight, payvars, spikeVars, treeVars, flightVars, streamVars, auditVars, pieceVars, mission>>

Account ==
  /\ mission = "audits" /\ AuditNext
  /\ UNCHANGED <<flight, payvars, spikeVars, treeVars, flightVars, streamVars, haulVars, pieceVars, mission>>

PutTogether ==
  /\ mission = "pieces" /\ PieceNext
  /\ UNCHANGED <<flight, payvars, spikeVars, treeVars, flightVars, streamVars, haulVars, auditVars, mission>>

Next == Fly \/ PayUp \/ RunSpike \/ GrowTree \/ KeepKeys \/ Stamp \/ Haul \/ Account \/ PutTogether

\* The processes of the spike run: none of them waits for anything but a frame.
SpikeRuns ==
  /\ mission = "spike" /\ SpikeSteps
  /\ UNCHANGED <<flight, payvars, treeVars, flightVars, streamVars, haulVars, auditVars, pieceVars, mission>>

Spec == Init /\ [][Next]_vars /\ WF_vars(SpikeRuns)

-----------------------------------------------------------------------------

\* A run of the spike ends with a verified payload, whatever the outage, or
\* with one of the faults that it does not survive (node.mjs:148-162).
RunSucceeds == mission = "spike" => <>RunIsOver

\* What a spacecraft works out on board is what its ground works out: the roots
\* of its records are those of the ground's trees (custody.c against merkle.mjs),
\* and its table of keys decides as the ground's key ring does (keyring.c
\* against keyring.mjs).
OnboardAgrees == TreesAgree /\ FlightAgrees

\* A bundle that comes in parts loses nothing by it: stamped while it streams
\* through, it is what it would be stamped at once (fast-stamp.mjs), and the buffer
\* of the gateway counts what its fragments hold (gateway.mjs:220-232).
PartsAreKept == StampedRight /\ BufferIsCounted
=============================================================================
