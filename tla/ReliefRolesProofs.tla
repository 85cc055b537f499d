-------------------------- MODULE ReliefRolesProofs --------------------------
(***************************************************************************)
(* What the operators of ReliefRoles return and keep, for every directory, *)
(* report and frame.  The proofs about the hub daemon (ReliefHubProofs)    *)
(* and about the network (ReliefNetProofs) rest on it.                     *)
(***************************************************************************)
EXTENDS ReliefRoles, FiniteSetTheorems, TLAPS

-----------------------------------------------------------------------------
(* Types of what the operators of ReliefRoles return.                      *)

\* The backoff 2^n is a number: it counts the subsets of 1..n.
LEMMA PowerOfTwoType ==
  ASSUME NEW n \in Nat
  PROVE  2 ^ n \in Nat
<1>1. IsFiniteSet(1 .. n) /\ Cardinality(1 .. n) = n
  BY FS_Interval
<1>2. IsFiniteSet(SUBSET (1 .. n)) /\ Cardinality(SUBSET (1 .. n)) = 2 ^ Cardinality(1 .. n)
  BY <1>1, FS_SUBSET
<1> QED
  BY <1>1, <1>2, FS_CardinalityType

\* The directory provision.mjs writes is one.
LEMMA ProvisionedType == Provisioned \in Directory
  BY ConstantsAssumption DEF Provisioned, Directory, Keys

\* A hub that heard nothing is one.
LEMMA EmptyHubType == EmptyHub \in Hub
  BY DEF EmptyHub, Hub, EmptyEntry, Entry

\* A revocation makes a directory of a directory.
LEMMA RevokedType ==
  ASSUME NEW d \in Directory, NEW n \in Clinics \cup Relays, NEW at \in Nat
  PROVE  Revoked(d, n, at) \in Directory
<1> DEFINE old   == KeyOf(d, n)
           fresh == <<n, old[2] + 1>>
<1>1. n \in Nodes
  BY ConstantsAssumption
<1>2. old \in Keys
  BY DEF KeyOf, Directory
<1>3. fresh \in Keys
  BY <1>1, <1>2 DEF Keys
<1>4. [eid |-> n, pub |-> old, revokedAt |-> at] \in Revocation
  BY <1>1, <1>2 DEF Revocation
<1> HIDE DEF old, fresh
<1>5. [c \in Clinics |-> IF c = n THEN fresh ELSE d.clinics[c]] \in [Clinics -> Keys]
  BY <1>3 DEF Directory
<1>6. [r \in Relays |-> IF r = n /\ n \notin Clinics THEN fresh ELSE d.relays[r]] \in [Relays -> Keys]
  BY <1>3 DEF Directory
<1>7. d.revoked \cup {[eid |-> n, pub |-> old, revokedAt |-> at]} \in SUBSET Revocation
  BY <1>4 DEF Directory
<1> QED
  BY <1>5, <1>6, <1>7 DEF Revoked, Directory, old, fresh

\* Checking the chunks and opening the report keeps an entry an entry.
LEMMA FinalizeType ==
  ASSUME NEW id \in Payloads, NEW e \in Entry, NEW dr
  PROVE  Finalize(id, e, dr) \in Entry
<1> DEFINE kept == {[c EXCEPT !.ok = TRUE] : c \in {x \in e.chunks : x.ok \/ Acceptable(id, x, dr)}}
<1>1. e.chunks \subseteq Chunk
  BY DEF Entry
<1>2. kept \subseteq Chunk
  BY <1>1 DEF Chunk
<1>3. CASE ~e.manifest \/ e.report # "none"
  BY <1>3 DEF Finalize
<1>4. CASE ~(~e.manifest \/ e.report # "none")
  <2> DEFINE report == IF Cardinality({c.index : c \in kept}) < ChunkCount[id]
                       THEN "none"
                       ELSE IF Opens[id] THEN "verified" ELSE "refused"
  <2>1. Finalize(id, e, dr) = [e EXCEPT !.chunks = kept, !.report = report]
    BY <1>4 DEF Finalize
  <2>2. report \in {"none", "verified", "refused"}
    OBVIOUS
  <2> HIDE DEF kept, report
  <2> QED
    BY <1>2, <2>1, <2>2 DEF Entry
<1> QED
  BY <1>3, <1>4

\* Noting when and whence a frame came keeps an entry an entry.
LEMMA TouchedType ==
  ASSUME NEW e \in Entry, NEW f \in Frame, NEW at \in Nat
  PROVE  Touched(e, f, at) \in Entry
<1>1. f.lastHop \in Nodes
  BY DEF Frame, ManifestFrame, ChunkFrame
<1> QED
  BY <1>1 DEF Touched, Entry

\* The route that a chunk names is a sequence of nodes.
LEMMA RouteType ==
  ASSUME NEW f \in ChunkFrame, f.custody # <<>>
  PROVE  RouteOf(f) \in Seq(Nodes)
<1>1. f.custody \in Seq(Receipt)
  BY DEF ChunkFrame
<1>2. \A k \in DOMAIN f.custody : f.custody[k] \in Receipt
  BY <1>1
<1>3. <<f.custody[1].prev>> \in Seq(Nodes)
  BY <1>1, <1>2 DEF Receipt
<1>4. [k \in DOMAIN f.custody |-> f.custody[k].hop] \in Seq(Nodes)
  <2>1. DOMAIN f.custody = 1 .. Len(f.custody) /\ Len(f.custody) \in Nat
    BY <1>1
  <2>2. \A k \in 1 .. Len(f.custody) : f.custody[k].hop \in Nodes
    BY <1>2, <2>1 DEF Receipt
  <2> QED
    BY <2>1, <2>2
<1> QED
  BY <1>3, <1>4 DEF RouteOf

\* Filing a frame keeps an entry an entry.
LEMMA IngestFrameType ==
  ASSUME NEW e \in Entry, NEW f \in Frame, NEW at \in Nat, NEW dr
  PROVE  IngestFrame(e, f, at, dr) \in Entry
<1>0. f.id \in Payloads
  BY DEF Frame, ManifestFrame, ChunkFrame
<1>1. CASE f.kind = "manifest"
  <2> DEFINE t == Touched(e, f, at)
             m == [t EXCEPT !.manifest = ManifestOk(f, at, dr)]
  <2>1. t \in Entry
    BY TouchedType
  <2>2. ManifestOk(f, at, dr) \in BOOLEAN
    BY DEF ManifestOk
  <2> HIDE DEF t
  <2>3. m \in Entry
    BY <2>1, <2>2 DEF Entry
  <2>4. Finalize(f.id, m, dr) \in Entry
    BY <1>0, <2>3, FinalizeType
  <2> QED
    BY <1>1, <2>1, <2>4 DEF IngestFrame, IngestManifest, t
<1>2. CASE f.kind # "manifest"
  <2>1. f \in ChunkFrame
    BY <1>2 DEF Frame, ManifestFrame
  <2> DEFINE t == [Touched(e, f, at) EXCEPT !.route = IF f.custody = <<>> THEN @ ELSE RouteOf(f)]
             c == [index |-> f.index, intact |-> f.intact, bare |-> f.form = "bare",
                   custody |-> f.custody, at |-> at, ok |-> FALSE]
             m == [t EXCEPT !.chunks = @ \cup {c}]
  <2>2. Touched(e, f, at) \in Entry
    BY TouchedType
  <2>3. f.custody # <<>> => RouteOf(f) \in Seq(Nodes)
    BY <2>1, RouteType
  <2> HIDE DEF c
  <2>4. t \in Entry
    <3> DEFINE u == Touched(e, f, at)
    <3>1. u \in Entry
      BY <2>2
    <3> HIDE DEF u
    <3>2. [u EXCEPT !.route = IF f.custody = <<>> THEN @ ELSE RouteOf(f)] \in Entry
      BY <2>3, <3>1 DEF Entry
    <3> QED
      BY <3>2 DEF u
  <2>5. c \in Chunk
    BY <2>1 DEF ChunkFrame, Chunk, c
  <2> HIDE DEF t
  <2>6. m \in Entry
    BY <2>4, <2>5 DEF Entry
  <2>7. Finalize(f.id, m, dr) \in Entry
    BY <1>0, <2>6, FinalizeType
  <2> QED
    BY <1>2, <2>4, <2>7 DEF IngestFrame, IngestChunk, t, c
<1> QED
  BY <1>1, <1>2

\* What a report earns are handoffs of nodes.
LEMMA EarnedType ==
  ASSUME NEW id \in Payloads, NEW e \in Entry
  PROVE  Earned(id, e) \subseteq Nodes \X Payloads \X Nat
<1> SUFFICES ASSUME NEW c \in e.chunks, NEW k \in DOMAIN c.custody
             PROVE  c.custody[k].hop \in Nodes /\ c.index \in Nat
  BY DEF Earned
<1>1. c \in Chunk
  BY DEF Entry
<1>2. c.custody \in Seq(Receipt) /\ c.index \in Nat
  BY <1>1 DEF Chunk
<1>3. c.custody[k] \in Receipt
  BY <1>2
<1> QED
  BY <1>2, <1>3 DEF Receipt

\* A frame makes a hub of a hub.
LEMMA IngestType ==
  ASSUME NEW h \in Hub, NEW f \in Frame, NEW at \in Nat, NEW dr
  PROVE  Ingest(h, f, at, dr) \in Hub
<1> DEFINE e == IngestFrame(h.entries[f.id], f, at, dr)
<1>1. f.id \in Payloads
  BY DEF Frame, ManifestFrame, ChunkFrame
<1>2. e \in Entry
  BY <1>1, IngestFrameType DEF Hub
<1>3. Earned(f.id, e) \subseteq Nodes \X Payloads \X Nat
  BY <1>1, <1>2, EarnedType
<1> HIDE DEF e
<1>4. [entries |-> [h.entries EXCEPT ![f.id] = e], paid |-> h.paid \cup Earned(f.id, e)] \in Hub
  BY <1>1, <1>2, <1>3 DEF Hub
<1> QED
  BY <1>4 DEF Ingest, e

\* A request made keeps an entry an entry.
LEMMA AskedType ==
  ASSUME NEW e \in Entry, NEW t \in Nat
  PROVE  Asked(e, t) \in Entry
<1>1. e.resends \in Nat
  BY DEF Entry
<1>2. 2 ^ (e.resends + 1) \in Nat
  BY <1>1, PowerOfTwoType
<1> DEFINE next == t + ResendAfter * 2 ^ (e.resends + 1)
<1>3. next \in Nat
  BY <1>2, ConstantsAssumption
<1> DEFINE more == e.resends + 1
<1>4. more \in Nat
  BY <1>1
<1> HIDE DEF next, more
<1>5. [e EXCEPT !.resends = more, !.nextAt = next] \in Entry
  BY <1>3, <1>4 DEF Entry
<1> QED
  BY <1>5 DEF Asked, next, more
=============================================================================
