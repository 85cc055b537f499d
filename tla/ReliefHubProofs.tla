-------------------------- MODULE ReliefHubProofs --------------------------
(***************************************************************************)
(* Proofs about the hub daemon of ReliefHub, for every directory, report,  *)
(* set of frames and bound; and, in the last part, about the payout tool   *)
(* that pays what the hub's log proves.                                    *)
(***************************************************************************)
EXTENDS ReliefHub, ReliefPayout, ReliefRolesProofs

-----------------------------------------------------------------------------
(* The inductive invariant.                                                *)

\* Every key in a directory belongs to the node it is listed for.
KeysOwned(d) ==
  /\ \A n \in Clinics : d.clinics[n][1] = n
  /\ \A n \in Relays : d.relays[n][1] = n
  /\ \A r \in d.revoked : r.pub[1] = r.eid

\* A held chunk is a logged frame.
Proves(line, id, c) ==
  /\ line.at = c.at
  /\ line.frame.kind = "chunk"
  /\ line.frame.id = id
  /\ line.frame.index = c.index
  /\ line.frame.intact = c.intact
  /\ line.frame.custody = c.custody

\* What Custodied says of a frame, of a chunk.
ChunkCustodied(id, c) ==
  /\ c.intact
  /\ c.index \in Index(id)
  /\ c.custody # <<>>
  /\ \A k \in DOMAIN c.custody : c.custody[k].sound /\ c.custody[k].key[1] = c.custody[k].hop
  /\ Continuous(c.custody, ClinicOf[id])

EntryEvidence(id, e, lines) ==
  /\ \A c \in e.chunks : \E line \in lines : Proves(line, id, c)
  /\ \A c \in e.chunks : c.ok => ChunkCustodied(id, c)
  /\ e.manifest => \E line \in lines : Authored(line.frame) /\ line.frame.id = id
  /\ e.report = "verified" =>
       /\ Opens[id]
       /\ e.manifest
       /\ \A i \in Index(id) : \E c \in e.chunks : c.ok /\ c.index = i

HubEvidence(h, lines) ==
  /\ \A id \in Payloads : EntryEvidence(id, h.entries[id], lines)
  /\ \A p \in h.paid : \E line \in lines : Earns(line, p)

Evidence ==
  /\ KeysOwned(dir) /\ KeysOwned(config)
  /\ HubEvidence(hub, Lines)
  /\ \A id \in inbox : Complete(id, Lines)

-----------------------------------------------------------------------------
(* Revocations.                                                            *)

\* No accepted chunk carries a key the directory d had revoked when it arrived.
ChunkUnrevoked(c, d) ==
  c.ok => \A k \in DOMAIN c.custody : \A r \in d.revoked :
            c.custody[k].key = r.pub => c.at < r.revokedAt

HubUnrevoked(h, d, lines) ==
  /\ \A id \in Payloads : \A c \in h.entries[id].chunks : ChunkUnrevoked(c, d)
  /\ \A p \in h.paid : \E line \in lines : Earns(line, p) /\ Unrevoked(line, d.revoked)

\* A frame that arrived under a revocation not yet loaded would be checked with
\* the old keys: without PromptReload only the first two parts hold.
Revocations ==
  /\ \A line \in Lines : line.at <= now
  /\ dir.revoked \subseteq config.revoked
  /\ PromptReload =>
       /\ \A r \in config.revoked \ dir.revoked : \A line \in Lines : line.at < r.revokedAt
       /\ HubUnrevoked(hub, dir, Lines)

HubInvariant == Evidence /\ Revocations

-----------------------------------------------------------------------------
(* Type correctness.                                                       *)

\* The log stays a log, one line longer.
LEMMA AppendLineType ==
  ASSUME TypeOK, NEW f \in Frame, NEW whole \in BOOLEAN, AppendLine(f, whole)
  PROVE  /\ frameLog' \in Seq(Logged)
         /\ Len(frameLog') = Len(frameLog) + 1
<1>1. [at |-> now, frame |-> f, whole |-> whole] \in Logged
  BY DEF TypeOK, Logged
<1> QED
  BY <1>1 DEF TypeOK, AppendLine

\* A line of the log holds a frame and the time it arrived.
LEMMA LineType ==
  ASSUME TypeOK, NEW n \in DOMAIN frameLog
  PROVE  frameLog[n] \in Logged /\ frameLog[n].frame \in Frame /\ frameLog[n].at \in Nat
<1>1. frameLog[n] \in Logged
  BY DEF TypeOK
<1> QED
  BY <1>1 DEF Logged

\* The inbox holds reports.
LEMMA PersistType ==
  ASSUME TypeOK, NEW id \in Payloads, Persist(id)
  PROVE  inbox' \subseteq Payloads
  BY DEF TypeOK, Persist

\* A process that ended is down, with nothing in memory.
LEMMA DieType ==
  ASSUME TypeOK, Ended
  PROVE  /\ mode' \in {"up", "down", "replaying", "stuck"}
         /\ hub' \in Hub
         /\ pos' = 0
         /\ asked' \in [Payloads -> Seq(Nat)]
  BY EmptyHubType DEF TypeOK, Ended

\* Every step keeps the types.
LEMMA TypeStep == TypeOK /\ [Next]_vars => TypeOK'
<1> SUFFICES ASSUME TypeOK, [Next]_vars PROVE TypeOK'
  OBVIOUS
<1> USE HubAssumption
<1>1. ASSUME NEW f \in Arrivals, Receive(f) PROVE TypeOK'
  <2>1. f \in Frame /\ f.id \in Payloads
    BY DEF Frame, ManifestFrame, ChunkFrame
  <2>2. frameLog' \in Seq(Logged) /\ Len(frameLog') = Len(frameLog) + 1
    BY <1>1, <2>1, AppendLineType DEF Receive
  <2>3. hub' \in Hub
    BY <1>1, <2>1, IngestType DEF TypeOK, Receive
  <2>4. inbox' \subseteq Payloads
    BY <1>1, <2>1, PersistType DEF Receive
  <2>5. pos' \in 0 .. Len(frameLog')
    BY <1>1, <2>2 DEF TypeOK, Receive
  <2> QED
    BY <1>1, <2>2, <2>3, <2>4, <2>5 DEF TypeOK, Receive
<1>2. ASSUME NEW f \in Arrivals, KilledWhileLogging(f) \/ ReceiveThrows(f) PROVE TypeOK'
  <2>1. PICK whole \in {TRUE, ~TornWrites} : AppendLine(f, whole)
    BY <1>2 DEF KilledWhileLogging, ReceiveThrows
  <2>2. f \in Frame /\ whole \in BOOLEAN
    BY <2>1
  <2>3. frameLog' \in Seq(Logged) /\ Len(frameLog') \in Nat
    BY <2>1, <2>2, AppendLineType
  <2>4. Ended /\ crashes' \in {crashes, crashes + 1}
    BY <1>2 DEF KilledWhileLogging, ReceiveThrows, Die
  <2>5. /\ mode' \in {"up", "down", "replaying", "stuck"}
        /\ hub' \in Hub
        /\ pos' = 0
        /\ asked' \in [Payloads -> Seq(Nat)]
    BY <2>4, DieType
  <2>6. UNCHANGED <<dir, config, inbox, now>>
    BY <1>2 DEF KilledWhileLogging, ReceiveThrows
  <2> QED
    BY <2>3, <2>4, <2>5, <2>6 DEF TypeOK
<1>3. CASE Crash
  <2>1. Ended /\ crashes' = crashes + 1
    BY <1>3 DEF Crash, Die
  <2>2. /\ mode' \in {"up", "down", "replaying", "stuck"}
        /\ hub' \in Hub
        /\ pos' = 0
        /\ asked' \in [Payloads -> Seq(Nat)]
    BY <2>1, DieType
  <2> QED
    BY <1>3, <2>1, <2>2 DEF TypeOK, Crash
<1>4. CASE Restart
  BY <1>4 DEF TypeOK, Restart
<1>5. CASE Replay
  <2> DEFINE line == frameLog[pos + 1]
  <2>1. pos + 1 \in DOMAIN frameLog
    BY <1>5 DEF TypeOK, Replay, Replays
  <2>2. line.frame \in Frame /\ line.at \in Nat
    BY <2>1, LineType
  <2>3. line.frame.id \in Payloads
    BY <2>2 DEF Frame, ManifestFrame, ChunkFrame
  <2>4. CASE Replays(hub, line, dir)
    <3>1. hub' \in Hub
      BY <1>5, <2>2, <2>4, IngestType DEF TypeOK, Replay, Replays
    <3>2. inbox' \subseteq Payloads
      BY <1>5, <2>3, <2>4, PersistType DEF Replay, Replays
    <3>3. pos' \in 0 .. Len(frameLog)
      BY <1>5, <2>4 DEF TypeOK, Replay, Replays
    <3> QED
      BY <1>5, <2>4, <3>1, <3>2, <3>3 DEF TypeOK, Replay, Replays
  <2>5. CASE ~Replays(hub, line, dir)
    BY <1>5, <2>5 DEF TypeOK, Replay, Replays
  <2> QED
    BY <2>4, <2>5
<1>6. CASE Listen
  BY <1>6 DEF TypeOK, Listen
<1>7. CASE Tick
  <2> DEFINE due == {id \in Payloads : Due(id, hub.entries[id], now)}
             later == [id \in Payloads |-> IF id \in due THEN Asked(hub.entries[id], now)
                                           ELSE hub.entries[id]]
  <2>1. later \in [Payloads -> Entry]
    BY AskedType DEF TypeOK, Hub
  <2>2. hub' = [hub EXCEPT !.entries = later]
    BY <1>7 DEF Tick
  <2>3. asked' \in [Payloads -> Seq(Nat)]
    BY <1>7 DEF TypeOK, Tick
  <2> HIDE DEF later
  <2>4. hub' \in Hub
    BY <2>1, <2>2 DEF TypeOK, Hub
  <2> QED
    BY <1>7, <2>3, <2>4 DEF TypeOK, Tick
<1>8. ASSUME NEW n \in Clinics \cup Relays, Revoke(n) PROVE TypeOK'
  <2>1. now' \in Nat /\ config' \in Directory
    BY <1>8, RevokedType DEF TypeOK, Revoke
  <2> QED
    BY <1>8, <2>1 DEF TypeOK, Revoke
<1>9. CASE Advance
  BY <1>9 DEF TypeOK, Advance
<1>10. CASE UNCHANGED vars
  BY <1>10 DEF TypeOK, vars
<1> QED
  BY <1>1, <1>2, <1>3, <1>4, <1>5, <1>6, <1>7, <1>8, <1>9, <1>10 DEF Next

\* The state of the hub daemon keeps its shape in every behaviour: the memory
\* rebuilt from the log, the log itself and the history of requests.
THEOREM TypeCorrect == Spec => []TypeOK
<1>1. Init => TypeOK
  BY ProvisionedType, EmptyHubType DEF Init, TypeOK
<1> QED
  BY <1>1, TypeStep, PTL DEF Spec

-----------------------------------------------------------------------------
(* Evidence: what the checks of ReliefRoles establish.                     *)

\* A key in force for a node is the node's own.
LEMMA KeyAtOwned ==
  ASSUME NEW book, NEW revoked, NEW eid, NEW at,
         \A n \in DOMAIN book : book[n][1] = n,
         \A r \in revoked : r.pub[1] = r.eid,
         NEW key \in KeyAt(book, revoked, eid, at)
  PROVE  key[1] = eid
  BY DEF KeyAt, LaterRevocations

\* A chunk that passes the hub's checks is genuine and custodied.
LEMMA AcceptableIsCustodied ==
  ASSUME NEW id \in Payloads, NEW c \in Chunk, NEW dr \in Directory,
         KeysOwned(dr), Acceptable(id, c, dr)
  PROVE  ChunkCustodied(id, c)
<1>1. \A k \in DOMAIN c.custody : c.custody[k].key[1] = c.custody[k].hop
  <2> SUFFICES ASSUME NEW k \in DOMAIN c.custody
               PROVE  c.custody[k].key[1] = c.custody[k].hop
    OBVIOUS
  <2>1. c.custody[k].key \in KeyAt(dr.relays, dr.revoked, c.custody[k].hop, c.at)
    BY DEF Acceptable, AuditOk
  <2>2. \A n \in DOMAIN dr.relays : dr.relays[n][1] = n
    BY DEF KeysOwned, Directory
  <2> QED
    BY <2>1, <2>2, KeyAtOwned DEF KeysOwned
<1> QED
  BY <1>1 DEF Acceptable, AuditOk, ChunkCustodied

\* A manifest that passes them is the clinic's own.
LEMMA ManifestOkIsAuthored ==
  ASSUME NEW f \in Frame, f.kind = "manifest", NEW at, NEW dr \in Directory,
         KeysOwned(dr), ManifestOk(f, at, dr)
  PROVE  Authored(f)
<1>1. \A n \in DOMAIN dr.clinics : dr.clinics[n][1] = n
  BY DEF KeysOwned, Directory
<1>2. f.signer \in KeyAt(dr.clinics, dr.revoked, ClinicOf[f.id], at)
  BY DEF ManifestOk
<1> QED
  BY <1>1, <1>2, KeyAtOwned DEF KeysOwned, ManifestOk, Authored

\* As many indexes as the manifest counts, all in its range, are all of them.
LEMMA AllIndexes ==
  ASSUME NEW id \in Payloads, NEW S \in SUBSET Index(id),
         ~(Cardinality(S) < ChunkCount[id])
  PROVE  S = Index(id)
<1>1. ChunkCount[id] \in Nat \ {0}
  BY ConstantsAssumption
<1>2. IsFiniteSet(Index(id)) /\ Cardinality(Index(id)) = ChunkCount[id]
  <2> DEFINE last == ChunkCount[id] - 1
  <2>1. last \in Int /\ ~(0 > last) /\ last - 0 + 1 = ChunkCount[id]
    BY <1>1
  <2> HIDE DEF last
  <2>2. IsFiniteSet(0 .. last) /\ Cardinality(0 .. last) = last - 0 + 1
    BY <2>1, FS_Interval
  <2> QED
    BY <2>1, <2>2 DEF Index, last
<1>3. /\ IsFiniteSet(S)
      /\ Cardinality(S) <= Cardinality(Index(id))
      /\ Cardinality(Index(id)) = Cardinality(S) => Index(id) = S
  BY <1>2, FS_Subset
<1>4. Cardinality(S) \in Nat
  BY <1>3, FS_CardinalityType
<1> QED
  BY <1>1, <1>2, <1>3, <1>4

-----------------------------------------------------------------------------
(* Evidence is kept by the operators of the hub.                           *)

\* Checking the chunks keeps what is held traced to the log.
LEMMA FinalizeEvidence ==
  ASSUME NEW id \in Payloads, NEW e \in Entry, NEW dr \in Directory, NEW lines,
         KeysOwned(dr), EntryEvidence(id, e, lines)
  PROVE  EntryEvidence(id, Finalize(id, e, dr), lines)
<1> DEFINE kept == {[c EXCEPT !.ok = TRUE] : c \in {x \in e.chunks : x.ok \/ Acceptable(id, x, dr)}}
           S == {c.index : c \in kept}
           report == IF Cardinality(S) < ChunkCount[id]
                     THEN "none"
                     ELSE IF Opens[id] THEN "verified" ELSE "refused"
           fin == [e EXCEPT !.chunks = kept, !.report = report]
<1>1. CASE ~e.manifest \/ e.report # "none"
  BY <1>1 DEF Finalize
<1>2. CASE e.manifest /\ e.report = "none"
  <2>1. Finalize(id, e, dr) = fin
    BY <1>2 DEF Finalize
  <2>2. fin.chunks = kept /\ fin.report = report /\ fin.manifest = e.manifest
    BY DEF Entry
  <2>3. ASSUME NEW c \in kept
        PROVE  c.ok /\ ChunkCustodied(id, c) /\ \E line \in lines : Proves(line, id, c)
    <3>1. PICK x \in e.chunks : c = [x EXCEPT !.ok = TRUE] /\ (x.ok \/ Acceptable(id, x, dr))
      BY <2>3
    <3>2. x \in Chunk
      BY DEF Entry
    <3>3. ChunkCustodied(id, x)
      BY <3>1, <3>2, AcceptableIsCustodied DEF EntryEvidence
    <3>4. PICK line \in lines : Proves(line, id, x)
      BY DEF EntryEvidence
    <3>5. /\ c.ok /\ c.at = x.at /\ c.index = x.index /\ c.intact = x.intact
          /\ c.custody = x.custody
      BY <3>1, <3>2 DEF Chunk
    <3> QED
      BY <3>3, <3>4, <3>5, ZenonT(60) DEF ChunkCustodied, Proves
  <2>4. S \subseteq Index(id)
    BY <2>3 DEF ChunkCustodied
  <2>5. ASSUME report = "verified"
        PROVE  /\ Opens[id]
               /\ \A i \in Index(id) : \E c \in kept : c.ok /\ c.index = i
    <3>1. ~(Cardinality(S) < ChunkCount[id]) /\ Opens[id]
      BY <2>5
    <3>2. S = Index(id)
      BY <2>4, <3>1, AllIndexes
    <3> QED
      BY <2>3, <3>1, <3>2
  <2> HIDE DEF kept, S, report
  <2> QED
    BY <1>2, <2>1, <2>2, <2>3, <2>5 DEF EntryEvidence
<1> QED
  BY <1>1, <1>2 DEF Entry

\* So does noting when and whence a frame came.
LEMMA TouchedEvidence ==
  ASSUME NEW id \in Payloads, NEW e \in Entry, NEW f, NEW at, NEW lines,
         EntryEvidence(id, e, lines)
  PROVE  EntryEvidence(id, Touched(e, f, at), lines)
<1>1. /\ Touched(e, f, at).chunks = e.chunks
      /\ Touched(e, f, at).manifest = e.manifest
      /\ Touched(e, f, at).report = e.report
  BY DEF Touched, Entry
<1> QED
  BY <1>1 DEF EntryEvidence

\* So does filing a frame that is in the log.
LEMMA IngestFrameEvidence ==
  ASSUME NEW e \in Entry, NEW dr \in Directory, KeysOwned(dr),
         NEW lines, NEW line \in lines, line \in Logged,
         EntryEvidence(line.frame.id, e, lines)
  PROVE  EntryEvidence(line.frame.id, IngestFrame(e, line.frame, line.at, dr), lines)
<1> DEFINE f  == line.frame
           at == line.at
           id == f.id
<1>1. f \in Frame /\ at \in Nat /\ id \in Payloads
  BY DEF Logged, Frame, ManifestFrame, ChunkFrame
<1>2. Touched(e, f, at) \in Entry /\ EntryEvidence(id, Touched(e, f, at), lines)
  BY <1>1, TouchedType, TouchedEvidence
<1>3. CASE f.kind = "manifest"
  <2> DEFINE t == Touched(e, f, at)
             m == [t EXCEPT !.manifest = ManifestOk(f, at, dr)]
  <2>1. CASE t.manifest
    BY <1>2, <1>3, <2>1 DEF IngestFrame, IngestManifest
  <2>2. CASE ~t.manifest
    <3>1. ManifestOk(f, at, dr) \in BOOLEAN
      BY DEF ManifestOk
    <3>2. t \in Entry /\ EntryEvidence(id, t, lines)
      BY <1>2
    <3> HIDE DEF t
    <3>3. /\ m \in Entry
          /\ m.chunks = t.chunks /\ m.report = t.report
          /\ m.manifest = ManifestOk(f, at, dr)
      BY <3>1, <3>2 DEF Entry
    <3>4. m.manifest => \E l \in lines : Authored(l.frame) /\ l.frame.id = id
      BY <1>1, <1>3, <3>3, ManifestOkIsAuthored
    <3>5. m.report # "verified"
      BY <2>2, <3>2, <3>3 DEF EntryEvidence
    <3> HIDE DEF m
    <3>6. EntryEvidence(id, m, lines)
      BY <3>2, <3>3, <3>4, <3>5 DEF EntryEvidence
    <3>7. EntryEvidence(id, Finalize(id, m, dr), lines)
      BY <1>1, <3>3, <3>6, FinalizeEvidence
    <3>8. IngestFrame(e, f, at, dr) = Finalize(id, m, dr)
      BY <1>3, <2>2 DEF IngestFrame, IngestManifest, t, m
    <3> QED
      BY <3>7, <3>8
  <2> QED
    BY <2>1, <2>2
<1>4. CASE f.kind # "manifest"
  <2>1. f \in ChunkFrame
    BY <1>1, <1>4 DEF Frame, ManifestFrame
  <2> DEFINE u == Touched(e, f, at)
             route == IF f.custody = <<>> THEN u.route ELSE RouteOf(f)
             t == [u EXCEPT !.route = route]
             c == [index |-> f.index, intact |-> f.intact, bare |-> f.form = "bare",
                   custody |-> f.custody, at |-> at, ok |-> FALSE]
             m == [t EXCEPT !.chunks = @ \cup {c}]
  <2>2. u \in Entry /\ EntryEvidence(id, u, lines)
    BY <1>2
  <2>3. IngestFrame(e, f, at, dr) =
          IF f.index \in Held(t) \/ t.report = "verified" THEN t ELSE Finalize(id, m, dr)
    BY <1>4 DEF IngestFrame, IngestChunk
  <2>4. Proves(line, id, c) /\ ~c.ok /\ c \in Chunk
    BY <1>1, <2>1 DEF Proves, ChunkFrame, Chunk
  <2> HIDE DEF u, c
  <2>5. route \in Seq(Nodes)
    <3>1. CASE f.custody = <<>>
      BY <2>2, <3>1 DEF Entry
    <3>2. CASE f.custody # <<>>
      BY <2>1, <3>2, RouteType
    <3> QED
      BY <3>1, <3>2
  <2> HIDE DEF route
  <2>6. /\ t \in Entry
        /\ t.chunks = u.chunks /\ t.manifest = u.manifest /\ t.report = u.report
    BY <2>2, <2>5 DEF Entry
  <2>7. EntryEvidence(id, t, lines)
    BY <2>2, <2>6 DEF EntryEvidence
  <2> HIDE DEF t
  <2>8. /\ m \in Entry
        /\ m.chunks = t.chunks \cup {c} /\ m.manifest = t.manifest /\ m.report = t.report
    BY <2>4, <2>6 DEF Entry
  <2> HIDE DEF m
  <2>9. EntryEvidence(id, m, lines)
    BY <2>4, <2>7, <2>8 DEF EntryEvidence
  <2>10. EntryEvidence(id, Finalize(id, m, dr), lines)
    BY <1>1, <2>8, <2>9, FinalizeEvidence
  <2> QED
    BY <2>3, <2>7, <2>10
<1> QED
  BY <1>3, <1>4

\* What an accepted chunk earns, a line of the log earns.
LEMMA EarnedEvidence ==
  ASSUME NEW id \in Payloads, NEW e \in Entry, NEW lines,
         EntryEvidence(id, e, lines), NEW p \in Earned(id, e)
  PROVE  \E c \in e.chunks, line \in lines : c.ok /\ Proves(line, id, c) /\ Earns(line, p)
<1>1. PICK c \in e.chunks :
        c.ok /\ \E k \in DOMAIN c.custody : p = <<c.custody[k].hop, id, c.index>>
  BY DEF Earned
<1>2. PICK k \in DOMAIN c.custody : p = <<c.custody[k].hop, id, c.index>>
  BY <1>1
<1>3. ChunkCustodied(id, c)
  BY <1>1 DEF EntryEvidence
<1>4. PICK line \in lines : Proves(line, id, c)
  BY <1>1 DEF EntryEvidence
<1>5. Custodied(line.frame) /\ line.frame.id = id /\ line.frame.index = c.index
  BY <1>3, <1>4 DEF Custodied, ChunkCustodied, Proves
<1>6. p[1] = c.custody[k].hop /\ p[2] = id /\ p[3] = c.index
  BY <1>2
<1>7. Earns(line, p)
  BY <1>2, <1>4, <1>5, <1>6 DEF Earns, Proves
<1> QED
  BY <1>1, <1>4, <1>7

\* So does ingesting it: what it makes the hub owe is traced as well.
LEMMA IngestEvidence ==
  ASSUME NEW h \in Hub, NEW dr \in Directory, KeysOwned(dr),
         NEW lines, lines \subseteq Logged, NEW line \in lines,
         HubEvidence(h, lines)
  PROVE  HubEvidence(Ingest(h, line.frame, line.at, dr), lines)
<1> DEFINE id == line.frame.id
           e  == IngestFrame(h.entries[id], line.frame, line.at, dr)
           g  == Ingest(h, line.frame, line.at, dr)
<1>1. line \in Logged /\ line.frame \in Frame /\ line.at \in Nat /\ id \in Payloads
  BY DEF Logged, Frame, ManifestFrame, ChunkFrame
<1>2. h.entries[id] \in Entry /\ EntryEvidence(id, h.entries[id], lines)
  BY <1>1 DEF Hub, HubEvidence
<1>3. e \in Entry /\ EntryEvidence(id, e, lines)
  BY <1>1, <1>2, IngestFrameType, IngestFrameEvidence
<1>4. g.entries = [h.entries EXCEPT ![id] = e] /\ g.paid = h.paid \cup Earned(id, e)
  BY DEF Ingest
<1>5. \A p \in Earned(id, e) : \E l \in lines : Earns(l, p)
  BY <1>1, <1>3, EarnedEvidence
<1> HIDE DEF e, g
<1>6. \A i \in Payloads : EntryEvidence(i, g.entries[i], lines)
  <2> SUFFICES ASSUME NEW i \in Payloads PROVE EntryEvidence(i, g.entries[i], lines)
    OBVIOUS
  <2>1. CASE i = id
    BY <1>1, <1>3, <1>4, <2>1 DEF Hub
  <2>2. CASE i # id
    <3>1. g.entries[i] = h.entries[i]
      BY <1>4, <2>2 DEF Hub
    <3> QED
      BY <3>1 DEF HubEvidence
  <2> QED
    BY <2>1, <2>2
<1>7. \A p \in g.paid : \E l \in lines : Earns(l, p)
  BY <1>4, <1>5 DEF HubEvidence
<1>8. HubEvidence(g, lines)
  BY <1>6, <1>7 DEF HubEvidence
<1> QED
  BY <1>8 DEF g

\* An empty hub owes nothing to anyone.
LEMMA EmptyEvidence ==
  ASSUME NEW lines
  PROVE  HubEvidence(EmptyHub, lines)
  BY DEF HubEvidence, EmptyHub, EmptyEntry, EntryEvidence

\* A longer log proves no less.
LEMMA EvidenceGrows ==
  ASSUME NEW h \in Hub, NEW lines, NEW more, lines \subseteq more, HubEvidence(h, lines)
  PROVE  HubEvidence(h, more)
<1>1. \A id \in Payloads : EntryEvidence(id, h.entries[id], more)
  <2> SUFFICES ASSUME NEW id \in Payloads PROVE EntryEvidence(id, h.entries[id], more)
    OBVIOUS
  <2>1. EntryEvidence(id, h.entries[id], lines)
    BY DEF HubEvidence
  <2> QED
    BY <2>1 DEF EntryEvidence
<1>2. \A p \in h.paid : \E line \in more : Earns(line, p)
  BY DEF HubEvidence
<1> QED
  BY <1>1, <1>2 DEF HubEvidence

\* A report complete in some lines is complete in more.
LEMMA CompleteGrows ==
  ASSUME NEW id \in Payloads, NEW lines, NEW more, lines \subseteq more, Complete(id, lines)
  PROVE  Complete(id, more)
  BY DEF Complete

\* A verified entry with evidence is a completed report.
LEMMA VerifiedCompletes ==
  ASSUME NEW id \in Payloads, NEW e, NEW lines,
         EntryEvidence(id, e, lines), e.report = "verified"
  PROVE  Complete(id, lines)
<1>1. Opens[id] /\ e.manifest /\ \A i \in Index(id) : \E c \in e.chunks : c.ok /\ c.index = i
  BY DEF EntryEvidence
<1>2. \E line \in lines : Authored(line.frame) /\ line.frame.id = id
  BY <1>1 DEF EntryEvidence
<1>3. ASSUME NEW i \in Index(id)
      PROVE  \E line \in lines : Custodied(line.frame) /\ line.frame.id = id /\ line.frame.index = i
  <2>1. PICK c \in e.chunks : c.ok /\ c.index = i
    BY <1>1
  <2>2. ChunkCustodied(id, c)
    BY <2>1 DEF EntryEvidence
  <2>3. PICK line \in lines : Proves(line, id, c)
    BY <2>1 DEF EntryEvidence
  <2> QED
    BY <2>1, <2>2, <2>3 DEF ChunkCustodied, Proves, Custodied
<1> QED
  BY <1>1, <1>2, <1>3 DEF Complete

\* Revoking a key gives the node a new one of its own.
LEMMA RevokedOwned ==
  ASSUME NEW d \in Directory, KeysOwned(d), NEW n \in Clinics \cup Relays, NEW at \in Nat
  PROVE  KeysOwned(Revoked(d, n, at))
<1> DEFINE g == Revoked(d, n, at)
<1>1. KeyOf(d, n)[1] = n
  BY DEF KeyOf, KeysOwned
<1>2. \A c \in Clinics : g.clinics[c][1] = c
  BY DEF Revoked, KeysOwned
<1>3. \A r \in Relays : g.relays[r][1] = r
  BY DEF Revoked, KeysOwned
<1>4. \A r \in g.revoked : r.pub[1] = r.eid
  BY <1>1 DEF Revoked, KeysOwned
<1> QED
  BY <1>2, <1>3, <1>4 DEF KeysOwned

-----------------------------------------------------------------------------
(* Revoked keys.                                                           *)

\* A chunk passes the checks only if none of its keys was revoked on arrival.
LEMMA FinalizeUnrevoked ==
  ASSUME NEW id \in Payloads, NEW e \in Entry, NEW dr \in Directory,
         \A c \in e.chunks : ChunkUnrevoked(c, dr)
  PROVE  \A c \in Finalize(id, e, dr).chunks : ChunkUnrevoked(c, dr)
<1> DEFINE kept == {[c EXCEPT !.ok = TRUE] : c \in {x \in e.chunks : x.ok \/ Acceptable(id, x, dr)}}
<1>1. CASE ~e.manifest \/ e.report # "none"
  BY <1>1 DEF Finalize
<1>2. CASE e.manifest /\ e.report = "none"
  <2>1. Finalize(id, e, dr).chunks = kept
    BY <1>2 DEF Finalize, Entry
  <2>2. ASSUME NEW c \in kept, NEW k \in DOMAIN c.custody, NEW r \in dr.revoked,
               c.custody[k].key = r.pub
        PROVE  c.at < r.revokedAt
    <3>1. PICK x \in e.chunks : c = [x EXCEPT !.ok = TRUE] /\ (x.ok \/ Acceptable(id, x, dr))
      BY <2>2
    <3>2. x \in Chunk
      BY DEF Entry
    <3>3. c.at = x.at /\ c.custody = x.custody /\ x.at \in Nat
      BY <3>1, <3>2 DEF Chunk
    <3>4. r.revokedAt \in Nat
      BY <2>2 DEF Directory, Revocation
    <3>5. CASE x.ok
      BY <2>2, <3>3, <3>5 DEF ChunkUnrevoked
    <3>6. CASE Acceptable(id, x, dr)
      <4>1. ~IsRevoked(dr.revoked, x.custody[k].key, x.at)
        BY <2>2, <3>3, <3>6 DEF Acceptable
      <4> QED
        BY <2>2, <3>3, <3>4, <4>1 DEF IsRevoked
    <3> QED
      BY <3>1, <3>5, <3>6
  <2> HIDE DEF kept
  <2> QED
    BY <2>1, <2>2 DEF ChunkUnrevoked
<1> QED
  BY <1>1, <1>2 DEF Entry

\* Filing a frame adds no chunk that passed under a revoked key.
LEMMA IngestFrameUnrevoked ==
  ASSUME NEW e \in Entry, NEW f \in Frame, NEW at \in Nat, NEW dr \in Directory,
         \A c \in e.chunks : ChunkUnrevoked(c, dr)
  PROVE  \A c \in IngestFrame(e, f, at, dr).chunks : ChunkUnrevoked(c, dr)
<1>0. f.id \in Payloads
  BY DEF Frame, ManifestFrame, ChunkFrame
<1>1. Touched(e, f, at) \in Entry /\ Touched(e, f, at).chunks = e.chunks
  BY TouchedType DEF Touched, Entry
<1>2. CASE f.kind = "manifest"
  <2> DEFINE t == Touched(e, f, at)
             m == [t EXCEPT !.manifest = ManifestOk(f, at, dr)]
  <2>1. ManifestOk(f, at, dr) \in BOOLEAN
    BY DEF ManifestOk
  <2>2. t \in Entry /\ t.chunks = e.chunks
    BY <1>1
  <2>3. IngestFrame(e, f, at, dr) = IF t.manifest THEN t ELSE Finalize(f.id, m, dr)
    BY <1>2 DEF IngestFrame, IngestManifest
  <2> HIDE DEF t
  <2>4. m \in Entry /\ m.chunks = t.chunks
    BY <2>1, <2>2 DEF Entry
  <2> HIDE DEF m
  <2>5. \A c \in Finalize(f.id, m, dr).chunks : ChunkUnrevoked(c, dr)
    BY <1>0, <2>2, <2>4, FinalizeUnrevoked
  <2> QED
    BY <2>2, <2>3, <2>5
<1>3. CASE f.kind # "manifest"
  <2>1. f \in ChunkFrame
    BY <1>3 DEF Frame, ManifestFrame
  <2> DEFINE u == Touched(e, f, at)
             route == IF f.custody = <<>> THEN u.route ELSE RouteOf(f)
             t == [u EXCEPT !.route = route]
             c == [index |-> f.index, intact |-> f.intact, bare |-> f.form = "bare",
                   custody |-> f.custody, at |-> at, ok |-> FALSE]
             m == [t EXCEPT !.chunks = @ \cup {c}]
  <2>2. u \in Entry /\ u.chunks = e.chunks
    BY <1>1
  <2>3. IngestFrame(e, f, at, dr) =
          IF f.index \in Held(t) \/ t.report = "verified" THEN t ELSE Finalize(f.id, m, dr)
    BY <1>3 DEF IngestFrame, IngestChunk
  <2>4. c \in Chunk /\ ChunkUnrevoked(c, dr)
    BY <2>1 DEF ChunkFrame, Chunk, ChunkUnrevoked
  <2> HIDE DEF u, c
  <2>5. route \in Seq(Nodes)
    <3>1. CASE f.custody = <<>>
      BY <2>2, <3>1 DEF Entry
    <3>2. CASE f.custody # <<>>
      BY <2>1, <3>2, RouteType
    <3> QED
      BY <3>1, <3>2
  <2> HIDE DEF route
  <2>6. t \in Entry /\ t.chunks = u.chunks
    BY <2>2, <2>5 DEF Entry
  <2> HIDE DEF t
  <2>7. m \in Entry /\ m.chunks = t.chunks \cup {c}
    BY <2>4, <2>6 DEF Entry
  <2> HIDE DEF m
  <2>8. \A x \in Finalize(f.id, m, dr).chunks : ChunkUnrevoked(x, dr)
    BY <1>0, <2>2, <2>4, <2>6, <2>7, FinalizeUnrevoked
  <2> QED
    BY <2>2, <2>3, <2>6, <2>8
<1> QED
  BY <1>2, <1>3

\* What a chunk earns that no revoked key signed, a line no revoked key signed earns.
LEMMA EarnedUnrevoked ==
  ASSUME NEW id \in Payloads, NEW e \in Entry, NEW dr, NEW lines,
         EntryEvidence(id, e, lines), \A c \in e.chunks : ChunkUnrevoked(c, dr),
         NEW p \in Earned(id, e)
  PROVE  \E line \in lines : Earns(line, p) /\ Unrevoked(line, dr.revoked)
<1>1. PICK c \in e.chunks, line \in lines : c.ok /\ Proves(line, id, c) /\ Earns(line, p)
  BY EarnedEvidence
<1>2. Unrevoked(line, dr.revoked)
  BY <1>1 DEF ChunkUnrevoked, Unrevoked, Proves
<1> QED
  BY <1>1, <1>2

\* Ingesting it adds no payment under one.
LEMMA IngestUnrevoked ==
  ASSUME NEW h \in Hub, NEW dr \in Directory, KeysOwned(dr),
         NEW lines, lines \subseteq Logged, NEW line \in lines,
         HubEvidence(h, lines), HubUnrevoked(h, dr, lines)
  PROVE  HubUnrevoked(Ingest(h, line.frame, line.at, dr), dr, lines)
<1> DEFINE id == line.frame.id
           e  == IngestFrame(h.entries[id], line.frame, line.at, dr)
           g  == Ingest(h, line.frame, line.at, dr)
<1>1. line \in Logged /\ line.frame \in Frame /\ line.at \in Nat /\ id \in Payloads
  BY DEF Logged, Frame, ManifestFrame, ChunkFrame
<1>2. h.entries[id] \in Entry /\ EntryEvidence(id, h.entries[id], lines)
  BY <1>1 DEF Hub, HubEvidence
<1>3. e \in Entry /\ EntryEvidence(id, e, lines)
  BY <1>1, <1>2, IngestFrameType, IngestFrameEvidence
<1>4. \A c \in e.chunks : ChunkUnrevoked(c, dr)
  BY <1>1, <1>2, IngestFrameUnrevoked DEF HubUnrevoked
<1>5. g.entries = [h.entries EXCEPT ![id] = e] /\ g.paid = h.paid \cup Earned(id, e)
  BY DEF Ingest
<1>6. \A p \in Earned(id, e) : \E l \in lines : Earns(l, p) /\ Unrevoked(l, dr.revoked)
  BY <1>1, <1>3, <1>4, EarnedUnrevoked
<1> HIDE DEF e, g
<1>7. ASSUME NEW i \in Payloads, NEW c \in g.entries[i].chunks
      PROVE  ChunkUnrevoked(c, dr)
  <2>1. g.entries[i] = IF i = id THEN e ELSE h.entries[i]
    BY <1>5 DEF Hub
  <2> QED
    BY <1>4, <1>7, <2>1 DEF HubUnrevoked
<1>8. \A p \in g.paid : \E l \in lines : Earns(l, p) /\ Unrevoked(l, dr.revoked)
  BY <1>5, <1>6 DEF HubUnrevoked
<1>9. HubUnrevoked(g, dr, lines)
  BY <1>7, <1>8 DEF HubUnrevoked
<1> QED
  BY <1>9 DEF g

\* A hub that heard nothing holds nothing under a revoked key.
LEMMA EmptyUnrevoked ==
  ASSUME NEW dr, NEW lines
  PROVE  HubUnrevoked(EmptyHub, dr, lines)
  BY DEF HubUnrevoked, EmptyHub, EmptyEntry

\* Loading the config finds no accepted chunk and no payment that a new
\* revocation covers.
LEMMA ReloadUnrevoked ==
  ASSUME TypeOK, Evidence, Revocations, PromptReload
  PROVE  HubUnrevoked(hub, config, Lines)
<1>1. ASSUME NEW id \in Payloads, NEW c \in hub.entries[id].chunks
      PROVE  ChunkUnrevoked(c, config)
  <2> SUFFICES ASSUME c.ok, NEW k \in DOMAIN c.custody, NEW r \in config.revoked,
                      c.custody[k].key = r.pub
               PROVE  c.at < r.revokedAt
    BY DEF ChunkUnrevoked
  <2>1. CASE r \in dir.revoked
    BY <2>1 DEF Revocations, HubUnrevoked, ChunkUnrevoked
  <2>2. CASE r \notin dir.revoked
    <3>1. PICK line \in Lines : Proves(line, id, c)
      BY DEF Evidence, HubEvidence, EntryEvidence
    <3> QED
      BY <2>2, <3>1 DEF Revocations, Proves
  <2> QED
    BY <2>1, <2>2
<1>2. ASSUME NEW p \in hub.paid
      PROVE  \E line \in Lines : Earns(line, p) /\ Unrevoked(line, config.revoked)
  <2>1. PICK line \in Lines : Earns(line, p) /\ Unrevoked(line, dir.revoked)
    BY DEF Revocations, HubUnrevoked
  <2>2. Unrevoked(line, config.revoked)
    BY <2>1 DEF Unrevoked, Revocations
  <2> QED
    BY <2>1, <2>2
<1> QED
  BY <1>1, <1>2 DEF HubUnrevoked

\* A longer log proves no less.
LEMMA UnrevokedGrows ==
  ASSUME NEW h, NEW dr, NEW lines, NEW more, lines \subseteq more,
         HubUnrevoked(h, dr, lines)
  PROVE  HubUnrevoked(h, dr, more)
  BY DEF HubUnrevoked

-----------------------------------------------------------------------------
(* The invariant is kept by every step.                                    *)

\* The lines of the log that can be read back are lines.
LEMMA LinesType == TypeOK => Lines \subseteq Logged
  BY LineType DEF Lines

\* A line cut short adds nothing that can be read back.
LEMMA AppendLines ==
  ASSUME TypeOK, NEW f \in Frame, NEW whole \in BOOLEAN, AppendLine(f, whole)
  PROVE  LET line == [at |-> now, frame |-> f, whole |-> whole]
         IN  Lines' = Lines \cup (IF whole THEN {line} ELSE {})
<1> DEFINE line == [at |-> now, frame |-> f, whole |-> whole]
<1>1. frameLog \in Seq(Logged) /\ line \in Logged /\ line.whole = whole
  BY DEF TypeOK, Logged
<1>2. frameLog' = Append(frameLog, line)
  BY DEF AppendLine
<1> HIDE DEF line
<1>3. {frameLog'[n] : n \in DOMAIN frameLog'} = {frameLog[n] : n \in DOMAIN frameLog} \cup {line}
  BY <1>1, <1>2
<1>4. Lines' = Lines \cup (IF whole THEN {line} ELSE {})
  BY <1>1, <1>3 DEF Lines
<1> QED
  BY <1>4 DEF line

\* Asking for a resend changes nothing that evidence is about.
LEMMA TickKeeps ==
  ASSUME TypeOK, Tick
  PROVE  /\ hub'.paid = hub.paid
         /\ \A id \in Payloads :
              /\ hub'.entries[id].chunks = hub.entries[id].chunks
              /\ hub'.entries[id].manifest = hub.entries[id].manifest
              /\ hub'.entries[id].report = hub.entries[id].report
<1> DEFINE due == {id \in Payloads : Due(id, hub.entries[id], now)}
           later == [id \in Payloads |-> IF id \in due THEN Asked(hub.entries[id], now)
                                         ELSE hub.entries[id]]
<1>1. hub' = [hub EXCEPT !.entries = later]
  BY DEF Tick
<1>2. ASSUME NEW id \in Payloads
      PROVE  /\ later[id].chunks = hub.entries[id].chunks
             /\ later[id].manifest = hub.entries[id].manifest
             /\ later[id].report = hub.entries[id].report
  <2>1. hub.entries[id] \in Entry
    BY DEF TypeOK, Hub
  <2>2. later[id] = hub.entries[id] \/ later[id] = Asked(hub.entries[id], now)
    OBVIOUS
  <2> HIDE DEF later
  <2> QED
    BY <2>1, <2>2 DEF Asked, Entry
<1> HIDE DEF later
<1>3. hub'.paid = hub.paid /\ hub'.entries = later
  BY <1>1 DEF TypeOK, Hub
<1> QED
  BY <1>2, <1>3

\* What a frame of the log is ingested as, and what is then written to the inbox.
LEMMA IngestStep ==
  ASSUME TypeOK, Evidence, Lines \subseteq Lines', Lines' \subseteq Logged,
         NEW line \in Lines', hub' = Ingest(hub, line.frame, line.at, dir),
         Persist(line.frame.id), dir' = dir, config' = config
  PROVE  Evidence'
<1> DEFINE more == Lines'
<1>1. line.frame.id \in Payloads
  BY DEF Logged, Frame, ManifestFrame, ChunkFrame
<1>2. hub \in Hub /\ dir \in Directory /\ KeysOwned(dir)
  BY DEF TypeOK, Evidence
<1>3. HubEvidence(hub, more)
  BY <1>2, EvidenceGrows DEF Evidence
<1>4. HubEvidence(hub', more)
  BY <1>2, <1>3, IngestEvidence
<1> HIDE DEF more
<1>5. ASSUME NEW id \in inbox' PROVE Complete(id, more)
  <2>1. CASE id \in inbox
    <3>1. id \in Payloads /\ Complete(id, Lines) /\ Lines \subseteq more
      BY <2>1 DEF TypeOK, Evidence, more
    <3> QED
      BY <3>1, CompleteGrows
  <2>2. CASE id \notin inbox
    <3> DEFINE e == hub'.entries[id]
    <3>1. id \in Payloads /\ e.report = "verified"
      BY <1>5, <2>2 DEF Persist, Verified
    <3>2. EntryEvidence(id, e, more)
      BY <1>4, <3>1 DEF HubEvidence
    <3> HIDE DEF e
    <3> QED
      BY <3>1, <3>2, VerifiedCompletes
  <2> QED
    BY <2>1, <2>2
<1> QED
  BY <1>4, <1>5 DEF Evidence, more

\* A kill leaves the log and the inbox, and an empty memory.
LEMMA DieStep ==
  ASSUME TypeOK, Evidence, Lines \subseteq Lines', hub' = EmptyHub,
         UNCHANGED <<dir, config, inbox>>
  PROVE  Evidence'
<1> DEFINE more == Lines'
<1>1. HubEvidence(hub', more)
  BY EmptyEvidence
<1>2. \A id \in inbox' : Complete(id, more)
  <2> SUFFICES ASSUME NEW id \in inbox PROVE Complete(id, more)
    OBVIOUS
  <2>1. id \in Payloads /\ Complete(id, Lines)
    BY DEF TypeOK, Evidence
  <2> QED
    BY <2>1, CompleteGrows
<1> QED
  BY <1>1, <1>2 DEF Evidence

\* Every step keeps everything traced to the log.
LEMMA EvidenceStep == TypeOK /\ Evidence /\ [Next]_vars => Evidence'
<1> SUFFICES ASSUME TypeOK, Evidence, [Next]_vars PROVE Evidence'
  OBVIOUS
<1> USE HubAssumption
<1>0. TypeOK' /\ Lines' \subseteq Logged
  <2>1. TypeOK'
    BY TypeStep
  <2>2. frameLog' \in Seq(Logged)
    BY <2>1 DEF TypeOK
  <2> QED
    BY <2>1, <2>2 DEF Lines
<1>1. ASSUME NEW f \in Arrivals, Receive(f) PROVE Evidence'
  <2> DEFINE line == [at |-> now, frame |-> f, whole |-> TRUE]
  <2>1. f \in Frame
    OBVIOUS
  <2>2. Lines' = Lines \cup {line}
    BY <1>1, <2>1, AppendLines DEF Receive
  <2>3. hub' = Ingest(hub, line.frame, line.at, dir) /\ Persist(line.frame.id)
    BY <1>1 DEF Receive
  <2>4. dir' = dir /\ config' = config
    BY <1>1 DEF Receive
  <2> HIDE DEF line
  <2> QED
    BY <1>0, <2>2, <2>3, <2>4, IngestStep
<1>2. ASSUME NEW f \in Arrivals, KilledWhileLogging(f) \/ ReceiveThrows(f) PROVE Evidence'
  <2>1. PICK whole \in BOOLEAN : AppendLine(f, whole)
    BY <1>2 DEF KilledWhileLogging, ReceiveThrows
  <2>2. f \in Frame
    OBVIOUS
  <2>3. Lines \subseteq Lines'
    BY <2>1, <2>2, AppendLines
  <2> QED
    BY <1>2, <2>3, DieStep DEF KilledWhileLogging, ReceiveThrows, Die, Ended
<1>3. CASE Crash
  <2>1. Lines' = Lines
    BY <1>3 DEF Crash, Lines
  <2> QED
    BY <1>3, <2>1, DieStep DEF Crash, Die, Ended
<1>4. CASE Restart
  BY <1>4 DEF Evidence, Restart, Lines
<1>5. CASE Replay
  <2> DEFINE line == frameLog[pos + 1]
  <2>1. Lines' = Lines /\ (line.whole => line \in Lines)
    BY <1>5 DEF TypeOK, Replay, Replays, Lines
  <2>2. CASE Replays(hub, line, dir)
    <3>1. hub' = Ingest(hub, line.frame, line.at, dir) /\ Persist(line.frame.id)
      BY <1>5, <2>2 DEF Replay, Replays
    <3>2. dir' = dir /\ config' = config
      BY <1>5 DEF Replay, Replays
    <3> HIDE DEF line
    <3> QED
      BY <1>0, <2>1, <2>2, <3>1, <3>2, IngestStep DEF Replays
  <2>3. CASE ~Replays(hub, line, dir)
    BY <1>5, <2>1, <2>3 DEF Evidence, Replay, Replays
  <2> QED
    BY <2>2, <2>3
<1>6. CASE Listen
  BY <1>6 DEF Evidence, Listen, Lines
<1>7. CASE Tick
  <2>1. Lines' = Lines /\ dir' = config /\ config' = config /\ inbox' = inbox
    BY <1>7 DEF Tick, Lines
  <2>2. HubEvidence(hub', Lines)
    BY <1>7, TickKeeps DEF Evidence, HubEvidence, EntryEvidence
  <2> QED
    BY <2>1, <2>2 DEF Evidence
<1>8. ASSUME NEW n \in Clinics \cup Relays, Revoke(n) PROVE Evidence'
  <2>1. KeysOwned(config')
    BY <1>8, RevokedOwned DEF TypeOK, Evidence, Revoke
  <2> QED
    BY <1>8, <2>1 DEF Evidence, Revoke, Lines
<1>9. CASE Advance
  BY <1>9 DEF Evidence, Advance, Lines
<1>10. CASE UNCHANGED vars
  BY <1>10 DEF Evidence, vars, Lines
<1> QED
  BY <1>1, <1>2, <1>3, <1>4, <1>5, <1>6, <1>7, <1>8, <1>9, <1>10 DEF Next

\* Ingesting a line of the log keeps what the hub holds clear of revoked keys.
LEMMA IngestRevocations ==
  ASSUME TypeOK, Evidence, Lines \subseteq Lines', Lines' \subseteq Logged,
         HubUnrevoked(hub, dir, Lines),
         NEW line \in Lines', hub' = Ingest(hub, line.frame, line.at, dir)
  PROVE  HubUnrevoked(hub', dir, Lines')
<1> DEFINE more == Lines'
<1>1. hub \in Hub /\ dir \in Directory /\ KeysOwned(dir) /\ HubEvidence(hub, Lines)
  BY DEF TypeOK, Evidence
<1>2. Lines \subseteq more /\ more \subseteq Logged /\ line \in more
  OBVIOUS
<1> HIDE DEF more
<1>3. HubEvidence(hub, more) /\ HubUnrevoked(hub, dir, more)
  BY <1>1, <1>2, EvidenceGrows, UnrevokedGrows
<1>4. HubUnrevoked(hub', dir, more)
  BY <1>1, <1>2, <1>3, IngestUnrevoked
<1> QED
  BY <1>4 DEF more

\* Every step keeps revocations later than what they do not judge.
LEMMA RevocationsStep == TypeOK /\ Evidence /\ Revocations /\ [Next]_vars => Revocations'
<1> SUFFICES ASSUME TypeOK, Evidence, Revocations, [Next]_vars PROVE Revocations'
  OBVIOUS
<1> USE HubAssumption
<1>0. dir \in Directory /\ config \in Directory /\ now \in Nat
  BY DEF TypeOK
<1>a. Lines' \subseteq Logged
  <2>1. TypeOK'
    BY TypeStep
  <2>2. frameLog' \in Seq(Logged)
    BY <2>1 DEF TypeOK
  <2> QED
    BY <2>1, <2>2 DEF Lines
<1>b. ASSUME Lines' = Lines, UNCHANGED <<dir, config, now>>,
             PromptReload => HubUnrevoked(hub', dir, Lines)
      PROVE  Revocations'
  BY <1>b DEF Revocations
<1>1. ASSUME NEW f \in Arrivals, Receive(f) PROVE Revocations'
  <2> DEFINE line == [at |-> now, frame |-> f, whole |-> TRUE]
  <2>1. f \in Frame
    OBVIOUS
  <2>2. Lines' = Lines \cup {line}
    BY <1>1, <2>1, AppendLines DEF Receive
  <2>3. hub' = Ingest(hub, line.frame, line.at, dir)
    BY <1>1 DEF Receive
  <2>4. line.at = now
    OBVIOUS
  <2> HIDE DEF line
  <2>5. PromptReload => HubUnrevoked(hub', dir, Lines')
    BY <1>a, <2>2, <2>3, IngestRevocations DEF Revocations
  <2> QED
    BY <1>0, <1>1, <2>2, <2>4, <2>5 DEF Receive, MayArrive, Revocations
<1>2. ASSUME NEW f \in Arrivals, KilledWhileLogging(f) \/ ReceiveThrows(f) PROVE Revocations'
  <2>1. PICK whole \in BOOLEAN : AppendLine(f, whole)
    BY <1>2 DEF KilledWhileLogging, ReceiveThrows
  <2> DEFINE line == [at |-> now, frame |-> f, whole |-> whole]
  <2>2. f \in Frame
    OBVIOUS
  <2>3. Lines' = Lines \cup (IF whole THEN {line} ELSE {})
    BY <2>1, <2>2, AppendLines
  <2>4. \A l \in Lines' : l \in Lines \/ l.at = now
    BY <2>3
  <2> HIDE DEF line
  <2>5. HubUnrevoked(hub', dir, Lines')
    BY <1>2, EmptyUnrevoked DEF KilledWhileLogging, ReceiveThrows, Die, Ended
  <2>6. UNCHANGED <<dir, config, now>> /\ (PromptReload => dir = config)
    BY <1>2 DEF KilledWhileLogging, ReceiveThrows, MayArrive
  <2> QED
    BY <1>0, <2>4, <2>5, <2>6 DEF Revocations
<1>3. CASE Crash
  <2>1. Lines' = Lines /\ HubUnrevoked(hub', dir, Lines)
    BY <1>3, EmptyUnrevoked DEF Crash, Die, Ended, Lines
  <2> QED
    BY <1>3, <1>b, <2>1 DEF Crash
<1>4. CASE Restart
  <2>1. PromptReload => HubUnrevoked(hub, config, Lines)
    BY ReloadUnrevoked
  <2> QED
    BY <1>4, <2>1 DEF Restart, Revocations, Lines
<1>5. CASE Replay
  <2> DEFINE line == frameLog[pos + 1]
  <2>1. Lines' = Lines /\ UNCHANGED <<dir, config, now>>
    BY <1>5 DEF Replay, Replays, Lines
  <2>2. CASE Replays(hub, line, dir)
    <3>1. line \in Lines
      BY <1>5, <2>2 DEF TypeOK, Replay, Replays, Lines
    <3>2. hub' = Ingest(hub, line.frame, line.at, dir)
      BY <1>5, <2>2 DEF Replay, Replays
    <3> HIDE DEF line
    <3>3. PromptReload => HubUnrevoked(hub', dir, Lines')
      BY <1>a, <2>1, <3>1, <3>2, IngestRevocations DEF Revocations
    <3> QED
      BY <1>b, <2>1, <3>3
  <2>3. CASE ~Replays(hub, line, dir)
    BY <1>5, <1>b, <2>1, <2>3 DEF Replay, Replays, Revocations
  <2> QED
    BY <2>2, <2>3
<1>6. CASE Listen
  BY <1>6 DEF Revocations, Listen, Lines
<1>7. CASE Tick
  <2>1. PromptReload => HubUnrevoked(hub, config, Lines)
    BY ReloadUnrevoked
  <2>2. PromptReload => HubUnrevoked(hub', config, Lines)
    BY <1>7, <2>1, TickKeeps DEF HubUnrevoked
  <2> QED
    BY <1>7, <2>2 DEF Tick, Revocations, Lines
<1>8. ASSUME NEW n \in Clinics \cup Relays, Revoke(n) PROVE Revocations'
  <2>1. now' = now + 1 /\ Lines' = Lines /\ hub' = hub /\ dir' = dir
    BY <1>8 DEF Revoke, Lines
  <2>2. config'.revoked =
          config.revoked \cup {[eid |-> n, pub |-> KeyOf(config, n), revokedAt |-> now + 1]}
    BY <1>8 DEF Revoke, Revoked
  <2>3. \A line \in Lines : line.at \in Nat
    BY LinesType DEF Logged
  <2> QED
    BY <1>0, <2>1, <2>2, <2>3 DEF Revocations
<1>9. CASE Advance
  <2>1. \A line \in Lines : line.at \in Nat
    BY LinesType DEF Logged
  <2> QED
    BY <1>0, <1>9, <2>1 DEF Advance, Revocations, Lines
<1>10. CASE UNCHANGED vars
  BY <1>10 DEF Revocations, vars, Lines
<1> QED
  BY <1>1, <1>2, <1>3, <1>4, <1>5, <1>6, <1>7, <1>8, <1>9, <1>10 DEF Next

-----------------------------------------------------------------------------
(* The theorems.                                                           *)

\* The invariant holds at the start.
LEMMA InitInvariant == Init => HubInvariant
<1> SUFFICES ASSUME Init PROVE HubInvariant
  OBVIOUS
<1>1. Lines = {}
  BY DEF Init, Lines
<1>2. KeysOwned(dir) /\ KeysOwned(config)
  BY DEF Init, KeysOwned, Provisioned
<1>3. HubEvidence(hub, Lines)
  BY EmptyEvidence DEF Init
<1>4. HubUnrevoked(hub, dir, Lines)
  BY EmptyUnrevoked DEF Init
<1> QED
  BY <1>1, <1>2, <1>3, <1>4 DEF HubInvariant, Evidence, Revocations, Init

\* Whatever arrives, whoever is revoked and whenever the hub is killed, all it
\* holds can be traced to its log and no unloaded revocation precedes a line.
THEOREM Traceable == Spec => []HubInvariant
<1>1. TypeOK /\ HubInvariant /\ [Next]_vars => HubInvariant'
  BY EvidenceStep, RevocationsStep DEF HubInvariant
<1> QED
  BY <1>1, InitInvariant, TypeCorrect, PTL DEF Spec

\* The hub owes a relay only what a logged frame with its own receipt in an
\* unbroken, verified chain supports (check in roles.mjs).
THEOREM PaymentsAreEarned == Spec => []PaidIsEarned
<1>1. HubInvariant => PaidIsEarned
  BY DEF HubInvariant, Evidence, HubEvidence, PaidIsEarned
<1> QED
  BY <1>1, Traceable, PTL

\* A report shown as verified, or in the inbox, is the clinic's own and complete
\* (finalize in roles.mjs, persist in node.mjs).
THEOREM VerifiedReportsAreComplete == Spec => []VerifiedIsComplete
<1>1. TypeOK /\ HubInvariant => VerifiedIsComplete
  <2> SUFFICES ASSUME TypeOK, HubInvariant, NEW id \in Payloads,
                      id \in inbox \/ hub.entries[id].report = "verified"
               PROVE  Complete(id, Lines)
    BY DEF VerifiedIsComplete
  <2>1. CASE id \in inbox
    BY <2>1 DEF HubInvariant, Evidence
  <2>2. CASE hub.entries[id].report = "verified"
    <3> DEFINE e == hub.entries[id]
    <3>1. EntryEvidence(id, e, Lines) /\ e.report = "verified"
      BY <2>2 DEF HubInvariant, Evidence, HubEvidence
    <3> HIDE DEF e
    <3> QED
      BY <3>1, VerifiedCompletes
  <2> QED
    BY <2>1, <2>2
<1> QED
  BY <1>1, Traceable, TypeCorrect, PTL

\* Provided no frame reaches the hub between a revocation and its reload, no
\* handoff is owed on the word of a key revoked before the frame arrived (header
\* of roles.mjs), however the hub was killed and restarted.
THEOREM RevokedKeysEarnNothing ==
  ASSUME PromptReload
  PROVE  Spec => []RevokedKeyNeverPaid
<1>1. TypeOK /\ HubInvariant => RevokedKeyNeverPaid
  <2> SUFFICES ASSUME TypeOK, HubInvariant PROVE RevokedKeyNeverPaid
    OBVIOUS
  <2>1. HubUnrevoked(hub, config, Lines)
    BY ReloadUnrevoked DEF HubInvariant
  <2> QED
    BY <2>1 DEF HubUnrevoked, RevokedKeyNeverPaid
<1> QED
  BY <1>1, Traceable, TypeCorrect, PTL

-----------------------------------------------------------------------------
(* Directories that judge alike.                                           *)

\* What arrived at "at" is judged under directory c as it is under d.
Agree(c, d, at) ==
  /\ \A key : IsRevoked(c.revoked, key, at) = IsRevoked(d.revoked, key, at)
  /\ \A id \in Payloads :
       KeyAt(c.clinics, c.revoked, ClinicOf[id], at) = KeyAt(d.clinics, d.revoked, ClinicOf[id], at)
  /\ \A n \in Nodes \ Clinics :
       KeyAt(c.relays, c.revoked, n, at) = KeyAt(d.relays, d.revoked, n, at)

\* No clinic signed for it as a custodian.
NoClinicIn(custody) == \A k \in DOMAIN custody : custody[k].hop \notin Clinics

\* What lines of a log let a fold judge alike.
Settled(lines, c, d) ==
  \A line \in lines :
    /\ Agree(c, d, line.at)
    /\ line.frame.kind = "chunk" => NoClinicIn(line.frame.custody)

\* A key is as good under both for a custodian that is no clinic.
LEMMA SameManifest ==
  ASSUME NEW f \in Frame, NEW at, NEW c, NEW d, Agree(c, d, at)
  PROVE  ManifestOk(f, at, c) = ManifestOk(f, at, d)
<1>1. f.id \in Payloads
  BY DEF Frame, ManifestFrame, ChunkFrame
<1>2. IsRevoked(c.revoked, f.signer, at) = IsRevoked(d.revoked, f.signer, at)
  BY DEF Agree
<1>3. KeyAt(c.clinics, c.revoked, ClinicOf[f.id], at) = KeyAt(d.clinics, d.revoked, ClinicOf[f.id], at)
  BY <1>1 DEF Agree
<1> QED
  BY <1>2, <1>3 DEF ManifestOk

\* So is a chunk.
LEMMA SameAcceptable ==
  ASSUME NEW id \in Payloads, NEW x \in Chunk, NoClinicIn(x.custody),
         NEW c, NEW d, Agree(c, d, x.at)
  PROVE  Acceptable(id, x, c) = Acceptable(id, x, d)
<1>1. \A k \in DOMAIN x.custody :
        IsRevoked(c.revoked, x.custody[k].key, x.at) = IsRevoked(d.revoked, x.custody[k].key, x.at)
  BY DEF Agree
<1>2. ASSUME NEW k \in DOMAIN x.custody
      PROVE  KeyAt(c.relays, c.revoked, x.custody[k].hop, x.at)
               = KeyAt(d.relays, d.revoked, x.custody[k].hop, x.at)
  <2>1. x.custody \in Seq(Receipt)
    BY DEF Chunk
  <2> DEFINE s == x.custody
  <2> HIDE DEF s
  <2>2. s[k].hop \in Nodes
    <3>1. s \in Seq(Receipt) /\ k \in DOMAIN s
      BY <2>1 DEF s
    <3>2. s[k] \in Receipt
      BY <3>1
    <3> QED
      BY <3>2 DEF Receipt
  <2>3. x.custody[k].hop \notin Clinics
    BY DEF NoClinicIn
  <2>4. \A n \in Nodes \ Clinics :
          KeyAt(c.relays, c.revoked, n, x.at) = KeyAt(d.relays, d.revoked, n, x.at)
    BY DEF Agree
  <2> QED
    BY <2>2, <2>3, <2>4 DEF s
<1>3. AuditOk(x.custody, ClinicOf[id], x.at, c) <=> AuditOk(x.custody, ClinicOf[id], x.at, d)
  BY <1>2 DEF AuditOk
<1>4. Acceptable(id, x, c) <=> Acceptable(id, x, d)
  BY <1>1, <1>3 DEF Acceptable
<1> QED
  BY <1>4 DEF Acceptable

\* So are the chunks that are checked together.
LEMMA SameFinalize ==
  ASSUME NEW id \in Payloads, NEW e \in Entry, NEW c, NEW d,
         \A x \in e.chunks : Agree(c, d, x.at) /\ NoClinicIn(x.custody)
  PROVE  Finalize(id, e, c) = Finalize(id, e, d)
<1>1. \A x \in e.chunks : Acceptable(id, x, c) = Acceptable(id, x, d)
  BY SameAcceptable DEF Entry
<1>2. {x \in e.chunks : x.ok \/ Acceptable(id, x, c)} = {x \in e.chunks : x.ok \/ Acceptable(id, x, d)}
  BY <1>1
<1> QED
  BY <1>2 DEF Finalize

\* What an entry holds was logged, so it is judged alike.
LEMMA HeldSettled ==
  ASSUME NEW id, NEW e, NEW lines, NEW c, NEW d,
         EntryEvidence(id, e, lines), Settled(lines, c, d)
  PROVE  \A x \in e.chunks : Agree(c, d, x.at) /\ NoClinicIn(x.custody)
<1> SUFFICES ASSUME NEW x \in e.chunks PROVE Agree(c, d, x.at) /\ NoClinicIn(x.custody)
  OBVIOUS
<1>1. PICK line \in lines : Proves(line, id, x)
  BY DEF EntryEvidence
<1> QED
  BY <1>1 DEF Proves, Settled

\* A frame does the same to a report.
LEMMA SameIngestFrame ==
  ASSUME NEW e \in Entry, NEW lines, NEW line \in lines, line \in Logged, NEW c, NEW d,
         EntryEvidence(line.frame.id, e, lines), Settled(lines, c, d)
  PROVE  IngestFrame(e, line.frame, line.at, c) = IngestFrame(e, line.frame, line.at, d)
<1> DEFINE f  == line.frame
           at == line.at
<1>1. f \in Frame /\ at \in Nat /\ f.id \in Payloads
  BY DEF Logged, Frame, ManifestFrame, ChunkFrame
<1>2. \A x \in e.chunks : Agree(c, d, x.at) /\ NoClinicIn(x.custody)
  BY HeldSettled
<1>3. Agree(c, d, at) /\ (f.kind = "chunk" => NoClinicIn(f.custody))
  BY DEF Settled
<1> HIDE DEF f, at
<1>4. Touched(e, f, at) \in Entry /\ Touched(e, f, at).chunks = e.chunks
  BY <1>1, TouchedType DEF Touched, Entry
<1>5. CASE f.kind = "manifest"
  <2> DEFINE t == Touched(e, f, at)
             m(ok) == [t EXCEPT !.manifest = ok]
  <2>1. t \in Entry /\ t.chunks = e.chunks
    BY <1>4
  <2>2. IngestFrame(e, f, at, c) = IF t.manifest THEN t ELSE Finalize(f.id, m(ManifestOk(f, at, c)), c)
    BY <1>5 DEF IngestFrame, IngestManifest
  <2>3. IngestFrame(e, f, at, d) = IF t.manifest THEN t ELSE Finalize(f.id, m(ManifestOk(f, at, d)), d)
    BY <1>5 DEF IngestFrame, IngestManifest
  <2>4. ManifestOk(f, at, c) = ManifestOk(f, at, d)
    BY <1>1, <1>3, SameManifest
  <2>5. ManifestOk(f, at, d) \in BOOLEAN
    BY DEF ManifestOk
  <2> DEFINE ok == ManifestOk(f, at, d)
  <2> HIDE DEF t, ok
  <2>6. m(ok) \in Entry /\ m(ok).chunks = t.chunks
    BY <2>1, <2>5 DEF Entry, ok
  <2> HIDE DEF m
  <2>7. Finalize(f.id, m(ok), c) = Finalize(f.id, m(ok), d)
    BY <1>1, <1>2, <2>1, <2>6, SameFinalize
  <2> QED
    BY <2>2, <2>3, <2>4, <2>7 DEF ok, f, at
<1>6. CASE f.kind # "manifest"
  <2>1. f \in ChunkFrame
    BY <1>1, <1>6 DEF Frame, ManifestFrame
  <2> DEFINE u == Touched(e, f, at)
             route == IF f.custody = <<>> THEN u.route ELSE RouteOf(f)
             t == [u EXCEPT !.route = route]
             x == [index |-> f.index, intact |-> f.intact, bare |-> f.form = "bare",
                   custody |-> f.custody, at |-> at, ok |-> FALSE]
             m == [t EXCEPT !.chunks = @ \cup {x}]
  <2>2. u \in Entry /\ u.chunks = e.chunks
    BY <1>4
  <2>3. IngestFrame(e, f, at, c) =
          IF f.index \in Held(t) \/ t.report = "verified" THEN t ELSE Finalize(f.id, m, c)
    BY <1>6 DEF IngestFrame, IngestChunk
  <2>4. IngestFrame(e, f, at, d) =
          IF f.index \in Held(t) \/ t.report = "verified" THEN t ELSE Finalize(f.id, m, d)
    BY <1>6 DEF IngestFrame, IngestChunk
  <2>5. x \in Chunk /\ x.at = at /\ x.custody = f.custody
    BY <1>1, <2>1 DEF ChunkFrame, Chunk
  <2>6. NoClinicIn(f.custody)
    BY <1>3, <2>1 DEF ChunkFrame
  <2> HIDE DEF u, x
  <2>7. route \in Seq(Nodes)
    <3>1. CASE f.custody = <<>>
      BY <2>2, <3>1 DEF Entry
    <3>2. CASE f.custody # <<>>
      BY <2>1, <3>2, RouteType
    <3> QED
      BY <3>1, <3>2
  <2> HIDE DEF route
  <2>8. t \in Entry /\ t.chunks = u.chunks
    BY <2>2, <2>7 DEF Entry
  <2> HIDE DEF t
  <2>9. m \in Entry /\ m.chunks = t.chunks \cup {x}
    BY <2>5, <2>8 DEF Entry
  <2> HIDE DEF m
  <2>10. \A y \in m.chunks : Agree(c, d, y.at) /\ NoClinicIn(y.custody)
    BY <1>2, <1>3, <2>2, <2>5, <2>6, <2>8, <2>9
  <2>11. Finalize(f.id, m, c) = Finalize(f.id, m, d)
    BY <1>1, <2>9, <2>10, SameFinalize
  <2> QED
    BY <2>3, <2>4, <2>11 DEF f, at
<1> QED
  BY <1>5, <1>6

\* A line of the log does the same to a hub that holds what was logged.
LEMMA SameIngest ==
  ASSUME NEW h \in Hub, NEW lines, lines \subseteq Logged, NEW line \in lines, NEW c, NEW d,
         HubEvidence(h, lines), Settled(lines, c, d)
  PROVE  Ingest(h, line.frame, line.at, c) = Ingest(h, line.frame, line.at, d)
<1> DEFINE id == line.frame.id
<1>1. line \in Logged /\ id \in Payloads
  BY DEF Logged, Frame, ManifestFrame, ChunkFrame
<1>2. h.entries[id] \in Entry /\ EntryEvidence(id, h.entries[id], lines)
  BY <1>1 DEF Hub, HubEvidence
<1>3. IngestFrame(h.entries[id], line.frame, line.at, c)
        = IngestFrame(h.entries[id], line.frame, line.at, d)
  BY <1>1, <1>2, SameIngestFrame
<1> QED
  BY <1>3 DEF Ingest

-----------------------------------------------------------------------------
(* A revocation is later than what arrived, and changes no verdict on it.  *)

\* Revocation r is later than "at" and than those of "revoked", and the book
\* "old" with the key it ends, for node n, became the book "new".
Follows(r, revoked, old, new, n, at) ==
  /\ at \in Nat /\ r.revokedAt \in Nat /\ at < r.revokedAt
  /\ \A s \in revoked : s.revokedAt \in Nat /\ s.revokedAt < r.revokedAt
  /\ DOMAIN new = DOMAIN old
  /\ r.eid = n => n \in DOMAIN old /\ r.pub = old[n]
  /\ r.eid # n => (n \in DOMAIN old => new[n] = old[n])

\* The key of a node at an instant before its next revocation.
LEMMA KeyAtBefore ==
  ASSUME NEW old, NEW new, NEW revoked, NEW r, NEW n, NEW at,
         Follows(r, revoked, old, new, n, at)
  PROVE  KeyAt(new, revoked \cup {r}, n, at) = KeyAt(old, revoked, n, at)
<1>0. /\ at \in Nat /\ r.revokedAt \in Nat /\ at < r.revokedAt
      /\ \A s \in revoked : s.revokedAt \in Nat /\ s.revokedAt < r.revokedAt
      /\ DOMAIN new = DOMAIN old
      /\ r.eid = n => n \in DOMAIN old /\ r.pub = old[n]
      /\ r.eid # n => (n \in DOMAIN old => new[n] = old[n])
  BY DEF Follows
<1> DEFINE later == LaterRevocations(revoked, n, at)
           after == LaterRevocations(revoked \cup {r}, n, at)
           First(set) == {s \in set : \A u \in set : s.revokedAt <= u.revokedAt}
           In(book) == {book[m] : m \in {x \in DOMAIN book : x = n}}
<1>1. /\ KeyAt(old, revoked, n, at) = IF later # {} THEN {s.pub : s \in First(later)} ELSE In(old)
      /\ KeyAt(new, revoked \cup {r}, n, at) = IF after # {} THEN {s.pub : s \in First(after)} ELSE In(new)
  BY DEF KeyAt
<1>2. CASE r.eid # n
  <2>1. after = later
    BY <1>2 DEF LaterRevocations
  <2>2. In(new) = In(old)
    BY <1>0, <1>2
  <2> QED
    BY <1>1, <2>1, <2>2
<1>3. CASE r.eid = n
  <2>1. after = later \cup {r} /\ after # {}
    BY <1>0, <1>3 DEF LaterRevocations
  <2>2. \A s \in later : s.revokedAt \in Nat /\ s.revokedAt < r.revokedAt
    BY <1>0 DEF LaterRevocations
  <2>3. CASE later = {}
    <3>1. First(after) = {r}
      <4>1. r.revokedAt <= r.revokedAt
        BY <1>0
      <4> HIDE DEF later, after
      <4>2. after = {r}
        BY <2>1, <2>3
      <4> QED
        BY <4>1, <4>2
    <3>2. {s.pub : s \in First(after)} = {old[n]}
      BY <1>0, <1>3, <3>1, ZenonT(60)
    <3>3. In(old) = {old[n]}
      BY <1>0, <1>3
    <3> QED
      BY <1>1, <2>1, <2>3, <3>2, <3>3
  <2>4. CASE later # {}
    <3> HIDE DEF later, after
    <3>1. First(after) = First(later)
      BY <1>0, <2>1, <2>2, <2>4
    <3> QED
      BY <1>1, <2>1, <2>4, <3>1
  <2> QED
    BY <2>3, <2>4
<1> QED
  BY <1>2, <1>3

\* The directory after a revocation judges all that arrived as the one before.
LEMMA RevokedAgrees ==
  ASSUME NEW d \in Directory, NEW n \in Clinics \cup Relays, NEW t \in Nat, NEW at \in Nat,
         \A r \in d.revoked : r.revokedAt < t, at < t, RolesApart
  PROVE  Agree(d, Revoked(d, n, t), at)
<1> DEFINE g == Revoked(d, n, t)
           r == [eid |-> n, pub |-> KeyOf(d, n), revokedAt |-> t]
<1>1. /\ g.revoked = d.revoked \cup {r}
      /\ g.clinics = [c \in Clinics |-> IF c = n THEN <<n, KeyOf(d, n)[2] + 1>> ELSE d.clinics[c]]
      /\ g.relays = [x \in Relays |-> IF x = n /\ n \notin Clinics
                                      THEN <<n, KeyOf(d, n)[2] + 1>> ELSE d.relays[x]]
  BY DEF Revoked
<1>2. /\ DOMAIN d.clinics = Clinics /\ DOMAIN d.relays = Relays
      /\ \A s \in d.revoked : s.revokedAt \in Nat /\ s.revokedAt < r.revokedAt
  BY DEF Directory, Revocation
<1>3. r.eid = n /\ r.pub = KeyOf(d, n) /\ r.revokedAt \in Nat /\ at < r.revokedAt
  OBVIOUS
<1> HIDE DEF g, r
<1>4. \A key : IsRevoked(d.revoked, key, at) = IsRevoked(g.revoked, key, at)
  BY <1>1, <1>3 DEF IsRevoked
<1>5. ASSUME NEW id \in Payloads
      PROVE  KeyAt(d.clinics, d.revoked, ClinicOf[id], at) = KeyAt(g.clinics, g.revoked, ClinicOf[id], at)
  <2> DEFINE m == ClinicOf[id]
  <2>1. m \notin Relays
    BY <1>5 DEF RolesApart
  <2>2. r.eid = m => m \in DOMAIN d.clinics /\ r.pub = d.clinics[m]
    BY <1>2, <1>3, <2>1 DEF KeyOf
  <2>3. DOMAIN g.clinics = DOMAIN d.clinics /\ (r.eid # m => (m \in DOMAIN d.clinics => g.clinics[m] = d.clinics[m]))
    BY <1>1, <1>2, <1>3
  <2> HIDE DEF m
  <2>4. KeyAt(g.clinics, d.revoked \cup {r}, m, at) = KeyAt(d.clinics, d.revoked, m, at)
    <3>1. Follows(r, d.revoked, d.clinics, g.clinics, m, at)
      BY <1>2, <1>3, <2>2, <2>3 DEF Follows
    <3> QED
      BY <3>1, KeyAtBefore
  <2> QED
    BY <1>1, <2>4 DEF m
<1>6. ASSUME NEW m \in Nodes \ Clinics
      PROVE  KeyAt(d.relays, d.revoked, m, at) = KeyAt(g.relays, g.revoked, m, at)
  <2>1. r.eid = m => m \in DOMAIN d.relays /\ r.pub = d.relays[m]
    BY <1>2, <1>3, <1>6 DEF KeyOf
  <2>2. DOMAIN g.relays = DOMAIN d.relays /\ (r.eid # m => (m \in DOMAIN d.relays => g.relays[m] = d.relays[m]))
    BY <1>1, <1>2, <1>3
  <2>3. KeyAt(g.relays, d.revoked \cup {r}, m, at) = KeyAt(d.relays, d.revoked, m, at)
    <3>1. Follows(r, d.revoked, d.relays, g.relays, m, at)
      BY <1>2, <1>3, <2>1, <2>2 DEF Follows
    <3> QED
      BY <3>1, KeyAtBefore
  <2> QED
    BY <1>1, <2>3
<1> QED
  BY <1>4, <1>5, <1>6 DEF Agree, g

LEMMA AgreeTransitive ==
  ASSUME NEW b, NEW c, NEW d, NEW at, Agree(b, c, at), Agree(c, d, at)
  PROVE  Agree(b, d, at)
  BY DEF Agree

-----------------------------------------------------------------------------
(* What the log cannot tell is left out of the comparison.                 *)

\* A report's entry but for the requests made.
Forget(e) == [e EXCEPT !.resends = 0, !.nextAt = 0]

LEMMA ForgetType ==
  ASSUME NEW e \in Entry
  PROVE  /\ Forget(e) \in Entry
         /\ Forget(e).manifest = e.manifest /\ Forget(e).chunks = e.chunks
         /\ Forget(e).report = e.report
  BY DEF Forget, Entry

\* Two entries that differ in the requests alone.
Alike(e, g) == e \in Entry /\ g \in Entry /\ Forget(e) = Forget(g)

LEMMA AlikeFields ==
  ASSUME NEW e, NEW g, Alike(e, g)
  PROVE  /\ e.manifest = g.manifest /\ e.chunks = g.chunks /\ e.report = g.report
         /\ e.lastAt = g.lastAt /\ e.via = g.via /\ e.route = g.route
  BY DEF Alike, Forget, Entry

LEMMA FieldsAlike ==
  ASSUME NEW e \in Entry, NEW g \in Entry,
         e.manifest = g.manifest, e.chunks = g.chunks, e.report = g.report,
         e.lastAt = g.lastAt, e.via = g.via, e.route = g.route
  PROVE  Alike(e, g)
  BY DEF Alike, Forget, Entry

\* Checking the chunks makes no difference of none.
LEMMA FinalizeAlike ==
  ASSUME NEW id \in Payloads, NEW e, NEW g, Alike(e, g), NEW d
  PROVE  Alike(Finalize(id, e, d), Finalize(id, g, d))
<1> DEFINE x == Finalize(id, e, d)
           y == Finalize(id, g, d)
<1>1. e \in Entry /\ g \in Entry
  BY DEF Alike
<1>2. x \in Entry /\ y \in Entry
  BY <1>1, FinalizeType
<1>3. /\ e.manifest = g.manifest /\ e.chunks = g.chunks /\ e.report = g.report
      /\ e.lastAt = g.lastAt /\ e.via = g.via /\ e.route = g.route
  BY AlikeFields
<1>4. x.manifest = y.manifest /\ x.lastAt = y.lastAt /\ x.via = y.via /\ x.route = y.route
  BY <1>1, <1>3 DEF Finalize, Entry
<1>5. x.chunks = y.chunks /\ x.report = y.report
  BY <1>1, <1>3 DEF Finalize, Entry
<1> HIDE DEF x, y
<1>6. Alike(x, y)
  BY <1>2, <1>4, <1>5, FieldsAlike
<1> QED
  BY <1>6 DEF x, y

\* Nor does a frame.
LEMMA IngestFrameAlike ==
  ASSUME NEW e, NEW g, Alike(e, g), NEW f \in Frame, NEW at \in Nat, NEW d
  PROVE  Alike(IngestFrame(e, f, at, d), IngestFrame(g, f, at, d))
<1>1. e \in Entry /\ g \in Entry /\ f.id \in Payloads
  BY DEF Alike, Frame, ManifestFrame, ChunkFrame
<1>2. /\ e.manifest = g.manifest /\ e.chunks = g.chunks /\ e.report = g.report
      /\ e.lastAt = g.lastAt /\ e.via = g.via /\ e.route = g.route
  BY AlikeFields
<1> DEFINE a == Touched(e, f, at)
           b == Touched(g, f, at)
<1>3. a \in Entry /\ b \in Entry
  BY <1>1, TouchedType
<1>4. /\ a.manifest = b.manifest /\ a.chunks = b.chunks /\ a.report = b.report
      /\ a.lastAt = b.lastAt /\ a.via = b.via /\ a.route = b.route
  BY <1>1, <1>2 DEF Touched, Entry
<1> HIDE DEF a, b
<1>5. Alike(a, b)
  BY <1>3, <1>4, FieldsAlike
<1>6. CASE f.kind = "manifest"
  <2> DEFINE ok == ManifestOk(f, at, d)
             x == [a EXCEPT !.manifest = ok]
             y == [b EXCEPT !.manifest = ok]
  <2>1. /\ IngestFrame(e, f, at, d) = IF a.manifest THEN a ELSE Finalize(f.id, x, d)
        /\ IngestFrame(g, f, at, d) = IF b.manifest THEN b ELSE Finalize(f.id, y, d)
    BY <1>6 DEF IngestFrame, IngestManifest, a, b
  <2>2. ok \in BOOLEAN
    BY DEF ManifestOk
  <2> HIDE DEF ok
  <2>3. x \in Entry /\ y \in Entry
    BY <1>3, <2>2 DEF Entry
  <2>4. /\ x.manifest = y.manifest /\ x.chunks = y.chunks /\ x.report = y.report
        /\ x.lastAt = y.lastAt /\ x.via = y.via /\ x.route = y.route
    BY <1>3, <1>4 DEF Entry
  <2> HIDE DEF x, y
  <2>5. Alike(Finalize(f.id, x, d), Finalize(f.id, y, d))
    BY <1>1, <2>3, <2>4, FieldsAlike, FinalizeAlike
  <2> QED
    BY <1>4, <1>5, <2>1, <2>5
<1>7. CASE f.kind # "manifest"
  <2>1. f \in ChunkFrame
    BY <1>7 DEF Frame, ManifestFrame
  <2> DEFINE x == [a EXCEPT !.route = IF f.custody = <<>> THEN @ ELSE RouteOf(f)]
             y == [b EXCEPT !.route = IF f.custody = <<>> THEN @ ELSE RouteOf(f)]
             c == [index |-> f.index, intact |-> f.intact, bare |-> f.form = "bare",
                   custody |-> f.custody, at |-> at, ok |-> FALSE]
             p == [x EXCEPT !.chunks = @ \cup {c}]
             q == [y EXCEPT !.chunks = @ \cup {c}]
  <2>2. /\ IngestFrame(e, f, at, d) = IF f.index \in Held(x) \/ x.report = "verified" THEN x
                                      ELSE Finalize(f.id, p, d)
        /\ IngestFrame(g, f, at, d) = IF f.index \in Held(y) \/ y.report = "verified" THEN y
                                      ELSE Finalize(f.id, q, d)
    BY <1>7 DEF IngestFrame, IngestChunk, a, b
  <2>3. c \in Chunk
    BY <2>1 DEF ChunkFrame, Chunk
  <2> HIDE DEF c
  <2>4. f.custody # <<>> => RouteOf(f) \in Seq(Nodes)
    BY <2>1, RouteType
  <2>5. x \in Entry /\ y \in Entry
    BY <1>3, <2>4 DEF Entry
  <2>6. /\ x.manifest = y.manifest /\ x.chunks = y.chunks /\ x.report = y.report
        /\ x.lastAt = y.lastAt /\ x.via = y.via /\ x.route = y.route
    BY <1>3, <1>4 DEF Entry
  <2> HIDE DEF x, y
  <2>7. Alike(x, y)
    BY <2>5, <2>6, FieldsAlike
  <2>8. p \in Entry /\ q \in Entry
    BY <2>3, <2>5 DEF Entry
  <2>9. /\ p.manifest = q.manifest /\ p.chunks = q.chunks /\ p.report = q.report
        /\ p.lastAt = q.lastAt /\ p.via = q.via /\ p.route = q.route
    BY <2>5, <2>6 DEF Entry
  <2> HIDE DEF p, q
  <2>10. Alike(Finalize(f.id, p, d), Finalize(f.id, q, d))
    BY <1>1, <2>8, <2>9, FieldsAlike, FinalizeAlike
  <2>11. Held(x) = Held(y)
    BY <2>6 DEF Held
  <2> QED
    BY <2>2, <2>6, <2>7, <2>10, <2>11
<1> QED
  BY <1>6, <1>7

\* Two hubs tell the same when they owe the same and their entries are alike.
LEMMA ToldIsAlike ==
  ASSUME NEW g \in Hub, NEW h \in Hub
  PROVE  Told(g) = Told(h) <=>
           g.paid = h.paid /\ \A id \in Payloads : Alike(g.entries[id], h.entries[id])
<1> DEFINE e(k) == [id \in Payloads |-> Forget(k.entries[id])]
<1>1. Told(g) = [paid |-> g.paid, entries |-> e(g)] /\ Told(h) = [paid |-> h.paid, entries |-> e(h)]
  BY DEF Told, Forget
<1>2. \A id \in Payloads : g.entries[id] \in Entry /\ h.entries[id] \in Entry
  BY DEF Hub
<1>3. e(g) = e(h) <=> \A id \in Payloads : Forget(g.entries[id]) = Forget(h.entries[id])
  <2>1. ASSUME e(g) = e(h), NEW id \in Payloads PROVE Forget(g.entries[id]) = Forget(h.entries[id])
    <3>1. e(g)[id] = e(h)[id]
      BY <2>1
    <3> QED
      BY <3>1
  <2>2. ASSUME \A id \in Payloads : Forget(g.entries[id]) = Forget(h.entries[id]) PROVE e(g) = e(h)
    BY <2>2
  <2> QED
    BY <2>1, <2>2
<1> HIDE DEF e
<1>4. Told(g) = Told(h) <=> g.paid = h.paid /\ e(g) = e(h)
  BY <1>1
<1> QED
  BY <1>2, <1>3, <1>4 DEF Alike

\* A line of the log keeps them so.
LEMMA IngestTold ==
  ASSUME NEW g \in Hub, NEW h \in Hub, Told(g) = Told(h), NEW f \in Frame, NEW at \in Nat, NEW d
  PROVE  Told(Ingest(g, f, at, d)) = Told(Ingest(h, f, at, d))
<1> DEFINE x == IngestFrame(g.entries[f.id], f, at, d)
           y == IngestFrame(h.entries[f.id], f, at, d)
           gg == Ingest(g, f, at, d)
           hh == Ingest(h, f, at, d)
<1>1. f.id \in Payloads
  BY DEF Frame, ManifestFrame, ChunkFrame
<1>2. g.paid = h.paid /\ \A id \in Payloads : Alike(g.entries[id], h.entries[id])
  BY ToldIsAlike
<1>3. Alike(x, y)
  BY <1>1, <1>2, IngestFrameAlike
<1> HIDE DEF x, y
<1>4. Earned(f.id, x) = Earned(f.id, y)
  BY <1>3, AlikeFields DEF Earned
<1>5. /\ gg.entries = [g.entries EXCEPT ![f.id] = x] /\ gg.paid = g.paid \cup Earned(f.id, x)
      /\ hh.entries = [h.entries EXCEPT ![f.id] = y] /\ hh.paid = h.paid \cup Earned(f.id, y)
  BY DEF Ingest, x, y
<1>6. gg \in Hub /\ hh \in Hub
  BY IngestType
<1> HIDE DEF gg, hh
<1>7. DOMAIN g.entries = Payloads /\ DOMAIN h.entries = Payloads
  BY DEF Hub
<1>8. gg.paid = hh.paid
  BY <1>2, <1>4, <1>5
<1>9. \A id \in Payloads : Alike(gg.entries[id], hh.entries[id])
  BY <1>2, <1>3, <1>5, <1>7
<1>10. Told(gg) = Told(hh)
  BY <1>6, <1>8, <1>9, ToldIsAlike
<1> QED
  BY <1>10 DEF gg, hh

-----------------------------------------------------------------------------
(* The run of hubs that a log passes through, and what Rebuilt makes of it. *)

Stepped(h, line, d) == IF line.whole THEN Ingest(h, line.frame, line.at, d) ELSE h

Folds(S, log, d) ==
  /\ S \in [0 .. Len(log) -> Hub]
  /\ S[0] = EmptyHub
  /\ \A n \in 1 .. Len(log) : S[n] = Stepped(S[n - 1], log[n], d)

\* Of the numbers up to a bound, any that are such have a first.
LEMMA FirstIsThere ==
  ASSUME NEW N \in Nat, NEW S, S \subseteq 0 .. N, S # {}
  PROVE  \E m \in S : \A x \in S : m <= x
<1> DEFINE below(m) == {x \in S : x <= m}
           T == {below(m) : m \in S}
<1>1. T \subseteq SUBSET S /\ T # {}
  OBVIOUS
<1>2. IsFiniteSet(S)
  <2>1. IsFiniteSet(0 .. N)
    BY FS_Interval
  <2> QED
    BY <2>1, FS_Subset
<1>3. IsWellFoundedOn(StrictSubsetOrdering(S), SUBSET S)
  BY <1>2, FS_FiniteSubsetsOfFinite, FS_StrictSubsetOrderingWellFounded
<1> HIDE DEF T
<1>4. PICK U \in T : \A V \in T : ~(<<V, U>> \in StrictSubsetOrdering(S))
  BY <1>1, <1>3, WFMin
<1>5. PICK m \in S : U = below(m)
  BY <1>4 DEF T
<1>6. ASSUME NEW y \in S, y < m PROVE FALSE
  <2>1. below(y) \in T
    BY DEF T
  <2>2. y \in Nat /\ m \in Nat /\ \A x \in S : x \in Nat
    OBVIOUS
  <2>3. below(y) \subseteq below(m) /\ m \in below(m) /\ m \notin below(y)
    <3>1. \A x \in S : x <= y => x <= m
      BY <1>6, <2>2
    <3>2. m <= m /\ ~(m <= y)
      BY <1>6, <2>2
    <3> QED
      BY <3>1, <3>2
  <2>4. below(y) # below(m)
    BY <2>3
  <2>5. <<below(y), below(m)>> \in StrictSubsetOrdering(S)
    BY <2>3, <2>4 DEF StrictSubsetOrdering
  <2> QED
    BY <1>4, <1>5, <2>1, <2>5
<1>7. m \in Nat /\ \A x \in S : x \in Nat
  OBVIOUS
<1> QED
  BY <1>6, <1>7

\* There is one such run, and Rebuilt is its end.
LEMMA FoldIsRebuilt ==
  ASSUME NEW log \in Seq(Logged), NEW d, NEW S, Folds(S, log, d)
  PROVE  Rebuilt(log, d) = S[Len(log)]
<1> DEFINE N == Len(log)
           Run(F) == [n \in 0 .. N |-> IF n = 0 THEN EmptyHub
                                       ELSE IF log[n].whole
                                            THEN Ingest(F[n - 1], log[n].frame, log[n].at, d)
                                            ELSE F[n - 1]]
<1>0. N \in Nat
  OBVIOUS
<1>1. S = Run(S)
  <2>1. S = [n \in 0 .. N |-> S[n]]
    BY DEF Folds
  <2>2. \A n \in 0 .. N : S[n] = Run(S)[n]
    BY <1>0 DEF Folds, Stepped
  <2> QED
    BY <2>1, <2>2
<1>2. ASSUME NEW F, F = Run(F) PROVE F = S
  <2> DEFINE odd == {n \in 0 .. N : F[n] # S[n]}
  <2>1. F = [n \in 0 .. N |-> F[n]]
    BY <1>2
  <2>2. S = [n \in 0 .. N |-> S[n]]
    BY DEF Folds
  <2>3. F[0] = EmptyHub /\ S[0] = EmptyHub
    BY <1>0, <1>2 DEF Folds
  <2>4. ASSUME NEW n \in 1 .. N
        PROVE  F[n] = Stepped(F[n - 1], log[n], d) /\ S[n] = Stepped(S[n - 1], log[n], d)
    <3>1. n \in 0 .. N /\ n # 0
      BY <1>0
    <3>2. F[n] = Run(F)[n]
      BY <1>2
    <3>3. F[n] = Stepped(F[n - 1], log[n], d)
      BY <3>1, <3>2 DEF Stepped
    <3> QED
      BY <3>3 DEF Folds
  <2>5. CASE odd = {}
    BY <2>1, <2>2, <2>5
  <2>6. CASE odd # {}
    <3>1. PICK m \in odd : \A x \in odd : m <= x
      BY <1>0, <2>6, FirstIsThere
    <3>2. m \in 0 .. N /\ F[m] # S[m]
      OBVIOUS
    <3>3. m \in 1 .. N
      BY <1>0, <2>3, <3>2
    <3>4. m - 1 \in 0 .. N /\ m - 1 \notin odd
      BY <1>0, <3>1, <3>3
    <3>5. F[m - 1] = S[m - 1]
      BY <3>4
    <3> QED
      BY <2>4, <3>2, <3>3, <3>5
  <2> QED
    BY <2>5, <2>6
<1> HIDE DEF Ingest
<1> QED
  BY <1>1, <1>2 DEF Rebuilt

-----------------------------------------------------------------------------
(* What a frame can no longer change.                                      *)

\* A report that is settled stays as it is.
LEMMA SettledStays ==
  ASSUME NEW e \in Entry, NEW f \in Frame, NEW at \in Nat, NEW d, e.report # "none"
  PROVE  IngestFrame(e, f, at, d).report = e.report
<1> DEFINE a == Touched(e, f, at)
<1>1. a \in Entry /\ a.report = e.report
  BY TouchedType DEF Touched, Entry
<1> HIDE DEF a
<1>2. CASE f.kind = "manifest"
  BY <1>1, <1>2 DEF IngestFrame, IngestManifest, Finalize, Entry, a
<1>3. CASE f.kind # "manifest"
  BY <1>1, <1>3 DEF IngestFrame, IngestChunk, Finalize, Entry, a
<1> QED
  BY <1>2, <1>3

LEMMA VerifiedStays ==
  ASSUME NEW h \in Hub, NEW f \in Frame, NEW at \in Nat, NEW d
  PROVE  Verified(h) \subseteq Verified(Ingest(h, f, at, d))
<1> SUFFICES ASSUME NEW id \in Payloads, h.entries[id].report = "verified"
             PROVE  Ingest(h, f, at, d).entries[id].report = "verified"
  BY DEF Verified
<1>1. h.entries[id] \in Entry /\ DOMAIN h.entries = Payloads
  BY DEF Hub
<1> DEFINE e == IngestFrame(h.entries[f.id], f, at, d)
<1>2. Ingest(h, f, at, d).entries = [h.entries EXCEPT ![f.id] = e]
  BY DEF Ingest
<1>3. CASE f.id = id
  <2>1. e.report = "verified"
    BY <1>1, <1>3, SettledStays
  <2> HIDE DEF e
  <2> QED
    BY <1>1, <1>2, <1>3, <2>1
<1>4. CASE f.id # id
  <2> HIDE DEF e
  <2> QED
    BY <1>1, <1>2, <1>4
<1> QED
  BY <1>3, <1>4

-----------------------------------------------------------------------------
(* The check never meets a chunk on which it would throw.                  *)

\* A chunk without its bytes lies unchecked, and no check of it is due.
BareLies(e) ==
  \A c \in e.chunks : c.bare => ~c.ok /\ (~e.manifest \/ e.report # "none")

\* finalize keeps it so when no bare chunk is due.
LEMMA FinalizeBare ==
  ASSUME NEW id \in Payloads, NEW e \in Entry, NEW d,
         \A c \in e.chunks : c.bare => ~c.ok /\ (~e.manifest \/ e.report # "none")
  PROVE  BareLies(Finalize(id, e, d))
<1>1. CASE ~e.manifest \/ e.report # "none"
  BY <1>1 DEF Finalize, BareLies
<1>2. CASE e.manifest /\ e.report = "none"
  <2> DEFINE kept == {[c EXCEPT !.ok = TRUE] :
                        c \in {x \in e.chunks : x.ok \/ Acceptable(id, x, d)}}
             report == IF Cardinality({c.index : c \in kept}) < ChunkCount[id]
                       THEN "none" ELSE IF Opens[id] THEN "verified" ELSE "refused"
             g == [e EXCEPT !.chunks = kept, !.report = report]
  <2>1. Finalize(id, e, d) = g
    BY <1>2 DEF Finalize
  <2>2. g.chunks = kept
    BY DEF Entry
  <2>3. \A c \in e.chunks : ~c.bare /\ c \in Chunk
    BY <1>2 DEF Entry
  <2>4. \A c \in kept : ~c.bare
    BY <2>3 DEF Chunk
  <2> QED
    BY <2>1, <2>2, <2>4 DEF BareLies
<1> QED
  BY <1>1, <1>2

\* So does a frame on which ingest does not throw.
LEMMA IngestFrameBare ==
  ASSUME NEW h \in Hub, NEW f \in Frame, NEW at \in Nat, NEW d,
         \A id \in Payloads : BareLies(h.entries[id]), ~Throws(h, f, at, d)
  PROVE  BareLies(IngestFrame(h.entries[f.id], f, at, d))
<1> DEFINE e == h.entries[f.id]
           u == Touched(e, f, at)
<1>1. f.id \in Payloads /\ f.lastHop \in Nodes
  BY DEF Frame, ManifestFrame, ChunkFrame
<1>2. e \in Entry /\ BareLies(e)
  BY <1>1 DEF Hub
<1>3. /\ u \in Entry
      /\ u.chunks = e.chunks /\ u.manifest = e.manifest /\ u.report = e.report
  BY <1>1, <1>2 DEF Touched, Entry
<1>4. CASE f.kind = "manifest"
  <2> DEFINE m == [u EXCEPT !.manifest = ManifestOk(f, at, d)]
  <2>1. CASE u.manifest
    BY <1>2, <1>3, <1>4, <2>1 DEF IngestFrame, IngestManifest, BareLies
  <2>2. CASE ~u.manifest
    <3>0. ManifestOk(f, at, d) \in BOOLEAN
      BY DEF ManifestOk
    <3>1. /\ m \in Entry
          /\ m.chunks = e.chunks /\ m.report = e.report /\ (m.manifest <=> ManifestOk(f, at, d))
      BY <1>3, <3>0 DEF Entry
    <3>2. \A c \in m.chunks : c.bare => ~c.ok /\ (~m.manifest \/ m.report # "none")
      BY <1>2, <1>3, <1>4, <2>2, <3>1 DEF BareLies, Throws
    <3>3. IngestFrame(e, f, at, d) = Finalize(f.id, m, d)
      BY <1>4, <2>2 DEF IngestFrame, IngestManifest
    <3> HIDE DEF m
    <3> QED
      BY <1>1, <3>1, <3>2, <3>3, FinalizeBare
  <2> QED
    BY <2>1, <2>2
<1>5. CASE f.kind # "manifest"
  <2>1. f \in ChunkFrame
    BY <1>5 DEF Frame, ManifestFrame
  <2> DEFINE t == [u EXCEPT !.route = IF f.custody = <<>> THEN @ ELSE RouteOf(f)]
             c == [index |-> f.index, intact |-> f.intact, bare |-> f.form = "bare",
                   custody |-> f.custody, at |-> at, ok |-> FALSE]
             m == [t EXCEPT !.chunks = @ \cup {c}]
  <2>2. t.chunks = e.chunks /\ t.manifest = e.manifest /\ t.report = e.report
    BY <1>3 DEF Entry
  <2>3. CASE f.index \in Held(t) \/ t.report = "verified"
    BY <1>2, <1>5, <2>2, <2>3 DEF IngestFrame, IngestChunk, BareLies
  <2>4. CASE ~(f.index \in Held(t) \/ t.report = "verified")
    <3>1. IngestFrame(e, f, at, d) = Finalize(f.id, m, d)
      BY <1>5, <2>4 DEF IngestFrame, IngestChunk
    <3>2. c.bare /\ e.manifest => e.report # "none"
      BY <1>5, <2>2, <2>4 DEF Throws, Held
    <3>3. m \in Entry
      <4>1. f.custody # <<>> => RouteOf(f) \in Seq(Nodes)
        BY <2>1, RouteType
      <4>2. u \in Entry
        BY <1>3
      <4> HIDE DEF u, c
      <4>3. t \in Entry
        BY <4>1, <4>2 DEF Entry
      <4>4. c \in Chunk
        BY <2>1 DEF ChunkFrame, Chunk, c
      <4> HIDE DEF t
      <4> QED
        BY <4>3, <4>4 DEF Entry
    <3>4. m.chunks = e.chunks \cup {c} /\ m.manifest = e.manifest /\ m.report = e.report
      BY <1>3 DEF Entry
    <3>5. ~c.ok
      OBVIOUS
    <3> HIDE DEF m, c
    <3>6. \A x \in m.chunks : x.bare => ~x.ok /\ (~m.manifest \/ m.report # "none")
      BY <1>2, <3>2, <3>4, <3>5 DEF BareLies
    <3> QED
      BY <1>1, <3>1, <3>3, <3>6, FinalizeBare
  <2> QED
    BY <2>3, <2>4
<1> QED
  BY <1>4, <1>5

\* The check never meets a chunk it would throw on.
BareIsUnchecked == \A id \in Payloads : BareLies(hub.entries[id])

\* Every step leaves bare chunks unchecked: a frame that would change that ends
\* the process or its start.
LEMMA BareStep == TypeOK /\ BareIsUnchecked /\ [Next]_vars => BareIsUnchecked'
<1> SUFFICES ASSUME TypeOK, BareIsUnchecked, [Next]_vars PROVE BareIsUnchecked'
  OBVIOUS
<1> USE HubAssumption
<1>0. hub \in Hub /\ \A id \in Payloads : BareLies(hub.entries[id])
  BY DEF TypeOK, BareIsUnchecked
<1>1. ASSUME hub' = hub PROVE BareIsUnchecked'
  BY <1>1 DEF BareIsUnchecked
<1>2. ASSUME hub' = EmptyHub PROVE BareIsUnchecked'
  BY <1>2 DEF BareIsUnchecked, BareLies, EmptyHub, EmptyEntry
<1>3. ASSUME NEW f \in Frame, NEW at \in Nat, ~Throws(hub, f, at, dir),
             hub' = Ingest(hub, f, at, dir)
      PROVE  BareIsUnchecked'
  <2>1. BareLies(IngestFrame(hub.entries[f.id], f, at, dir))
    BY <1>0, <1>3, IngestFrameBare
  <2> DEFINE x == IngestFrame(hub.entries[f.id], f, at, dir)
  <2> HIDE DEF x
  <2>2. hub'.entries = [hub.entries EXCEPT ![f.id] = x]
    BY <1>3 DEF Ingest, x
  <2>3. \A id \in Payloads : hub'.entries[id] = IF id = f.id THEN x ELSE hub.entries[id]
    BY <1>0, <2>2 DEF Hub
  <2>4. BareLies(x)
    BY <2>1 DEF x
  <2> QED
    BY <1>0, <2>3, <2>4 DEF BareIsUnchecked
<1>4. ASSUME NEW f \in Arrivals, Receive(f) PROVE BareIsUnchecked'
  BY <1>3, <1>4 DEF TypeOK, Receive
<1>5. ASSUME NEW f \in Arrivals, KilledWhileLogging(f) \/ ReceiveThrows(f) PROVE BareIsUnchecked'
  BY <1>2, <1>5 DEF KilledWhileLogging, ReceiveThrows, Die, Ended
<1>6. CASE Replay
  <2> DEFINE line == frameLog[pos + 1]
  <2>1. line.frame \in Frame /\ line.at \in Nat
    BY <1>6, LineType DEF TypeOK, Replay
  <2>2. CASE Replays(hub, line, dir)
    BY <1>3, <1>6, <2>1, <2>2 DEF Replay, Replays
  <2>3. CASE ~Replays(hub, line, dir)
    BY <1>1, <1>6, <2>3 DEF Replay
  <2> QED
    BY <2>2, <2>3
<1>7. CASE Tick
  <2>1. \A id \in Payloads : hub'.entries[id] \in {hub.entries[id], Asked(hub.entries[id], now)}
    BY <1>0, <1>7 DEF Tick, Hub
  <2>2. \A id \in Payloads : hub.entries[id] \in Entry
    BY <1>0 DEF Hub
  <2>3. \A e \in Entry : BareLies(e) => BareLies(Asked(e, now))
    BY DEF BareLies, Asked, Entry
  <2> QED
    BY <1>0, <2>1, <2>2, <2>3 DEF BareIsUnchecked
<1>8. CASE Crash
  BY <1>2, <1>8 DEF Crash, Die, Ended
<1>9. CASE Restart \/ Listen \/ Advance \/ UNCHANGED vars
  BY <1>1, <1>9 DEF Restart, Listen, Advance, vars
<1>10. ASSUME NEW n \in Clinics \cup Relays, Revoke(n) PROVE BareIsUnchecked'
  BY <1>1, <1>10 DEF Revoke
<1> QED
  BY <1>4, <1>5, <1>6, <1>7, <1>8, <1>9, <1>10 DEF Next

\* No chunk without its bytes, branch or list of receipts is ever accepted, and
\* none waits under an accepted manifest of an open report: Throws names every
\* frame that would have the check meet one (roles.mjs check, finalize).
THEOREM BareChunksAreNeverChecked == Spec => []BareIsUnchecked
<1>1. Init => BareIsUnchecked
  BY DEF Init, BareIsUnchecked, BareLies, EmptyHub, EmptyEntry
<1> QED
  BY <1>1, TypeCorrect, BareStep, PTL DEF Spec

-----------------------------------------------------------------------------
(* Good frames settle a report, whatever arrives with them.                *)

GoodManifest(line, id, d) ==
  /\ line.whole /\ line.frame.kind = "manifest" /\ line.frame.id = id
  /\ ManifestOk(line.frame, line.at, d)

\* A frame as the hub would hold it.
AsChunk(f, at) == [index |-> f.index, intact |-> f.intact, bare |-> f.form = "bare",
                   custody |-> f.custody, at |-> at, ok |-> FALSE]

GoodChunk(line, id, i, d) ==
  /\ line.whole /\ line.frame.kind = "chunk" /\ line.frame.id = id /\ line.frame.index = i
  /\ Acceptable(id, AsChunk(line.frame, line.at), d)

\* With its manifest there, an open report holds checked chunks, and not enough.
Checked(id, e) ==
  e.manifest /\ e.report = "none" =>
    /\ \A c \in e.chunks : c.ok
    /\ Cardinality(Held(e)) < ChunkCount[id]

\* After k lines: a good manifest is there, and so is a good chunk after it.
Settles(h, log, k, d) ==
  \A id \in Payloads :
    /\ Checked(id, h.entries[id])
    /\ \A m \in 1 .. k : GoodManifest(log[m], id, d) =>
         /\ h.entries[id].manifest
         /\ \A n \in 1 .. k : \A i \in Index(id) :
              n > m /\ GoodChunk(log[n], id, i, d) =>
                h.entries[id].report # "none" \/ i \in Held(h.entries[id])

\* Checking the chunks drops the bad ones only.
LEMMA FinalizeChecks ==
  ASSUME NEW id \in Payloads, NEW e \in Entry, NEW d
  PROVE  LET x == Finalize(id, e, d)
         IN  /\ Checked(id, x)
             /\ x.manifest = e.manifest
             /\ e.report # "none" => x.report = e.report
             /\ e.manifest => \A c \in e.chunks :
                  c.ok \/ Acceptable(id, c, d) => x.report # "none" \/ c.index \in Held(x)
<1> DEFINE x == Finalize(id, e, d)
           good == {c \in e.chunks : c.ok \/ Acceptable(id, c, d)}
           kept == {[c EXCEPT !.ok = TRUE] : c \in good}
<1>1. CASE ~e.manifest \/ e.report # "none"
  <2>1. x = e
    BY <1>1 DEF Finalize
  <2> QED
    BY <1>1, <2>1 DEF Checked
<1>2. CASE e.manifest /\ e.report = "none"
  <2> DEFINE report == IF Cardinality({c.index : c \in kept}) < ChunkCount[id] THEN "none"
                       ELSE IF Opens[id] THEN "verified" ELSE "refused"
  <2>1. x = [e EXCEPT !.chunks = kept, !.report = report]
    BY <1>2 DEF Finalize
  <2>2. good \subseteq Chunk
    BY DEF Entry
  <2> HIDE DEF good, x, report
  <2>3. \A c \in kept : c.ok
    BY <2>2 DEF Chunk
  <2>4. \A c \in good : \E k \in kept : k.index = c.index
    <3> SUFFICES ASSUME NEW c \in good PROVE \E k \in kept : k.index = c.index
      OBVIOUS
    <3>1. [c EXCEPT !.ok = TRUE] \in kept /\ [c EXCEPT !.ok = TRUE].index = c.index
      BY <2>2 DEF Chunk
    <3> QED
      BY <3>1
  <2> HIDE DEF kept
  <2>5. x.chunks = kept /\ x.report = report /\ x.manifest = e.manifest
    BY <2>1 DEF Entry
  <2>6. Held(x) = {c.index : c \in kept}
    BY <2>5 DEF Held
  <2>7. Checked(id, x)
    BY <2>3, <2>5, <2>6 DEF Checked, report
  <2>8. \A c \in good : c.index \in Held(x)
    BY <2>4, <2>6
  <2> QED
    BY <1>2, <2>5, <2>7, <2>8 DEF good, x
<1> QED
  BY <1>1, <1>2

\* A frame takes nothing good away, and a good one is there after it.
LEMMA IngestFrameSettles ==
  ASSUME NEW e \in Entry, NEW f \in Frame, NEW at \in Nat, NEW d, Checked(f.id, e)
  PROVE  LET x == IngestFrame(e, f, at, d)
         IN  /\ Checked(f.id, x)
             /\ e.manifest => x.manifest
             /\ e.report # "none" => x.report # "none"
             /\ e.manifest => \A i \in Held(e) : x.report # "none" \/ i \in Held(x)
             /\ f.kind = "manifest" /\ ManifestOk(f, at, d) => x.manifest
             /\ e.manifest /\ f.kind # "manifest" /\ Acceptable(f.id, AsChunk(f, at), d) =>
                  x.report # "none" \/ f.index \in Held(x)
<1> DEFINE x == IngestFrame(e, f, at, d)
           a == Touched(e, f, at)
<1>1. f.id \in Payloads
  BY DEF Frame, ManifestFrame, ChunkFrame
<1>2. a \in Entry /\ a.manifest = e.manifest /\ a.chunks = e.chunks /\ a.report = e.report
  BY TouchedType DEF Touched, Entry
<1> HIDE DEF a
<1>3. Held(a) = Held(e) /\ Checked(f.id, a)
  BY <1>2 DEF Held, Checked
<1>4. CASE f.kind = "manifest"
  <2> DEFINE ok == ManifestOk(f, at, d)
             b == [a EXCEPT !.manifest = ok]
  <2>1. x = IF a.manifest THEN a ELSE Finalize(f.id, b, d)
    BY <1>4 DEF IngestFrame, IngestManifest, a
  <2>2. ok \in BOOLEAN
    BY DEF ManifestOk
  <2> HIDE DEF ok
  <2>3. b \in Entry /\ b.manifest = ok /\ b.report = a.report
    BY <1>2, <2>2 DEF Entry
  <2> HIDE DEF b, x
  <2>4. CASE a.manifest
    BY <1>2, <1>3, <1>4, <2>1, <2>4 DEF x
  <2>5. CASE ~a.manifest
    <3>1. x = Finalize(f.id, b, d)
      BY <2>1, <2>5
    <3>2. Checked(f.id, x) /\ x.manifest = ok /\ (b.report # "none" => x.report = b.report)
      BY <1>1, <2>3, <3>1, FinalizeChecks
    <3> QED
      BY <1>2, <1>4, <2>3, <2>5, <3>2 DEF x, ok
  <2> QED
    BY <2>4, <2>5
<1>5. CASE f.kind # "manifest"
  <2>1. f \in ChunkFrame
    BY <1>5 DEF Frame, ManifestFrame
  <2> DEFINE t == [a EXCEPT !.route = IF f.custody = <<>> THEN @ ELSE RouteOf(f)]
             c == AsChunk(f, at)
             b == [t EXCEPT !.chunks = @ \cup {c}]
  <2>2. x = IF f.index \in Held(t) \/ t.report = "verified" THEN t ELSE Finalize(f.id, b, d)
    BY <1>5 DEF IngestFrame, IngestChunk, AsChunk, a
  <2>3. c \in Chunk /\ c.index = f.index
    BY <2>1 DEF ChunkFrame, Chunk, AsChunk
  <2> HIDE DEF c
  <2>4. f.custody # <<>> => RouteOf(f) \in Seq(Nodes)
    BY <2>1, RouteType
  <2>5. t \in Entry /\ t.manifest = a.manifest /\ t.chunks = a.chunks /\ t.report = a.report
    BY <1>2, <2>4 DEF Entry
  <2> HIDE DEF t
  <2>6. Held(t) = Held(e) /\ Checked(f.id, t)
    BY <1>3, <2>5 DEF Held, Checked
  <2>7. b \in Entry /\ b.manifest = t.manifest /\ b.chunks = t.chunks \cup {c} /\ b.report = t.report
    BY <2>3, <2>5 DEF Entry
  <2> HIDE DEF b, x
  <2>8. CASE f.index \in Held(t) \/ t.report = "verified"
    <3>1. x = t
      BY <2>2, <2>8
    <3> QED
      BY <1>2, <1>5, <2>5, <2>6, <2>8, <3>1 DEF x
  <2>9. CASE ~(f.index \in Held(t) \/ t.report = "verified")
    <3>1. x = Finalize(f.id, b, d)
      BY <2>2, <2>9
    <3>2. /\ Checked(f.id, x) /\ x.manifest = b.manifest
          /\ b.report # "none" => x.report = b.report
          /\ b.manifest => \A y \in b.chunks :
               y.ok \/ Acceptable(f.id, y, d) => x.report # "none" \/ y.index \in Held(x)
      BY <1>1, <2>7, <3>1, FinalizeChecks
    <3>3. e.manifest /\ e.report = "none" => \A y \in e.chunks : x.report # "none" \/ y.index \in Held(x)
      <4>1. e.manifest /\ e.report = "none" => \A y \in e.chunks : y.ok
        BY DEF Checked
      <4> QED
        BY <1>2, <2>5, <2>7, <3>2, <4>1
    <3>4. e.manifest => \A i \in Held(e) : x.report # "none" \/ i \in Held(x)
      <4>1. CASE e.report = "none"
        BY <3>3, <4>1 DEF Held
      <4>2. CASE e.report # "none"
        BY <1>2, <2>5, <2>7, <3>2, <4>2
      <4> QED
        BY <4>1, <4>2
    <3>5. e.manifest /\ Acceptable(f.id, c, d) => x.report # "none" \/ f.index \in Held(x)
      BY <1>2, <2>3, <2>5, <2>7, <3>2
    <3>6. Checked(f.id, x) /\ (e.manifest => x.manifest) /\ (e.report # "none" => x.report # "none")
      BY <1>2, <2>5, <2>7, <3>2
    <3> QED
      BY <1>5, <3>4, <3>5, <3>6 DEF x, c
  <2> QED
    BY <2>8, <2>9
<1> QED
  BY <1>4, <1>5

-----------------------------------------------------------------------------
(* The run of hubs under one more line, and under other directories.       *)

\* S is the run of the log, each of its hubs rests on "lines", and a report
\* verified on the way is verified at the end.
Runs(S, log, lines, d) ==
  /\ Folds(S, log, d)
  /\ \A k \in 0 .. Len(log) :
       /\ HubEvidence(S[k], lines)
       /\ Settles(S[k], log, k, d)
       /\ Verified(S[k]) \subseteq Verified(S[Len(log)])

Longer(S, log, line, d) ==
  [k \in 0 .. (Len(log) + 1) |-> IF k <= Len(log) THEN S[k] ELSE Stepped(S[Len(log)], line, d)]

\* Good frames of a line are there after it.
LEMMA SteppedSettles ==
  ASSUME NEW log \in Seq(Logged), NEW k \in 1 .. Len(log), NEW h \in Hub, NEW d,
         Settles(h, log, k - 1, d)
  PROVE  Settles(Stepped(h, log[k], d), log, k, d)
<1> DEFINE line == log[k]
           g == Stepped(h, line, d)
<1>1. Len(log) \in Nat /\ k \in Nat /\ line \in Logged
  OBVIOUS
<1>2. line.frame \in Frame /\ line.at \in Nat
  BY <1>1 DEF Logged
<1>3. DOMAIN h.entries = Payloads /\ \A id \in Payloads : h.entries[id] \in Entry
  BY DEF Hub
<1> DEFINE x == IngestFrame(h.entries[line.frame.id], line.frame, line.at, d)
<1>4. g.entries = IF line.whole THEN [h.entries EXCEPT ![line.frame.id] = x] ELSE h.entries
  BY DEF Stepped, Ingest
<1> HIDE DEF g
<1>5. SUFFICES ASSUME NEW id \in Payloads
               PROVE  /\ Checked(id, g.entries[id])
                      /\ \A m \in 1 .. k : GoodManifest(log[m], id, d) =>
                           /\ g.entries[id].manifest
                           /\ \A n \in 1 .. k : \A i \in Index(id) :
                                n > m /\ GoodChunk(log[n], id, i, d) =>
                                  g.entries[id].report # "none" \/ i \in Held(g.entries[id])
  BY DEF Settles, g
<1> DEFINE e == h.entries[id]
           y == g.entries[id]
<1>6. /\ Checked(id, e)
      /\ \A m \in 1 .. (k - 1) : GoodManifest(log[m], id, d) =>
           /\ e.manifest
           /\ \A n \in 1 .. (k - 1) : \A i \in Index(id) :
                n > m /\ GoodChunk(log[n], id, i, d) => e.report # "none" \/ i \in Held(e)
  BY DEF Settles
<1>7. \A m \in 1 .. k : m = k \/ m \in 1 .. (k - 1)
  BY <1>1
<1>8. CASE line.whole /\ line.frame.id = id
  <2>1. y = x /\ e \in Entry
    BY <1>3, <1>4, <1>8
  <2>2. /\ Checked(id, x)
        /\ e.manifest => x.manifest
        /\ e.report # "none" => x.report # "none"
        /\ e.manifest => \A i \in Held(e) : x.report # "none" \/ i \in Held(x)
        /\ line.frame.kind = "manifest" /\ ManifestOk(line.frame, line.at, d) => x.manifest
        /\ e.manifest /\ line.frame.kind # "manifest"
             /\ Acceptable(id, AsChunk(line.frame, line.at), d) =>
             x.report # "none" \/ line.frame.index \in Held(x)
    BY <1>2, <1>6, <1>8, <2>1, IngestFrameSettles
  <2> HIDE DEF x, e, y
  <2>3. ASSUME NEW m \in 1 .. k, GoodManifest(log[m], id, d) PROVE y.manifest
    BY <1>6, <1>7, <2>1, <2>2, <2>3 DEF GoodManifest
  <2>4. ASSUME NEW m \in 1 .. k, GoodManifest(log[m], id, d),
               NEW n \in 1 .. k, NEW i \in Index(id), n > m, GoodChunk(log[n], id, i, d)
        PROVE  y.report # "none" \/ i \in Held(y)
    <3>1. m \in 1 .. (k - 1) /\ e.manifest
      <4>1. m # k
        BY <1>1, <2>4
      <4> QED
        BY <1>6, <1>7, <2>4, <4>1
    <3>2. CASE n = k
      BY <2>1, <2>2, <2>4, <3>1, <3>2 DEF GoodChunk
    <3>3. CASE n \in 1 .. (k - 1)
      BY <1>6, <2>1, <2>2, <2>4, <3>1, <3>3
    <3> QED
      BY <1>7, <3>2, <3>3
  <2> QED
    BY <2>1, <2>2, <2>3, <2>4 DEF y
<1>9. CASE ~(line.whole /\ line.frame.id = id)
  <2>1. y = e
    BY <1>3, <1>4, <1>9
  <2>2. ~GoodManifest(log[k], id, d) /\ \A i : ~GoodChunk(log[k], id, i, d)
    BY <1>9 DEF GoodManifest, GoodChunk
  <2> HIDE DEF e, y, line
  <2> QED
    BY <1>6, <1>7, <2>1, <2>2 DEF y
<1> QED
  BY <1>8, <1>9

\* Lines beyond the k-th do not matter to what is settled after k.
LEMMA SettlesPrefix ==
  ASSUME NEW log, NEW longer, NEW k \in Nat, NEW h, NEW d,
         \A n \in 1 .. k : log[n] = longer[n], Settles(h, log, k, d)
  PROVE  Settles(h, longer, k, d)
<1> SUFFICES ASSUME NEW id \in Payloads
             PROVE  /\ Checked(id, h.entries[id])
                    /\ \A m \in 1 .. k : GoodManifest(longer[m], id, d) =>
                         /\ h.entries[id].manifest
                         /\ \A n \in 1 .. k : \A i \in Index(id) :
                              n > m /\ GoodChunk(longer[n], id, i, d) =>
                                h.entries[id].report # "none" \/ i \in Held(h.entries[id])
  BY DEF Settles
<1>1. /\ Checked(id, h.entries[id])
      /\ \A m \in 1 .. k : GoodManifest(log[m], id, d) =>
           /\ h.entries[id].manifest
           /\ \A n \in 1 .. k : \A i \in Index(id) :
                n > m /\ GoodChunk(log[n], id, i, d) =>
                  h.entries[id].report # "none" \/ i \in Held(h.entries[id])
  BY DEF Settles
<1> QED
  BY <1>1

\* One more line, one more hub.
LEMMA RunGrows ==
  ASSUME NEW log \in Seq(Logged), NEW lines, NEW d \in Directory, KeysOwned(d),
         NEW S, Runs(S, log, lines, d),
         NEW line \in Logged, NEW more, more \subseteq Logged, lines \subseteq more,
         line.whole => line \in more
  PROVE  /\ Runs(Longer(S, log, line, d), Append(log, line), more, d)
         /\ \A k \in 0 .. Len(log) : Longer(S, log, line, d)[k] = S[k]
         /\ Longer(S, log, line, d)[Len(log) + 1] = Stepped(S[Len(log)], line, d)
         /\ Verified(S[Len(log)]) \subseteq Verified(Longer(S, log, line, d)[Len(log) + 1])
<1> DEFINE N == Len(log)
           T == Longer(S, log, line, d)
           grown == Append(log, line)
           h == S[N]
           g == Stepped(h, line, d)
<1>1. /\ N \in Nat /\ grown \in Seq(Logged) /\ Len(grown) = N + 1 /\ grown[N + 1] = line
      /\ \A n \in 1 .. N : grown[n] = log[n]
  OBVIOUS
<1>2. /\ DOMAIN T = 0 .. (N + 1)
      /\ \A k \in 0 .. N : T[k] = S[k]
      /\ T[N + 1] = g
  BY <1>1 DEF Longer
<1>3. S \in [0 .. N -> Hub] /\ S[0] = EmptyHub
      /\ \A n \in 1 .. N : S[n] = Stepped(S[n - 1], log[n], d)
  BY DEF Runs, Folds
<1>4. \A k \in 0 .. N : /\ HubEvidence(S[k], lines) /\ Settles(S[k], log, k, d)
                        /\ Verified(S[k]) \subseteq Verified(h)
  BY DEF Runs
<1>5. N \in 0 .. N /\ h \in Hub
  BY <1>1, <1>3
<1>6. line.frame \in Frame /\ line.at \in Nat
  BY DEF Logged
<1> HIDE DEF T, h, N
<1>7. g \in Hub
  BY <1>5, <1>6, IngestType DEF Stepped
<1>8. HubEvidence(g, more)
  <2>1. HubEvidence(h, more)
    BY <1>4, <1>5, EvidenceGrows DEF h
  <2> QED
    BY <1>5, <2>1, IngestEvidence DEF Stepped
<1>9. Verified(h) \subseteq Verified(g)
  BY <1>5, <1>6, VerifiedStays DEF Stepped
<1> HIDE DEF g, grown
<1>10. Settles(g, grown, N + 1, d)
  <2>1. Settles(h, grown, N, d)
    BY <1>1, <1>4, <1>5, SettlesPrefix DEF h
  <2>2. N + 1 \in 1 .. Len(grown) /\ (N + 1) - 1 = N
    BY <1>1
  <2>3. Settles(Stepped(h, grown[N + 1], d), grown, N + 1, d)
    BY <1>1, <1>5, <2>1, <2>2, SteppedSettles
  <2> QED
    BY <1>1, <2>3 DEF g
<1>11. \A k \in 0 .. (N + 1) : k = N + 1 \/ k \in 0 .. N
  BY <1>1
<1>12. Folds(T, grown, d)
  <2>1. T \in [0 .. (N + 1) -> Hub]
    <3>1. \A k \in 0 .. (N + 1) : T[k] \in Hub
      BY <1>2, <1>3, <1>7, <1>11
    <3>2. T = [k \in 0 .. (N + 1) |-> T[k]]
      BY DEF T, Longer, N
    <3> QED
      BY <3>1, <3>2
  <2>2. T[0] = EmptyHub
    BY <1>1, <1>2, <1>3
  <2>3. ASSUME NEW n \in 1 .. (N + 1) PROVE T[n] = Stepped(T[n - 1], grown[n], d)
    <3>1. CASE n = N + 1
      <4>1. T[n - 1] = h
        BY <1>1, <1>2, <3>1 DEF h
      <4> QED
        BY <1>1, <1>2, <3>1, <4>1 DEF g
    <3>2. CASE n # N + 1
      <4>1. n \in 1 .. N /\ n \in 0 .. N /\ n - 1 \in 0 .. N
        BY <1>1, <3>2
      <4> QED
        BY <1>1, <1>2, <1>3, <4>1
    <3> QED
      BY <3>1, <3>2
  <2> QED
    BY <1>1, <2>1, <2>2, <2>3 DEF Folds
<1>13. ASSUME NEW k \in 0 .. (N + 1)
       PROVE  HubEvidence(T[k], more) /\ Settles(T[k], grown, k, d) /\ Verified(T[k]) \subseteq Verified(T[N + 1])
  <2>1. CASE k = N + 1
    BY <1>2, <1>8, <1>10, <2>1
  <2>2. CASE k \in 0 .. N
    <3>1. T[k] = S[k] /\ S[k] \in Hub
      BY <1>2, <1>3, <2>2
    <3>2. HubEvidence(S[k], more)
      BY <1>4, <2>2, <3>1, EvidenceGrows
    <3>3. k \in Nat /\ \A n \in 1 .. k : grown[n] = log[n]
      BY <1>1, <2>2
    <3>4. Settles(S[k], log, k, d)
      BY <1>4, <2>2
    <3>5. Settles(S[k], grown, k, d)
      BY <3>3, <3>4, SettlesPrefix
    <3> QED
      BY <1>2, <1>4, <1>9, <2>2, <3>1, <3>2, <3>5
  <2> QED
    BY <1>11, <2>1, <2>2
<1>14. Runs(T, grown, more, d)
  BY <1>1, <1>12, <1>13 DEF Runs
<1> QED
  BY <1>2, <1>9, <1>14 DEF T, g, h, N, grown

\* A log is the same run under two directories that judge its lines alike.
LEMMA RunUnder ==
  ASSUME NEW log \in Seq(Logged), NEW lines, lines \subseteq Logged,
         \A n \in DOMAIN log : log[n].whole => log[n] \in lines,
         NEW c, NEW d, Settled(lines, c, d), NEW S, Runs(S, log, lines, c)
  PROVE  Runs(S, log, lines, d)
<1> DEFINE N == Len(log)
<1>1. S \in [0 .. N -> Hub] /\ S[0] = EmptyHub /\ N \in Nat
      /\ \A n \in 1 .. N : S[n] = Stepped(S[n - 1], log[n], c)
  BY DEF Runs, Folds
<1>2. \A k \in 0 .. N : /\ HubEvidence(S[k], lines) /\ Settles(S[k], log, k, c)
                        /\ Verified(S[k]) \subseteq Verified(S[N])
  BY DEF Runs
<1>3. \A n \in 1 .. N : log[n] \in Logged /\ (log[n].whole => log[n] \in lines)
  OBVIOUS
<1>4. ASSUME NEW n \in 1 .. N PROVE S[n] = Stepped(S[n - 1], log[n], d)
  <2>1. n - 1 \in 0 .. N
    BY <1>1
  <2>2. S[n - 1] \in Hub /\ HubEvidence(S[n - 1], lines)
    BY <1>1, <1>2, <2>1
  <2>3. log[n].whole => Ingest(S[n - 1], log[n].frame, log[n].at, c)
                          = Ingest(S[n - 1], log[n].frame, log[n].at, d)
    BY <1>3, <2>2, SameIngest
  <2> QED
    BY <1>1, <2>3 DEF Stepped
<1>5. ASSUME NEW n \in 1 .. N, NEW id \in Payloads
      PROVE  /\ GoodManifest(log[n], id, d) => GoodManifest(log[n], id, c)
             /\ \A i \in Index(id) : GoodChunk(log[n], id, i, d) => GoodChunk(log[n], id, i, c)
  <2> DEFINE line == log[n]
  <2> SUFFICES ASSUME line.whole, line.frame.id = id
               PROVE  /\ GoodManifest(line, id, d) => GoodManifest(line, id, c)
                      /\ \A i \in Index(id) : GoodChunk(line, id, i, d) => GoodChunk(line, id, i, c)
    BY DEF GoodManifest, GoodChunk
  <2>1. line \in lines /\ line.frame \in Frame /\ line.at \in Nat /\ Agree(c, d, line.at)
        /\ (line.frame.kind = "chunk" => NoClinicIn(line.frame.custody))
    BY <1>3 DEF Settled, Logged
  <2> HIDE DEF line
  <2>2. ManifestOk(line.frame, line.at, c) = ManifestOk(line.frame, line.at, d)
    BY <2>1, SameManifest
  <2>3. CASE line.frame.kind = "chunk"
    <3> DEFINE x == AsChunk(line.frame, line.at)
    <3>1. line.frame \in ChunkFrame
      BY <2>1, <2>3 DEF Frame, ManifestFrame
    <3>2. x \in Chunk /\ x.custody = line.frame.custody /\ x.at = line.at
      BY <2>1, <3>1 DEF ChunkFrame, Chunk, AsChunk
    <3> HIDE DEF x
    <3>3. Acceptable(id, x, c) = Acceptable(id, x, d)
      BY <2>1, <2>3, <3>2, SameAcceptable
    <3> QED
      BY <2>2, <3>3 DEF GoodManifest, GoodChunk, x
  <2>4. CASE line.frame.kind # "chunk"
    BY <2>2, <2>4 DEF GoodManifest, GoodChunk
  <2> QED
    BY <2>3, <2>4
<1>6. ASSUME NEW k \in 0 .. N PROVE Settles(S[k], log, k, d)
  <2>1. \A n \in 1 .. k : n \in 1 .. N
    BY <1>1
  <2> SUFFICES ASSUME NEW id \in Payloads
               PROVE  /\ Checked(id, S[k].entries[id])
                      /\ \A m \in 1 .. k : GoodManifest(log[m], id, d) =>
                           /\ S[k].entries[id].manifest
                           /\ \A n \in 1 .. k : \A i \in Index(id) :
                                n > m /\ GoodChunk(log[n], id, i, d) =>
                                  S[k].entries[id].report # "none" \/ i \in Held(S[k].entries[id])
    BY DEF Settles
  <2>2. /\ Checked(id, S[k].entries[id])
        /\ \A m \in 1 .. k : GoodManifest(log[m], id, c) =>
             /\ S[k].entries[id].manifest
             /\ \A n \in 1 .. k : \A i \in Index(id) :
                  n > m /\ GoodChunk(log[n], id, i, c) =>
                    S[k].entries[id].report # "none" \/ i \in Held(S[k].entries[id])
    BY <1>2 DEF Settles
  <2> QED
    BY <1>5, <2>1, <2>2
<1> QED
  BY <1>1, <1>2, <1>4, <1>6 DEF Runs, Folds

-----------------------------------------------------------------------------
(* The inductive invariant.                                                *)

\* What the hub runs with judges every line as the config file does.
Known ==
  /\ \A k \in DOMAIN frameLog :
       /\ frameLog[k].frame \in Arrivals
       /\ frameLog[k].at <= now
       /\ Agree(dir, config, frameLog[k].at)
  /\ \A r \in config.revoked : r.revokedAt <= now

\* A hub that listens could read all of its log, one that replays what it read.
Readable ==
  /\ mode = "up" => \A k \in DOMAIN frameLog : frameLog[k].whole
  /\ mode = "replaying" => \A k \in 1 .. pos : frameLog[k].whole
  /\ mode = "down" => pos = 0

\* The hub is where the run S of its log has got to.
At(S) ==
  /\ Runs(S, frameLog, Lines, config)
  /\ inbox \subseteq Verified(S[Len(frameLog)])
  /\ mode = "up" => Told(hub) = Told(S[Len(frameLog)])
  /\ mode = "replaying" => Told(hub) = Told(S[pos])
  /\ mode = "down" => hub = EmptyHub

Replayed == Known /\ Readable /\ \E S : At(S)

\* One directory agrees with itself.
LEMMA AgreeReflexive ==
  ASSUME NEW d, NEW at
  PROVE  Agree(d, d, at)
  BY DEF Agree

\* Every step keeps the judgement.
LEMMA KnownStep ==
  ASSUME PromptReload, RolesApart, TypeOK, Known, [Next]_vars
  PROVE  Known'
<1> USE HubAssumption
<1>0. /\ dir \in Directory /\ config \in Directory /\ now \in Nat /\ frameLog \in Seq(Logged)
      /\ \A k \in DOMAIN frameLog : frameLog[k].at \in Nat
  BY LineType DEF TypeOK
<1>1. ASSUME NEW f \in Arrivals, NEW whole, MayArrive(f), AppendLine(f, whole),
             dir' = dir, config' = config, now' = now
      PROVE  Known'
  <2>1. dir = config
    BY <1>1 DEF MayArrive
  <2>2. /\ DOMAIN frameLog' = DOMAIN frameLog \cup {Len(frameLog) + 1}
        /\ \A k \in DOMAIN frameLog : frameLog'[k] = frameLog[k]
        /\ frameLog'[Len(frameLog) + 1] = [at |-> now, frame |-> f, whole |-> whole]
    BY <1>0, <1>1 DEF AppendLine
  <2>3. ASSUME NEW k \in DOMAIN frameLog'
        PROVE  frameLog'[k].frame \in Arrivals /\ frameLog'[k].at <= now
    <3>1. CASE k \in DOMAIN frameLog
      BY <2>2, <3>1 DEF Known
    <3>2. CASE k = Len(frameLog) + 1
      BY <1>0, <2>2, <3>2
    <3> QED
      BY <2>2, <3>1, <3>2
  <2>4. \A k \in DOMAIN frameLog' : Agree(dir', config', frameLog'[k].at)
    BY <1>1, <2>1, AgreeReflexive
  <2> QED
    BY <1>1, <2>3, <2>4 DEF Known
<1>2. ASSUME frameLog' = frameLog, config' = config, dir' = dir \/ dir' = config,
             now' = now \/ now' = now + 1
      PROVE  Known'
  <2>1. \A k \in DOMAIN frameLog : Agree(dir', config, frameLog[k].at)
    BY <1>2, AgreeReflexive DEF Known
  <2>2. \A r \in config.revoked : r.revokedAt \in Nat
    BY <1>0 DEF Directory, Revocation
  <2>3. \A t \in Nat : t <= now => t <= now'
    BY <1>0, <1>2
  <2> QED
    BY <1>0, <1>2, <2>1, <2>2, <2>3 DEF Known
<1>3. ASSUME NEW n \in Clinics \cup Relays, Revoke(n) PROVE Known'
  <2>1. now' = now + 1 /\ config' = Revoked(config, n, now + 1) /\ dir' = dir /\ frameLog' = frameLog
    BY <1>3 DEF Revoke
  <2>2. config'.revoked =
          config.revoked \cup {[eid |-> n, pub |-> KeyOf(config, n), revokedAt |-> now + 1]}
    BY <2>1 DEF Revoked
  <2>3. \A r \in config.revoked : r.revokedAt \in Nat /\ r.revokedAt <= now
    BY <1>0 DEF Known, Directory, Revocation
  <2>4. \A r \in config'.revoked : r.revokedAt <= now'
    BY <1>0, <2>1, <2>2, <2>3
  <2>5. \A r \in config.revoked : r.revokedAt < now + 1
    BY <1>0, <2>3
  <2>6. ASSUME NEW k \in DOMAIN frameLog
        PROVE  frameLog[k].at <= now' /\ Agree(dir, config', frameLog[k].at)
    <3>1. frameLog[k].at \in Nat /\ frameLog[k].at <= now /\ Agree(dir, config, frameLog[k].at)
      BY <1>0 DEF Known
    <3>2. frameLog[k].at < now + 1 /\ now + 1 \in Nat
      BY <1>0, <3>1
    <3>3. Agree(config, Revoked(config, n, now + 1), frameLog[k].at)
      BY <1>0, <2>5, <3>1, <3>2, RevokedAgrees
    <3> QED
      BY <1>0, <2>1, <3>1, <3>2, <3>3, AgreeTransitive
  <2> QED
    BY <2>1, <2>4, <2>6 DEF Known
<1>4. ASSUME NEW f \in Arrivals, Receive(f) PROVE Known'
  BY <1>1, <1>4 DEF Receive
<1>5. ASSUME NEW f \in Arrivals, KilledWhileLogging(f) \/ ReceiveThrows(f) PROVE Known'
  BY <1>1, <1>5 DEF KilledWhileLogging, ReceiveThrows
<1>6. CASE Crash
  BY <1>2, <1>6 DEF Crash
<1>7. CASE Restart
  BY <1>2, <1>7 DEF Restart
<1>8. CASE Replay
  BY <1>2, <1>8 DEF Replay, Replays
<1>9. CASE Listen
  BY <1>2, <1>9 DEF Listen
<1>10. CASE Tick
  BY <1>2, <1>10 DEF Tick
<1>11. CASE Advance
  BY <1>2, <1>11 DEF Advance
<1>12. CASE UNCHANGED vars
  BY <1>2, <1>12 DEF vars
<1> QED
  BY <1>3, <1>4, <1>5, <1>6, <1>7, <1>8, <1>9, <1>10, <1>11, <1>12 DEF Next

\* No step goes past a line it cannot read.
LEMMA ReadableStep ==
  ASSUME TypeOK, Readable, [Next]_vars
  PROVE  Readable'
<1>0. frameLog \in Seq(Logged) /\ pos \in 0 .. Len(frameLog) /\ Len(frameLog) \in Nat
  BY DEF TypeOK
<1>1. ASSUME NEW f \in Arrivals, Receive(f) PROVE Readable'
  <2>1. /\ mode = "up" /\ mode' = "up"
        /\ frameLog' = Append(frameLog, [at |-> now, frame |-> f, whole |-> TRUE])
    BY <1>1 DEF Receive, MayArrive, AppendLine
  <2>2. \A k \in DOMAIN frameLog' : frameLog'[k].whole
    BY <1>0, <2>1 DEF Readable
  <2> QED
    BY <2>1, <2>2 DEF Readable
<1>2. ASSUME NEW f \in Arrivals, KilledWhileLogging(f) \/ ReceiveThrows(f) PROVE Readable'
  BY <1>2 DEF KilledWhileLogging, ReceiveThrows, Die, Ended, Readable
<1>3. CASE Crash
  BY <1>3 DEF Crash, Die, Ended, Readable
<1>4. CASE Restart
  BY <1>4 DEF Restart, Readable
<1>5. CASE Replay
  <2>1. CASE Replays(hub, frameLog[pos + 1], dir)
    <3>1. mode = "replaying" /\ mode' = "replaying" /\ pos' = pos + 1 /\ frameLog' = frameLog
      BY <1>5, <2>1 DEF Replay, Replays
    <3>2. \A k \in 1 .. pos' : k \in 1 .. pos \/ k = pos + 1
      BY <1>0, <3>1
    <3>3. \A k \in 1 .. pos' : frameLog[k].whole
      BY <2>1, <3>1, <3>2 DEF Readable, Replays
    <3> QED
      BY <3>1, <3>3 DEF Readable
  <2>2. CASE ~Replays(hub, frameLog[pos + 1], dir)
    BY <1>5, <2>2 DEF Replay, Replays, Readable
  <2> QED
    BY <2>1, <2>2
<1>6. CASE Listen
  BY <1>0, <1>6 DEF Listen, Readable
<1>7. CASE Tick
  BY <1>7 DEF Tick, Readable
<1>8. ASSUME NEW n \in Clinics \cup Relays, Revoke(n) PROVE Readable'
  BY <1>8 DEF Revoke, Readable
<1>9. CASE Advance
  BY <1>9 DEF Advance, Readable
<1>10. CASE UNCHANGED vars
  BY <1>10 DEF vars, Readable
<1> QED
  BY <1>1, <1>2, <1>3, <1>4, <1>5, <1>6, <1>7, <1>8, <1>9, <1>10 DEF Next

\* The lines of the log are judged alike under the hub's directory and the
\* config file's, and no clinic carried them.
LEMMA LinesSettled ==
  ASSUME RolesApart, TypeOK, Known
  PROVE  Settled(Lines, dir, config)
<1> SUFFICES ASSUME NEW k \in DOMAIN frameLog
             PROVE  /\ Agree(dir, config, frameLog[k].at)
                    /\ frameLog[k].frame.kind = "chunk" => NoClinicIn(frameLog[k].frame.custody)
  BY DEF Settled, Lines
<1>1. frameLog[k].frame \in Arrivals /\ Agree(dir, config, frameLog[k].at)
  BY DEF Known
<1> QED
  BY <1>1 DEF RolesApart, NoClinicIn

\* Hubs that tell the same show the same reports.
LEMMA ToldVerified ==
  ASSUME NEW g \in Hub, NEW h \in Hub, Told(g) = Told(h)
  PROVE  Verified(g) = Verified(h)
<1>1. \A id \in Payloads : Alike(g.entries[id], h.entries[id])
  BY ToldIsAlike
<1>2. \A id \in Payloads : g.entries[id].report = h.entries[id].report
  BY <1>1, AlikeFields
<1> QED
  BY <1>2 DEF Verified

\* Requests change nothing that the log can tell.
LEMMA TickTold ==
  ASSUME TypeOK, Tick, hub' \in Hub
  PROVE  Told(hub') = Told(hub)
<1> DEFINE due == {id \in Payloads : Due(id, hub.entries[id], now)}
           later == [id \in Payloads |-> IF id \in due THEN Asked(hub.entries[id], now) ELSE hub.entries[id]]
<1>1. hub \in Hub /\ DOMAIN hub.entries = Payloads
  BY DEF TypeOK, Hub
<1>2. hub' = [hub EXCEPT !.entries = later]
  BY <1>1 DEF Tick
<1>3. ASSUME NEW id \in Payloads PROVE Alike(later[id], hub.entries[id])
  <2>1. hub.entries[id] \in Entry /\ now \in Nat
    BY <1>1 DEF Hub, TypeOK
  <2>2. Asked(hub.entries[id], now) \in Entry
    BY <2>1, AskedType
  <2>3. Alike(Asked(hub.entries[id], now), hub.entries[id])
    BY <2>1, <2>2 DEF Asked, Alike, Forget, Entry
  <2>4. Alike(hub.entries[id], hub.entries[id])
    BY <2>1 DEF Alike
  <2> QED
    BY <2>3, <2>4
<1> HIDE DEF later
<1>4. hub'.paid = hub.paid /\ hub'.entries = later
  BY <1>1, <1>2 DEF Hub
<1> QED
  BY <1>1, <1>3, <1>4, ToldIsAlike

\* The run of the log goes on with a line that is appended.
LEMMA AtAppend ==
  ASSUME TypeOK, KeysOwned(config), NEW S, At(S), NEW f \in Arrivals, NEW whole \in BOOLEAN,
         AppendLine(f, whole), config' = config, Lines' \subseteq Logged
  PROVE  LET line == [at |-> now, frame |-> f, whole |-> whole]
             T == Longer(S, frameLog, line, config)
         IN  /\ Runs(T, frameLog', Lines', config')
             /\ T[Len(frameLog')] = Stepped(S[Len(frameLog)], line, config)
             /\ inbox \subseteq Verified(T[Len(frameLog')])
<1> DEFINE line == [at |-> now, frame |-> f, whole |-> whole]
           T == Longer(S, frameLog, line, config)
<1>1. /\ frameLog \in Seq(Logged) /\ config \in Directory
      /\ frameLog' = Append(frameLog, line) /\ Len(frameLog') = Len(frameLog) + 1
  BY DEF TypeOK, AppendLine
<1>2. line \in Logged /\ f \in Frame
  BY HubAssumption DEF TypeOK, Logged
<1>3. Lines' = Lines \cup (IF whole THEN {line} ELSE {})
  BY <1>2, AppendLines
<1>4. Lines \subseteq Lines' /\ (line.whole => line \in Lines')
  BY <1>3
<1>5. Runs(S, frameLog, Lines, config) /\ inbox \subseteq Verified(S[Len(frameLog)])
  BY DEF At
<1> DEFINE lines == Lines
           more == Lines'
<1> HIDE DEF line, lines, more
<1>6. /\ Runs(T, Append(frameLog, line), more, config)
      /\ T[Len(frameLog) + 1] = Stepped(S[Len(frameLog)], line, config)
      /\ Verified(S[Len(frameLog)]) \subseteq Verified(T[Len(frameLog) + 1])
  BY <1>1, <1>2, <1>4, <1>5, RunGrows, SMTT(60) DEF lines, more
<1> QED
  BY <1>1, <1>5, <1>6 DEF line, more

\* Every step takes the run of the log along.
LEMMA AtStep ==
  ASSUME PromptReload, RolesApart, TypeOK, Evidence, Known, Readable, [Next]_vars,
         NEW S, At(S)
  PROVE  \E T : At(T)'
<1> USE HubAssumption
<1> DEFINE N == Len(frameLog)
<1>0. /\ TypeOK' /\ Lines' \subseteq Logged /\ hub' \in Hub
      /\ hub \in Hub /\ dir \in Directory /\ config \in Directory /\ now \in Nat
      /\ frameLog \in Seq(Logged) /\ pos \in 0 .. N /\ N \in Nat
      /\ Lines \subseteq Logged
  <2>1. TypeOK'
    BY TypeStep
  <2>2. Lines' \subseteq Logged
    <3>1. frameLog' \in Seq(Logged)
      BY <2>1 DEF TypeOK
    <3> QED
      BY <3>1 DEF Lines
  <2> QED
    BY <2>1, <2>2, LinesType DEF TypeOK
<1>1. /\ Runs(S, frameLog, Lines, config)
      /\ inbox \subseteq Verified(S[N])
      /\ mode = "up" => Told(hub) = Told(S[N])
      /\ mode = "replaying" => Told(hub) = Told(S[pos])
      /\ mode = "down" => hub = EmptyHub
  BY DEF At
<1>2. S \in [0 .. N -> Hub] /\ S[0] = EmptyHub
      /\ \A n \in 1 .. N : S[n] = Stepped(S[n - 1], frameLog[n], config)
  BY <1>1 DEF Runs, Folds
<1>3. \A k \in 0 .. N : Verified(S[k]) \subseteq Verified(S[N])
  BY <1>1 DEF Runs
<1>4. ASSUME frameLog' = frameLog, config' = config
      PROVE  Runs(S, frameLog', Lines', config')
  <2>1. Lines' = Lines
    BY <1>4 DEF Lines
  <2> QED
    BY <1>1, <1>4, <2>1
<1>5. ASSUME NEW f \in Arrivals, Receive(f) PROVE \E T : At(T)'
  <2> DEFINE line == [at |-> now, frame |-> f, whole |-> TRUE]
  <2>0. PICK T : T = Longer(S, frameLog, line, config)
    OBVIOUS
  <2> DEFINE end == T[Len(frameLog')]
  <2>1. /\ mode = "up" /\ mode' = "up" /\ dir = config /\ config' = config
        /\ AppendLine(f, TRUE) /\ hub' = Ingest(hub, f, now, config) /\ Persist(f.id)
    BY <1>5 DEF Receive, MayArrive
  <2>2. /\ Runs(T, frameLog', Lines', config')
        /\ end = Stepped(S[N], line, config)
        /\ inbox \subseteq Verified(end)
    BY <1>0, <2>0, <2>1, AtAppend DEF Evidence
  <2>3. end = Ingest(S[N], f, now, config)
    BY <2>2 DEF Stepped
  <2>4. S[N] \in Hub /\ f \in Frame
    BY <1>0, <1>2
  <2>5. end \in Hub
    BY <1>0, <2>3, <2>4, IngestType
  <2>6. Told(hub') = Told(end)
    BY <1>0, <1>1, <2>1, <2>3, <2>4, IngestTold
  <2> HIDE DEF end
  <2>7. Verified(hub') = Verified(end)
    BY <1>0, <2>5, <2>6, ToldVerified
  <2>8. inbox' \subseteq Verified(end)
    BY <2>1, <2>2, <2>7 DEF Persist
  <2>9. At(T)'
    BY <2>1, <2>2, <2>6, <2>8 DEF At, end
  <2> QED
    BY <2>9
<1>6. ASSUME NEW f \in Arrivals, KilledWhileLogging(f) \/ ReceiveThrows(f) PROVE \E T : At(T)'
  <2>1. PICK whole \in BOOLEAN : AppendLine(f, whole)
    BY <1>6 DEF KilledWhileLogging, ReceiveThrows
  <2> DEFINE line == [at |-> now, frame |-> f, whole |-> whole]
  <2>0. PICK T : T = Longer(S, frameLog, line, config)
    OBVIOUS
  <2>2. config' = config /\ inbox' = inbox /\ mode' = "down" /\ hub' = EmptyHub
    BY <1>6 DEF KilledWhileLogging, ReceiveThrows, Die, Ended
  <2>3. Runs(T, frameLog', Lines', config') /\ inbox \subseteq Verified(T[Len(frameLog')])
    BY <1>0, <2>0, <2>1, <2>2, AtAppend DEF Evidence
  <2>4. At(T)'
    BY <2>2, <2>3 DEF At
  <2> QED
    BY <2>4
<1>7. CASE Crash
  <2>1. /\ frameLog' = frameLog /\ config' = config /\ inbox' = inbox
        /\ mode' = "down" /\ hub' = EmptyHub
    BY <1>7 DEF Crash, Die, Ended
  <2>2. At(S)'
    BY <1>1, <1>4, <2>1 DEF At
  <2> QED
    BY <2>2
<1>8. CASE Restart
  <2>1. /\ frameLog' = frameLog /\ config' = config /\ inbox' = inbox /\ hub' = hub /\ pos' = pos
        /\ mode = "down" /\ mode' = "replaying"
    BY <1>8 DEF Restart
  <2>2. hub = S[0] /\ pos = 0
    BY <1>1, <1>2, <2>1 DEF Readable
  <2>3. At(S)'
    BY <1>1, <1>4, <2>1, <2>2 DEF At
  <2> QED
    BY <2>3
<1>9. CASE Replay
  <2> DEFINE line == frameLog[pos + 1]
  <2>1. /\ frameLog' = frameLog /\ config' = config /\ dir' = dir
        /\ mode = "replaying" /\ pos < N
    BY <1>9 DEF Replay, Replays
  <2>2. CASE Replays(hub, line, dir)
    <3>1. /\ hub' = Ingest(hub, line.frame, line.at, dir) /\ Persist(line.frame.id)
          /\ mode' = "replaying" /\ pos' = pos + 1
      BY <1>9, <2>2, <2>1 DEF Replay, Replays
    <3>2. pos + 1 \in 1 .. N /\ pos + 1 \in 0 .. N /\ (pos + 1) - 1 = pos
      BY <1>0, <2>1
    <3>3. line \in Logged /\ line \in Lines /\ line.frame \in Frame /\ line.at \in Nat
      BY <1>0, <2>2, <3>2 DEF Lines, Logged, Replays
    <3>4. S[pos + 1] = Ingest(S[pos], line.frame, line.at, config)
      BY <1>2, <2>2, <3>2 DEF Stepped, Replays
    <3>5. S[pos] \in Hub /\ S[pos + 1] \in Hub
      BY <1>0, <1>2, <3>2
    <3> DEFINE lines == Lines
    <3>6. lines \subseteq Logged /\ line \in lines /\ HubEvidence(hub, lines) /\ Settled(lines, dir, config)
      BY <1>0, <3>3, LinesSettled DEF Evidence
    <3> HIDE DEF line, lines
    <3>7. hub' = Ingest(hub, line.frame, line.at, config)
      BY <1>0, <3>1, <3>6, SameIngest
    <3>8. Told(hub') = Told(S[pos'])
      BY <1>0, <1>1, <2>1, <3>1, <3>3, <3>4, <3>5, <3>7, IngestTold
    <3>9. Verified(hub') \subseteq Verified(S[N])
      BY <1>0, <1>3, <3>1, <3>2, <3>5, <3>8, ToldVerified
    <3>10. inbox' \subseteq Verified(S[N])
      BY <1>1, <3>1, <3>9 DEF Persist
    <3>11. At(S)'
      BY <1>4, <2>1, <3>1, <3>8, <3>10 DEF At
    <3> QED
      BY <3>11
  <2>3. CASE ~Replays(hub, line, dir)
    <3>1. mode' = "stuck" /\ inbox' = inbox
      BY <1>9, <2>3 DEF Replay, Replays
    <3>2. At(S)'
      BY <1>1, <1>4, <2>1, <3>1 DEF At
    <3> QED
      BY <3>2
  <2> QED
    BY <2>2, <2>3
<1>10. CASE Listen
  <2>1. /\ frameLog' = frameLog /\ config' = config /\ inbox' = inbox /\ hub' = hub
        /\ mode = "replaying" /\ mode' = "up" /\ pos = N
    BY <1>10 DEF Listen
  <2>2. At(S)'
    BY <1>1, <1>4, <2>1 DEF At
  <2> QED
    BY <2>2
<1>11. CASE Tick
  <2>1. /\ frameLog' = frameLog /\ config' = config /\ inbox' = inbox
        /\ mode = "up" /\ mode' = mode
    BY <1>11 DEF Tick
  <2>2. Told(hub') = Told(hub)
    BY <1>0, <1>11, TickTold
  <2>3. At(S)'
    BY <1>1, <1>4, <2>1, <2>2 DEF At
  <2> QED
    BY <2>3
<1>12. ASSUME NEW n \in Clinics \cup Relays, Revoke(n) PROVE \E T : At(T)'
  <2>1. /\ frameLog' = frameLog /\ inbox' = inbox /\ hub' = hub /\ pos' = pos /\ mode' = mode
        /\ config' = Revoked(config, n, now + 1)
    BY <1>12 DEF Revoke
  <2> DEFINE lines == Lines
  <2>2. Settled(lines, config, config')
    <3>1. \A r \in config.revoked : r.revokedAt \in Nat /\ r.revokedAt <= now
      BY <1>0 DEF Known, Directory, Revocation
    <3>2. \A r \in config.revoked : r.revokedAt < now + 1
      BY <1>0, <3>1
    <3>3. ASSUME NEW line \in lines PROVE Agree(config, config', line.at)
      <4>1. line.at \in Nat /\ line.at <= now
        BY <1>0 DEF Lines, Known, Logged
      <4>2. line.at < now + 1 /\ now + 1 \in Nat
        BY <1>0, <4>1
      <4> QED
        BY <1>0, <2>1, <3>2, <4>1, <4>2, RevokedAgrees
    <3>4. Settled(lines, dir, config)
      BY LinesSettled
    <3> QED
      BY <3>3, <3>4 DEF Settled
  <2>3. lines \subseteq Logged /\ \A k \in DOMAIN frameLog : frameLog[k].whole => frameLog[k] \in lines
    BY <1>0 DEF Lines
  <2>4. Runs(S, frameLog, lines, config)
    BY <1>1
  <2>5. Lines' = lines
    BY <2>1 DEF Lines
  <2> HIDE DEF lines
  <2>6. Runs(S, frameLog, lines, config')
    BY <1>0, <2>2, <2>3, <2>4, RunUnder
  <2>7. At(S)'
    BY <1>1, <2>1, <2>5, <2>6 DEF At
  <2> QED
    BY <2>7
<1>13. CASE Advance
  <2>1. At(S)'
    BY <1>1, <1>4, <1>13 DEF At, Advance
  <2> QED
    BY <2>1
<1>14. CASE UNCHANGED vars
  <2>1. At(S)'
    BY <1>1, <1>4, <1>14 DEF At, vars
  <2> QED
    BY <2>1
<1> QED
  BY <1>5, <1>6, <1>7, <1>8, <1>9, <1>10, <1>11, <1>12, <1>13, <1>14 DEF Next

-----------------------------------------------------------------------------
(* The theorems.                                                           *)

\* The run of an empty log is the empty hub.
LEMMA ReplayedInit == Init => Replayed
<1> SUFFICES ASSUME Init PROVE Replayed
  OBVIOUS
<1>1. /\ hub = EmptyHub /\ dir = config /\ config.revoked = {} /\ frameLog = <<>>
      /\ inbox = {} /\ mode = "up"
  BY DEF Init, Provisioned
<1>2. Known /\ Readable
  BY <1>1 DEF Known, Readable
<1> DEFINE S == [k \in 0 .. 0 |-> EmptyHub]
<1>3. S \in [0 .. 0 -> Hub] /\ S[0] = EmptyHub
  BY EmptyHubType
<1> HIDE DEF S
<1>4. Folds(S, frameLog, config)
  BY <1>1, <1>3 DEF Folds
<1>5. HubEvidence(EmptyHub, Lines)
  BY EmptyEvidence
<1>6. Settles(EmptyHub, frameLog, 0, config)
  BY DEF Settles, Checked, EmptyHub, EmptyEntry
<1>7. Runs(S, frameLog, Lines, config)
  BY <1>1, <1>3, <1>4, <1>5, <1>6 DEF Runs
<1>8. At(S)
  BY <1>1, <1>3, <1>7 DEF At
<1> QED
  BY <1>2, <1>8 DEF Replayed

\* When revocations are loaded before the next frame and roles are apart, the
\* hub is at every moment where its log has got to: the log's own run of hubs
\* takes the place of an induction over the log.
THEOREM ReplayIsFaithful ==
  ASSUME PromptReload, RolesApart
  PROVE  Spec => []Replayed
<1>1. TypeOK /\ HubInvariant /\ Replayed /\ [Next]_vars => Replayed'
  <2> SUFFICES ASSUME TypeOK, HubInvariant, Replayed, [Next]_vars PROVE Replayed'
    OBVIOUS
  <2>1. Evidence /\ Known /\ Readable
    BY DEF HubInvariant, Replayed
  <2>2. PICK S : At(S)
    BY DEF Replayed
  <2>3. Known' /\ Readable' /\ \E T : At(T)'
    BY <2>1, <2>2, KnownStep, ReadableStep, AtStep
  <2> QED
    BY <2>3 DEF Replayed
<1> QED
  BY <1>1, ReplayedInit, TypeCorrect, Traceable, PTL DEF Spec

\* Where the hub has got to, under its own directory.
LEMMA RunOfTheHub ==
  ASSUME RolesApart, TypeOK, Replayed, mode = "up"
  PROVE  \E S : /\ Runs(S, frameLog, Lines, config) /\ Runs(S, frameLog, Lines, dir)
                /\ S[Len(frameLog)] \in Hub
                /\ Told(hub) = Told(S[Len(frameLog)])
                /\ inbox \subseteq Verified(S[Len(frameLog)])
<1>1. PICK S : At(S)
  BY DEF Replayed
<1>2. frameLog \in Seq(Logged) /\ Lines \subseteq Logged
      /\ \A k \in DOMAIN frameLog : frameLog[k].whole => frameLog[k] \in Lines
  BY LinesType DEF TypeOK, Lines
<1>3. Settled(Lines, config, dir)
  <2>1. Settled(Lines, dir, config)
    BY LinesSettled DEF Replayed
  <2> QED
    BY <2>1 DEF Settled, Agree
<1>4. Runs(S, frameLog, Lines, config)
  BY <1>1 DEF At
<1>5. Runs(S, frameLog, Lines, dir)
  BY <1>2, <1>3, <1>4, RunUnder
<1>6. S[Len(frameLog)] \in Hub
  BY <1>2, <1>4 DEF Runs, Folds
<1> QED
  BY <1>1, <1>4, <1>5, <1>6 DEF At

\* A running hub holds what its log tells, and the payout tool computes the
\* same from the log and the config file (node.mjs:100-105, payout.mjs:29-36).
THEOREM LiveHubIsRebuilt ==
  ASSUME PromptReload, RolesApart
  PROVE  Spec => []LiveIsRebuilt
<1>1. TypeOK /\ Replayed => LiveIsRebuilt
  <2> SUFFICES ASSUME TypeOK, Replayed, mode = "up"
               PROVE  /\ Told(hub) = Told(Rebuilt(frameLog, dir))
                      /\ hub.paid = Rebuilt(frameLog, config).paid
    BY DEF LiveIsRebuilt
  <2>1. hub \in Hub /\ frameLog \in Seq(Logged)
    BY DEF TypeOK
  <2>2. PICK S : /\ Runs(S, frameLog, Lines, config) /\ Runs(S, frameLog, Lines, dir)
                 /\ S[Len(frameLog)] \in Hub
                 /\ Told(hub) = Told(S[Len(frameLog)])
    BY RunOfTheHub
  <2>3. Rebuilt(frameLog, dir) = S[Len(frameLog)]
    BY <2>1, <2>2, FoldIsRebuilt DEF Runs
  <2>4. Rebuilt(frameLog, config) = S[Len(frameLog)]
    BY <2>1, <2>2, FoldIsRebuilt DEF Runs
  <2>5. hub.paid = S[Len(frameLog)].paid
    BY <2>1, <2>2, ToldIsAlike
  <2> QED
    BY <2>2, <2>3, <2>4, <2>5
<1> QED
  BY <1>1, TypeCorrect, ReplayIsFaithful, PTL

\* What was in the inbox is verified again by a restarted hub, whatever was
\* revoked since ("work done before the loss still counts").
THEOREM InboxComesBack ==
  ASSUME PromptReload, RolesApart
  PROVE  Spec => []InboxRestored
<1>1. TypeOK /\ Replayed => InboxRestored
  <2> SUFFICES ASSUME TypeOK, Replayed, mode = "up"
               PROVE  \A id \in inbox : hub.entries[id].report = "verified"
    BY DEF InboxRestored
  <2>1. PICK S : /\ S[Len(frameLog)] \in Hub
                 /\ Told(hub) = Told(S[Len(frameLog)])
                 /\ inbox \subseteq Verified(S[Len(frameLog)])
    BY RunOfTheHub
  <2>2. hub \in Hub
    BY DEF TypeOK
  <2>3. Verified(hub) = Verified(S[Len(frameLog)])
    BY <2>1, <2>2, ToldVerified
  <2> QED
    BY <2>1, <2>3 DEF Verified
<1> QED
  BY <1>1, TypeCorrect, ReplayIsFaithful, PTL

\* Checked chunks of every index are enough.
LEMMA AllHeld ==
  ASSUME NEW id \in Payloads, NEW e, NEW lines, EntryEvidence(id, e, lines), Checked(id, e),
         e.manifest, Index(id) \subseteq Held(e)
  PROVE  e.report # "none"
<1> SUFFICES ASSUME e.report = "none" PROVE FALSE
  OBVIOUS
<1>1. (\A c \in e.chunks : c.ok) /\ Cardinality(Held(e)) < ChunkCount[id]
  BY DEF Checked
<1>2. \A c \in e.chunks : c.index \in Index(id)
  BY <1>1 DEF EntryEvidence, ChunkCustodied
<1>3. Held(e) = Index(id)
  BY <1>2 DEF Held
<1>4. Cardinality(Index(id)) = ChunkCount[id] /\ ChunkCount[id] \in Nat
  <2> DEFINE last == ChunkCount[id] - 1
  <2>1. ChunkCount[id] \in Nat \ {0}
    BY ConstantsAssumption
  <2>2. last \in Int /\ ~(0 > last) /\ last - 0 + 1 = ChunkCount[id]
    BY <2>1
  <2> HIDE DEF last
  <2>3. Cardinality(0 .. last) = last - 0 + 1
    BY <2>2, FS_Interval
  <2> QED
    BY <2>1, <2>2, <2>3 DEF Index, last
<1> QED
  BY <1>1, <1>3, <1>4

\* While the hub runs, a good manifest and, after it, a good copy of each chunk
\* have settled the report, whatever else it checked in between (roles.mjs check
\* and finalize).  A frame the check throws on is not among it: it ends the
\* process (BareChunksAreNeverChecked, LegibleLogRecovers).
THEOREM GoodFramesAreEnough ==
  ASSUME PromptReload, RolesApart
  PROVE  Spec => []GoodFramesSuffice
<1>1. TypeOK /\ Replayed => GoodFramesSuffice
  <2> DEFINE N == Len(frameLog)
             Good(id, i, n) ==
               LET f == frameLog[n].frame
               IN  /\ f.kind = "chunk" /\ f.form = "whole" /\ f.id = id /\ f.index = i
                   /\ Acceptable(id, [index |-> i, intact |-> f.intact, custody |-> f.custody,
                                      at |-> frameLog[n].at], dir)
  <2> SUFFICES ASSUME TypeOK, Replayed, mode = "up", NEW id \in Payloads,
                      NEW m \in DOMAIN frameLog,
                      frameLog[m].frame.kind = "manifest", frameLog[m].frame.id = id,
                      ManifestOk(frameLog[m].frame, frameLog[m].at, dir),
                      \A i \in Index(id) : \E n \in DOMAIN frameLog : n > m /\ Good(id, i, n)
               PROVE  hub.entries[id].report # "none"
    BY DEF GoodFramesSuffice
  <2>1. PICK S : /\ Runs(S, frameLog, Lines, dir)
                 /\ S[N] \in Hub
                 /\ Told(hub) = Told(S[N])
    BY RunOfTheHub
  <2>2. hub \in Hub /\ DOMAIN frameLog = 1 .. N /\ N \in Nat
    BY DEF TypeOK
  <2> DEFINE e == S[N].entries[id]
  <2>3. N \in 0 .. N
    BY <2>2
  <2>4. EntryEvidence(id, e, Lines) /\ Settles(S[N], frameLog, N, dir)
    BY <2>1, <2>3 DEF Runs, HubEvidence
  <2>5. \A k \in DOMAIN frameLog : frameLog[k].whole
    BY DEF Replayed, Readable
  <2>6. GoodManifest(frameLog[m], id, dir)
    BY <2>5 DEF GoodManifest
  <2>7. ASSUME NEW i \in Index(id), NEW n \in DOMAIN frameLog, Good(id, i, n)
        PROVE  GoodChunk(frameLog[n], id, i, dir)
    BY <2>5, <2>7 DEF GoodChunk, AsChunk, Acceptable, AuditOk
  <2>8. /\ Checked(id, e) /\ e.manifest
        /\ \A n \in 1 .. N : \A i \in Index(id) :
             n > m /\ GoodChunk(frameLog[n], id, i, dir) => e.report # "none" \/ i \in Held(e)
    BY <2>2, <2>4, <2>6 DEF Settles
  <2>9. Alike(hub.entries[id], e)
    BY <2>1, <2>2, ToldIsAlike
  <2>10. hub.entries[id].report = e.report
    BY <2>9, AlikeFields
  <2>11. e.report # "none" \/ Index(id) \subseteq Held(e)
    BY <2>2, <2>7, <2>8
  <2> HIDE DEF e
  <2> QED
    BY <2>4, <2>8, <2>10, <2>11, AllHeld
<1> QED
  BY <1>1, TypeCorrect, ReplayIsFaithful, PTL

-----------------------------------------------------------------------------
(* Requests.                                                               *)

\* The log is in the order of arrival.
InOrder ==
  /\ \A k \in DOMAIN frameLog : frameLog[k].at <= now
  /\ \A j, k \in DOMAIN frameLog : j < k => frameLog[j].at <= frameLog[k].at

\* The hub remembers the time of the last frame of a report, as far as it read.
Heard(n) == \A k \in 1 .. n : frameLog[k].at <= hub.entries[frameLog[k].frame.id].lastAt

Wait(k) == ResendAfter * 2 ^ k

\* It counts the requests of this process, and the next waits for them all.
Paced ==
  \A id \in Payloads :
    /\ hub.entries[id].resends = Len(asked[id])
    /\ \A k \in DOMAIN asked[id] : asked[id][k] + Wait(k) <= hub.entries[id].nextAt

Patience ==
  /\ InOrder
  /\ mode = "up" => Heard(Len(frameLog))
  /\ mode = "replaying" => Heard(pos)
  /\ Paced

LEMMA WaitType ==
  ASSUME NEW k \in Nat
  PROVE  Wait(k) \in Nat
<1>1. 2 ^ k \in Nat /\ ResendAfter \in Nat
  BY PowerOfTwoType, ConstantsAssumption
<1> DEFINE p == 2 ^ k
<1> HIDE DEF p
<1>2. ResendAfter * p \in Nat
  BY <1>1 DEF p
<1> QED
  BY <1>2 DEF Wait, p

\* A frame sets the time of the last frame and leaves the requests alone.
LEMMA IngestFramePace ==
  ASSUME NEW e \in Entry, NEW f \in Frame, NEW at \in Nat, NEW d
  PROVE  LET x == IngestFrame(e, f, at, d)
         IN  x.lastAt = at /\ x.resends = e.resends /\ x.nextAt = e.nextAt
<1> DEFINE a == Touched(e, f, at)
<1>1. a \in Entry /\ a.lastAt = at /\ a.resends = e.resends /\ a.nextAt = e.nextAt
  BY TouchedType DEF Touched, Entry
<1> HIDE DEF a
<1>2. ASSUME NEW id, NEW y \in Entry
      PROVE  LET x == Finalize(id, y, d)
             IN  x.lastAt = y.lastAt /\ x.resends = y.resends /\ x.nextAt = y.nextAt
  BY DEF Finalize, Entry
<1>3. CASE f.kind = "manifest"
  <2> DEFINE ok == ManifestOk(f, at, d)
             b == [a EXCEPT !.manifest = ok]
  <2>1. IngestFrame(e, f, at, d) = IF a.manifest THEN a ELSE Finalize(f.id, b, d)
    BY <1>3 DEF IngestFrame, IngestManifest, a
  <2>2. ok \in BOOLEAN
    BY DEF ManifestOk
  <2> HIDE DEF ok
  <2>3. b \in Entry /\ b.lastAt = at /\ b.resends = e.resends /\ b.nextAt = e.nextAt
    BY <1>1, <2>2 DEF Entry
  <2> HIDE DEF b
  <2> QED
    BY <1>1, <1>2, <2>1, <2>3
<1>4. CASE f.kind # "manifest"
  <2>1. f \in ChunkFrame
    BY <1>4 DEF Frame, ManifestFrame
  <2> DEFINE t == [a EXCEPT !.route = IF f.custody = <<>> THEN @ ELSE RouteOf(f)]
             c == AsChunk(f, at)
             b == [t EXCEPT !.chunks = @ \cup {c}]
  <2>2. IngestFrame(e, f, at, d) =
          IF f.index \in Held(t) \/ t.report = "verified" THEN t ELSE Finalize(f.id, b, d)
    BY <1>4 DEF IngestFrame, IngestChunk, AsChunk, a
  <2>3. c \in Chunk
    BY <2>1 DEF ChunkFrame, Chunk, AsChunk
  <2> HIDE DEF c
  <2>4. f.custody # <<>> => RouteOf(f) \in Seq(Nodes)
    BY <2>1, RouteType
  <2>5. t \in Entry /\ t.lastAt = at /\ t.resends = e.resends /\ t.nextAt = e.nextAt
    BY <1>1, <2>4 DEF Entry
  <2> HIDE DEF t
  <2>6. b \in Entry /\ b.lastAt = at /\ b.resends = e.resends /\ b.nextAt = e.nextAt
    BY <2>3, <2>5 DEF Entry
  <2> HIDE DEF b
  <2> QED
    BY <1>2, <2>2, <2>5, <2>6
<1> QED
  BY <1>3, <1>4

\* A frame that arrived no earlier than those heard is heard as well.
LEMMA IngestPace ==
  ASSUME NEW h \in Hub, NEW f \in Frame, NEW at \in Nat, NEW d
  PROVE  LET g == Ingest(h, f, at, d)
         IN  /\ g.entries[f.id].lastAt = at
             /\ \A id \in Payloads :
                  /\ g.entries[id].resends = h.entries[id].resends
                  /\ g.entries[id].nextAt = h.entries[id].nextAt
                  /\ id # f.id => g.entries[id].lastAt = h.entries[id].lastAt
<1> DEFINE x == IngestFrame(h.entries[f.id], f, at, d)
<1>1. f.id \in Payloads /\ DOMAIN h.entries = Payloads /\ h.entries[f.id] \in Entry
  BY DEF Hub, Frame, ManifestFrame, ChunkFrame
<1>2. Ingest(h, f, at, d).entries = [h.entries EXCEPT ![f.id] = x]
  BY DEF Ingest
<1>3. /\ x.lastAt = at /\ x.resends = h.entries[f.id].resends
      /\ x.nextAt = h.entries[f.id].nextAt
  BY <1>1, IngestFramePace
<1> HIDE DEF x
<1> QED
  BY <1>1, <1>2, <1>3

\* The log stays in order.
LEMMA InOrderStep ==
  ASSUME TypeOK, InOrder, [Next]_vars
  PROVE  InOrder'
<1> USE HubAssumption
<1>0. /\ now \in Nat /\ frameLog \in Seq(Logged)
      /\ \A k \in DOMAIN frameLog : frameLog[k].at \in Nat
  BY LineType DEF TypeOK
<1>1. ASSUME NEW f \in Arrivals, NEW whole, AppendLine(f, whole), now' = now
      PROVE  InOrder'
  <2>1. /\ DOMAIN frameLog' = DOMAIN frameLog \cup {Len(frameLog) + 1}
        /\ \A k \in DOMAIN frameLog : frameLog'[k] = frameLog[k] /\ k < Len(frameLog) + 1
        /\ frameLog'[Len(frameLog) + 1].at = now
    BY <1>0, <1>1 DEF AppendLine
  <2>2. \A k \in DOMAIN frameLog' : frameLog'[k].at <= now
    BY <1>0, <2>1 DEF InOrder
  <2>3. ASSUME NEW j \in DOMAIN frameLog', NEW k \in DOMAIN frameLog', j < k
        PROVE  frameLog'[j].at <= frameLog'[k].at
    <3>1. j \in DOMAIN frameLog
      BY <1>0, <2>1, <2>3
    <3>2. CASE k \in DOMAIN frameLog
      BY <2>1, <2>3, <3>1, <3>2 DEF InOrder
    <3>3. CASE k = Len(frameLog) + 1
      BY <2>1, <3>1, <3>3 DEF InOrder
    <3> QED
      BY <2>1, <3>2, <3>3
  <2> QED
    BY <1>1, <2>2, <2>3 DEF InOrder
<1>2. ASSUME frameLog' = frameLog, now' = now \/ now' = now + 1
      PROVE  InOrder'
  <2>1. \A t \in Nat : t <= now => t <= now'
    BY <1>0, <1>2
  <2> QED
    BY <1>0, <1>2, <2>1 DEF InOrder
<1>3. ASSUME NEW f \in Arrivals, Receive(f) \/ ReceiveThrows(f) \/ KilledWhileLogging(f) PROVE InOrder'
  BY <1>1, <1>3 DEF Receive, KilledWhileLogging, ReceiveThrows
<1>4. CASE Crash \/ Restart \/ Replay \/ Listen \/ Tick
  BY <1>2, <1>4 DEF Crash, Restart, Replay, Replays, Listen, Tick
<1>5. ASSUME NEW n \in Clinics \cup Relays, Revoke(n) PROVE InOrder'
  BY <1>2, <1>5 DEF Revoke
<1>6. CASE Advance \/ UNCHANGED vars
  BY <1>2, <1>6 DEF Advance, vars
<1> QED
  BY <1>3, <1>4, <1>5, <1>6 DEF Next

\* What a tick makes of a report.
LEMMA TickAsks ==
  ASSUME TypeOK, Tick, NEW id \in Payloads
  PROVE  /\ hub'.entries[id] = IF Due(id, hub.entries[id], now) THEN Asked(hub.entries[id], now)
                               ELSE hub.entries[id]
         /\ asked'[id] = IF Due(id, hub.entries[id], now) THEN Append(asked[id], now) ELSE asked[id]
  BY DEF TypeOK, Hub, Tick

\* The requests are counted, and each waits for those before it.
LEMMA PacedStep ==
  ASSUME TypeOK, Paced, [Next]_vars
  PROVE  Paced'
<1> USE HubAssumption
<1>0. /\ hub \in Hub /\ now \in Nat /\ asked \in [Payloads -> Seq(Nat)] /\ frameLog \in Seq(Logged)
      /\ pos \in 0 .. Len(frameLog)
      /\ \A id \in Payloads : hub.entries[id] \in Entry /\ asked[id] \in Seq(Nat)
  BY DEF TypeOK, Hub
<1>1. ASSUME NEW f \in Frame, NEW at \in Nat, hub' = Ingest(hub, f, at, dir), asked' = asked
      PROVE  Paced'
  <2>1. \A id \in Payloads : /\ hub'.entries[id].resends = hub.entries[id].resends
                             /\ hub'.entries[id].nextAt = hub.entries[id].nextAt
    <3> DEFINE g == Ingest(hub, f, at, dir)
    <3>1. \A id \in Payloads : /\ g.entries[id].resends = hub.entries[id].resends
                               /\ g.entries[id].nextAt = hub.entries[id].nextAt
      BY <1>0, IngestPace
    <3> QED
      BY <1>1, <3>1
  <2> QED
    BY <1>1, <2>1 DEF Paced
<1>2. ASSUME hub' = EmptyHub, asked' = [id \in Payloads |-> <<>>]
      PROVE  Paced'
  BY <1>2 DEF Paced, EmptyHub, EmptyEntry
<1>3. ASSUME hub' = hub, asked' = asked
      PROVE  Paced'
  BY <1>3 DEF Paced
<1>4. ASSUME NEW f \in Arrivals, Receive(f) PROVE Paced'
  BY <1>0, <1>1, <1>4 DEF Receive
<1>5. ASSUME NEW f \in Arrivals, KilledWhileLogging(f) \/ ReceiveThrows(f) PROVE Paced'
  BY <1>2, <1>5 DEF KilledWhileLogging, ReceiveThrows, Die, Ended
<1>6. CASE Crash
  BY <1>2, <1>6 DEF Crash, Die, Ended
<1>7. CASE Replay
  <2>1. pos + 1 \in DOMAIN frameLog
    BY <1>0, <1>7 DEF Replay, Replays
  <2>2. frameLog[pos + 1].frame \in Frame /\ frameLog[pos + 1].at \in Nat
    BY <2>1, LineType
  <2>3. CASE Replays(hub, frameLog[pos + 1], dir)
    BY <1>1, <1>7, <2>2, <2>3 DEF Replay, Replays
  <2>4. CASE ~Replays(hub, frameLog[pos + 1], dir)
    BY <1>3, <1>7, <2>4 DEF Replay, Replays
  <2> QED
    BY <2>3, <2>4
<1>8. CASE Tick
  <2> SUFFICES ASSUME NEW id \in Payloads
               PROVE  /\ hub'.entries[id].resends = Len(asked'[id])
                      /\ \A k \in DOMAIN asked'[id] :
                           asked'[id][k] + Wait(k) <= hub'.entries[id].nextAt
    BY DEF Paced
  <2> DEFINE e == hub.entries[id]
             s == asked[id]
  <2>1. /\ hub'.entries[id] = IF Due(id, e, now) THEN Asked(e, now) ELSE e
        /\ asked'[id] = IF Due(id, e, now) THEN Append(s, now) ELSE s
    BY <1>8, TickAsks
  <2>2. /\ e \in Entry /\ s \in Seq(Nat)
        /\ e.resends = Len(s) /\ \A k \in DOMAIN s : s[k] + Wait(k) <= e.nextAt
    BY <1>0 DEF Paced
  <2> HIDE DEF e, s
  <2>3. CASE Due(id, e, now)
    <3>1. e.resends \in Nat /\ e.nextAt \in Nat /\ now >= e.nextAt
      BY <2>2, <2>3 DEF Due, Entry
    <3>2. /\ Asked(e, now).resends = e.resends + 1
          /\ Asked(e, now).nextAt = now + Wait(e.resends + 1)
      BY <2>2 DEF Asked, Entry, Wait
    <3>3. /\ Append(s, now) \in Seq(Nat) /\ Len(Append(s, now)) = Len(s) + 1
          /\ DOMAIN Append(s, now) = DOMAIN s \cup {Len(s) + 1}
          /\ \A k \in DOMAIN s : Append(s, now)[k] = s[k]
          /\ Append(s, now)[Len(s) + 1] = now
      BY <1>0, <2>2, SMTT(60)
    <3>4. \A k \in DOMAIN s : s[k] \in Nat /\ Wait(k) \in Nat
      <4>1. \A k \in DOMAIN s : s[k] \in Nat /\ k \in Nat
        BY <2>2
      <4> QED
        BY <4>1, WaitType
    <3>5. e.resends + 1 \in Nat /\ Wait(e.resends + 1) \in Nat
      <4>1. e.resends + 1 \in Nat
        BY <3>1
      <4> QED
        BY <4>1, WaitType
    <3>6. ASSUME NEW k \in DOMAIN s PROVE s[k] + Wait(k) <= now + Wait(e.resends + 1)
      <4> DEFINE w == Wait(e.resends + 1)
      <4>1. w \in Nat /\ s[k] \in Nat /\ Wait(k) \in Nat /\ s[k] + Wait(k) <= e.nextAt
        BY <2>2, <3>4, <3>5
      <4> HIDE DEF w, Wait
      <4> QED
        BY <1>0, <3>1, <4>1 DEF w
    <3>7. now + Wait(Len(s) + 1) <= now + Wait(e.resends + 1)
      BY <1>0, <2>2, <3>5
    <3> HIDE DEF Wait
    <3> QED
      BY <2>1, <2>2, <2>3, <3>2, <3>3, <3>6, <3>7
  <2>4. CASE ~Due(id, e, now)
    BY <2>1, <2>2, <2>4
  <2> QED
    BY <2>3, <2>4
<1>9. CASE Restart \/ Listen \/ Advance \/ UNCHANGED vars
  BY <1>3, <1>9 DEF Restart, Listen, Advance, vars
<1>10. ASSUME NEW n \in Clinics \cup Relays, Revoke(n) PROVE Paced'
  BY <1>3, <1>10 DEF Revoke
<1> QED
  BY <1>4, <1>5, <1>6, <1>7, <1>8, <1>9, <1>10 DEF Next

\* A hub that listens has heard its whole log, one that replays what it read.
LEMMA HeardStep ==
  ASSUME TypeOK, Readable, Patience, [Next]_vars
  PROVE  /\ mode' = "up" => Heard(Len(frameLog))'
         /\ mode' = "replaying" => Heard(pos)'
<1> USE HubAssumption
<1> DEFINE N == Len(frameLog)
           Later == (mode' = "up" => Heard(Len(frameLog))') /\ (mode' = "replaying" => Heard(pos)')
<1>0. /\ hub \in Hub /\ now \in Nat /\ frameLog \in Seq(Logged) /\ N \in Nat /\ pos \in 0 .. N
      /\ \A k \in 1 .. N : /\ frameLog[k].frame \in Frame /\ frameLog[k].frame.id \in Payloads
                           /\ frameLog[k].at \in Nat
  <2>1. hub \in Hub /\ now \in Nat /\ frameLog \in Seq(Logged) /\ pos \in 0 .. N
    BY DEF TypeOK
  <2>2. \A k \in 1 .. N : frameLog[k].frame \in Frame /\ frameLog[k].at \in Nat
    BY <2>1, LineType
  <2> QED
    BY <2>1, <2>2 DEF Frame, ManifestFrame, ChunkFrame
<1>1. ASSUME NEW n \in 0 .. N, Heard(n), NEW f \in Frame, NEW at \in Nat,
             \A k \in 1 .. n : frameLog[k].at <= at, hub' = Ingest(hub, f, at, dir)
      PROVE  /\ \A k \in 1 .. n : frameLog[k].at <= hub'.entries[frameLog[k].frame.id].lastAt
             /\ at <= hub'.entries[f.id].lastAt
  <2> DEFINE g == Ingest(hub, f, at, dir)
  <2>1. /\ g.entries[f.id].lastAt = at
        /\ \A id \in Payloads : id # f.id => g.entries[id].lastAt = hub.entries[id].lastAt
    BY <1>0, IngestPace
  <2> HIDE DEF g
  <2>2. ASSUME NEW k \in 1 .. n
        PROVE  frameLog[k].at <= g.entries[frameLog[k].frame.id].lastAt
    <3>1. k \in 1 .. N
      BY <1>0
    <3>2. CASE frameLog[k].frame.id = f.id
      BY <1>1, <2>1, <3>2
    <3>3. CASE frameLog[k].frame.id # f.id
      <4>1. g.entries[frameLog[k].frame.id].lastAt = hub.entries[frameLog[k].frame.id].lastAt
        BY <1>0, <2>1, <3>1, <3>3
      <4> QED
        BY <1>1, <4>1 DEF Heard
    <3> QED
      BY <3>2, <3>3
  <2>3. at <= g.entries[f.id].lastAt
    BY <2>1
  <2> QED
    BY <1>1, <2>2, <2>3 DEF g
<1>2. ASSUME NEW f \in Arrivals, Receive(f) PROVE Later
  <2>1. /\ mode = "up" /\ mode' = "up" /\ hub' = Ingest(hub, f, now, dir)
        /\ frameLog' = Append(frameLog, [at |-> now, frame |-> f, whole |-> TRUE])
    BY <1>2 DEF Receive, MayArrive, AppendLine
  <2>2. /\ \A k \in 1 .. N : frameLog[k].at <= hub'.entries[frameLog[k].frame.id].lastAt
        /\ now <= hub'.entries[f.id].lastAt
    <3>1. Heard(N) /\ \A k \in 1 .. N : frameLog[k].at <= now
      BY <1>0, <2>1 DEF Patience, InOrder
    <3>2. N \in 0 .. N /\ f \in Frame
      BY <1>0
    <3> QED
      BY <1>0, <1>1, <2>1, <3>1, <3>2
  <2>3. /\ Len(frameLog') = N + 1
        /\ \A k \in 1 .. N : frameLog'[k] = frameLog[k]
        /\ frameLog'[N + 1].at = now /\ frameLog'[N + 1].frame = f
    BY <1>0, <2>1
  <2>4. \A k \in 1 .. Len(frameLog') : k \in 1 .. N \/ k = N + 1
    BY <1>0, <2>3
  <2>5. \A k \in 1 .. Len(frameLog') : frameLog'[k].at <= hub'.entries[frameLog'[k].frame.id].lastAt
    BY <2>2, <2>3, <2>4
  <2> QED
    BY <2>1, <2>5 DEF Heard
<1>3. ASSUME NEW f \in Arrivals, KilledWhileLogging(f) \/ ReceiveThrows(f) PROVE Later
  BY <1>3 DEF KilledWhileLogging, ReceiveThrows, Die, Ended
<1>4. CASE Crash
  BY <1>4 DEF Crash, Die, Ended
<1>5. CASE Restart
  <2>1. mode' = "replaying" /\ pos' = 0
    BY <1>5 DEF Restart, Readable
  <2> QED
    BY <2>1 DEF Heard
<1>6. CASE Replay
  <2> DEFINE line == frameLog[pos + 1]
  <2>1. /\ mode = "replaying" /\ pos < N /\ frameLog' = frameLog
    BY <1>6, SMTT(60) DEF Replay, Replays
  <2>2. CASE Replays(hub, line, dir)
    <3>1. /\ hub' = Ingest(hub, line.frame, line.at, dir)
          /\ mode' = "replaying" /\ pos' = pos + 1
      BY <1>6, <2>1, <2>2 DEF Replay, Replays
    <3>2. pos + 1 \in 1 .. N /\ pos + 1 \in DOMAIN frameLog /\ \A k \in 1 .. pos : k \in DOMAIN frameLog /\ k < pos + 1
      BY <1>0, <2>1
    <3>3. \A k \in 1 .. pos : frameLog[k].at <= line.at
      BY <3>2 DEF Patience, InOrder
    <3>4. line.frame \in Frame /\ line.at \in Nat /\ Heard(pos)
      BY <1>0, <2>1, <3>2, SMTT(60) DEF Patience
    <3>5. /\ \A k \in 1 .. pos : frameLog[k].at <= hub'.entries[frameLog[k].frame.id].lastAt
          /\ line.at <= hub'.entries[line.frame.id].lastAt
      BY <1>0, <1>1, <3>1, <3>3, <3>4
    <3>6. \A k \in 1 .. pos' : k \in 1 .. pos \/ k = pos + 1
      BY <1>0, <3>1
    <3>7. \A k \in 1 .. pos' : frameLog'[k].at <= hub'.entries[frameLog'[k].frame.id].lastAt
      BY <2>1, <3>5, <3>6
    <3> QED
      BY <3>1, <3>7 DEF Heard
  <2>3. CASE ~Replays(hub, line, dir)
    BY <1>6, <2>3 DEF Replay, Replays
  <2> QED
    BY <2>2, <2>3
<1>7. CASE Listen
  BY <1>7 DEF Listen, Patience, Heard
<1>8. CASE Tick
  <2>1. mode = "up" /\ mode' = "up" /\ frameLog' = frameLog
    BY <1>8, SMTT(60) DEF Tick
  <2>2. ASSUME NEW id \in Payloads PROVE hub'.entries[id].lastAt = hub.entries[id].lastAt
    <3>1. hub.entries[id] \in Entry
      BY <1>0 DEF Hub
    <3> QED
      BY <1>8, <3>1, TickAsks DEF Asked, Entry
  <2>3. \A k \in 1 .. N : frameLog[k].at <= hub'.entries[frameLog[k].frame.id].lastAt
    BY <1>0, <2>1, <2>2, SMTT(60) DEF Patience, Heard
  <2> QED
    BY <2>1, <2>3 DEF Heard
<1>9. ASSUME NEW n \in Clinics \cup Relays, Revoke(n) PROVE Later
  BY <1>9 DEF Revoke, Patience, Heard
<1>10. CASE Advance \/ UNCHANGED vars
  BY <1>10 DEF Advance, vars, Patience, Heard
<1> QED
  BY <1>2, <1>3, <1>4, <1>5, <1>6, <1>7, <1>8, <1>9, <1>10 DEF Next

\* Every request waits for the last frame of its report, also one that came
\* before a restart, and twice as long as the request before it (tick in
\* roles.mjs).
THEOREM RequestsAreSpaced == Spec => RequestsBackOff
<1> DEFINE Inv == TypeOK /\ Readable /\ Patience
           Spaced == \A id \in Payloads : Len(asked'[id]) > Len(asked[id]) =>
                       /\ \A n \in DOMAIN frameLog :
                            frameLog[n].frame.id = id => now >= frameLog[n].at + ResendAfter
                       /\ \A k \in DOMAIN asked[id] : now >= asked[id][k] + ResendAfter * 2 ^ k
<1>1. Init => Readable /\ Patience
  BY DEF Init, Readable, Patience, InOrder, Heard, Paced, EmptyHub, EmptyEntry
<1>2. TypeOK /\ Readable /\ Patience /\ [Next]_vars => Readable' /\ Patience'
  BY ReadableStep, InOrderStep, HeardStep, PacedStep DEF Patience
<1>3. TypeOK /\ Readable /\ Patience /\ [Next]_vars => Spaced
  <2> SUFFICES ASSUME TypeOK, Readable, Patience, [Next]_vars,
                      NEW id \in Payloads, Len(asked'[id]) > Len(asked[id])
               PROVE  /\ \A n \in DOMAIN frameLog :
                           frameLog[n].frame.id = id => now >= frameLog[n].at + ResendAfter
                      /\ \A k \in DOMAIN asked[id] : now >= asked[id][k] + ResendAfter * 2 ^ k
    OBVIOUS
  <2>1. asked[id] \in Seq(Nat) /\ Len(asked[id]) \in Nat /\ now \in Nat
    BY DEF TypeOK
  <2>2. Tick
    <3>1. asked' # asked /\ asked' # [x \in Payloads |-> <<>>]
      BY <2>1
    <3> QED
      BY <3>1 DEF Next, Receive, KilledWhileLogging, ReceiveThrows, Crash, Die, Ended, Restart, Replay, Replays, Listen,
                  Revoke, Advance, vars
  <2> DEFINE e == hub.entries[id]
  <2>3. Due(id, e, now)
    BY <2>1, <2>2, TickAsks
  <2>4. mode = "up" /\ Heard(Len(frameLog)) /\ Paced
    BY <2>2 DEF Tick, Patience
  <2>5. e \in Entry
    BY DEF TypeOK, Hub
  <2> HIDE DEF e
  <2>6. /\ e.lastAt \in Nat /\ e.nextAt \in Nat
        /\ now >= e.lastAt + ResendAfter /\ now >= e.nextAt
    BY <2>3, <2>5 DEF Due, Entry
  <2>7. ASSUME NEW n \in DOMAIN frameLog, frameLog[n].frame.id = id
        PROVE  now >= frameLog[n].at + ResendAfter
    <3>1. n \in 1 .. Len(frameLog) /\ frameLog[n].at \in Nat
      BY LineType DEF TypeOK
    <3>2. frameLog[n].at <= e.lastAt
      BY <2>4, <2>7, <3>1 DEF Heard, e
    <3> QED
      BY <2>1, <2>6, <3>1, <3>2, ConstantsAssumption, SMTT(60)
  <2>8. ASSUME NEW k \in DOMAIN asked[id]
        PROVE  now >= asked[id][k] + ResendAfter * 2 ^ k
    <3> DEFINE w == Wait(k)
    <3>1. k \in Nat /\ asked[id][k] \in Nat
      BY <2>1
    <3>2. w \in Nat
      BY <3>1, WaitType
    <3>3. asked[id][k] + w <= e.nextAt
      BY <2>4 DEF Paced, e
    <3> HIDE DEF w
    <3>4. now >= asked[id][k] + w
      BY <2>1, <2>6, <3>1, <3>2, <3>3
    <3> QED
      BY <3>4 DEF w, Wait
  <2> QED
    BY <2>7, <2>8
<1>4. Spec => []Inv
  BY <1>1, <1>2, TypeCorrect, PTL DEF Spec
<1> HIDE DEF Spaced
<1>5. Spec => [][Spaced]_vars
  BY <1>3, <1>4, PTL DEF Spec
<1> QED
  BY <1>5 DEF RequestsBackOff, Spaced

-----------------------------------------------------------------------------
(* The payout tool: for any handoffs, funding outputs and overlapping runs *)
(* the ledger has only what ARC accepted and money is earned; and while    *)
(* runs do not overlap, the ledger books every handoff once, and a clean   *)
(* sequence of runs pays it once.                                          *)

\* A transaction that was built, held or recorded pays something, and only
\* what was verified and has an address.
Deserved(tx) == tx.paid # {} /\ tx.paid \subseteq verified \cap Payable

Busy(t) == run[t].pc \in {"built", "answered"}

\* On the chain, or answered good by ARC and not taken.
Kept(tx) == spent[tx.fund] = tx.paid \/ tx \in early

\* A run that ARC told "accepted" has its transaction kept, as has every line of
\* the ledger: an output that is spent stays spent by the same payments.
PayoutInvariant ==
  /\ \A t \in Tools : Busy(t) => run[t].tx \in Tx /\ Deserved(run[t].tx)
  /\ \A t \in Tools : run[t].pc = "answered" /\ run[t].ok => Kept(run[t].tx)
  /\ \A tx \in held \cup early : Deserved(tx)
  /\ \A line \in ledger : line.paid # {} /\ Kept(line)
  /\ \A f \in Funds : spent[f] \subseteq verified \cap Payable

-----------------------------------------------------------------------------

\* The invariant holds at the start.
LEMMA PayoutInitInvariant == PayoutInit => PayoutTypeOK /\ PayoutInvariant
<1> SUFFICES ASSUME PayoutInit PROVE PayoutTypeOK /\ PayoutInvariant
  OBVIOUS
<1>1. \A t \in Tools : run[t] = Idle
  BY DEF PayoutInit
<1>2. \A t \in Tools : ~Busy(t)
  BY <1>1 DEF Busy, Idle
<1>3. Idle \in [pc : {"idle", "built", "answered"}, tx : Tx \cup {NoTx}, ok : BOOLEAN]
  BY DEF Idle
<1>8. run \in [Tools -> [pc : {"idle", "built", "answered"}, tx : Tx \cup {NoTx}, ok : BOOLEAN]]
  BY <1>3 DEF PayoutInit
<1>9. spent \in [Funds -> SUBSET Handoffs] /\ mishaps \in 0 .. MaxMishaps
  BY PayoutAssumption DEF PayoutInit
<1>4. PayoutTypeOK
  BY <1>8, <1>9 DEF PayoutInit, PayoutTypeOK
<1>5. /\ held \cup early = {} /\ ledger = {}
      /\ \A f \in Funds : spent[f] = {}
  BY DEF PayoutInit
<1>6. \A t \in Tools : run[t].pc # "answered"
  BY <1>1 DEF Idle
<1>7. PayoutInvariant
  BY <1>2, <1>5, <1>6 DEF PayoutInvariant
<1> QED
  BY <1>4, <1>7

\* Every step keeps the types.
LEMMA PayoutTypeStep == PayoutTypeOK /\ PayoutInvariant /\ [PayoutNext]_payoutVars => PayoutTypeOK'
<1> SUFFICES ASSUME PayoutTypeOK, PayoutInvariant, [PayoutNext]_payoutVars PROVE PayoutTypeOK'
  OBVIOUS
<1> USE PayoutAssumption
<1> DEFINE ToolRuns == [Tools -> [pc : {"idle", "built", "answered"}, tx : Tx \cup {NoTx}, ok : BOOLEAN]]
<1>0. \A t \in Tools : run' = [run EXCEPT ![t] = Idle] => run' \in ToolRuns
  BY DEF PayoutTypeOK, Idle
<1>1. ASSUME NEW h \in Handoffs, Verify(h) PROVE PayoutTypeOK'
  BY <1>1 DEF PayoutTypeOK, Verify
<1>2. ASSUME NEW t \in Tools, NEW f \in Funds, Build(t, f) PROVE PayoutTypeOK'
  <2>1. [fund |-> f, paid |-> (verified \ Already) \cap Payable] \in Tx
    BY DEF PayoutTypeOK, Tx
  <2> QED
    BY <1>2, <2>1 DEF PayoutTypeOK, Build
<1>3. ASSUME NEW t \in Tools, Broadcast(t) PROVE PayoutTypeOK'
  <2>1. run' \in ToolRuns
    BY <1>3 DEF PayoutTypeOK, Broadcast, Answer
  <2>2. run[t].tx \in Tx
    BY <1>3 DEF PayoutInvariant, Busy, Broadcast
  <2>3. spent' \in [Funds -> SUBSET Handoffs]
    BY <1>3, <2>2 DEF PayoutTypeOK, Broadcast, Tx
  <2> QED
    BY <1>3, <2>1, <2>3 DEF PayoutTypeOK, Broadcast
<1>4. ASSUME NEW t \in Tools, BroadcastHeld(t) PROVE PayoutTypeOK'
  <2>1. run' \in ToolRuns
    BY <1>4, ZenonT(60) DEF PayoutTypeOK, BroadcastHeld, Answer
  <2>2. run[t].tx \in Tx
    BY <1>4 DEF PayoutInvariant, Busy, BroadcastHeld
  <2> QED
    BY <1>4, <2>1, <2>2 DEF PayoutTypeOK, BroadcastHeld, Mishap
<1>9. ASSUME NEW t \in Tools, BroadcastEarly(t) PROVE PayoutTypeOK'
  <2>1. run' \in ToolRuns
    BY <1>9, ZenonT(60) DEF PayoutTypeOK, BroadcastEarly, Answer
  <2>2. run[t].tx \in Tx
    BY <1>9 DEF PayoutInvariant, Busy, BroadcastEarly
  <2> QED
    BY <1>9, <2>1, <2>2 DEF PayoutTypeOK, BroadcastEarly
<1>5. ASSUME NEW t \in Tools, Book(t) PROVE PayoutTypeOK'
  <2>1. run[t].tx \in Tx
    BY <1>5 DEF PayoutInvariant, Busy, Book
  <2> QED
    BY <1>0, <1>5, <2>1 DEF PayoutTypeOK, Book, Exit
<1>6. ASSUME NEW t \in Tools, Killed(t) PROVE PayoutTypeOK'
  <2>1. run' \in ToolRuns
    BY <1>0, <1>6 DEF Killed, Exit
  <2>2. mishaps' \in 0 .. MaxMishaps
    BY <1>6 DEF PayoutTypeOK, Killed, Mishap
  <2> QED
    BY <1>6, <2>1, <2>2 DEF PayoutTypeOK, Killed
<1>7. ASSUME NEW tx \in held \cup early, Settle(tx) PROVE PayoutTypeOK'
  <2>1. tx \in Tx
    BY DEF PayoutTypeOK
  <2>2. tx.fund \in Funds /\ tx.paid \subseteq Handoffs
    BY <2>1 DEF Tx
  <2> QED
    BY <1>7, <2>2 DEF PayoutTypeOK, Settle
<1>8. CASE UNCHANGED payoutVars
  BY <1>8 DEF PayoutTypeOK, payoutVars
<1> QED
  BY <1>1, <1>2, <1>3, <1>4, <1>5, <1>6, <1>7, <1>8, <1>9 DEF PayoutNext

\* What the network took, or has in hand, stays so.
LEMMA StillKept ==
  ASSUME PayoutTypeOK, NEW tx \in Tx, Kept(tx), tx.paid # {},
         \A f \in Funds : spent[f] # {} => spent'[f] = spent[f],
         tx \in early => tx \in early' \/ spent'[tx.fund] = tx.paid
  PROVE  Kept(tx)'
  BY DEF Kept, Tx

\* Every step keeps what runs, outputs and the ledger say of each other.
LEMMA PayoutInvariantStep == PayoutTypeOK /\ PayoutInvariant /\ [PayoutNext]_payoutVars => PayoutInvariant'
<1> SUFFICES ASSUME PayoutTypeOK, PayoutInvariant, [PayoutNext]_payoutVars PROVE PayoutInvariant'
  OBVIOUS
<1>0. /\ \A u \in Tools : Busy(u) => run[u].tx \in Tx /\ Deserved(run[u].tx)
      /\ \A u \in Tools : run[u].pc = "answered" /\ run[u].ok =>
           run[u].tx \in Tx /\ run[u].tx.paid # {} /\ Kept(run[u].tx)
      /\ \A x \in held \cup early : x \in Tx /\ Deserved(x)
      /\ \A line \in ledger : line \in Tx /\ line.paid # {} /\ Kept(line)
      /\ \A f \in Funds : spent[f] \subseteq verified \cap Payable
  BY DEF PayoutInvariant, PayoutTypeOK, Busy, Deserved
<1>1. ASSUME NEW h \in Handoffs, Verify(h) PROVE PayoutInvariant'
  BY <1>1 DEF PayoutInvariant, Verify, Busy, Deserved, Kept
<1>a. ASSUME UNCHANGED <<verified, spent, early>>, held' \subseteq held, ledger' \subseteq ledger,
             \A u \in Tools : Busy(u)' => run'[u].tx \in Tx /\ Deserved(run'[u].tx),
             \A u \in Tools : run'[u].pc = "answered" /\ run'[u].ok => Kept(run'[u].tx)
      PROVE  PayoutInvariant'
  <2>1. \A x : Kept(x)' = Kept(x) /\ Deserved(x)' = Deserved(x)
    BY <1>a DEF Kept, Deserved
  <2> QED
    BY <1>0, <1>a, <2>1 DEF PayoutInvariant
<1>2. ASSUME NEW t \in Tools, NEW f \in Funds, Build(t, f) PROVE PayoutInvariant'
  <2> DEFINE tx == [fund |-> f, paid |-> (verified \ Already) \cap Payable]
  <2>1. tx \in Tx /\ Deserved(tx)
    BY <1>2 DEF PayoutTypeOK, Tx, Deserved, Build
  <2>2. /\ run'[t] = [pc |-> "built", tx |-> tx, ok |-> FALSE]
        /\ \A u \in Tools \ {t} : run'[u] = run[u]
    BY <1>2 DEF PayoutTypeOK, Build
  <2> HIDE DEF tx
  <2>3. \A u \in Tools : Busy(u)' => run'[u].tx \in Tx /\ Deserved(run'[u].tx)
    BY <1>0, <2>1, <2>2 DEF Busy
  <2>4. \A u \in Tools : run'[u].pc = "answered" /\ run'[u].ok => Kept(run'[u].tx)
    BY <1>0, <2>2
  <2> QED
    BY <1>2, <1>a, <2>3, <2>4 DEF Build
<1>b. ASSUME NEW t \in Tools, run[t].pc = "built", UNCHANGED <<verified, ledger>>,
             NEW ok \in BOOLEAN, Answer(t, ok), ok => Kept(run[t].tx)',
             \A x \in held' \cup early' : Deserved(x),
             \A g \in Funds : spent[g] # {} => spent'[g] = spent[g],
             \A g \in Funds : spent'[g] \subseteq verified \cap Payable,
             early \subseteq early'
      PROVE  PayoutInvariant'
  <2>1. /\ run'[t] = [run[t] EXCEPT !.pc = "answered", !.ok = ok]
        /\ \A u \in Tools \ {t} : run'[u] = run[u]
    BY <1>b DEF PayoutTypeOK, Answer
  <2>2. run'[t].pc = "answered" /\ run'[t].tx = run[t].tx /\ run'[t].ok = ok
    BY <2>1 DEF PayoutTypeOK
  <2>3. \A x \in Tx : Kept(x) /\ x.paid # {} => Kept(x)'
    BY <1>b, StillKept
  <2>4. \A x : Deserved(x)' = Deserved(x)
    BY <1>b DEF Deserved
  <2>5. \A u \in Tools : Busy(u)' => Busy(u) /\ run'[u].tx = run[u].tx
    BY <1>b, <2>1, <2>2 DEF Busy
  <2>6. \A u \in Tools : run'[u].pc = "answered" /\ run'[u].ok => Kept(run[u].tx)'
    <3> SUFFICES ASSUME NEW u \in Tools, run'[u].pc = "answered", run'[u].ok
                 PROVE  Kept(run[u].tx)'
      OBVIOUS
    <3>1. CASE u = t
      BY <1>b, <2>2, <3>1
    <3>2. CASE u # t
      <4>1. PICK x : x = run[u].tx
        OBVIOUS
      <4>2. run'[u] = run[u] /\ x \in Tx /\ x.paid # {} /\ Kept(x)
        BY <1>0, <2>1, <3>2, <4>1
      <4>3. Kept(x)' /\ run'[u].tx = x
        BY <2>3, <4>1, <4>2
      <4> QED
        BY <4>3 DEF Kept
    <3> QED
      BY <3>1, <3>2
  <2>7. \A line \in ledger' : line.paid # {} /\ Kept(line)'
    BY <1>0, <1>b, <2>3
  <2> QED
    BY <1>0, <1>b, <2>4, <2>5, <2>6, <2>7 DEF PayoutInvariant
<1>3. ASSUME NEW t \in Tools, Broadcast(t) PROVE PayoutInvariant'
  <2> DEFINE tx == run[t].tx
  <2>1. tx \in Tx /\ Deserved(tx) /\ tx.fund \in Funds /\ run[t].pc = "built"
    BY <1>0, <1>3 DEF Busy, Broadcast, Tx
  <2>2. UNCHANGED <<verified, ledger, held, early>>
    BY <1>3 DEF Broadcast
  <2>3. CASE Accepted(tx)
    <3>1. spent' = [spent EXCEPT ![tx.fund] = tx.paid] /\ Answer(t, TRUE)
      BY <1>3, <2>3 DEF Broadcast
    <3>2. \A f \in Funds : spent[f] # {} => spent'[f] = spent[f]
      BY <2>1, <2>3, <3>1 DEF PayoutTypeOK, Accepted
    <3>3. spent'[tx.fund] = tx.paid
      BY <2>1, <3>1 DEF PayoutTypeOK
    <3>4. \A f \in Funds : spent'[f] \subseteq verified \cap Payable
      BY <1>0, <2>1, <3>1 DEF PayoutTypeOK, Deserved
    <3>5. Kept(run[t].tx)'
      <4>1. run'[t].tx = run[t].tx
        BY <3>1 DEF PayoutTypeOK, Answer
      <4> QED
        BY <3>3, <4>1 DEF Kept
    <3> QED
      BY <1>0, <1>b, <2>1, <2>2, <3>1, <3>2, <3>4, <3>5
  <2>4. CASE ~Accepted(tx)
    <3>1. spent' = spent /\ Answer(t, FALSE)
      BY <1>3, <2>4 DEF Broadcast
    <3> QED
      BY <1>0, <1>b, <2>1, <2>2, <3>1
  <2> QED
    BY <2>3, <2>4
<1>9. ASSUME NEW t \in Tools, BroadcastEarly(t) PROVE PayoutInvariant'
  <2>1. run[t].pc = "built" /\ Busy(t) /\ Answer(t, TRUE) /\ early' = early \cup {run[t].tx}
    BY <1>9 DEF BroadcastEarly, Busy
  <2>2. UNCHANGED <<verified, ledger, spent, held>>
    BY <1>9 DEF BroadcastEarly
  <2>3. Kept(run[t].tx)'
    <3>1. run'[t].tx = run[t].tx
      BY <2>1 DEF PayoutTypeOK, Answer
    <3> QED
      BY <2>1, <3>1 DEF Kept
  <2>4. \A x \in held' \cup early' : Deserved(x)
    BY <1>0, <2>1, <2>2
  <2> QED
    BY <1>0, <1>b, <2>1, <2>2, <2>3, <2>4
<1>4. ASSUME NEW t \in Tools, BroadcastHeld(t) PROVE PayoutInvariant'
  <2>1. run[t].pc = "built" /\ Busy(t) /\ Answer(t, FALSE) /\ held' = held \cup {run[t].tx}
    BY <1>4 DEF BroadcastHeld, Busy
  <2>2. UNCHANGED <<verified, ledger, spent, early>>
    BY <1>4 DEF BroadcastHeld
  <2>3. \A x \in held' \cup early' : Deserved(x)
    BY <1>0, <2>1, <2>2
  <2> QED
    BY <1>0, <1>b, <2>1, <2>2, <2>3
<1>5. ASSUME NEW t \in Tools, Book(t) PROVE PayoutInvariant'
  <2>1. /\ run'[t].pc = "idle"
        /\ \A u \in Tools \ {t} : run'[u] = run[u]
        /\ UNCHANGED <<verified, held, spent, early>>
    BY <1>5 DEF PayoutTypeOK, Book, Exit, Idle
  <2>2. \A line \in ledger' : line.paid # {} /\ Kept(line)
    BY <1>0, <1>5 DEF Book
  <2>3. \A x : Kept(x)' = Kept(x) /\ Deserved(x)' = Deserved(x)
    BY <2>1 DEF Kept, Deserved
  <2> QED
    BY <1>0, <2>1, <2>2, <2>3 DEF PayoutInvariant, Busy
<1>6. ASSUME NEW t \in Tools, Killed(t) PROVE PayoutInvariant'
  <2>1. /\ run'[t].pc = "idle"
        /\ \A u \in Tools \ {t} : run'[u] = run[u]
        /\ UNCHANGED <<verified, ledger, held, spent, early>>
    BY <1>6 DEF PayoutTypeOK, Killed, Exit, Idle
  <2> QED
    BY <1>0, <1>a, <2>1 DEF Busy
<1>7. ASSUME NEW tx \in held \cup early, Settle(tx) PROVE PayoutInvariant'
  <2>1. tx \in Tx /\ Deserved(tx) /\ tx.fund \in Funds
    BY <1>0 DEF Tx
  <2>2. \A f \in Funds : spent[f] # {} => spent'[f] = spent[f]
    BY <1>7, <2>1 DEF PayoutTypeOK, Settle
  <2>3. \A f \in Funds : spent'[f] \subseteq verified \cap Payable
    BY <1>0, <1>7, <2>1 DEF PayoutTypeOK, Settle, Deserved
  <2>4. spent'[tx.fund] = tx.paid /\ early' = early \ {tx} /\ held' = held \ {tx}
    BY <1>7, <2>1 DEF PayoutTypeOK, Settle
  <2>5. \A x \in Tx : Kept(x) /\ x.paid # {} => Kept(x)'
    BY <2>2, <2>4, StillKept
  <2>6. UNCHANGED <<verified, ledger, run>> /\ \A x : Deserved(x)' = Deserved(x)
    BY <1>7 DEF Settle, Deserved
  <2>7. \A u \in Tools : run'[u].pc = "answered" /\ run'[u].ok => Kept(run[u].tx)'
    <3> SUFFICES ASSUME NEW u \in Tools, run'[u].pc = "answered", run'[u].ok
                 PROVE  Kept(run[u].tx)'
      OBVIOUS
    <3>1. PICK x : x = run[u].tx
      OBVIOUS
    <3>2. x \in Tx /\ x.paid # {} /\ Kept(x) /\ run'[u].tx = x
      BY <1>0, <2>6, <3>1
    <3>3. Kept(x)'
      BY <2>5, <3>2
    <3> QED
      BY <3>2, <3>3 DEF Kept
  <2> QED
    BY <1>0, <2>3, <2>4, <2>5, <2>6, <2>7 DEF PayoutInvariant, Busy
<1>8. CASE UNCHANGED payoutVars
  BY <1>8 DEF PayoutInvariant, payoutVars, Busy, Deserved, Kept
<1> QED
  BY <1>1, <1>2, <1>3, <1>4, <1>5, <1>6, <1>7, <1>8, <1>9 DEF PayoutNext

\* So they hold always.
LEMMA PayoutInvariance == PayoutSpec => [](PayoutTypeOK /\ PayoutInvariant)
  BY PayoutInitInvariant, PayoutTypeStep, PayoutInvariantStep, PTL DEF PayoutSpec

\* The variables of the payout tool keep their types.
THEOREM PayoutTypeCorrect == PayoutSpec => []PayoutTypeOK
  BY PayoutInvariance, PTL

\* broadcastPayout: every payment payouts.jsonl claims is on the chain or was
\* answered by ARC with a good status that came too early and is not taken, for
\* any number of overlapping runs.
THEOREM LedgerIsTrue == PayoutSpec => []LedgerIsAccepted
<1>1. PayoutInvariant => LedgerIsAccepted
  BY DEF PayoutInvariant, LedgerIsAccepted, Kept
<1> QED
  BY <1>1, PayoutInvariance, PTL

\* buildPayout: money leaves only for verified handoffs of relays with an
\* address, also with transactions that are mined late.
THEOREM OnlyVerifiedIsPaid == PayoutSpec => []PaidWasVerified
<1>1. PayoutInvariant => PaidWasVerified
  BY DEF PayoutInvariant, PaidWasVerified
<1> QED
  BY <1>1, PayoutInvariance, PTL

-----------------------------------------------------------------------------
(* Runs that do not overlap.                                               *)

Answered(t) == run[t].pc = "answered" /\ run[t].ok

\* A transaction in the ledger, or about to be.
Claimed(tx) == tx \in ledger \/ \E t \in Tools : Answered(t) /\ run[t].tx = tx

\* What was mined from an output.
Mined(f) == [fund |-> f, paid |-> spent[f]]

\* While runs have not overlapped there is at most one under way, and it pays
\* nothing the ledger has; and in a clean history whatever ARC accepted and
\* whatever the chain has is in the ledger or about to be.
SequentialInvariant ==
  ~overlapped =>
    /\ \A t, u \in Tools : Busy(t) /\ Busy(u) => t = u
    /\ \A t \in Tools : Busy(t) => run[t].tx.paid \cap Already = {}
    /\ BookedOnce
    /\ mishaps = 0 =>
         /\ held = {}
         /\ \A tx \in early : Claimed(tx)
         /\ \A f \in Funds : spent[f] # {} => Claimed(Mined(f))

\* The invariant of runs one at a time holds at the start.
LEMMA SequentialInit == PayoutInit => SequentialInvariant
  BY DEF PayoutInit, SequentialInvariant, Busy, Idle, BookedOnce

\* Every step keeps it.
LEMMA SequentialStep ==
  ASSUME PayoutTypeOK, PayoutInvariant, SequentialInvariant, [PayoutNext]_payoutVars
  PROVE  SequentialInvariant'
<1> SUFFICES ASSUME ~overlapped'
             PROVE  SequentialInvariant'
  BY DEF SequentialInvariant
<1>0. overlapped' = FALSE => overlapped = FALSE
  BY DEF PayoutTypeOK, PayoutNext, payoutVars, Verify, Build, Broadcast, BroadcastEarly, BroadcastHeld,
         Book, Killed, Settle
<1>a. /\ ~overlapped
      /\ \A t, u \in Tools : Busy(t) /\ Busy(u) => t = u
      /\ \A t \in Tools : Busy(t) => run[t].tx.paid \cap Already = {}
      /\ BookedOnce
      /\ mishaps = 0 =>
           /\ held = {}
           /\ \A tx \in early : Claimed(tx)
           /\ \A f \in Funds : spent[f] # {} => Claimed(Mined(f))
  <2>1. overlapped' \in BOOLEAN
    BY PayoutTypeStep DEF PayoutTypeOK
  <2> QED
    BY <1>0, <2>1 DEF SequentialInvariant
<1>b. \A t \in Tools : Answered(t) => Busy(t)
  BY DEF Answered, Busy
<1>1. ASSUME NEW h \in Handoffs, Verify(h) PROVE SequentialInvariant'
  BY <1>1, <1>a DEF SequentialInvariant, Verify, Busy, Already, BookedOnce, Answered, Claimed, Mined
<1>2. ASSUME NEW t \in Tools, NEW f \in Funds, Build(t, f) PROVE SequentialInvariant'
  <2>1. \A u \in Tools : ~Busy(u)
    BY <1>2 DEF Build, Busy
  <2>2. /\ run'[t].pc = "built" /\ run'[t].tx.paid \cap Already = {}
        /\ \A u \in Tools \ {t} : run'[u] = run[u]
        /\ UNCHANGED <<ledger, held, early, spent, mishaps>>
    BY <1>2 DEF PayoutTypeOK, Build
  <2>3. Already' = Already /\ BookedOnce'
    BY <1>a, <2>2 DEF Already, BookedOnce
  <2>4. \A u \in Tools : Busy(u)' => u = t
    BY <2>1, <2>2 DEF Busy
  <2>5. \A tx : Claimed(tx) => Claimed(tx)'
    BY <1>b, <2>1, <2>2 DEF Claimed
  <2>6. \A g \in Funds : Mined(g)' = Mined(g)
    BY <2>2 DEF Mined
  <2> QED
    BY <1>a, <2>2, <2>3, <2>4, <2>5, <2>6 DEF SequentialInvariant
<1>c. ASSUME NEW t \in Tools, run[t].pc = "built", NEW ok \in BOOLEAN, Answer(t, ok),
             UNCHANGED <<ledger, mishaps>>
      PROVE  /\ run'[t].tx = run[t].tx /\ (ok => Answered(t)')
             /\ \A u \in Tools : Busy(u)' => Busy(u) /\ run'[u].tx = run[u].tx
             /\ Already' = Already /\ BookedOnce'
             /\ \A tx : Claimed(tx) => Claimed(tx)'
             /\ ok => Claimed(run[t].tx)'
  <2>1. /\ run'[t].pc = "answered" /\ run'[t].tx = run[t].tx /\ run'[t].ok = ok
        /\ \A u \in Tools \ {t} : run'[u] = run[u]
    BY <1>c DEF PayoutTypeOK, Answer
  <2>2. Busy(t) /\ ~Answered(t)
    BY <1>c DEF Busy, Answered
  <2>3. \A u \in Tools : Busy(u)' => Busy(u) /\ run'[u].tx = run[u].tx
    BY <2>1, <2>2 DEF Busy
  <2>4. Already' = Already /\ BookedOnce'
    BY <1>a, <1>c DEF Already, BookedOnce
  <2>5. \A u \in Tools : Answered(u) => Answered(u)' /\ run'[u].tx = run[u].tx
    BY <2>1, <2>2 DEF Answered
  <2>6. \A tx : Claimed(tx) => Claimed(tx)'
    BY <1>c, <2>5 DEF Claimed
  <2>7. ok => Answered(t)'
    BY <2>1 DEF Answered
  <2>8. ok => Claimed(run[t].tx)'
    BY <2>7 DEF Claimed
  <2> QED
    BY <2>1, <2>3, <2>4, <2>6, <2>7, <2>8
<1>3. ASSUME NEW t \in Tools, Broadcast(t) PROVE SequentialInvariant'
  <2>0. PICK tx : tx = run[t].tx
    OBVIOUS
  <2>1. tx \in Tx /\ tx.fund \in Funds /\ run[t].pc = "built"
    BY <1>3, <2>0 DEF PayoutInvariant, Busy, Broadcast, Tx
  <2>2. UNCHANGED <<ledger, held, early, mishaps>>
    BY <1>3 DEF Broadcast
  <2>3. CASE Accepted(tx)
    <3>1. spent' = [spent EXCEPT ![tx.fund] = tx.paid] /\ Answer(t, TRUE)
      BY <1>3, <2>0, <2>3 DEF Broadcast
    <3>2. /\ \A u \in Tools : Busy(u)' => Busy(u) /\ run'[u].tx = run[u].tx
          /\ Already' = Already /\ BookedOnce'
          /\ \A x : Claimed(x) => Claimed(x)'
          /\ Answered(t)' /\ run'[t].tx = tx
      BY <1>c, <2>0, <2>1, <2>2, <3>1
    <3>3. Mined(tx.fund)' = tx
      BY <2>1, <3>1 DEF PayoutTypeOK, Mined, Tx
    <3>4. \A f \in Funds \ {tx.fund} : spent'[f] = spent[f] /\ Mined(f)' = Mined(f)
      BY <2>1, <3>1 DEF PayoutTypeOK, Mined
    <3>5. Claimed(tx)'
      BY <3>2 DEF Claimed
    <3>6. \A f \in Funds : mishaps' = 0 /\ spent'[f] # {} => Claimed(Mined(f))'
      <4> TAKE f \in Funds
      <4>1. CASE f = tx.fund
        <5>1. (Mined(f) = tx)'
          BY <2>0, <3>3, <4>1
        <5>2. \A x : x = tx => Claimed(x)'
          BY <3>5
        <5>3. PICK x : x = Mined(f)'
          OBVIOUS
        <5>4. Claimed(x)'
          BY <5>1, <5>2, <5>3
        <5> QED
          BY <5>3, <5>4 DEF Claimed
      <4>2. CASE f # tx.fund
        <5>1. mishaps' = 0 /\ spent'[f] # {} => Claimed(Mined(f))
          BY <1>a, <2>2, <3>4, <4>2
        <5>2. \A x : x = Mined(f) => (Claimed(x) => Claimed(x)')
          BY <3>2
        <5>4. Mined(f)' = Mined(f)
          BY <3>4, <4>2
        <5>5. PICK x : x = Mined(f)
          OBVIOUS
        <5>6. mishaps' = 0 /\ spent'[f] # {} => Claimed(x)'
          <6>1. Claimed(Mined(f)) => Claimed(x)
            BY <5>5 DEF Claimed
          <6> QED
            BY <5>1, <5>2, <5>5, <6>1
        <5>7. x = Mined(f)'
          BY <5>4, <5>5
        <5>8. Claimed(x)' => Claimed(Mined(f))'
          BY <5>7 DEF Claimed
        <5> QED
          BY <5>6, <5>8
      <4> QED
        BY <4>1, <4>2
    <3>7. mishaps' = 0 => held' = {} /\ \A x \in early' : Claimed(x)'
      BY <1>a, <2>2, <3>2
    <3> QED
      BY <1>a, <3>2, <3>6, <3>7 DEF SequentialInvariant
  <2>4. CASE ~Accepted(tx)
    <3>1. spent' = spent /\ Answer(t, FALSE)
      BY <1>3, <2>0, <2>4 DEF Broadcast
    <3>2. /\ \A u \in Tools : Busy(u)' => Busy(u) /\ run'[u].tx = run[u].tx
          /\ Already' = Already /\ BookedOnce'
          /\ \A x : Claimed(x) => Claimed(x)'
      BY <1>c, <2>1, <2>2, <3>1
    <3>3. \A f \in Funds : Mined(f)' = Mined(f)
      BY <3>1 DEF Mined
    <3> QED
      BY <1>a, <2>2, <3>1, <3>2, <3>3 DEF SequentialInvariant
  <2> QED
    BY <2>3, <2>4
<1>9. ASSUME NEW t \in Tools, BroadcastEarly(t) PROVE SequentialInvariant'
  <2>1. /\ run[t].pc = "built" /\ Answer(t, TRUE) /\ early' = early \cup {run[t].tx}
        /\ UNCHANGED <<ledger, held, spent, mishaps>>
    BY <1>9 DEF BroadcastEarly
  <2>2. /\ \A u \in Tools : Busy(u)' => Busy(u) /\ run'[u].tx = run[u].tx
        /\ Already' = Already /\ BookedOnce'
        /\ \A x : Claimed(x) => Claimed(x)'
        /\ Claimed(run[t].tx)' /\ run'[t].tx = run[t].tx
    BY <1>c, <2>1
  <2>3. \A f \in Funds : Mined(f)' = Mined(f)
    BY <2>1 DEF Mined
  <2>4. \A x \in early' : x \in early \/ x = run'[t].tx
    BY <2>1, <2>2
  <2>5. mishaps' = 0 => \A x \in early' : Claimed(x)'
    <3>1. \A x : x = run'[t].tx => Claimed(x)'
      BY <2>2 DEF Claimed
    <3> QED
      BY <1>a, <2>1, <2>2, <2>4, <3>1
  <2> QED
    BY <1>a, <2>1, <2>2, <2>3, <2>5 DEF SequentialInvariant
<1>4. ASSUME NEW t \in Tools, BroadcastHeld(t) PROVE SequentialInvariant'
  <2>1. mishaps' # 0
    BY <1>4 DEF PayoutTypeOK, BroadcastHeld, Mishap
  <2>2. \A u \in Tools : Busy(u)' => Busy(u) /\ run'[u].tx = run[u].tx
    BY <1>4 DEF PayoutTypeOK, BroadcastHeld, Answer, Busy
  <2>3. Already' = Already /\ BookedOnce'
    BY <1>4, <1>a DEF BroadcastHeld, Already, BookedOnce
  <2> QED
    BY <1>a, <2>1, <2>2, <2>3 DEF SequentialInvariant
<1>5. ASSUME NEW t \in Tools, Book(t) PROVE SequentialInvariant'
  <2>0. PICK tx : tx = run[t].tx
    OBVIOUS
  <2>1. Busy(t) /\ tx.paid \cap Already = {} /\ tx.paid # {}
    BY <1>5, <1>a, <2>0 DEF PayoutInvariant, Busy, Book, Deserved
  <2>2. \A u \in Tools : ~Busy(u)' /\ ~Answered(u)'
    BY <1>5, <1>a, <2>1 DEF PayoutTypeOK, Book, Exit, Idle, Busy, Answered
  <2>3. UNCHANGED <<held, early, spent, mishaps>>
    BY <1>5 DEF Book
  <2>4. \A f \in Funds : Mined(f)' = Mined(f)
    BY <2>3 DEF Mined
  <2>5. CASE Answered(t)
    <3>1. ledger' = ledger \cup {tx}
      BY <1>5, <2>0, <2>5 DEF Book, Answered
    <3>2. \A line \in ledger : line.paid \subseteq Already
      BY DEF Already
    <3>3. BookedOnce'
      BY <1>a, <2>1, <3>1, <3>2 DEF BookedOnce
    <3>4. \A x : Claimed(x) => Claimed(x)'
      BY <1>a, <1>b, <2>0, <2>1, <3>1 DEF Claimed
    <3> QED
      BY <1>a, <2>2, <2>3, <2>4, <3>3, <3>4 DEF SequentialInvariant
  <2>6. CASE ~Answered(t)
    <3>1. ledger' = ledger
      BY <1>5, <2>6 DEF Book, Answered
    <3>2. \A u \in Tools : ~Answered(u)
      BY <1>a, <1>b, <2>1, <2>6
    <3>3. \A x : Claimed(x) => Claimed(x)'
      BY <3>1, <3>2 DEF Claimed
    <3>4. BookedOnce'
      BY <1>a, <3>1 DEF BookedOnce
    <3> QED
      BY <1>a, <2>2, <2>3, <2>4, <3>3, <3>4 DEF SequentialInvariant
  <2> QED
    BY <2>5, <2>6
<1>6. ASSUME NEW t \in Tools, Killed(t) PROVE SequentialInvariant'
  <2>1. mishaps' # 0
    BY <1>6 DEF PayoutTypeOK, Killed, Mishap
  <2>2. \A u \in Tools : Busy(u)' => Busy(u) /\ run'[u].tx = run[u].tx
    BY <1>6 DEF PayoutTypeOK, Killed, Exit, Idle, Busy
  <2>3. Already' = Already /\ BookedOnce'
    BY <1>6, <1>a DEF Killed, Already, BookedOnce
  <2> QED
    BY <1>a, <2>1, <2>2, <2>3 DEF SequentialInvariant
<1>7. ASSUME NEW tx \in held \cup early, Settle(tx) PROVE SequentialInvariant'
  <2>1. /\ tx \in Tx /\ tx.fund \in Funds
        /\ UNCHANGED <<ledger, run, mishaps>>
        /\ held' = held \ {tx} /\ early' = early \ {tx}
        /\ spent' = [spent EXCEPT ![tx.fund] = tx.paid]
    BY <1>7 DEF PayoutTypeOK, Settle, Tx
  <2>2. Already' = Already /\ BookedOnce' /\ \A u \in Tools : Busy(u)' = Busy(u)
    BY <1>a, <2>1 DEF Already, BookedOnce, Busy
  <2>3. \A x : Claimed(x)' = Claimed(x)
    BY <2>1 DEF Claimed, Answered
  <2>4. Mined(tx.fund)' = tx /\ \A f \in Funds \ {tx.fund} : spent'[f] = spent[f] /\ Mined(f)' = Mined(f)
    BY <2>1 DEF PayoutTypeOK, Mined, Tx
  <2>5. mishaps' = 0 => tx \in early /\ Claimed(tx)
    BY <1>a, <2>1
  <2>6. \A f \in Funds : mishaps' = 0 /\ spent'[f] # {} => Claimed(Mined(f))'
    <3> TAKE f \in Funds
    <3>1. CASE f = tx.fund
      <4>1. mishaps' = 0 => Claimed(tx)'
        BY <2>3, <2>5
      <4> QED
        BY <2>4, <3>1, <4>1 DEF Claimed, Mined
    <3>2. CASE f # tx.fund
      BY <1>a, <2>1, <2>3, <2>4, <3>2 DEF Claimed, Mined
    <3> QED
      BY <3>1, <3>2
  <2> QED
    BY <1>a, <2>1, <2>2, <2>3, <2>6 DEF SequentialInvariant
<1>8. CASE UNCHANGED payoutVars
  BY <1>8, <1>a DEF SequentialInvariant, payoutVars, Busy, Already, BookedOnce, Answered, Claimed, Mined
<1> QED
  BY <1>1, <1>2, <1>3, <1>4, <1>5, <1>6, <1>7, <1>8, <1>9 DEF PayoutNext

\* So it holds always.
LEMMA SequentialInvariance == PayoutSpec => []SequentialInvariant
  BY SequentialInit, SequentialStep, PayoutInvariance, PTL DEF PayoutSpec

\* What is claimed by two transactions of a clean history is claimed once.
LEMMA ClaimedOnce ==
  ASSUME PayoutTypeOK, SequentialInvariant, ~overlapped, mishaps = 0
  PROVE  PaidOnce
<1> SUFFICES ASSUME NEW f \in Funds, NEW g \in Funds, f # g, NEW h \in spent[f], h \in spent[g]
             PROVE  FALSE
  BY DEF PaidOnce
<1>1. Claimed(Mined(f)) /\ Claimed(Mined(g))
  BY DEF SequentialInvariant
<1>2. Mined(f) # Mined(g) /\ h \in Mined(f).paid /\ h \in Mined(g).paid
  BY DEF Mined
<1>3. \A x \in ledger : x.paid \subseteq Already
  BY DEF Already
<1>4. \A t \in Tools : Answered(t) => Busy(t) /\ run[t].tx.paid \cap Already = {}
  BY DEF SequentialInvariant, Answered, Busy
<1>5. \A x, y \in ledger : x # y => x.paid \cap y.paid = {}
  BY DEF SequentialInvariant, BookedOnce
<1>6. \A t, u \in Tools : Answered(t) /\ Answered(u) => t = u
  BY <1>4 DEF SequentialInvariant
<1> DEFINE x == Mined(f)
           y == Mined(g)
<1> HIDE DEF x, y
<1>7. Claimed(x) /\ Claimed(y) /\ x # y /\ h \in x.paid /\ h \in y.paid
  BY <1>1, <1>2 DEF x, y
<1> QED
  BY <1>3, <1>4, <1>5, <1>6, <1>7 DEF Claimed

\* owed excludes what payouts.jsonl has: as long as runs do not overlap, no
\* handoff is booked twice, whatever is killed or answered ambiguously.
THEOREM HandoffsAreBookedOnce == PayoutSpec => [](~overlapped => BookedOnce)
<1>1. SequentialInvariant => (~overlapped => BookedOnce)
  BY DEF SequentialInvariant
<1> QED
  BY <1>1, SequentialInvariance, PTL

\* Without mishaps, runs that do not overlap pay every handoff at most once,
\* also when the network takes late what ARC answered early.
THEOREM CleanRunsPayOnce == PayoutSpec => [](~overlapped => PaidOnceUnlessFaulty)
<1>1. PayoutTypeOK /\ SequentialInvariant => (~overlapped => PaidOnceUnlessFaulty)
  BY ClaimedOnce DEF PaidOnceUnlessFaulty
<1> QED
  BY <1>1, PayoutInvariance, SequentialInvariance, PTL

\* The exclusion in owed keeps what payout.mjs:13-14 says, as far as it can.
THEOREM RunsPayOnce == PayoutSpec => []OnceOnly
<1>1. (~overlapped => BookedOnce) /\ (~overlapped => PaidOnceUnlessFaulty) => OnceOnly
  BY DEF OnceOnly
<1> QED
  BY <1>1, HandoffsAreBookedOnce, CleanRunsPayOnce, PTL
=============================================================================
