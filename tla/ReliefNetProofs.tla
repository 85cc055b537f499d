-------------------------- MODULE ReliefNetProofs --------------------------
(***************************************************************************)
(* Proofs about the relief network of ReliefNet, for every chain of        *)
(* relays, every set of reports and every bound on faults and crashes.     *)
(* What the hub holds and owes is traced to claims through the receipts of *)
(* frames in flight, what it delivers to what the clinic kept, and what    *)
(* the clinic sent is counted by what it remembers and how often it forgot.*)
(***************************************************************************)
EXTENDS ReliefNet, ReliefRolesProofs

-----------------------------------------------------------------------------
(* The inductive invariant.                                                *)

\* The types of what is on disk, in memory and in flight.
NetTypeOK ==
  /\ outbox \in BOOLEAN
  /\ job \in {NoJob} \cup [id : Payloads, done : Nat]
  /\ store \subseteq Payloads
  /\ resent \in [Chunks -> Nat] /\ sends \in [Chunks -> Nat]
  /\ seen \subseteq Nat
  /\ back \in [Relays -> [Payloads -> Nodes \cup {NoNode}]]
  /\ claims \in [Relays -> SUBSET [id : Payloads, index : Nat, from : Nodes]]
  /\ net \subseteq Message
  /\ hub \in Hub
  /\ requests \in Nat
  /\ faults \in Nat
  /\ crashes \in [relay : Nat, clinic : Nat, hub : Nat]

\* What is under way is of a report that the clinic kept.
Handed ==
  /\ job # NoJob => job.id \in store
  /\ \A m \in net : m.frame.kind # "resend" => m.frame.id \in store

Claimed(node, id, index) ==
  node \in Relays /\ \E c \in claims[node] : c.id = id /\ c.index = index

Carried(id, index, custody) ==
  \A k \in DOMAIN custody : Claimed(custody[k].hop, id, index)

\* Every receipt, in flight or at the hub, is claimed by its signer.
ReceiptsAreClaimed ==
  /\ \A m \in net : m.frame.kind = "chunk" =>
       Carried(m.frame.id, m.frame.index, m.frame.custody)
  /\ \A id \in Payloads : \A c \in hub.entries[id].chunks : Carried(id, c.index, c.custody)
  /\ \A p \in hub.paid : Claimed(p[1], p[2], p[3])

\* Has sendFile sent this chunk, or been cut short before?
Begun(c) ==
  IF c[1] \in store /\ ~(job # NoJob /\ job.id = c[1] /\ job.done <= c[2] + 1) THEN 1 ELSE 0

\* A chunk is sent once by sendFile and then only as often as the clinic
\* remembers, in each of its lives; requests are told apart by their number.
SendsAreCounted ==
  /\ \A m \in net : m.frame.kind = "resend" => m.frame.n < requests
  /\ seen \subseteq 0 .. (requests - 1)
  /\ \A c \in Chunks :
       /\ resent[c] <= MaxResendsPerChunk
       /\ sends[c] <= Begun(c) + crashes.clinic * MaxResendsPerChunk + resent[c]
       /\ sends[c] <= Begun(c) + crashes.clinic * requests + Cardinality(seen)

NetInvariant == Handed /\ ReceiptsAreClaimed /\ SendsAreCounted

-----------------------------------------------------------------------------
(* Types.                                                                  *)

\* A chunk is a report and an index of it.
LEMMA ChunksType ==
  ASSUME NEW id, NEW i
  PROVE  <<id, i>> \in Chunks <=> id \in Payloads /\ i \in Index(id)
  BY DEF Chunks

\* An index is a number.
LEMMA IndexType ==
  ASSUME NEW id \in Payloads
  PROVE  Index(id) \subseteq Nat
  BY ConstantsAssumption DEF Index

\* What the clinic sends is a message.
LEMMA ClinicMessages ==
  ASSUME NEW id \in Payloads
  PROVE  /\ Manifest(id) \in Message
         /\ \A i \in Nat : ChunkOf(id, i) \in Message
<1>1. NextHop[TheClinic] \in Nodes /\ TheClinic \in Nodes /\ <<TheClinic, 0>> \in Keys
  BY NetAssumption, ConstantsAssumption DEF Keys
<1>2. Manifest(id) \in Message
  BY <1>1 DEF Manifest, Packet, Message, Frame, ManifestFrame
<1>3. ASSUME NEW i \in Nat PROVE ChunkOf(id, i) \in Message
  <2>1. <<>> \in Seq(Receipt)
    OBVIOUS
  <2> QED
    BY <1>1, <2>1 DEF ChunkOf, Packet, Message, Frame, ChunkFrame
<1> QED
  BY <1>2, <1>3

\* Frames by their kind.
LEMMA FrameKinds ==
  ASSUME NEW m \in Message
  PROVE  /\ m.to \in Nodes /\ m.copy \in {0, 1}
         /\ m.frame.kind \in {"manifest", "chunk", "resend"}
         /\ m.frame.id \in Payloads
         /\ m.frame.kind = "manifest" => m.frame \in ManifestFrame
         /\ m.frame.kind = "chunk" => m.frame \in ChunkFrame
         /\ m.frame.kind = "resend" => m.frame \in Resend
  BY DEF Message, Frame, ManifestFrame, ChunkFrame, Resend

\* What a relay passes on is a message.
LEMMA RelayMessages ==
  ASSUME NEW m \in Message, NEW r \in Relays, m.frame.kind # "resend"
  PROVE  /\ m.frame.kind = "chunk" => Packet(NextHop[r], Stamped(m.frame, r)) \in Message
         /\ m.frame.kind # "chunk" => Packet(NextHop[r], [m.frame EXCEPT !.lastHop = r]) \in Message
<1> DEFINE f == m.frame
<1>1. r \in Nodes /\ NextHop[r] \in Nodes /\ <<r, 0>> \in Keys
  BY NetAssumption, ConstantsAssumption DEF Keys
<1>2. ASSUME f.kind = "chunk" PROVE Packet(NextHop[r], Stamped(f, r)) \in Message
  <2> DEFINE receipt == [hop |-> r, key |-> <<r, 0>>, prev |-> f.lastHop, sound |-> TRUE]
  <2>1. f \in ChunkFrame
    BY <1>2, FrameKinds
  <2>2. receipt \in Receipt
    BY <1>1, <2>1 DEF Receipt, ChunkFrame
  <2> HIDE DEF receipt
  <2>3. Append(f.custody, receipt) \in Seq(Receipt)
    BY <2>1, <2>2 DEF ChunkFrame
  <2>4. Stamped(f, r) = [f EXCEPT !.custody = Append(f.custody, receipt), !.lastHop = r]
    BY <2>1 DEF Stamped, receipt, ChunkFrame
  <2> HIDE DEF f
  <2>5. Stamped(f, r) \in ChunkFrame
    BY <1>1, <2>1, <2>3, <2>4 DEF ChunkFrame
  <2> QED
    BY <1>1, <2>5 DEF Packet, Message, Frame
<1>3. ASSUME f.kind # "chunk" PROVE Packet(NextHop[r], [f EXCEPT !.lastHop = r]) \in Message
  <2>1. f \in ManifestFrame
    BY <1>3, FrameKinds
  <2> HIDE DEF f
  <2>2. [f EXCEPT !.lastHop = r] \in ManifestFrame
    BY <1>1, <2>1 DEF ManifestFrame
  <2> QED
    BY <1>1, <2>2 DEF Packet, Message, Frame
<1> QED
  BY <1>2, <1>3

\* A damaged or repeated message is a message.
LEMMA FaultyMessages ==
  ASSUME NEW m \in Message
  PROVE  /\ [m EXCEPT !.copy = 1] \in Message
         /\ m.frame.kind = "chunk" => [m EXCEPT !.frame.intact = FALSE] \in Message
         /\ m.frame.kind = "manifest" => [m EXCEPT !.frame.sound = FALSE] \in Message
<1>1. [m EXCEPT !.copy = 1] \in Message
  BY DEF Message
<1>2. ASSUME m.frame.kind = "chunk" PROVE [m EXCEPT !.frame.intact = FALSE] \in Message
  <2>1. [m.frame EXCEPT !.intact = FALSE] \in ChunkFrame
    BY <1>2, FrameKinds DEF ChunkFrame
  <2> QED
    BY <2>1 DEF Message, Frame
<1>3. ASSUME m.frame.kind = "manifest" PROVE [m EXCEPT !.frame.sound = FALSE] \in Message
  <2>1. [m.frame EXCEPT !.sound = FALSE] \in ManifestFrame
    BY <1>3, FrameKinds DEF ManifestFrame
  <2> QED
    BY <2>1 DEF Message, Frame
<1> QED
  BY <1>1, <1>2, <1>3

\* Such a message is of the same report, and says the same of its way.
LEMMA FaultySame ==
  ASSUME NEW m \in Message
  PROVE  /\ [m EXCEPT !.copy = 1].frame = m.frame
         /\ m.frame.kind = "chunk" =>
              LET f == [m EXCEPT !.frame.intact = FALSE].frame
              IN  /\ f.kind = m.frame.kind /\ f.id = m.frame.id
                  /\ f.index = m.frame.index /\ f.custody = m.frame.custody
         /\ m.frame.kind = "manifest" =>
              LET f == [m EXCEPT !.frame.sound = FALSE].frame
              IN  f.kind = m.frame.kind /\ f.id = m.frame.id
<1>1. [m EXCEPT !.copy = 1].frame = m.frame
  BY DEF Message
<1>2. ASSUME m.frame.kind = "chunk"
      PROVE  LET f == [m EXCEPT !.frame.intact = FALSE].frame
             IN  /\ f.kind = m.frame.kind /\ f.id = m.frame.id
                 /\ f.index = m.frame.index /\ f.custody = m.frame.custody
  <2>1. [m EXCEPT !.frame.intact = FALSE].frame = [m.frame EXCEPT !.intact = FALSE]
    BY DEF Message
  <2> QED
    BY <1>2, <2>1, FrameKinds DEF ChunkFrame
<1>3. ASSUME m.frame.kind = "manifest"
      PROVE  LET f == [m EXCEPT !.frame.sound = FALSE].frame
             IN  f.kind = m.frame.kind /\ f.id = m.frame.id
  <2>1. [m EXCEPT !.frame.sound = FALSE].frame = [m.frame EXCEPT !.sound = FALSE]
    BY DEF Message
  <2> QED
    BY <1>3, <2>1, FrameKinds DEF ManifestFrame
<1> QED
  BY <1>1, <1>2, <1>3

\* A request the hub makes is a message.
LEMMA RequestMessages ==
  ASSUME NEW id \in Payloads, NEW e \in Entry, Wanting(id, e), NEW n \in Nat
  PROVE  LET q == Request(id, e)
         IN  Packet(e.via, [kind |-> "resend", id |-> id, manifest |-> q.manifest,
                            indexes |-> q.indexes, route |-> q.route, n |-> n]) \in Message
<1> DEFINE q == Request(id, e)
<1>1. e.via \in Nodes
  BY DEF Wanting, Entry
<1>2. q.manifest \in BOOLEAN
  BY DEF Request, Entry
<1>3. q.indexes \in SUBSET Nat
  BY IndexType DEF Request, Missing
<1>4. q.route \in Seq(Nodes)
  <2>1. CASE e.route # <<>>
    BY <2>1 DEF Request, Entry
  <2>2. CASE e.route = <<>>
    <3> DEFINE who == CHOOSE n1 \in Requestee(id, e) : TRUE
    <3>1. Requestee(id, e) # {} /\ Requestee(id, e) \subseteq Nodes
      BY <2>2, ConstantsAssumption DEF Requestee, Wanting
    <3>2. who \in Nodes
      BY <3>1
    <3> HIDE DEF who
    <3>3. <<who, e.via>> \in Seq(Nodes)
      BY <1>1, <3>2
    <3> QED
      BY <2>2, <3>3 DEF Request, who
  <2> QED
    BY <2>1, <2>2
<1> HIDE DEF q
<1> QED
  BY <1>1, <1>2, <1>3, <1>4 DEF Packet, Message, Resend, q

\* The network is well typed at the start.
LEMMA NetTypeInit == Init => NetTypeOK
<1> SUFFICES ASSUME Init PROVE NetTypeOK
  OBVIOUS
<1>1. 0 \in Nat
  OBVIOUS
<1>2. resent \in [Chunks -> Nat] /\ sends \in [Chunks -> Nat]
  BY <1>1 DEF Init
<1>3. back \in [Relays -> [Payloads -> Nodes \cup {NoNode}]]
  BY DEF Init
<1>4. claims \in [Relays -> SUBSET [id : Payloads, index : Nat, from : Nodes]]
  BY DEF Init
<1> QED
  BY <1>2, <1>3, <1>4, EmptyHubType DEF Init, NetTypeOK

\* The clinic's answer to a request keeps the types.
LEMMA ClinicRequestType ==
  ASSUME NetTypeOK, NEW m \in net, ClinicRequest(m)
  PROVE  NetTypeOK'
<1> DEFINE q == m.frame
           again == {i \in q.indexes : <<q.id, i>> \in Chunks /\ resent[<<q.id, i>>] < MaxResendsPerChunk}
<1>1. m \in Message /\ q \in Resend
  BY FrameKinds DEF NetTypeOK, ClinicRequest
<1>2. q.id \in Payloads /\ q.n \in Nat /\ again \subseteq Nat
  BY <1>1 DEF Resend
<1> HIDE DEF again
<1>3. net' \subseteq net \cup {Manifest(q.id)} \cup {ChunkOf(q.id, i) : i \in again}
  BY DEF ClinicRequest, again
<1>4. net' \subseteq Message
  BY <1>2, <1>3, ClinicMessages DEF NetTypeOK
<1>5. seen' \subseteq Nat
  BY <1>2 DEF ClinicRequest, NetTypeOK
<1>6. resent' \in [Chunks -> Nat] /\ sends' \in [Chunks -> Nat]
  <2> DEFINE now(c) == c[1] = q.id /\ c[2] \in again
  <2>1. \/ /\ resent' = [c \in Chunks |-> IF now(c) THEN resent[c] + 1 ELSE resent[c]]
           /\ sends' = [c \in Chunks |-> IF now(c) THEN sends[c] + 1 ELSE sends[c]]
        \/ UNCHANGED <<resent, sends>>
    BY DEF ClinicRequest, again
  <2> HIDE DEF now
  <2>2. resent \in [Chunks -> Nat] /\ sends \in [Chunks -> Nat]
    BY DEF NetTypeOK
  <2> QED
    BY <2>1, <2>2
<1> QED
  BY <1>4, <1>5, <1>6 DEF ClinicRequest, NetTypeOK, relayVars, hubVars

\* Every step keeps the types.
LEMMA NetTypeStep == NetTypeOK /\ [Next]_vars => NetTypeOK'
<1> SUFFICES ASSUME NetTypeOK, [Next]_vars PROVE NetTypeOK'
  OBVIOUS
<1> USE DEF clinicVars, relayVars, hubVars
<1>1. ASSUME NEW id \in Payloads, Poll(id) PROVE NetTypeOK'
  BY <1>1 DEF Poll, NetTypeOK
<1>2. ASSUME SendNext PROVE NetTypeOK'
  <2>1. job \in [id : Payloads, done : Nat]
    BY <1>2 DEF SendNext, NetTypeOK
  <2>2. job' \in [id : Payloads, done : Nat]
    BY <1>2, <2>1 DEF SendNext
  <2>3. net' \subseteq Message
    <3>1. CASE job.done = 0
      BY <1>2, <2>1, <3>1, ClinicMessages DEF SendNext, NetTypeOK
    <3>2. CASE job.done # 0
      <4>1. job.done - 1 \in Nat
        BY <2>1, <3>2
      <4> QED
        BY <1>2, <2>1, <3>2, <4>1, ClinicMessages DEF SendNext, NetTypeOK
    <3> QED
      BY <3>1, <3>2
  <2>4. sends' \in [Chunks -> Nat]
    BY <1>2, SMTT(60) DEF SendNext, NetTypeOK
  <2> QED
    BY <1>2, <2>2, <2>3, <2>4 DEF SendNext, NetTypeOK
<1>3. ASSUME FileSent PROVE NetTypeOK'
  BY <1>3 DEF FileSent, NetTypeOK
<1>4. ASSUME NEW m \in net, ClinicRequest(m) PROVE NetTypeOK'
  BY <1>4, ClinicRequestType
<1>5. ASSUME NEW m \in net, NEW r \in Relays, RelayFrame(r, m) PROVE NetTypeOK'
  <2>1. m \in Message /\ m.frame.kind \in {"manifest", "chunk"}
    BY <1>5, FrameKinds DEF RelayFrame, NetTypeOK
  <2>2. m.frame.id \in Payloads /\ m.frame.lastHop \in Nodes
        /\ (m.frame.kind = "chunk" => m.frame.index \in Nat)
    BY <2>1, FrameKinds DEF ManifestFrame, ChunkFrame
  <2>3. net' \subseteq Message
    <3>1. net' \subseteq net \cup {IF m.frame.kind = "chunk"
                                 THEN Packet(NextHop[r], Stamped(m.frame, r))
                                 ELSE Packet(NextHop[r], [m.frame EXCEPT !.lastHop = r])}
      BY <1>5 DEF RelayFrame
    <3>2. CASE m.frame.kind = "chunk"
      <4>1. Packet(NextHop[r], Stamped(m.frame, r)) \in Message
        BY <2>1, <3>2, RelayMessages
      <4> QED
        BY <3>1, <3>2, <4>1 DEF NetTypeOK
    <3>3. CASE m.frame.kind # "chunk"
      <4>1. Packet(NextHop[r], [m.frame EXCEPT !.lastHop = r]) \in Message
        BY <2>1, <3>3, RelayMessages
      <4> QED
        BY <3>1, <3>3, <4>1 DEF NetTypeOK
    <3> QED
      BY <3>2, <3>3
  <2>4. back' \in [Relays -> [Payloads -> Nodes \cup {NoNode}]]
    BY <1>5, <2>2 DEF RelayFrame, NetTypeOK
  <2>5. claims' \in [Relays -> SUBSET [id : Payloads, index : Nat, from : Nodes]]
    BY <1>5, <2>2 DEF RelayFrame, NetTypeOK
  <2> QED
    BY <1>5, <2>3, <2>4, <2>5 DEF RelayFrame, NetTypeOK
<1>6. ASSUME NEW m \in net, NEW r \in Relays, RelayRequest(r, m) PROVE NetTypeOK'
  <2>1. m \in Message /\ m.frame \in Resend
    BY <1>6, FrameKinds DEF RelayRequest, NetTypeOK
  <2>2. Backward(r, m.frame) \subseteq Nodes
    <3>1. m.frame.id \in Payloads /\ m.frame.route \in Seq(Nodes)
      BY <2>1 DEF Resend
    <3>2. back[r][m.frame.id] \in Nodes \cup {NoNode}
      BY <3>1 DEF NetTypeOK
    <3>3. \A k \in DOMAIN m.frame.route : k > 1 => m.frame.route[k - 1] \in Nodes
      BY <3>1
    <3> QED
      BY <3>2, <3>3 DEF Backward
  <2>3. \A to \in Nodes : Packet(to, m.frame) \in Message
    BY <2>1 DEF Packet, Message
  <2> QED
    BY <1>6, <2>2, <2>3 DEF RelayRequest, NetTypeOK
<1>7. ASSUME NEW m \in net, HubFrame(m) PROVE NetTypeOK'
  <2>1. m \in Message /\ m.frame \in Frame
    BY <1>7, FrameKinds DEF HubFrame, NetTypeOK, Frame
  <2>2. Ingest(hub, m.frame, 0, Provisioned) \in Hub
    BY <2>1, IngestType DEF NetTypeOK
  <2> QED
    BY <1>7, <2>2 DEF HubFrame, NetTypeOK
<1>8. ASSUME NEW id \in Payloads, HubTick(id) PROVE NetTypeOK'
  <2> DEFINE e == hub.entries[id]
  <2>1. e \in Entry /\ Wanting(id, e)
    BY <1>8 DEF HubTick, NetTypeOK, Hub
  <2>2. Asked(e, 0) \in Entry
    BY <2>1, AskedType
  <2>3. hub' \in Hub
    BY <1>8, <2>2 DEF HubTick, NetTypeOK, Hub
  <2>4. net' \subseteq Message
    BY <1>8, <2>1, RequestMessages DEF HubTick, NetTypeOK
  <2> QED
    BY <1>8, <2>3, <2>4 DEF HubTick, NetTypeOK
<1>9. ASSUME ClinicCrash PROVE NetTypeOK'
  BY <1>9 DEF ClinicCrash, NetTypeOK
<1>10. ASSUME NEW r \in Crashable, RelayCrash(r) PROVE NetTypeOK'
  <2>1. back' \in [Relays -> [Payloads -> Nodes \cup {NoNode}]]
    <3>1. r \in Relays /\ claims[r] \subseteq [id : Payloads, index : Nat, from : Nodes]
      BY NetAssumption DEF NetTypeOK
    <3> DEFINE from(id) == {c.from : c \in {d \in claims[r] : d.id = id}}
               memory == [id \in Payloads |-> IF from(id) = {} THEN NoNode ELSE CHOOSE n \in from(id) : TRUE]
    <3>2. \A id \in Payloads : from(id) \subseteq Nodes
      BY <3>1
    <3> HIDE DEF from
    <3>3. memory \in [Payloads -> Nodes \cup {NoNode}]
      BY <3>2
    <3>4. back' = [back EXCEPT ![r] = memory]
      BY <1>10 DEF RelayCrash, from
    <3> HIDE DEF memory
    <3> QED
      BY <3>3, <3>4 DEF NetTypeOK
  <2>2. crashes' \in [relay : Nat, clinic : Nat, hub : Nat]
    BY <1>10 DEF RelayCrash, NetTypeOK
  <2> QED
    BY <1>10, <2>1, <2>2 DEF RelayCrash, NetTypeOK
<1>11. ASSUME HubRestart PROVE NetTypeOK'
  <2>1. \A e \in Entry : Replayed(e) \in Entry
    BY DEF Replayed, Entry
  <2>2. [id \in Payloads |-> Replayed(hub.entries[id])] \in [Payloads -> Entry]
    BY <2>1 DEF NetTypeOK, Hub
  <2>3. hub' \in Hub
    BY <1>11, <2>2 DEF HubRestart, NetTypeOK, Hub
  <2>4. crashes' \in [relay : Nat, clinic : Nat, hub : Nat]
    BY <1>11 DEF HubRestart, NetTypeOK
  <2> QED
    BY <1>11, <2>3, <2>4 DEF HubRestart, NetTypeOK
<1>12. ASSUME NEW m \in net, Lose(m) \/ Duplicate(m) \/ Damage(m) PROVE NetTypeOK'
  <2>1. m \in Message
    BY DEF NetTypeOK
  <2>2. net' \subseteq Message
    BY <1>12, <2>1, FaultyMessages DEF Lose, Duplicate, Damage, NetTypeOK
  <2> QED
    BY <1>12, <2>2 DEF Lose, Duplicate, Damage, Fault, NetTypeOK
<1>13. ASSUME UNCHANGED vars PROVE NetTypeOK'
  BY <1>13 DEF vars, NetTypeOK
<1> QED
  BY <1>1, <1>2, <1>3, <1>4, <1>5, <1>6, <1>7, <1>8, <1>9, <1>10, <1>11, <1>12, <1>13
     DEF Next, Clinic, Relay, HubActs, Crashes, Faults

-----------------------------------------------------------------------------
(* What each step adds to the frames in flight.                            *)

\* The clinic's frames are of the report they are made for, and carry no receipt.
LEMMA ClinicFrames ==
  ASSUME NEW id, NEW i
  PROVE  /\ Manifest(id).frame.kind = "manifest" /\ Manifest(id).frame.id = id
         /\ ChunkOf(id, i).frame.kind = "chunk" /\ ChunkOf(id, i).frame.id = id
         /\ ChunkOf(id, i).frame.index = i /\ ChunkOf(id, i).frame.custody = <<>>
  BY DEF Manifest, ChunkOf, Packet

\* Sending adds a frame of the report in progress.
LEMMA SendNextAdds ==
  ASSUME SendNext, NEW x \in net'
  PROVE  x \in net \/ x = Manifest(job.id) \/ x = ChunkOf(job.id, job.done - 1)
  BY DEF SendNext

\* Answering a request adds frames of a report that is kept.
LEMMA ClinicRequestAdds ==
  ASSUME NEW m \in net, ClinicRequest(m), NEW x \in net'
  PROVE  \/ x \in net
         \/ /\ m.frame.id \in store
            /\ x = Manifest(m.frame.id) \/ \E i : x = ChunkOf(m.frame.id, i)
<1> DEFINE q == m.frame
           again == {i \in q.indexes : <<q.id, i>> \in Chunks /\ resent[<<q.id, i>>] < MaxResendsPerChunk}
<1>1. CASE q.n \notin seen /\ q.id \in store
  <2>1. net' = (net \ {m}) \cup (IF q.manifest THEN {Manifest(q.id)} ELSE {})
                           \cup {ChunkOf(q.id, i) : i \in again}
    BY <1>1 DEF ClinicRequest
  <2> HIDE DEF again
  <2> QED
    BY <1>1, <2>1
<1>2. CASE ~(q.n \notin seen /\ q.id \in store)
  BY <1>2 DEF ClinicRequest
<1> QED
  BY <1>1, <1>2

\* Passing a frame on keeps what it is of, and adds the relay's receipt.
LEMMA RelayFrameAdds ==
  ASSUME NEW m \in Message, NEW r \in Relays, RelayFrame(r, m), NEW x \in net'
  PROVE  \/ x \in net
         \/ /\ x.frame.kind = m.frame.kind /\ x.frame.id = m.frame.id
            /\ x.frame.kind = "chunk" =>
                 /\ x.frame.index = m.frame.index
                 /\ \E s \in Receipt : s.hop = r /\ x.frame.custody = Append(m.frame.custody, s)
<1> DEFINE f == m.frame
<1>0. f.kind \in {"manifest", "chunk"}
  BY FrameKinds DEF RelayFrame
<1>1. CASE f.kind = "chunk"
  <2> DEFINE s == [hop |-> r, key |-> <<r, 0>>, prev |-> f.lastHop, sound |-> TRUE]
             g == Stamped(f, r)
  <2>1. f \in ChunkFrame
    BY <1>1, FrameKinds
  <2>2. s \in Receipt /\ s.hop = r
    BY <2>1, ConstantsAssumption DEF Receipt, ChunkFrame, Keys
  <2>3. /\ g.kind = f.kind /\ g.id = f.id /\ g.index = f.index
        /\ g.custody = Append(f.custody, s)
    BY <2>1 DEF Stamped, ChunkFrame
  <2>4. x \in net \/ x = Packet(NextHop[r], g)
    BY <1>1 DEF RelayFrame
  <2> HIDE DEF g, s
  <2>5. Packet(NextHop[r], g).frame = g
    BY DEF Packet
  <2> QED
    BY <2>2, <2>3, <2>4, <2>5
<1>2. CASE f.kind # "chunk"
  <2> DEFINE g == [f EXCEPT !.lastHop = r]
  <2>1. f \in ManifestFrame
    BY <1>0, <1>2, FrameKinds
  <2>2. g.kind = f.kind /\ g.id = f.id
    BY <2>1 DEF ManifestFrame
  <2>3. x \in net \/ x = Packet(NextHop[r], g)
    BY <1>2 DEF RelayFrame
  <2> HIDE DEF g
  <2>4. Packet(NextHop[r], g).frame = g
    BY DEF Packet
  <2> QED
    BY <1>2, <2>2, <2>3, <2>4
<1> QED
  BY <1>1, <1>2

\* A fault of the network changes neither what a frame is of nor its receipts.
LEMMA FaultAdds ==
  ASSUME NEW m \in Message, Lose(m) \/ Duplicate(m) \/ Damage(m), m \in net, NEW x \in net'
  PROVE  \E y \in net :
           /\ x.frame.kind = y.frame.kind /\ x.frame.id = y.frame.id
           /\ x.frame.kind = "chunk" =>
                x.frame.index = y.frame.index /\ x.frame.custody = y.frame.custody
           /\ x.frame.kind = "resend" => x.frame.n = y.frame.n
<1>1. CASE x \in net
  BY <1>1
<1>2. CASE x = [m EXCEPT !.copy = 1]
  BY <1>2, FaultySame
<1>3. CASE m.frame.kind = "chunk" /\ x = [m EXCEPT !.frame.intact = FALSE]
  BY <1>3, FaultySame
<1>4. CASE m.frame.kind = "manifest" /\ x = [m EXCEPT !.frame.sound = FALSE]
  BY <1>4, FaultySame
<1> QED
  BY <1>1, <1>2, <1>3, <1>4 DEF Lose, Duplicate, Damage

-----------------------------------------------------------------------------
(* Reports in flight and in progress are kept by the clinic.               *)

\* Every step keeps it so: only the clinic makes frames, of what it keeps.
LEMMA HandedStep == NetTypeOK /\ Handed /\ [Next]_vars => Handed'
<1> SUFFICES ASSUME NetTypeOK, Handed, [Next]_vars PROVE Handed'
  OBVIOUS
<1> USE DEF clinicVars, relayVars, hubVars
<1>1. ASSUME NEW id \in Payloads, Poll(id) PROVE Handed'
  BY <1>1 DEF Poll, Handed
<1>2. ASSUME SendNext PROVE Handed'
  <2>1. job.id \in store /\ job'.id = job.id
    BY <1>2 DEF SendNext, Handed, NetTypeOK
  <2>2. \A x \in net' : x \in net \/ x.frame.id = job.id
    BY <1>2, SendNextAdds, ClinicFrames
  <2> QED
    BY <1>2, <2>1, <2>2 DEF SendNext, Handed
<1>3. ASSUME FileSent PROVE Handed'
  BY <1>3 DEF FileSent, Handed
<1>4. ASSUME NEW m \in net, ClinicRequest(m) PROVE Handed'
  <2>1. \A x \in net' : x \in net \/ x.frame.id \in store
    BY <1>4, ClinicRequestAdds, ClinicFrames
  <2> QED
    BY <1>4, <2>1 DEF ClinicRequest, Handed
<1>5. ASSUME NEW m \in net, NEW r \in Relays, RelayFrame(r, m) PROVE Handed'
  <2>1. m \in Message /\ m.frame.id \in store
    BY <1>5 DEF RelayFrame, Handed, NetTypeOK
  <2>2. \A x \in net' : x \in net \/ x.frame.id = m.frame.id
    BY <1>5, <2>1, RelayFrameAdds
  <2> QED
    BY <1>5, <2>1, <2>2 DEF RelayFrame, Handed
<1>6. ASSUME NEW m \in net, NEW r \in Relays, RelayRequest(r, m) PROVE Handed'
  BY <1>6 DEF RelayRequest, Handed, Packet
<1>7. ASSUME NEW m \in net, HubFrame(m) PROVE Handed'
  BY <1>7 DEF HubFrame, Handed
<1>8. ASSUME NEW id \in Payloads, HubTick(id) PROVE Handed'
  BY <1>8 DEF HubTick, Handed, Packet
<1>9. ASSUME ClinicCrash PROVE Handed'
  BY <1>9 DEF ClinicCrash, Handed
<1>10. ASSUME NEW r \in Crashable, RelayCrash(r) PROVE Handed'
  BY <1>10 DEF RelayCrash, Handed
<1>11. ASSUME HubRestart PROVE Handed'
  BY <1>11 DEF HubRestart, Handed
<1>12. ASSUME NEW m \in net, Lose(m) \/ Duplicate(m) \/ Damage(m) PROVE Handed'
  <2>1. \A x \in net' : \E y \in net : x.frame.kind = y.frame.kind /\ x.frame.id = y.frame.id
    BY <1>12, FaultAdds DEF NetTypeOK
  <2>2. UNCHANGED <<job, store>>
    BY <1>12 DEF Lose, Duplicate, Damage, Fault
  <2> QED
    BY <2>1, <2>2 DEF Handed
<1>13. ASSUME UNCHANGED vars PROVE Handed'
  BY <1>13 DEF vars, Handed
<1> QED
  BY <1>1, <1>2, <1>3, <1>4, <1>5, <1>6, <1>7, <1>8, <1>9, <1>10, <1>11, <1>12, <1>13
     DEF Next, Clinic, Relay, HubActs, Crashes, Faults

-----------------------------------------------------------------------------
(* Receipts in flight and at the hub are claimed.                          *)

\* A claim once written stays.
LEMMA ClaimsStay ==
  ASSUME NetTypeOK, [Next]_vars, NEW node, NEW id, NEW index, Claimed(node, id, index)
  PROVE  Claimed(node, id, index)'
<1> USE DEF clinicVars, relayVars, hubVars
<1>1. \A r \in Relays : claims[r] \subseteq claims'[r]
  <2>1. ASSUME NEW m \in net, NEW r \in Relays, RelayFrame(r, m)
        PROVE  \A x \in Relays : claims[x] \subseteq claims'[x]
    BY <2>1, SMTT(60) DEF RelayFrame, NetTypeOK
  <2>2. CASE UNCHANGED claims
    BY <2>2
  <2> QED
    BY <2>1, <2>2 DEF Next, Clinic, Relay, HubActs, Crashes, Faults, Poll, SendNext, FileSent,
       ClinicRequest, RelayRequest, HubFrame, HubTick, ClinicCrash, RelayCrash, HubRestart,
       Lose, Duplicate, Damage, Fault, vars
<1> QED
  BY <1>1, SMTT(60) DEF Claimed

\* A frame carried by the nodes that signed for it stays carried by them.
LEMMA CarriedStays ==
  ASSUME NetTypeOK, [Next]_vars, NEW id, NEW index, NEW custody, Carried(id, index, custody)
  PROVE  Carried(id, index, custody)'
  BY ClaimsStay DEF Carried

\* Checking chunks adds none, and keeps their receipts.
LEMMA FinalizedChunks ==
  ASSUME NEW id \in Payloads, NEW e \in Entry, NEW dr, NEW c \in Finalize(id, e, dr).chunks
  PROVE  \E d \in e.chunks : d.index = c.index /\ d.custody = c.custody
<1> DEFINE kept == {[d EXCEPT !.ok = TRUE] : d \in {x \in e.chunks : x.ok \/ Acceptable(id, x, dr)}}
<1>1. CASE ~e.manifest \/ e.report # "none"
  BY <1>1 DEF Finalize
<1>2. CASE e.manifest /\ e.report = "none"
  <2>1. Finalize(id, e, dr).chunks = kept
    BY <1>2 DEF Finalize, Entry
  <2>2. PICK d \in e.chunks : c = [d EXCEPT !.ok = TRUE]
    BY <2>1
  <2>3. d \in Chunk
    BY DEF Entry
  <2>4. d.index = c.index /\ d.custody = c.custody
    BY <2>2, <2>3 DEF Chunk
  <2> QED
    BY <2>4
<1> QED
  BY <1>1, <1>2 DEF Entry

\* The hub holds only what it held, and what a chunk brought.
LEMMA FiledChunks ==
  ASSUME NEW e \in Entry, NEW f \in Frame, NEW at \in Nat, NEW dr,
         NEW c \in IngestFrame(e, f, at, dr).chunks
  PROVE  \/ \E d \in e.chunks : d.index = c.index /\ d.custody = c.custody
         \/ f.kind = "chunk" /\ c.index = f.index /\ c.custody = f.custody
<1>0. f.id \in Payloads
  BY DEF Frame, ManifestFrame, ChunkFrame
<1> DEFINE u == Touched(e, f, at)
<1>1. u \in Entry /\ u.chunks = e.chunks
  <2>1. u \in Entry
    BY TouchedType
  <2> QED
    BY <2>1 DEF Touched, Entry
<1>2. CASE f.kind = "manifest"
  <2> DEFINE m == [u EXCEPT !.manifest = ManifestOk(f, at, dr)]
  <2>1. IngestFrame(e, f, at, dr) = IF u.manifest THEN u ELSE Finalize(f.id, m, dr)
    BY <1>2 DEF IngestFrame, IngestManifest
  <2>2. ManifestOk(f, at, dr) \in BOOLEAN
    BY DEF ManifestOk
  <2> HIDE DEF u
  <2>3. m \in Entry /\ m.chunks = e.chunks
    BY <1>1, <2>2 DEF Entry
  <2> HIDE DEF m
  <2> QED
    BY <1>0, <1>1, <2>1, <2>3, FinalizedChunks
<1>3. CASE f.kind # "manifest"
  <2>1. f \in ChunkFrame
    BY <1>3 DEF Frame, ManifestFrame
  <2> DEFINE route == IF f.custody = <<>> THEN u.route ELSE RouteOf(f)
             t == [u EXCEPT !.route = route]
             n == [index |-> f.index, intact |-> f.intact, bare |-> f.form = "bare",
                   custody |-> f.custody, at |-> at, ok |-> FALSE]
             m == [t EXCEPT !.chunks = @ \cup {n}]
  <2>2. IngestFrame(e, f, at, dr) =
          IF f.index \in Held(t) \/ t.report = "verified" THEN t ELSE Finalize(f.id, m, dr)
    BY <1>3 DEF IngestFrame, IngestChunk
  <2>3. n \in Chunk /\ n.index = f.index /\ n.custody = f.custody
    BY <2>1 DEF ChunkFrame, Chunk
  <2>4. f.kind = "chunk"
    BY <2>1 DEF ChunkFrame
  <2> HIDE DEF u, n
  <2>5. route \in Seq(Nodes)
    BY <1>1, <2>1, RouteType DEF Entry
  <2> HIDE DEF route
  <2>6. t \in Entry /\ t.chunks = e.chunks
    BY <1>1, <2>5 DEF Entry
  <2> HIDE DEF t
  <2>7. m \in Entry /\ m.chunks = e.chunks \cup {n}
    BY <2>3, <2>6 DEF Entry
  <2> HIDE DEF m
  <2>8. c \in t.chunks \/ \E d \in m.chunks : d.index = c.index /\ d.custody = c.custody
    BY <1>0, <2>2, <2>7, FinalizedChunks
  <2> QED
    BY <2>3, <2>4, <2>6, <2>7, <2>8
<1> QED
  BY <1>2, <1>3

\* A report that came out stays out.
LEMMA ReportStays ==
  ASSUME NEW e \in Entry, NEW f \in Frame, NEW at \in Nat, NEW dr, e.report = "verified"
  PROVE  IngestFrame(e, f, at, dr).report = "verified"
<1> DEFINE u == Touched(e, f, at)
<1>1. u \in Entry /\ u.report = "verified"
  <2>1. u \in Entry
    BY TouchedType
  <2> QED
    BY <2>1 DEF Touched, Entry
<1>2. CASE f.kind = "manifest"
  <2> DEFINE m == [u EXCEPT !.manifest = ManifestOk(f, at, dr)]
  <2>1. IngestFrame(e, f, at, dr) = IF u.manifest THEN u ELSE Finalize(f.id, m, dr)
    BY <1>2 DEF IngestFrame, IngestManifest
  <2> HIDE DEF u
  <2>2. m.report = "verified"
    BY <1>1 DEF Entry
  <2> HIDE DEF m
  <2> QED
    BY <1>1, <2>1, <2>2 DEF Finalize
<1>3. CASE f.kind # "manifest"
  <2> DEFINE route == IF f.custody = <<>> THEN u.route ELSE RouteOf(f)
             t == [u EXCEPT !.route = route]
  <2> HIDE DEF u
  <2>1. t.report = "verified"
    BY <1>1 DEF Entry
  <2>2. t.report = "verified" => IngestFrame(e, f, at, dr) = t
    BY <1>3, SMTT(60) DEF IngestFrame, IngestChunk, u
  <2> HIDE DEF t
  <2> QED
    BY <2>1, <2>2
<1> QED
  BY <1>2, <1>3

\* Outside HubFrame the hub neither files nor owes nor opens anything.
LEMMA OnlyFramesFile ==
  ASSUME NetTypeOK, [Next]_vars, \A m \in net : ~HubFrame(m)
  PROVE  /\ hub'.paid = hub.paid
         /\ \A id \in Payloads : /\ hub'.entries[id].chunks = hub.entries[id].chunks
                                 /\ hub'.entries[id].report = hub.entries[id].report
<1> USE DEF clinicVars, relayVars, hubVars
<1>1. ASSUME NEW i \in Payloads, HubTick(i)
      PROVE  /\ hub'.paid = hub.paid
             /\ \A id \in Payloads : /\ hub'.entries[id].chunks = hub.entries[id].chunks
                                     /\ hub'.entries[id].report = hub.entries[id].report
  <2> DEFINE a == Asked(hub.entries[i], 0)
  <2>1. a.chunks = hub.entries[i].chunks /\ a.report = hub.entries[i].report
    BY DEF Asked, NetTypeOK, Hub, Entry
  <2> HIDE DEF a
  <2>2. hub' = [hub EXCEPT !.entries[i] = a]
    BY <1>1 DEF HubTick, a
  <2> QED
    BY <2>1, <2>2 DEF NetTypeOK, Hub
<1>2. ASSUME HubRestart
      PROVE  /\ hub'.paid = hub.paid
             /\ \A id \in Payloads : /\ hub'.entries[id].chunks = hub.entries[id].chunks
                                     /\ hub'.entries[id].report = hub.entries[id].report
  <2>1. \A e \in Entry : Replayed(e).chunks = e.chunks /\ Replayed(e).report = e.report
    BY DEF Replayed, Entry
  <2>2. hub' = [hub EXCEPT !.entries = [id \in Payloads |-> Replayed(hub.entries[id])]]
    BY <1>2 DEF HubRestart
  <2> QED
    BY <2>1, <2>2 DEF NetTypeOK, Hub
<1>3. CASE UNCHANGED hub
  BY <1>3
<1> QED
  BY <1>1, <1>2, <1>3 DEF Next, Clinic, Relay, HubActs, Crashes, Faults, Poll, SendNext, FileSent,
     ClinicRequest, RelayFrame, RelayRequest, ClinicCrash, RelayCrash, Lose, Duplicate, Damage,
     Fault, vars

\* Every step keeps receipts in flight claimed.
LEMMA CarriedInFlightStep ==
  ASSUME NetTypeOK, ReceiptsAreClaimed, [Next]_vars, NEW x \in net', x.frame.kind = "chunk"
  PROVE  Carried(x.frame.id, x.frame.index, x.frame.custody)'
<1> USE DEF clinicVars, relayVars, hubVars
<1>0. ASSUME NEW y \in net, y.frame.kind = "chunk", x.frame.id = y.frame.id,
             x.frame.index = y.frame.index, x.frame.custody = y.frame.custody
      PROVE  Carried(x.frame.id, x.frame.index, x.frame.custody)'
  <2>1. Carried(x.frame.id, x.frame.index, x.frame.custody)
    BY <1>0 DEF ReceiptsAreClaimed
  <2> QED
    BY <2>1, CarriedStays
<1>1. ASSUME x.frame.custody = <<>>
      PROVE  Carried(x.frame.id, x.frame.index, x.frame.custody)'
  BY <1>1 DEF Carried
<1>2. CASE x \in net
  BY <1>0, <1>2
<1>3. CASE SendNext
  BY <1>1, <1>2, <1>3, SendNextAdds, ClinicFrames
<1>4. ASSUME NEW m \in net, ClinicRequest(m)
      PROVE  Carried(x.frame.id, x.frame.index, x.frame.custody)'
  BY <1>1, <1>2, <1>4, ClinicRequestAdds, ClinicFrames
<1>5. ASSUME NEW m \in net, NEW r \in Relays, RelayFrame(r, m)
      PROVE  Carried(x.frame.id, x.frame.index, x.frame.custody)'
  <2>1. CASE x \notin net
    <3>0. m \in Message
      BY DEF NetTypeOK
    <3>1. PICK s \in Receipt : /\ s.hop = r /\ x.frame.custody = Append(m.frame.custody, s)
                               /\ x.frame.id = m.frame.id /\ x.frame.index = m.frame.index
                               /\ m.frame.kind = "chunk"
      BY <1>5, <2>1, <3>0, RelayFrameAdds
    <3>2. m.frame.custody \in Seq(Receipt)
      BY <3>0, <3>1, FrameKinds DEF ChunkFrame
    <3>3. Carried(m.frame.id, m.frame.index, m.frame.custody)'
      <4>1. Carried(m.frame.id, m.frame.index, m.frame.custody)
        BY <3>1 DEF ReceiptsAreClaimed
      <4> QED
        BY <4>1, CarriedStays
    <3>4. Claimed(r, m.frame.id, m.frame.index)'
      <4> DEFINE claim == [id |-> m.frame.id, index |-> m.frame.index, from |-> m.frame.lastHop]
      <4>1. claims' = [claims EXCEPT ![r] = @ \cup {claim}]
        BY <1>5, <3>1 DEF RelayFrame
      <4>2. claim.id = m.frame.id /\ claim.index = m.frame.index
        OBVIOUS
      <4> HIDE DEF claim
      <4> QED
        BY <4>1, <4>2 DEF Claimed, NetTypeOK
    <3>5. ASSUME NEW k \in DOMAIN x.frame.custody
          PROVE  Claimed(x.frame.custody[k].hop, x.frame.id, x.frame.index)'
      <4> DEFINE old == m.frame.custody
      <4>1. DOMAIN x.frame.custody = 1 .. (Len(old) + 1) /\ DOMAIN old = 1 .. Len(old) /\ Len(old) \in Nat
        BY <3>1, <3>2
      <4>2. CASE k = Len(old) + 1
        BY <3>1, <3>2, <3>4, <4>2
      <4>3. CASE k \in DOMAIN old
        <5>1. x.frame.custody[k] = old[k]
          BY <3>1, <3>2, <4>1, <4>3
        <5> QED
          BY <3>1, <3>3, <4>3, <5>1 DEF Carried
      <4>4. k = Len(old) + 1 \/ k \in DOMAIN old
        BY <4>1
      <4> QED
        BY <4>2, <4>3, <4>4
    <3> QED
      BY <3>5 DEF Carried
  <2> QED
    BY <1>2, <2>1
<1>6. ASSUME NEW m \in net, NEW r \in Relays, RelayRequest(r, m)
      PROVE  Carried(x.frame.id, x.frame.index, x.frame.custody)'
  <2>1. x \in net
    BY <1>6 DEF RelayRequest, Packet
  <2> QED
    BY <1>2, <2>1
<1>7. ASSUME NEW id \in Payloads, HubTick(id)
      PROVE  Carried(x.frame.id, x.frame.index, x.frame.custody)'
  <2>1. x \in net
    BY <1>7 DEF HubTick, Packet
  <2> QED
    BY <1>2, <2>1
<1>8. ASSUME NEW m \in net, Lose(m) \/ Duplicate(m) \/ Damage(m)
      PROVE  Carried(x.frame.id, x.frame.index, x.frame.custody)'
  <2>1. m \in Message
    BY DEF NetTypeOK
  <2> QED
    BY <1>0, <1>8, <2>1, FaultAdds
<1>9. CASE \E m \in net : HubFrame(m)
  BY <1>2, <1>9 DEF HubFrame
<1>10. CASE UNCHANGED net
  BY <1>2, <1>10
<1> QED
  BY <1>3, <1>4, <1>5, <1>6, <1>7, <1>8, <1>9, <1>10
     DEF Next, Clinic, Relay, HubActs, Crashes, Faults, Poll, FileSent, ClinicCrash, RelayCrash,
         HubRestart, vars

\* What a frame adds to what the hub holds and owes is claimed.
LEMMA ReceiptsStep ==
  ASSUME NetTypeOK, ReceiptsAreClaimed, [Next]_vars
  PROVE  ReceiptsAreClaimed'
<1>1. CASE \A m \in net : ~HubFrame(m)
  <2>1. ASSUME NEW id \in Payloads, NEW c \in hub'.entries[id].chunks
        PROVE  Carried(id, c.index, c.custody)'
    <3>1. Carried(id, c.index, c.custody)
      BY <1>1, <2>1, OnlyFramesFile DEF ReceiptsAreClaimed
    <3> QED
      BY <3>1, CarriedStays
  <2>2. ASSUME NEW p \in hub'.paid PROVE Claimed(p[1], p[2], p[3])'
    <3>1. Claimed(p[1], p[2], p[3])
      BY <1>1, <2>2, OnlyFramesFile DEF ReceiptsAreClaimed
    <3> QED
      BY <3>1, ClaimsStay
  <2> QED
    BY <2>1, <2>2, CarriedInFlightStep DEF ReceiptsAreClaimed
<1>2. ASSUME NEW m \in net, HubFrame(m) PROVE ReceiptsAreClaimed'
  <2> DEFINE f == m.frame
             old == hub.entries[f.id]
             new == IngestFrame(old, f, 0, Provisioned)
  <2>1. f \in Frame /\ f.id \in Payloads
    BY <1>2, FrameKinds DEF HubFrame, NetTypeOK, Frame
  <2>2. old \in Entry /\ new \in Entry
    BY <2>1, IngestFrameType DEF NetTypeOK, Hub
  <2>3. hub' = [entries |-> [hub.entries EXCEPT ![f.id] = new], paid |-> hub.paid \cup Earned(f.id, new)]
    BY <1>2 DEF HubFrame, Ingest
  <2>4. \A c \in new.chunks : \/ \E d \in old.chunks : d.index = c.index /\ d.custody = c.custody
                              \/ f.kind = "chunk" /\ c.index = f.index /\ c.custody = f.custody
    <3> HIDE DEF f, old
    <3> QED
      BY <2>1, <2>2, FiledChunks
  <2> HIDE DEF new
  <2>5. \A c \in new.chunks : Carried(f.id, c.index, c.custody)
    BY <2>1, <2>4 DEF ReceiptsAreClaimed
  <2>6. ASSUME NEW id \in Payloads, NEW c \in hub'.entries[id].chunks
        PROVE  Carried(id, c.index, c.custody)'
    <3>1. Carried(id, c.index, c.custody)
      BY <2>1, <2>3, <2>5, <2>6 DEF ReceiptsAreClaimed, NetTypeOK, Hub
    <3> QED
      BY <3>1, CarriedStays
  <2>7. ASSUME NEW p \in hub'.paid PROVE Claimed(p[1], p[2], p[3])'
    <3>1. CASE p \in hub.paid
      BY <3>1, ClaimsStay DEF ReceiptsAreClaimed
    <3>2. CASE p \in Earned(f.id, new)
      <4>1. PICK c \in new.chunks : \E k \in DOMAIN c.custody : p = <<c.custody[k].hop, f.id, c.index>>
        BY <3>2 DEF Earned
      <4>2. Claimed(p[1], p[2], p[3])
        BY <2>5, <4>1 DEF Carried
      <4> QED
        BY <4>2, ClaimsStay
    <3> QED
      BY <2>3, <2>7, <3>1, <3>2
  <2> QED
    BY <2>6, <2>7, CarriedInFlightStep DEF ReceiptsAreClaimed
<1> QED
  BY <1>1, <1>2

-----------------------------------------------------------------------------
(* What the clinic sends is counted.                                       *)

\* Requests keep their number.
LEMMA RequestsNumbered ==
  ASSUME NetTypeOK, SendsAreCounted, [Next]_vars, NEW x \in net', x.frame.kind = "resend"
  PROVE  x.frame.n < requests'
<1> USE DEF clinicVars, relayVars, hubVars
<1>0. ASSUME NEW y \in net, y.frame.kind = "resend", x.frame.n = y.frame.n
      PROVE  x.frame.n < requests
  BY <1>0 DEF SendsAreCounted
<1>1. CASE SendNext
  <2>1. x \in net
    BY <1>1, SendNextAdds, ClinicFrames
  <2> QED
    BY <1>0, <1>1, <2>1 DEF SendNext
<1>2. ASSUME NEW m \in net, ClinicRequest(m) PROVE x.frame.n < requests'
  <2>1. x \in net
    BY <1>2, ClinicRequestAdds, ClinicFrames
  <2> QED
    BY <1>0, <1>2, <2>1 DEF ClinicRequest
<1>3. ASSUME NEW m \in net, NEW r \in Relays, RelayFrame(r, m) PROVE x.frame.n < requests'
  <2>1. x \in net
    BY <1>3, RelayFrameAdds, ZenonT(60) DEF RelayFrame, NetTypeOK
  <2> QED
    BY <1>0, <1>3, <2>1 DEF RelayFrame
<1>4. ASSUME NEW m \in net, NEW r \in Relays, RelayRequest(r, m) PROVE x.frame.n < requests'
  <2>1. x \in net \/ x.frame = m.frame
    BY <1>4 DEF RelayRequest, Packet
  <2> QED
    BY <1>0, <1>4, <2>1 DEF RelayRequest
<1>5. ASSUME NEW id \in Payloads, HubTick(id) PROVE x.frame.n < requests'
  <2>1. x \in net \/ x.frame.n = requests
    BY <1>5 DEF HubTick, Packet
  <2>2. requests' = requests + 1 /\ requests \in Nat
    BY <1>5 DEF HubTick, NetTypeOK
  <2>3. CASE x \in net
    <3>1. x.frame.n \in Nat
      BY <2>3, FrameKinds DEF NetTypeOK, Resend
    <3> QED
      BY <1>0, <2>2, <2>3, <3>1
  <2> QED
    BY <2>1, <2>2, <2>3
<1>6. ASSUME NEW m \in net, Lose(m) \/ Duplicate(m) \/ Damage(m) PROVE x.frame.n < requests'
  <2>1. requests' = requests
    BY <1>6 DEF Lose, Duplicate, Damage, Fault
  <2> QED
    BY <1>0, <1>6, <2>1, FaultAdds DEF NetTypeOK
<1>7. CASE \E m \in net : HubFrame(m)
  BY <1>0, <1>7 DEF HubFrame
<1>8. CASE UNCHANGED <<net, requests>>
  BY <1>0, <1>8
<1> QED
  BY <1>1, <1>2, <1>3, <1>4, <1>5, <1>6, <1>7, <1>8
     DEF Next, Clinic, Relay, HubActs, Crashes, Faults, Poll, FileSent, ClinicCrash, RelayCrash,
         HubRestart, vars

\* The requests handled are finitely many, at most as many as were made.
LEMMA SeenCounted ==
  ASSUME NEW n \in Nat, NEW handled, handled \subseteq 0 .. (n - 1)
  PROVE  /\ IsFiniteSet(handled) /\ Cardinality(handled) \in Nat /\ Cardinality(handled) <= n
         /\ \A q : q \notin handled => Cardinality(handled \cup {q}) = Cardinality(handled) + 1
<1>1. IsFiniteSet(0 .. (n - 1)) /\ Cardinality(0 .. (n - 1)) = n
  BY FS_Interval
<1>2. IsFiniteSet(handled) /\ Cardinality(handled) <= Cardinality(0 .. (n - 1))
  BY <1>1, FS_Subset
<1> QED
  BY <1>1, <1>2, FS_CardinalityType, FS_AddElement

\* A request that was made is one of those made so far, and of those made later.
LEMMA SeenBounded ==
  ASSUME NEW n \in Nat, NEW handled, handled \subseteq 0 .. (n - 1), NEW q \in Nat, q < n
  PROVE  handled \cup {q} \subseteq 0 .. (n - 1)
<1> SUFFICES ASSUME NEW s \in handled \cup {q} PROVE s \in 0 .. (n - 1)
  OBVIOUS
<1>1. CASE s \in handled
  BY <1>1
<1>2. CASE s = q
  BY <1>2
<1> QED
  BY <1>1, <1>2

\* Products of counts are counts, and grow with either factor.
LEMMA CountProducts ==
  ASSUME NEW k \in Nat, NEW n \in Nat
  PROVE  /\ k * n \in Nat /\ (k + 1) * n = k * n + n
         /\ k * (n + 1) = k * n + k
  OBVIOUS

\* The counts of one chunk.
ChunkCounted(c) ==
  /\ resent[c] <= MaxResendsPerChunk
  /\ sends[c] <= Begun(c) + crashes.clinic * MaxResendsPerChunk + resent[c]
  /\ sends[c] <= Begun(c) + crashes.clinic * requests + Cardinality(seen)

\* What is counted are numbers.
LEMMA CountTypes ==
  ASSUME NetTypeOK, SendsAreCounted, NEW c \in Chunks
  PROVE  /\ resent[c] \in Nat /\ sends[c] \in Nat /\ Begun(c) \in {0, 1}
         /\ crashes.clinic \in Nat /\ requests \in Nat /\ MaxResendsPerChunk \in Nat
         /\ Cardinality(seen) \in Nat /\ Cardinality(seen) <= requests
         /\ crashes.clinic * MaxResendsPerChunk \in Nat /\ crashes.clinic * requests \in Nat
         /\ ChunkCounted(c)
<1>1. resent[c] \in Nat /\ sends[c] \in Nat /\ crashes.clinic \in Nat /\ requests \in Nat
  BY DEF NetTypeOK
<1>2. MaxResendsPerChunk \in Nat
  BY NetAssumption
<1>3. Cardinality(seen) \in Nat /\ Cardinality(seen) <= requests
  BY <1>1, SeenCounted DEF SendsAreCounted
<1>4. crashes.clinic * MaxResendsPerChunk \in Nat /\ crashes.clinic * requests \in Nat
  BY <1>1, <1>2, CountProducts
<1> QED
  BY <1>1, <1>2, <1>3, <1>4 DEF SendsAreCounted, ChunkCounted, Begun

\* A step that sends nothing keeps the counts, though it may make a request.
LEMMA NothingSent ==
  ASSUME NetTypeOK, SendsAreCounted, NEW c \in Chunks,
         UNCHANGED <<sends, resent, seen>>, crashes'.clinic = crashes.clinic,
         requests' \in {requests, requests + 1},
         Begun(c) <= Begun(c)'
  PROVE  ChunkCounted(c)'
<1> DEFINE k == crashes.clinic
           b == Begun(c)'
<1>1. b \in Nat
  BY DEF Begun
<1>2. k * requests <= k * requests' /\ k * requests' \in Nat
  <2>1. k * (requests + 1) = k * requests + k /\ k \in Nat /\ k * requests \in Nat
    BY CountTypes, CountProducts
  <2> QED
    BY <2>1
<1> HIDE DEF k, b
<1>3. /\ sends[c] <= b + k * MaxResendsPerChunk + resent[c]
      /\ sends[c] <= b + k * requests' + Cardinality(seen)
      /\ resent[c] <= MaxResendsPerChunk
  BY <1>1, <1>2, CountTypes DEF ChunkCounted, k, b
<1>4. Cardinality(seen)' = Cardinality(seen)
  OBVIOUS
<1> QED
  BY <1>3, <1>4 DEF ChunkCounted, k, b

\* While the job and the store stay, what is begun stays.
LEMMA BegunStays ==
  ASSUME UNCHANGED <<job, store>>, NEW c
  PROVE  Begun(c)' = Begun(c)
  BY DEF Begun

\* Sending a file sends each of its chunks once.
LEMMA SendNextCounted ==
  ASSUME NetTypeOK, Handed, SendsAreCounted, SendNext, NEW c \in Chunks
  PROVE  ChunkCounted(c)'
<1> DEFINE d == job.done
<1>1. PICK id \in Payloads, i \in Nat : c = <<id, i>>
  BY IndexType DEF Chunks
<1>2. job # NoJob /\ job \in [id : Payloads, done : Nat] /\ job.id \in store
  BY DEF SendNext, NetTypeOK, Handed
<1>3. d \in Nat /\ job'.id = job.id /\ job'.done = d + 1 /\ job' # NoJob
  BY <1>2 DEF SendNext, NoJob
<1> HIDE DEF d
<1>4. UNCHANGED <<store, resent, seen, crashes, requests>>
  BY DEF SendNext, hubVars
<1>5. CASE d # 0 /\ id = job.id /\ i = d - 1
  <2>1. Begun(c) = 0
    BY <1>1, <1>2, <1>3, <1>5 DEF Begun, d
  <2>2. Begun(c)' = 1
    BY <1>1, <1>2, <1>3, <1>4, <1>5 DEF Begun
  <2>3. sends'[c] = sends[c] + 1
    BY <1>1, <1>5 DEF SendNext, NetTypeOK, d
  <2>4. ChunkCounted(c)
    BY CountTypes
  <2> QED
    BY <1>4, <2>1, <2>2, <2>3, <2>4, CountTypes DEF ChunkCounted
<1>6. CASE ~(d # 0 /\ id = job.id /\ i = d - 1)
  <2>1. Begun(c)' = Begun(c)
    BY <1>1, <1>2, <1>3, <1>4, <1>6 DEF Begun, d
  <2>2. sends'[c] = sends[c]
    BY <1>1, <1>6 DEF SendNext, NetTypeOK, d
  <2> QED
    BY <1>4, <2>1, <2>2, CountTypes DEF ChunkCounted
<1> QED
  BY <1>5, <1>6

\* Answering a request counts it, and every chunk it sends again.
LEMMA ClinicRequestCounted ==
  ASSUME NetTypeOK, SendsAreCounted, NEW m \in net, ClinicRequest(m), NEW c \in Chunks
  PROVE  seen' \subseteq 0 .. (requests - 1) /\ ChunkCounted(c)'
<1> DEFINE q == m.frame
           again == {i \in q.indexes : <<q.id, i>> \in Chunks /\ resent[<<q.id, i>>] < MaxResendsPerChunk}
<1>1. q.n \in Nat /\ q.n < requests /\ requests \in Nat
  BY FrameKinds DEF ClinicRequest, NetTypeOK, SendsAreCounted, Resend
<1>2. seen' = seen \cup {q.n} /\ UNCHANGED <<job, store, crashes, requests>>
  BY DEF ClinicRequest, hubVars
<1>3. seen' \subseteq 0 .. (requests - 1)
  <2>1. seen \subseteq 0 .. (requests - 1)
    BY DEF SendsAreCounted
  <2> HIDE DEF q
  <2> QED
    BY <1>1, <1>2, <2>1, SeenBounded
<1>4. Begun(c)' = Begun(c)
  BY <1>2, BegunStays
<1>5. Cardinality(seen') = IF q.n \in seen THEN Cardinality(seen) ELSE Cardinality(seen) + 1
  <2>1. seen \subseteq 0 .. (requests - 1)
    BY DEF SendsAreCounted
  <2>2. CASE q.n \in seen
    <3>1. seen' = seen
      BY <1>2, <2>2
    <3> QED
      BY <2>2, <3>1
  <2>3. CASE q.n \notin seen
    BY <1>1, <1>2, <2>1, <2>3, SeenCounted
  <2> QED
    BY <2>2, <2>3
<1> HIDE DEF q
<1>6. ASSUME q.n \notin seen, sends'[c] = sends[c] + 1, resent'[c] = resent[c] + 1,
             resent[c] < MaxResendsPerChunk
      PROVE  ChunkCounted(c)'
  <2>1. ChunkCounted(c)
    BY CountTypes
  <2> QED
    BY <1>2, <1>4, <1>5, <1>6, <2>1, CountTypes DEF ChunkCounted
<1>7. ASSUME sends'[c] = sends[c], resent'[c] = resent[c]
      PROVE  ChunkCounted(c)'
  <2>1. ChunkCounted(c)
    BY CountTypes
  <2> QED
    BY <1>2, <1>4, <1>5, <1>7, <2>1, CountTypes DEF ChunkCounted
<1> USE DEF q
<1>8. \/ /\ q.n \notin seen /\ sends'[c] = sends[c] + 1 /\ resent'[c] = resent[c] + 1
         /\ resent[c] < MaxResendsPerChunk
      \/ sends'[c] = sends[c] /\ resent'[c] = resent[c]
  <2>1. CASE q.n \notin seen /\ q.id \in store
    <3>1. /\ resent' = [x \in Chunks |-> IF x[1] = q.id /\ x[2] \in again THEN resent[x] + 1 ELSE resent[x]]
          /\ sends' = [x \in Chunks |-> IF x[1] = q.id /\ x[2] \in again THEN sends[x] + 1 ELSE sends[x]]
      BY <2>1 DEF ClinicRequest
    <3>2. c[1] = q.id /\ c[2] \in again => resent[c] < MaxResendsPerChunk
      <4>1. c = <<c[1], c[2]>>
        BY DEF Chunks
      <4> QED
        BY <4>1
    <3> HIDE DEF again
    <3> QED
      BY <2>1, <3>1, <3>2
  <2>2. CASE ~(q.n \notin seen /\ q.id \in store)
    BY <2>2 DEF ClinicRequest
  <2> QED
    BY <2>1, <2>2
<1> QED
  BY <1>3, <1>6, <1>7, <1>8

\* A clinic that forgets what it answered has one more life to answer in.
LEMMA ClinicCrashCounted ==
  ASSUME NetTypeOK, SendsAreCounted, ClinicCrash, NEW c \in Chunks
  PROVE  ChunkCounted(c)'
<1> DEFINE k == crashes.clinic
<1>1. crashes'.clinic = k + 1 /\ resent'[c] = 0 /\ seen' = {} /\ job' = NoJob
      /\ UNCHANGED <<store, sends, requests>>
  BY DEF ClinicCrash, NetTypeOK, hubVars
<1>2. Cardinality(seen') = 0
  BY <1>1, FS_EmptySet
<1>3. Begun(c) <= Begun(c)' /\ Begun(c)' \in Nat
  BY <1>1 DEF Begun
<1>4. /\ k \in Nat
      /\ (k + 1) * MaxResendsPerChunk = k * MaxResendsPerChunk + MaxResendsPerChunk
      /\ (k + 1) * requests = k * requests + requests
  BY CountTypes, CountProducts
<1> QED
  BY <1>1, <1>2, <1>3, <1>4, CountTypes DEF ChunkCounted

\* Every step keeps the count.
LEMMA SendsStep ==
  ASSUME NetTypeOK, Handed, SendsAreCounted, [Next]_vars
  PROVE  SendsAreCounted'
<1> USE DEF clinicVars, relayVars, hubVars
<1>1. ASSUME NEW c \in Chunks PROVE ChunkCounted(c)'
  <2>1. ASSUME NEW id \in Payloads, Poll(id) PROVE ChunkCounted(c)'
    <3>1. Begun(c) <= Begun(c)'
      <4>1. PICK p \in Payloads, i \in Nat : c = <<p, i>>
        BY IndexType DEF Chunks
      <4>2. job = NoJob /\ id \notin store /\ store' = store \cup {id} /\ job'.id = id
        BY <2>1 DEF Poll
      <4> QED
        BY <4>1, <4>2 DEF Begun
    <3> QED
      BY <2>1, <3>1, NothingSent DEF Poll
  <2>2. ASSUME FileSent PROVE ChunkCounted(c)'
    <3>1. Begun(c) <= Begun(c)'
      BY <2>2 DEF FileSent, Begun
    <3> QED
      BY <2>2, <3>1, NothingSent DEF FileSent
  <2>3. ASSUME UNCHANGED <<job, store, sends, resent, seen>>, crashes'.clinic = crashes.clinic,
               requests' \in {requests, requests + 1}
        PROVE  ChunkCounted(c)'
    <3>1. Begun(c) <= Begun(c)'
      BY <2>3, BegunStays, CountTypes
    <3> QED
      BY <2>3, <3>1, NothingSent
  <2>4. CASE SendNext
    BY <2>4, SendNextCounted
  <2>5. CASE \E m \in net : ClinicRequest(m)
    BY <2>5, ClinicRequestCounted
  <2>6. CASE ClinicCrash
    BY <2>6, ClinicCrashCounted
  <2>7. CASE Relay \/ Faults
    BY <2>3, <2>7, ZenonT(60) DEF Relay, Faults, RelayFrame, RelayRequest, Lose, Duplicate, Damage, Fault
  <2>8. CASE HubActs
    BY <2>3, <2>8 DEF HubActs, HubFrame, HubTick
  <2>9. CASE HubRestart \/ \E r \in Crashable : RelayCrash(r)
    <3>1. crashes'.clinic = crashes.clinic
      BY <2>9 DEF HubRestart, RelayCrash, NetTypeOK
    <3> QED
      BY <2>3, <2>9, <3>1 DEF HubRestart, RelayCrash
  <2>10. CASE UNCHANGED vars
    BY <2>3, <2>10 DEF vars
  <2> QED
    BY <2>1, <2>2, <2>4, <2>5, <2>6, <2>7, <2>8, <2>9, <2>10 DEF Next, Clinic, Crashes
<1>2. seen' \subseteq 0 .. (requests' - 1)
  <2>1. requests \in Nat /\ seen \subseteq 0 .. (requests - 1)
    BY DEF NetTypeOK, SendsAreCounted
  <2>2. ASSUME NEW m \in net, ClinicRequest(m) PROVE seen' \subseteq 0 .. (requests' - 1)
    <3>1. m.frame.n \in Nat /\ m.frame.n < requests
      BY <2>2, FrameKinds DEF ClinicRequest, NetTypeOK, SendsAreCounted, Resend
    <3> DEFINE n == m.frame.n
    <3>2. seen' = seen \cup {n} /\ requests' = requests
      BY <2>2 DEF ClinicRequest
    <3> HIDE DEF n
    <3>3. seen \cup {n} \subseteq 0 .. (requests - 1)
      BY <2>1, <3>1, SeenBounded DEF n
    <3> QED
      BY <3>2, <3>3
  <2>3. CASE ClinicCrash
    BY <2>3 DEF ClinicCrash
  <2>4. CASE UNCHANGED seen /\ requests' \in {requests, requests + 1}
    <3>1. \A s \in seen : s \in 0 .. (requests' - 1)
      <4>1. \A s \in seen : s \in Nat /\ s <= requests - 1
        BY <2>1
      <4>2. CASE requests' = requests
        BY <2>1, <4>2
      <4>3. CASE requests' = requests + 1
        BY <2>1, <4>1, <4>3
      <4> QED
        BY <2>4, <4>2, <4>3
    <3> QED
      BY <2>4, <3>1
  <2> QED
    BY <2>2, <2>3, <2>4 DEF Next, Clinic, Relay, HubActs, Crashes, Faults, Poll, SendNext, FileSent,
       RelayFrame, RelayRequest, HubFrame, HubTick, RelayCrash, HubRestart, Lose, Duplicate, Damage,
       Fault, vars
<1> QED
  BY <1>1, <1>2, RequestsNumbered DEF SendsAreCounted, ChunkCounted

-----------------------------------------------------------------------------
(* The theorems.                                                           *)

\* Every state of the network is well typed: what the clinic, the relays and
\* the hub keep on disk and in memory, and every frame in flight.
THEOREM NetTypes == Spec => []NetTypeOK
<1>1. Init => NetTypeOK
  BY NetTypeInit
<1>2. NetTypeOK /\ [Next]_vars => NetTypeOK'
  BY NetTypeStep
<1> QED
  BY <1>1, <1>2, PTL DEF Spec

\* The invariant is inductive.
LEMMA NetInvariantHolds == Spec => [](NetTypeOK /\ NetInvariant)
<1>1. Init => NetTypeOK /\ NetInvariant
  <2> SUFFICES ASSUME Init PROVE NetTypeOK /\ NetInvariant
    OBVIOUS
  <2>1. NetTypeOK
    BY NetTypeInit
  <2>2. Handed
    BY DEF Init, Handed
  <2>3. ReceiptsAreClaimed
    BY DEF Init, ReceiptsAreClaimed, EmptyHub, EmptyEntry
  <2>4. SendsAreCounted
    <3>1. MaxResendsPerChunk \in Nat /\ 0 * MaxResendsPerChunk = 0 /\ 0 * 0 = 0
      BY NetAssumption
    <3>2. Cardinality({}) = 0
      BY FS_EmptySet
    <3>3. requests = 0 /\ net = {} /\ seen = {} /\ crashes.clinic = 0 /\ store = {}
      BY DEF Init
    <3>4. ASSUME NEW c \in Chunks
          PROVE  resent[c] = 0 /\ sends[c] = 0 /\ Begun(c) = 0
      BY <3>3 DEF Init, Begun
    <3> QED
      BY <3>1, <3>2, <3>3, <3>4 DEF SendsAreCounted
  <2> QED
    BY <2>1, <2>2, <2>3, <2>4 DEF NetInvariant
<1>2. NetTypeOK /\ NetInvariant /\ [Next]_vars => (NetTypeOK /\ NetInvariant)'
  BY NetTypeStep, HandedStep, ReceiptsStep, SendsStep DEF NetInvariant
<1> QED
  BY <1>1, <1>2, PTL DEF Spec

\* A relay is owed only for what its own claims on disk say it carried, for
\* every chain of relays and however often relays and hub crash and frames are
\* repeated (makeRelayNode claims before it forwards, makeHub pays on receipts).
THEOREM OnlyCarriersArePaid == Spec => []PaidWasCarried
<1>1. NetInvariant => PaidWasCarried
  BY DEF NetInvariant, ReceiptsAreClaimed, Claimed, PaidWasCarried
<1> QED
  BY <1>1, NetInvariantHolds, PTL

\* However many faults the network has, the clinic sends a chunk at most once,
\* once more per request and maxResendsPerChunk times more in each of its lives
\* (seenRequests and resent in makeClinic).
THEOREM SendsAreBounded == Spec => []NoAmplification
<1>1. NetTypeOK /\ SendsAreCounted => NoAmplification
  <2> SUFFICES ASSUME NetTypeOK, SendsAreCounted, NEW c \in Chunks
               PROVE  /\ sends[c] <= 1 + (1 + crashes.clinic) * requests
                      /\ sends[c] <= 1 + (1 + crashes.clinic) * MaxResendsPerChunk
    BY DEF NoAmplification
  <2> DEFINE k == crashes.clinic
  <2>1. /\ (1 + k) * MaxResendsPerChunk = k * MaxResendsPerChunk + MaxResendsPerChunk
        /\ (1 + k) * requests = k * requests + requests
    <3>1. k \in Nat /\ requests \in Nat /\ MaxResendsPerChunk \in Nat
      BY CountTypes
    <3>2. 1 + k = k + 1
      BY <3>1
    <3>3. /\ (k + 1) * MaxResendsPerChunk = k * MaxResendsPerChunk + MaxResendsPerChunk
          /\ (k + 1) * requests = k * requests + requests
      BY <3>1, CountProducts
    <3> QED
      BY <3>2, <3>3
  <2> QED
    BY <2>1, CountTypes DEF ChunkCounted
<1> QED
  BY <1>1, NetInvariantHolds, PTL DEF NetInvariant

\* The network implements ReliefDelivery: whatever is lost, repeated, damaged
\* or forgotten, only a report that the clinic's node kept comes out at the hub,
\* and it stays out.
THEOREM NetKeepsPromise == Spec => PromiseKept
<1> DEFINE out == {id \in Payloads : hub.entries[id].report = "verified"}
<1>1. Init => Promise!Init
  BY DEF Init, Promise!Init, EmptyHub, EmptyEntry
<1>2. ASSUME NetTypeOK, NetInvariant, [Next]_vars PROVE [Promise!Next]_(Promise!vars)
  <2>1. CASE \A m \in net : ~HubFrame(m)
    <3>1. out' = out
      BY <1>2, <2>1, OnlyFramesFile
    <3>2. ASSUME NEW id \in Payloads, Poll(id) PROVE Promise!Hand(id)
      BY <3>1, <3>2 DEF Poll, Promise!Hand
    <3>3. CASE UNCHANGED store
      BY <3>1, <3>3 DEF Promise!vars
    <3> QED
      BY <1>2, <2>1, <3>2, <3>3 DEF Promise!Next, Next, Clinic, Relay, HubActs, Crashes, Faults,
         SendNext, FileSent, ClinicRequest, RelayFrame, RelayRequest, HubTick, ClinicCrash,
         RelayCrash, HubRestart, Lose, Duplicate, Damage, Fault, clinicVars, vars
  <2>2. ASSUME NEW m \in net, HubFrame(m) PROVE [Promise!Next]_(Promise!vars)
    <3> DEFINE f == m.frame
               old == hub.entries[f.id]
               new == IngestFrame(old, f, 0, Provisioned)
    <3>1. f \in Frame /\ f.id \in Payloads /\ f.id \in store
      BY <1>2, <2>2, FrameKinds DEF HubFrame, NetTypeOK, NetInvariant, Handed, Frame
    <3>2. hub' = [entries |-> [hub.entries EXCEPT ![f.id] = new], paid |-> hub.paid \cup Earned(f.id, new)]
      BY <2>2 DEF HubFrame, Ingest
    <3>3. old.report = "verified" => new.report = "verified"
      <4>1. old \in Entry
        BY <1>2, <3>1 DEF NetTypeOK, Hub
      <4> HIDE DEF f, old
      <4> QED
        BY <3>1, <4>1, ReportStays
    <3>4. UNCHANGED store
      BY <2>2 DEF HubFrame, clinicVars
    <3> HIDE DEF new
    <3>5. out' = out \/ out' = out \cup {f.id}
      BY <1>2, <3>1, <3>2, <3>3 DEF NetTypeOK, Hub
    <3> QED
      BY <3>1, <3>4, <3>5 DEF Promise!Deliver, Promise!Next, Promise!vars
  <2> QED
    BY <2>1, <2>2, SMTT(60)
<1> QED
  BY <1>1, <1>2, NetInvariantHolds, PTL DEF Spec, PromiseKept, Promise!Spec
=============================================================================
