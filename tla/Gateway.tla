------------------------------- MODULE Gateway -------------------------------
(***************************************************************************)
(* Two IP-DTN gateways (gateway/gateway.mjs, gateway/spool.mjs): A takes   *)
(* payloads from its IP side, keeps them on disk as bundles and sends them *)
(* over one session after the other; B receives, reassembles fragments and *)
(* delivers to its IP side.  A's handlers and the asynchronous loop _pump  *)
(* interleave at every await; connections break at any moment, each end    *)
(* learning of it in its own time; both processes are killed and restarted.*)
(*                                                                         *)
(* A gateway that is stopped ends its session and its process, which for   *)
(* the spool is a kill at a later instant.                                 *)
(***************************************************************************)
EXTENDS Tcpcl, FiniteSets, FiniteSetsExt

CONSTANTS
  Layers,      \* the convergence layers to run over
  MaxPayloads, \* bound: payloads, numbered as they come in
  Sizes,       \* bundles a payload may need: its size over maxBundlePayload, rounded up
  MaxHeld,     \* maxReassemblyBytes, in fragments
  MaxFaults,   \* bound: kills, breaks, timeouts, refusals and expiries
  MaxConns     \* bound: connections

Payloads == 1 .. MaxPayloads

\* makeBundles: each bundle of a payload, one or a fragment with its place and
\* the payload's size.
MakeBundle(p, part, of) == [payload |-> p, part |-> part, of |-> of]

PayloadBundles == UNION {{MakeBundle(p, part, n) : p \in Payloads, part \in 0 .. (n - 1)} : n \in Sizes}

\* The layers over which a bundle's arrival is told to its sender.
AcknowledgingLayers == {l \in Layer : l.acks}

ASSUME GatewayAssumption ==
  /\ Layers \subseteq Layer
  /\ Sizes \subseteq Nat \ {0}
  /\ Bundles = PayloadBundles
  /\ {MaxPayloads, MaxHeld, MaxFaults, MaxConns} \subseteq Nat

Conns == 1 .. MaxConns

VARIABLES
  layer,      \* which convergence layer the peer is configured with
  spool,      \* the files on A's disk
  seq,        \* spool.seq, the next file's name
  stored,     \* history: every bundle ever spooled, in order
  accepted,   \* history: payloads whose sender was told they are queued
  pump,       \* A's process: where _pump awaits, this.session, the dialled connection, the file being sent
  conns,      \* connections: both ends, the bytes under way, whether it broke, and what A made of it
  taken,      \* history: bundles B acknowledged in full
  partial,    \* B: fragments held, per payload
  held,       \* B: partialBytes
  delivered,  \* history: payloads B handed to its IP side
  lost,       \* history: payloads of which B discarded a fragment it had acknowledged
  faults

diskVars == <<spool, seq, stored, accepted>>
farVars  == <<taken, partial, held, delivered, lost>>
vars     == <<layer, diskVars, pump, conns, farVars, faults>>

NoConnection == [a |-> NoEnd, b |-> NoEnd, toA |-> <<>>, toB |-> <<>>, cut |-> FALSE, ready |-> "no"]

Down == [pc |-> "down", session |-> None, dial |-> None, file |-> None]

Init ==
  /\ layer \in Layers
  /\ spool = {}
  /\ seq = 1
  /\ stored = <<>>
  /\ accepted = {}
  /\ pump = [Down EXCEPT !.pc = "woken"]
  /\ conns = [k \in Conns |-> NoConnection]
  /\ taken = {}
  /\ partial = [p \in Payloads |-> {}]
  /\ held = 0
  /\ delivered = {}
  /\ lost = {}
  /\ faults = 0

Fault == faults < MaxFaults /\ faults' = faults + 1

-----------------------------------------------------------------------------
(* Connections.                                                            *)

Open(e) == e.state \notin {"none", "closed"}

\* What an end writes is lost once the connection is cut or the other end gone.
ToB(c, words) == IF c.cut \/ ~Open(c.b) THEN c ELSE [c EXCEPT !.toB = @ \o words]
ToA(c, words) == IF c.cut \/ ~Open(c.a) THEN c ELSE [c EXCEPT !.toA = @ \o words]

ShutA(c) == IF Open(c.a) THEN [c EXCEPT !.a = Shut(@), !.toA = <<>>] ELSE c
ShutB(c) == IF Open(c.b) THEN [c EXCEPT !.b = Shut(@), !.toB = <<>>] ELSE c

\* _teardown of A's end of k rejects what waits for it; if the pump has listened
\* to the session, its close handler forgets the session and wakes the pump.
PumpOnClose(k) ==
  LET c == conns[k]
      listened == c.ready = "listened"
      rejected == \/ pump.pc = "sending" /\ pump.session = k /\ c.a.sending # None
                  \/ pump.pc = "connecting" /\ pump.dial = k /\ c.ready = "no"
  IN  [pump EXCEPT
         !.pc = IF rejected THEN "failed" ELSE IF listened /\ @ = "waiting" THEN "woken" ELSE @,
         !.session = IF listened THEN None ELSE @]

-----------------------------------------------------------------------------
(* Gateway A: the spool.                                                   *)

Queued == {stored[i].payload : i \in DOMAIN stored}

\* The first n of a payload's bundles are added under consecutive names, one
\* file each; a file of the same name would be replaced.
Add(p, n, of) ==
  LET bundles == [i \in 1 .. n |-> MakeBundle(p, i - 1, of)]
  IN  /\ p = Cardinality(Queued) + 1
      /\ spool' = {f \in spool : f.name \notin seq .. (seq + n - 1)}
                     \cup {[name |-> seq + i - 1, bundle |-> bundles[i]] : i \in 1 .. n}
      /\ seq' = seq + n
      /\ stored' = stored \o bundles

\* Fault: the pump is not woken.
FromIpSilently(p) ==
  /\ pump.pc # "down"
  /\ \E n \in Sizes : Add(p, n, n)
  /\ accepted' = accepted \cup {p}
  /\ UNCHANGED <<layer, pump, conns, farVars, faults>>

\* fromIp: wrap, spool, wake the pump; the sender is told.
FromIp(p) ==
  /\ pump.pc # "down"
  /\ \E n \in Sizes : Add(p, n, n)
  /\ accepted' = accepted \cup {p}
  /\ pump' = [pump EXCEPT !.pc = IF @ = "waiting" THEN "woken" ELSE @]
  /\ UNCHANGED <<layer, conns, farVars, faults>>

\* A is killed: the operating system closes its sockets.
Killed ==
  /\ pump.pc # "down"
  /\ Fault
  /\ pump' = Down
  /\ conns' = [k \in Conns |-> ShutA(conns[k])]

Crash == Killed /\ UNCHANGED <<layer, diskVars, farVars>>

\* The same between the bundles of a payload, its sender not told.
KilledSpooling(p) ==
  /\ Killed
  /\ \E of \in Sizes : \E n \in 1 .. (of - 1) : Add(p, n, of)
  /\ UNCHANGED <<layer, accepted, farVars>>

\* The spool's constructor: names go on after the newest file.
NextName(files) == IF files = {} THEN 1 ELSE 1 + Max({f.name : f \in files})

Restart ==
  /\ pump.pc = "down"
  /\ seq' = NextName(spool)
  /\ pump' = [Down EXCEPT !.pc = "woken"]
  /\ UNCHANGED <<layer, spool, stored, accepted, conns, farVars, faults>>

-----------------------------------------------------------------------------
(* Gateway A: the pump.                                                    *)

\* Fault: the newest bundle goes first.
Newest(files) == CHOOSE f \in files : \A g \in files : g.name <= f.name

\* list()[0]
Oldest(files) == CHOOSE f \in files : \A g \in files : f.name <= g.name

\* session.send: refused at once if the session is not established; otherwise
\* the segments are written.  Without acknowledgements that is already success.
Send(k, f) ==
  LET e == conns[k].a
  IN  /\ pump' = [pump EXCEPT !.session = k, !.dial = None, !.file = f.name,
                              !.pc = IF e.state # "established" THEN "failed"
                                     ELSE IF layer.acks THEN "sending" ELSE "acked"]
      /\ conns' = [conns EXCEPT ![k] =
           IF e.state # "established" THEN [@ EXCEPT !.ready = "listened"]
           ELSE ToB([@ EXCEPT !.a = Sending(layer, e), !.ready = "listened"],
                    Transfer(TransferId(layer, e), f.bundle))]

\* One turn of the loop with session k: dial, wait for a bundle, or send one.
Turn(k, files) ==
  IF k = None
  THEN pump' = [pump EXCEPT !.pc = "connecting", !.dial = None, !.file = None] /\ UNCHANGED conns
  ELSE IF files = {}
  THEN /\ pump' = [pump EXCEPT !.pc = "waiting", !.session = k, !.dial = None, !.file = None]
       /\ conns' = [conns EXCEPT ![k].ready = "listened"]
  ELSE Send(k, Oldest(files))

\* Started, woken by _kick, or the retry timer fired.
Loop ==
  /\ pump.pc \in {"woken", "backoff"}
  /\ Turn(pump.session, spool)
  /\ UNCHANGED <<layer, diskVars, farVars, faults>>

\* The TCP connection is up: A writes its contact header, B accepts.
TcpConnect(k) ==
  /\ pump.pc = "connecting" /\ pump.dial = None
  /\ conns[k] = NoConnection
  /\ \A j \in Conns : j < k => conns[j] # NoConnection
  /\ conns' = [conns EXCEPT ![k].a = Fresh, ![k].b = Fresh, ![k].toB = Word("contact")]
  /\ pump' = [pump EXCEPT !.dial = k]
  /\ UNCHANGED <<layer, diskVars, farVars, faults>>

\* Nobody answers, or not in time.
ConnectFails ==
  /\ pump.pc = "connecting"
  /\ Fault
  /\ \/ pump.dial = None /\ UNCHANGED conns
     \/ /\ pump.dial # None /\ conns[pump.dial].ready = "no"
        /\ conns' = [conns EXCEPT ![pump.dial] = ShutA(@)]
  /\ pump' = [pump EXCEPT !.pc = "failed"]
  /\ UNCHANGED <<layer, diskVars, farVars>>

\* connect resolves: listen to the session and go on with the turn.
Connected ==
  /\ pump.pc = "connecting" /\ pump.dial # None
  /\ conns[pump.dial].ready = "yes"
  /\ Turn(pump.dial, spool)
  /\ UNCHANGED <<layer, diskVars, farVars, faults>>

\* send resolves: delete the file and take the next turn.
Sent ==
  /\ pump.pc = "acked"
  /\ spool' = {f \in spool : f.name # pump.file}
  /\ Turn(pump.session, spool')
  /\ UNCHANGED <<layer, seq, stored, accepted, farVars, faults>>

\* Fault: the session is forgotten, not torn down.
CatchAndForget ==
  /\ pump.pc = "failed"
  /\ pump' = [Down EXCEPT !.pc = "backoff"]
  /\ UNCHANGED <<layer, diskVars, conns, farVars, faults>>

\* connect or send rejected: tear the session down and wait before retrying.
Catch ==
  /\ pump.pc = "failed"
  /\ conns' = IF pump.session = None THEN conns ELSE [conns EXCEPT ![pump.session] = ShutA(@)]
  /\ pump' = [Down EXCEPT !.pc = "backoff"]
  /\ UNCHANGED <<layer, diskVars, farVars, faults>>

AckTimeout ==
  /\ pump.pc = "sending"
  /\ Fault
  /\ conns' = [conns EXCEPT ![pump.session].a.sending = None]
  /\ pump' = [pump EXCEPT !.pc = "failed"]
  /\ UNCHANGED <<layer, diskVars, farVars>>

\* A handles a message; the end of its transfer settles the promise the pump awaits.
HearA(k) ==
  LET c == conns[k]
      r == OnMessage(layer, TRUE, c.a, Head(c.toA))
      said == IF c.a.state = "ending" THEN <<>> ELSE r.reply
  IN  /\ c.toA # <<>>
      /\ conns' = [conns EXCEPT ![k] =
           ToB([c EXCEPT !.a = r.end, !.toA = Tail(@),
                         !.ready = IF @ = "no" /\ r.end.state = "established" THEN "yes" ELSE @], said)]
      /\ pump' = IF r.settled = None \/ pump.pc # "sending" \/ pump.session # k THEN pump
                 ELSE [pump EXCEPT !.pc = IF r.settled = "acked" THEN "acked" ELSE "failed"]
      /\ UNCHANGED <<layer, diskVars, farVars, faults>>

-----------------------------------------------------------------------------
(* Gateway B.                                                              *)

\* Fault: the first fragment is taken for the whole payload.
FirstPart(b, parts) == 0 \in parts

\* The pieces cover the payload from its first byte to its last.
Whole(b, parts) == parts = 0 .. (b.of - 1)

\* partialBytes once the pieces of a payload, kept before, are parts.
HeldAfter(room, kept, parts, whole) ==
  IF whole THEN room - Cardinality(kept) ELSE room + Cardinality(parts \ kept)

\* _reassemble: an old set may expire first; a fragment is kept once, if there
\* is room; the last missing one completes the payload and frees its bytes.
Reassemble(b, stale) ==
  LET p == b.payload
      fresh == IF stale = None THEN partial ELSE [partial EXCEPT ![stale] = {}]
      room == IF stale = None THEN held ELSE held - Cardinality(partial[stale])
      parts == fresh[p] \cup {b.part}
      whole == Whole(b, parts)
      full == b.part \notin fresh[p] /\ room + 1 > MaxHeld
  IN  /\ partial' = IF full THEN fresh ELSE [fresh EXCEPT ![p] = IF whole THEN {} ELSE parts]
      /\ held' = IF full THEN room ELSE HeldAfter(room, fresh[p], parts, whole)
      /\ delivered' = IF whole /\ ~full THEN delivered \cup {p} ELSE delivered
      /\ lost' = lost \cup (IF full THEN {p} ELSE {}) \cup ({stale} \ {None})

\* fromDtn
FromDtn(b) ==
  /\ taken' = taken \cup {b}
  /\ \/ /\ b.of = 1
        /\ delivered' = delivered \cup {b.payload}
        /\ UNCHANGED <<partial, held, lost, faults>>
     \/ b.of > 1 /\ Reassemble(b, None) /\ UNCHANGED faults
     \/ /\ b.of > 1 /\ Fault
        /\ \E stale \in Payloads : partial[stale] # {} /\ Reassemble(b, stale)

HeardByB(k) == OnMessage(layer, FALSE, conns[k].b, Head(conns[k].toB))

\* B handles a message.  The last segment is acknowledged before the bundle is
\* handed over, in one piece.
HearB(k) ==
  LET c == conns[k]
      r == HeardByB(k)
  IN  /\ c.toB # <<>>
      /\ conns' = [conns EXCEPT ![k] =
           ToA([c EXCEPT !.b = r.end, !.toB = Tail(@)], IF c.b.state = "ending" THEN <<>> ELSE r.reply)]
      /\ IF r.bundle = None THEN UNCHANGED <<farVars, faults>> ELSE FromDtn(r.bundle)
      /\ UNCHANGED <<layer, diskVars, pump>>

\* B refuses the transfer: it exceeds B's transfer MRU, which version 3 does not
\* announce, or the peer is another implementation and has its own reasons.
RefuseB(k) ==
  LET c == conns[k]
      m == Head(c.toB)
  IN  /\ c.toB # <<>> /\ m.kind = "segment" /\ c.b.state = "established"
      /\ m.n = 1 \/ c.b.rx # None
      /\ Fault
      /\ conns' = [conns EXCEPT ![k] = ToA([c EXCEPT !.b = Refusal(@, m).end, !.toB = Tail(@)], Refusal(c.b, m).reply)]
      /\ UNCHANGED <<layer, diskVars, pump, farVars>>

\* B is killed and started again: what it was reassembling is gone.
Forgotten == {p \in Payloads : partial[p] # {}}

RestartB ==
  /\ Fault
  /\ conns' = [k \in Conns |-> ShutB(conns[k])]
  /\ partial' = [p \in Payloads |-> {}]
  /\ held' = 0
  /\ lost' = lost \cup Forgotten
  /\ UNCHANGED <<layer, diskVars, pump, taken, delivered>>

\* The same between the acknowledgement of a bundle and its handover.
KilledAfterAck(k) ==
  LET r == HeardByB(k)
  IN  /\ conns[k].toB # <<>> /\ r.bundle # None
      /\ Fault
      /\ conns' = [j \in Conns |-> ShutB(IF j = k THEN ToA(conns[k], r.reply) ELSE conns[j])]
      /\ taken' = taken \cup {r.bundle}
      /\ partial' = [p \in Payloads |-> {}]
      /\ held' = 0
      /\ lost' = lost \cup Forgotten \cup {r.bundle.payload}
      /\ UNCHANGED <<layer, diskVars, pump, delivered>>

-----------------------------------------------------------------------------
(* The connection ends.                                                    *)

\* The network loses what is under way from some point on.
Break(k) ==
  LET c == conns[k]
  IN  /\ ~c.cut /\ (Open(c.a) \/ Open(c.b))
      /\ Fault
      /\ \E i \in 0 .. Len(c.toA), j \in 0 .. Len(c.toB) :
           conns' = [conns EXCEPT ![k] = [c EXCEPT !.cut = TRUE, !.toA = SubSeq(@, 1, i), !.toB = SubSeq(@, 1, j)]]
      /\ UNCHANGED <<layer, diskVars, pump, farVars>>

Gone(e) == e.state \in {"closed", "ending"}

\* The socket's close event, after all that did arrive was read.
CloseA(k) ==
  LET c == conns[k]
  IN  /\ Open(c.a) /\ c.toA = <<>> /\ (c.cut \/ Gone(c.b))
      /\ conns' = [conns EXCEPT ![k] = ShutA(c)]
      /\ pump' = PumpOnClose(k)
      /\ UNCHANGED <<layer, diskVars, farVars, faults>>

CloseB(k) ==
  LET c == conns[k]
  IN  /\ Open(c.b) /\ c.toB = <<>> /\ (c.cut \/ Gone(c.a))
      /\ conns' = [conns EXCEPT ![k] = ShutB(c)]
      /\ UNCHANGED <<layer, diskVars, pump, farVars, faults>>

\* _startKeepalive: the peer was silent for too long; version 4 says so.
Farewell == IF layer.version = 4 THEN <<[kind |-> "term", reply |-> FALSE]>> ELSE <<>>

IdleTimeoutA(k) ==
  /\ conns[k].a.state \in {"established", "ending"}
  /\ Fault
  /\ conns' = [conns EXCEPT ![k] = ShutA(ToB(@, Farewell))]
  /\ pump' = PumpOnClose(k)
  /\ UNCHANGED <<layer, diskVars, farVars>>

IdleTimeoutB(k) ==
  /\ conns[k].b.state \in {"established", "ending"}
  /\ Fault
  /\ conns' = [conns EXCEPT ![k] = ShutB(ToA(@, Farewell))]
  /\ UNCHANGED <<layer, diskVars, pump, farVars>>

-----------------------------------------------------------------------------

PumpSteps == Loop \/ Connected \/ Sent \/ Catch \/ (\E k \in Conns : TcpConnect(k))

EndA(k) == HearA(k) \/ CloseA(k)
EndB(k) == HearB(k) \/ CloseB(k)

Faults ==
  \/ Crash \/ (\E p \in Payloads : KilledSpooling(p))
  \/ ConnectFails \/ AckTimeout \/ RestartB
  \/ \E k \in Conns : RefuseB(k) \/ KilledAfterAck(k) \/ Break(k) \/ IdleTimeoutA(k) \/ IdleTimeoutB(k)

Steps == Restart \/ PumpSteps \/ (\E k \in Conns : EndA(k) \/ EndB(k))

Next == (\E p \in Payloads : FromIp(p)) \/ Steps \/ Faults

Spec == Init /\ [][Next]_vars

\* The event loops run: what arrived is read, a closed socket is reported, the
\* pump takes its turns, and a gateway that was killed is started again.  None
\* of these goes on for ever, so it is enough that one of them is taken.
FairSpec == Spec /\ WF_vars(Steps)

-----------------------------------------------------------------------------

\* A bundle is on A's disk until B has acknowledged all of it ("deleted only
\* after the DTN peer acknowledges every byte", gateway/README.md): across
\* kills of both gateways, reused file names, late acknowledgements and
\* connections that die at different times for the two ends.
NothingLost ==
  \A i \in DOMAIN stored : stored[i] \in taken \/ \E f \in spool : f.bundle = stored[i]

\* The pump never has a connection open that it does not know of ("Keep one
\* TCPCLv4 session to the peer", _pump): close events of earlier sessions do
\* not take the current one away.
OneSession == \A k \in Conns : Open(conns[k].a) => k \in {pump.session, pump.dial}

\* A payload reaches the IP side only when every one of its fragments arrived,
\* whatever expired, was discarded or came twice (_reassemble).
DeliveredWhole ==
  \A p \in delivered : \E b \in taken :
    b.payload = p /\ \A i \in 0 .. (b.of - 1) : [b EXCEPT !.part = i] \in taken

\* A payload whose sender was told it is queued reaches the far IP side, unless
\* B discarded a fragment it had acknowledged: in a restart, at the limit of
\* its buffer, or because it expired.  Payloads being few, that is the same as
\* their being settled all at once, time and again.
Arrives == []<>(accepted \subseteq delivered \cup lost)

\* The link as a whole keeps the promise of StoreAndForward: what B has in full
\* grows in the order of storing ("resends what was waiting, in order").
Promise == INSTANCE StoreAndForward WITH forwarded <- taken
StoredAndForwarded == Promise!Spec
=============================================================================
