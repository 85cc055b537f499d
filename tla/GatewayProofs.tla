---------------------------- MODULE GatewayProofs ----------------------------
(***************************************************************************)
(* Proofs about the two gateways of Gateway, for every number of payloads, *)
(* connections, faults and segments.  The pump knows of every open         *)
(* connection; no transfer is under way unless it awaits one; and of that  *)
(* transfer what is under way is a run of segments and of smaller          *)
(* acknowledgements, so that the last acknowledgement speaks of the file   *)
(* that the pump then deletes.  What goes over the link is always the      *)
(* oldest bundle the far side has not acknowledged, or an older one again: *)
(* so the two gateways implement StoreAndForward, and a payload is handed  *)
(* over whole.                                                             *)
(***************************************************************************)
EXTENDS Gateway, FiniteSetTheorems, SequenceTheorems, TLAPS

-----------------------------------------------------------------------------
(* The inductive invariant.                                                *)

\* Messages and the ends of a session, their counts not bounded.
PlainWord == [kind : {"contact", "init", "reject"}]
SegmentWord == [kind : {"segment"}, id : Nat, n : 1 .. Segments, bundle : Bundles]
AckWord == [kind : {"ack"}, id : Nat, got : Nat]
RefuseWord == [kind : {"refuse"}, id : Nat]
TermWord == [kind : {"term"}, reply : BOOLEAN]
Words == PlainWord \cup SegmentWord \cup AckWord \cup RefuseWord \cup TermWord

Ends == [state : {"none", "contact", "init", "established", "ending", "closed"},
         rx : [id : Nat, got : Nat] \cup {None},
         next : Nat, sending : Nat \cup {None}]

Connection == [a : Ends, b : Ends, toA : Seq(Words), toB : Seq(Words), cut : BOOLEAN,
               ready : {"no", "yes", "listened"}]

Pump == [pc : {"down", "woken", "connecting", "waiting", "sending", "acked", "failed", "backoff"},
         session : Conns \cup {None}, dial : Conns \cup {None}, file : Nat \cup {None}]

File == [name : Nat, bundle : Bundles]

GatewayTypeOK ==
  /\ layer \in Layers
  /\ spool \subseteq File /\ IsFiniteSet(spool)
  /\ seq \in Nat
  /\ stored \in Seq(Bundles)
  /\ pump \in Pump
  /\ conns \in [Conns -> Connection]
  /\ taken \subseteq Bundles

\* File names tell files apart and are below the next one.
FilesAreNamed ==
  /\ \A f \in spool : f.name < seq
  /\ \A f, g \in spool : f.name = g.name => f = g
  /\ pump.file # None => pump.file < seq

\* What the pump knows of connections.
PumpKnows ==
  /\ OneSession
  /\ pump.pc \in {"down", "backoff", "connecting"} => pump.session = None
  /\ pump.pc \notin {"connecting", "failed"} => pump.dial = None
  /\ pump.dial # None => conns[pump.dial].ready # "listened"
  /\ pump.pc = "failed" /\ pump.dial # None => ~Open(conns[pump.dial].a)
  /\ pump.pc \in {"down", "backoff"} => pump.file = None
  /\ pump.pc = "sending" => /\ pump.session # None
                            /\ conns[pump.session].a.state \in {"established", "ending"}
                            /\ conns[pump.session].a.sending # None

NoAcks(words) == \A i \in DOMAIN words : words[i].kind # "ack"

\* The ends of a connection greet each other in turn; afterwards only segments
\* go one way and answers the other; a farewell is the last word.
Greeting(l, c) ==
  /\ c.a.state = "none" => c.b.state = "none"
  /\ c.a.state = "contact" =>
       /\ c.toB \in {<<>>, Word("contact")} /\ c.toA \in {<<>>, Word("contact")}
       /\ c.toB # <<>> => c.b.state = "contact" /\ c.toA = <<>>
       /\ c.toA # <<>> => c.b.state # "contact"
       /\ c.b.state \in {"contact", IF l.version = 4 THEN "init" ELSE "established", "closed"}
  /\ c.a.state = "init" =>
       /\ l.version = 4
       /\ c.toB \in {<<>>, Word("init")}
       /\ c.b.state \in {"init", "established", "closed"}
       /\ c.toB # <<>> => c.b.state = "init" /\ c.toA = <<>>
       /\ c.b.state = "established" /\ ~c.cut => c.toA # <<>>
       /\ c.toA # <<>> => /\ c.toA[1].kind = "init"
                          /\ c.b.state # "init"
                          /\ \A i \in DOMAIN c.toA : i > 1 => c.toA[i].kind = "term"
  /\ c.a.state \in {"established", "ending"} =>
       /\ c.b.state \in {"established", "closed"}
       /\ \A i \in DOMAIN c.toA : c.toA[i].kind \in {"ack", "refuse", "reject", "term"}
       /\ \A i \in DOMAIN c.toB : c.toB[i].kind = "segment"
  /\ (\E i \in DOMAIN c.toA : c.toA[i].kind = "term") => ~Open(c.b)
  /\ ~Open(c.b) => c.toB = <<>>
  /\ ~Open(c.a) => c.toA = <<>>

\* No transfer is under way.
Quiet(c) == c.a.state = "established" => c.toB = <<>> /\ NoAcks(c.toA)

\* What is under way of the transfer of bundle b under number id.
Under(c, id, b) ==
  /\ \A i \in DOMAIN c.toB : /\ c.toB[i].kind = "segment"
                             /\ c.toB[i].id = id /\ c.toB[i].bundle = b
                             /\ c.toB[i].n = c.toB[1].n + i - 1
  /\ c.toB # <<>> /\ c.b.rx # None /\ c.toB[1].n > 1 => c.b.rx.id = id /\ c.b.rx.got + 1 = c.toB[1].n
  /\ \A i \in DOMAIN c.toA : c.toA[i].kind = "ack" =>
       /\ c.toA[i].id = id /\ c.toA[i].got <= Segments
       /\ c.toB # <<>> => c.toA[i].got < c.toB[1].n
       /\ \A j \in DOMAIN c.toA : j < i /\ c.toA[j].kind = "ack" => c.toA[j].got < c.toA[i].got

\* A full acknowledgement is the end of the transfer.
Finished(c) == \E i \in DOMAIN c.toA : c.toA[i].kind = "ack" /\ c.toA[i].got = Segments

\* The transfer of bundle b that A has under way: a full acknowledgement of it
\* means that all of it is in T.
Transferring(c, b, T) ==
  /\ Under(c, c.a.sending, b)
  /\ Finished(c) => b \in T /\ c.toB = <<>>

\* Before and after a transfer nothing of it is under way; the pump awaits that
\* of the file it has chosen, and goes on when B has taken it.
TransferInv ==
  /\ \A k \in Conns :
       k \in {pump.session, pump.dial} /\ pump.pc \notin {"sending", "failed"} => Quiet(conns[k])
  /\ pump.pc = "sending" =>
       \E f \in spool : f.name = pump.file /\ Transferring(conns[pump.session], f.bundle, taken)
  /\ pump.pc = "acked" => \A f \in spool : f.name = pump.file => f.bundle \in taken

GatewayInvariant ==
  /\ FilesAreNamed
  /\ PumpKnows
  /\ \A k \in Conns : Greeting(layer, conns[k])
  /\ TransferInv
  /\ NothingLost

-----------------------------------------------------------------------------
(* Numbers, bundles and layers.                                            *)

LEMMA LayerType ==
  ASSUME NEW l \in Layers
  PROVE  l \in Layer /\ l.version \in {3, 4}
<1>1. l \in Layer
  BY GatewayAssumption
<1> QED
  BY <1>1 DEF Layer

LEMMA Apart ==
  /\ None \notin Nat /\ None \notin Bundles /\ None \notin Conns
  /\ None \notin [id : Nat, got : Nat] /\ None # "acked" /\ None # "refused"
  /\ Conns \subseteq Nat /\ Segments \in Nat /\ Segments >= 1
<1>1. MaxConns \in Nat
  BY GatewayAssumption
<1> QED
  BY <1>1, TcpclAssumption DEF Conns

\* The next name is beyond every file's.
LEMMA MaxIsThere ==
  ASSUME NEW S, IsFiniteSet(S), S \subseteq Nat, S # {}
  PROVE  Max(S) \in S /\ \A x \in S : x <= Max(S)
<1> DEFINE above(m) == {x \in S : x >= m}
           T == {above(m) : m \in S}
<1>1. T \subseteq SUBSET S /\ T # {}
  OBVIOUS
<1>2. IsWellFoundedOn(StrictSubsetOrdering(S), SUBSET S)
  BY FS_FiniteSubsetsOfFinite, FS_StrictSubsetOrderingWellFounded
<1> HIDE DEF T
<1>3. PICK U \in T : \A V \in T : ~(<<V, U>> \in StrictSubsetOrdering(S))
  BY <1>1, <1>2, WFMin
<1>4. PICK m \in S : U = above(m)
  BY <1>3 DEF T
<1>5. ASSUME NEW y \in S, y > m PROVE FALSE
  <2>1. above(y) \in T
    BY DEF T
  <2>2. above(y) \subseteq above(m) /\ m \in above(m) /\ m \notin above(y)
    <3>1. y \in Nat /\ m \in Nat /\ \A x \in S : x \in Nat
      OBVIOUS
    <3>2. \A x \in S : x >= y => x >= m
      BY <3>1, <1>5
    <3>3. m >= m /\ ~(m >= y)
      BY <3>1, <1>5
    <3> QED
      BY <3>2, <3>3
  <2>3. above(y) # above(m)
    BY <2>2
  <2>4. <<above(y), above(m)>> \in StrictSubsetOrdering(S)
    BY <2>2, <2>3 DEF StrictSubsetOrdering
  <2> QED
    BY <1>3, <1>4, <2>1, <2>4
<1>6. m \in S /\ \A y \in S : m >= y
  BY <1>5
<1>7. Max(S) \in S /\ \A y \in S : Max(S) >= y
  BY <1>6 DEF Max
<1> QED
  BY <1>7

LEMMA NextNameIsNew ==
  ASSUME NEW files, files \subseteq File, IsFiniteSet(files)
  PROVE  NextName(files) \in Nat /\ \A f \in files : f.name < NextName(files)
<1> DEFINE names == {f.name : f \in files}
<1>1. CASE files = {}
  BY <1>1 DEF NextName
<1>2. CASE files # {}
  <2>1. names # {} /\ names \subseteq Nat
    BY <1>2 DEF File
  <2>2. IsFiniteSet(names)
    <3>1. [f \in files |-> f.name] \in Surjection(files, names)
      BY DEF Surjection
    <3> QED
      BY <3>1, FS_Surjection DEF ExistsSurjection
  <2>3. Max(names) \in Nat /\ \A x \in names : x <= Max(names)
    BY <2>1, <2>2, MaxIsThere
  <2>4. NextName(files) = 1 + Max(names)
    BY <1>2 DEF NextName
  <2>5. \A f \in files : f.name \in names /\ f.name \in Nat
    BY <2>1
  <2> HIDE DEF names
  <2> QED
    BY <2>3, <2>4, <2>5
<1> QED
  BY <1>1, <1>2

-----------------------------------------------------------------------------
(* Words on the way.                                                       *)

\* A word that was heard is the first of those on the way.
LEMMA Hearing ==
  ASSUME NEW s \in Seq(Words), s # <<>>
  PROVE  /\ Head(s) = s[1] /\ s[1] \in Words /\ Tail(s) \in Seq(Words)
         /\ Len(s) \in Nat /\ Len(s) >= 1
         /\ DOMAIN s = 1 .. Len(s) /\ DOMAIN Tail(s) = 1 .. (Len(s) - 1)
         /\ \A i \in DOMAIN Tail(s) : i + 1 \in DOMAIN s /\ Tail(s)[i] = s[i + 1]
         /\ Tail(s) = <<>> <=> Len(s) = 1
<1>1. Len(s) \in Nat /\ Len(s) >= 1 /\ DOMAIN s = 1 .. Len(s)
  BY EmptySeq, LenProperties
<1>2. Head(s) = s[1] /\ s[1] \in Words
  BY <1>1
<1>3. Tail(s) \in Seq(Words) /\ Len(Tail(s)) = Len(s) - 1 /\ \A i \in 1 .. (Len(s) - 1) : Tail(s)[i] = s[i + 1]
  BY HeadTailProperties
<1>4. DOMAIN Tail(s) = 1 .. (Len(s) - 1)
  BY <1>3, LenProperties
<1>5. \A i \in DOMAIN Tail(s) : i + 1 \in DOMAIN s
  BY <1>1, <1>4
<1>6. Tail(s) = <<>> <=> Len(s) = 1
  <2>1. Tail(s) = <<>> => Len(Tail(s)) = 0
    BY EmptySeq
  <2>2. Tail(s) # <<>> => Len(Tail(s)) \in Nat \ {0}
    BY <1>3, EmptySeq
  <2> QED
    BY <1>1, <1>3, <2>1, <2>2
<1> QED
  BY <1>1, <1>2, <1>3, <1>4, <1>5, <1>6

\* What is written comes after what is on the way.
LEMMA Writing ==
  ASSUME NEW s \in Seq(Words), NEW t \in Seq(Words)
  PROVE  /\ s \o t \in Seq(Words)
         /\ Len(s) \in Nat /\ Len(t) \in Nat
         /\ DOMAIN s = 1 .. Len(s) /\ DOMAIN (s \o t) = 1 .. (Len(s) + Len(t))
         /\ \A i \in DOMAIN s : (s \o t)[i] = s[i]
         /\ \A i \in DOMAIN (s \o t) : i > Len(s) => (s \o t)[i] = t[i - Len(s)]
         /\ t = <<>> => s \o t = s
         /\ s = <<>> => s \o t = t
  BY SMTT(60)

\* A break keeps the first words.
LEMMA Losing ==
  ASSUME NEW s \in Seq(Words), NEW n \in 0 .. Len(s)
  PROVE  /\ SubSeq(s, 1, n) \in Seq(Words)
         /\ DOMAIN SubSeq(s, 1, n) = 1 .. n
         /\ \A i \in 1 .. n : i \in DOMAIN s /\ SubSeq(s, 1, n)[i] = s[i]
         /\ SubSeq(s, 1, n) = <<>> <=> n = 0
  OBVIOUS

\* One word.
LEMMA OneWord ==
  ASSUME NEW w \in Words
  PROVE  <<w>> \in Seq(Words) /\ <<w>> # <<>> /\ Len(<<w>>) = 1 /\ <<w>>[1] = w /\ DOMAIN <<w>> = {1}
  OBVIOUS

\* Words by their kind.
LEMMA Kinds ==
  ASSUME NEW m \in Words
  PROVE  /\ m.kind \in {"contact", "init", "reject", "segment", "ack", "refuse", "term"}
         /\ m.kind = "segment" => m \in SegmentWord
         /\ m.kind = "ack" => m \in AckWord
         /\ m.kind = "refuse" => m \in RefuseWord
         /\ m.kind = "term" => m \in TermWord
  BY DEF Words, PlainWord, SegmentWord, AckWord, RefuseWord, TermWord

\* The words the ends write.
LEMMA Written ==
  /\ \A kind \in {"contact", "init", "reject"} : [kind |-> kind] \in Words
  /\ \A id \in Nat : [kind |-> "refuse", id |-> id] \in Words
  /\ \A id, got \in Nat : [kind |-> "ack", id |-> id, got |-> got] \in Words
  /\ \A reply \in BOOLEAN : [kind |-> "term", reply |-> reply] \in Words
  BY DEF Words, PlainWord, AckWord, RefuseWord, TermWord

LEMMA TransferType ==
  ASSUME NEW id \in Nat, NEW b \in Bundles
  PROVE  /\ Transfer(id, b) \in Seq(Words)
         /\ DOMAIN Transfer(id, b) = 1 .. Segments
         /\ \A i \in 1 .. Segments : LET w == Transfer(id, b)[i] IN
              w.kind = "segment" /\ w.id = id /\ w.n = i /\ w.bundle = b
<1>1. \A n \in 1 .. Segments : [kind |-> "segment", id |-> id, n |-> n, bundle |-> b] \in Words
  BY DEF Words, SegmentWord
<1>2. Transfer(id, b) \in [1 .. Segments -> Words]
  BY <1>1 DEF Transfer
<1>3. Segments \in Nat
  BY Apart
<1>4. Transfer(id, b) \in Seq(Words)
  BY <1>2, <1>3, IsASeq
<1> QED
  BY <1>4 DEF Transfer

-----------------------------------------------------------------------------
(* What is done to a connection, field by field.                           *)

LEMMA ToAFields ==
  ASSUME NEW c \in Connection, NEW words \in Seq(Words)
  PROVE  /\ ToA(c, words) \in Connection
         /\ ToA(c, words) = [c EXCEPT !.toA = IF c.cut \/ ~Open(c.a) THEN c.toA ELSE c.toA \o words]
         /\ LET d == ToA(c, words)
            IN  /\ d.a = c.a /\ d.b = c.b /\ d.cut = c.cut /\ d.ready = c.ready
                /\ d.toA = IF c.cut \/ ~Open(c.a) THEN c.toA ELSE c.toA \o words
                /\ d.toB = c.toB
<1>1. c.toA \o words \in Seq(Words)
  BY Writing DEF Connection
<1> QED
  BY <1>1 DEF ToA, Connection

LEMMA ToBFields ==
  ASSUME NEW c \in Connection, NEW words \in Seq(Words)
  PROVE  /\ ToB(c, words) \in Connection
         /\ ToB(c, words) = [c EXCEPT !.toB = IF c.cut \/ ~Open(c.b) THEN c.toB ELSE c.toB \o words]
         /\ LET d == ToB(c, words)
            IN  /\ d.a = c.a /\ d.b = c.b /\ d.cut = c.cut /\ d.ready = c.ready
                /\ d.toB = IF c.cut \/ ~Open(c.b) THEN c.toB ELSE c.toB \o words
                /\ d.toA = c.toA
<1>1. c.toB \o words \in Seq(Words)
  BY Writing DEF Connection
<1> QED
  BY <1>1 DEF ToB, Connection

LEMMA ShutFields ==
  ASSUME NEW c \in Connection
  PROVE  /\ ShutA(c) \in Connection /\ ~Open(ShutA(c).a)
         /\ ShutA(c).b = c.b /\ ShutA(c).toB = c.toB /\ ShutA(c).cut = c.cut /\ ShutA(c).ready = c.ready
         /\ Open(c.a) => ShutA(c).toA = <<>> /\ ShutA(c).a.state = "closed"
         /\ ~Open(c.a) => ShutA(c) = c
         /\ ShutB(c) \in Connection /\ ~Open(ShutB(c).b)
         /\ ShutB(c).a = c.a /\ ShutB(c).toA = c.toA /\ ShutB(c).cut = c.cut /\ ShutB(c).ready = c.ready
         /\ Open(c.b) => ShutB(c).toB = <<>> /\ ShutB(c).b.state = "closed"
         /\ ~Open(c.b) => ShutB(c) = c
<1>1. \A e \in Ends : Shut(e) \in Ends /\ Shut(e).state = "closed"
  BY DEF Shut, NoEnd, Ends
<1>2. <<>> \in Seq(Words)
  OBVIOUS
<1>3. [c EXCEPT !.a = Shut(@), !.toA = <<>>] \in Connection
  BY <1>1, <1>2 DEF Connection
<1>4. [c EXCEPT !.b = Shut(@), !.toB = <<>>] \in Connection
  BY <1>1, <1>2 DEF Connection
<1> QED
  BY <1>1, <1>3, <1>4 DEF ShutA, ShutB, Connection, Open

-----------------------------------------------------------------------------
(* What an end does with a word.                                           *)

\* The active end and the passive end.
HearsA(l, e, m) == OnMessage(l, TRUE, e, m)
HearsB(l, e, m) == OnMessage(l, FALSE, e, m)
GreetsA(l, e) == Contact(l, TRUE, e)
GreetsB(l, e) == Contact(l, FALSE, e)
StartsA(e) == SessInit(TRUE, e)
StartsB(e) == SessInit(FALSE, e)

LEMMA Dispatch ==
  ASSUME NEW l, NEW e, NEW m \in Words
  PROVE  /\ m.kind = "contact" => HearsA(l, e, m) = GreetsA(l, e) /\ HearsB(l, e, m) = GreetsB(l, e)
         /\ m.kind = "init"    => HearsA(l, e, m) = StartsA(e) /\ HearsB(l, e, m) = StartsB(e)
         /\ m.kind = "segment" => HearsA(l, e, m) = Segment(l, e, m) /\ HearsB(l, e, m) = Segment(l, e, m)
         /\ m.kind = "ack"     => HearsA(l, e, m) = Ack(e, m) /\ HearsB(l, e, m) = Ack(e, m)
         /\ m.kind = "refuse"  => HearsA(l, e, m) = Refuse(e, m) /\ HearsB(l, e, m) = Refuse(e, m)
         /\ m.kind = "term"    => HearsA(l, e, m) = Term(e, m) /\ HearsB(l, e, m) = Term(e, m)
         /\ m.kind = "reject"  => HearsA(l, e, m) = Nothing(e) /\ HearsB(l, e, m) = Nothing(e)
  BY DEF OnMessage, HearsA, HearsB, GreetsA, GreetsB, StartsA, StartsB

Answer == [end : Ends, reply : Seq(Words), bundle : Bundles \cup {None},
           settled : {"acked", "refused", None}]

LEMMA NothingFields ==
  ASSUME NEW e
  PROVE  LET r == Nothing(e) IN
           r.end = e /\ r.reply = <<>> /\ r.bundle = None /\ r.settled = None
  BY DEF Nothing

LEMMA NothingType ==
  ASSUME NEW e \in Ends
  PROVE  Nothing(e) \in Answer
<1>1. <<>> \in Seq(Words)
  OBVIOUS
<1> QED
  BY <1>1 DEF Nothing, Answer

LEMMA GreetsAFields ==
  ASSUME NEW l \in Layers, NEW e \in Ends
  PROVE  LET r == GreetsA(l, e) IN
           /\ r \in Answer
           /\ r.end.state = IF l.version = 4 THEN "init" ELSE "established"
           /\ r.end.sending = e.sending
           /\ r.reply = IF l.version = 4 THEN Word("init") ELSE <<>>
           /\ r.bundle = None /\ r.settled = None
<1> DEFINE end == [e EXCEPT !.state = IF l.version = 4 THEN "init" ELSE "established"]
           reply == IF l.version = 4 THEN Word("init") ELSE <<>>
<1>1. Word("contact") \in Seq(Words) /\ Word("init") \in Seq(Words) /\ <<>> \in Seq(Words)
  BY Written, OneWord DEF Word
<1>2. reply \in Seq(Words)
  BY <1>1
<1>3. end \in Ends /\ end.state = (IF l.version = 4 THEN "init" ELSE "established") /\ end.sending = e.sending
  BY DEF Ends
<1>4. GreetsA(l, e) = [end |-> end, reply |-> reply, bundle |-> None, settled |-> None]
  BY DEF GreetsA, Contact, Nothing
<1> HIDE DEF end, reply
<1>5. GreetsA(l, e) \in Answer
  BY <1>2, <1>3, <1>4 DEF Answer
<1>6. LET r == GreetsA(l, e) IN r.end = end /\ r.reply = reply /\ r.bundle = None /\ r.settled = None
  BY <1>4
<1> QED
  BY <1>3, <1>5, <1>6 DEF reply

LEMMA GreetsBFields ==
  ASSUME NEW l \in Layers, NEW e \in Ends
  PROVE  LET r == GreetsB(l, e) IN
           /\ r \in Answer
           /\ r.end.state = IF l.version = 4 THEN "init" ELSE "established"
           /\ r.end.sending = e.sending
           /\ r.reply = Word("contact")
           /\ r.bundle = None /\ r.settled = None
<1> DEFINE end == [e EXCEPT !.state = IF l.version = 4 THEN "init" ELSE "established"]
           reply == Word("contact")
<1>1. Word("contact") \in Seq(Words) /\ Word("init") \in Seq(Words) /\ <<>> \in Seq(Words)
  BY Written, OneWord DEF Word
<1>2. reply \in Seq(Words)
  BY <1>1
<1>3. end \in Ends /\ end.state = (IF l.version = 4 THEN "init" ELSE "established") /\ end.sending = e.sending
  BY DEF Ends
<1>4. GreetsB(l, e) = [end |-> end, reply |-> reply, bundle |-> None, settled |-> None]
  BY DEF GreetsB, Contact, Nothing
<1> HIDE DEF end, reply
<1>5. GreetsB(l, e) \in Answer
  BY <1>2, <1>3, <1>4 DEF Answer
<1>6. LET r == GreetsB(l, e) IN r.end = end /\ r.reply = reply /\ r.bundle = None /\ r.settled = None
  BY <1>4
<1> QED
  BY <1>3, <1>5, <1>6 DEF reply

LEMMA StartsAFields ==
  ASSUME NEW e \in Ends
  PROVE  LET r == StartsA(e) IN
           /\ r \in Answer
           /\ r.end.state = IF e.state = "init" THEN "established" ELSE e.state
           /\ r.end.sending = e.sending
           /\ r.reply = IF e.state = "init" THEN <<>> ELSE Word("reject")
           /\ r.bundle = None /\ r.settled = None
<1> DEFINE end == IF e.state = "init" THEN [e EXCEPT !.state = "established"] ELSE e
           reply == IF e.state = "init" THEN <<>> ELSE Word("reject")
<1>1. Word("reject") \in Seq(Words) /\ Word("init") \in Seq(Words) /\ <<>> \in Seq(Words)
  BY Written, OneWord DEF Word
<1>2. reply \in Seq(Words)
  BY <1>1
<1>3. end \in Ends /\ end.state = (IF e.state = "init" THEN "established" ELSE e.state) /\ end.sending = e.sending
  BY DEF Ends
<1>4. StartsA(e) = [end |-> end, reply |-> reply, bundle |-> None, settled |-> None]
  BY DEF StartsA, SessInit, Nothing
<1> HIDE DEF end, reply
<1>5. StartsA(e) \in Answer
  BY <1>2, <1>3, <1>4 DEF Answer
<1>6. LET r == StartsA(e) IN r.end = end /\ r.reply = reply /\ r.bundle = None /\ r.settled = None
  BY <1>4
<1> QED
  BY <1>3, <1>5, <1>6 DEF reply

LEMMA StartsBFields ==
  ASSUME NEW e \in Ends
  PROVE  LET r == StartsB(e) IN
           /\ r \in Answer
           /\ r.end.state = IF e.state = "init" THEN "established" ELSE e.state
           /\ r.end.sending = e.sending
           /\ r.reply = IF e.state = "init" THEN Word("init") ELSE Word("reject")
           /\ r.bundle = None /\ r.settled = None
<1> DEFINE end == IF e.state = "init" THEN [e EXCEPT !.state = "established"] ELSE e
           reply == IF e.state = "init" THEN Word("init") ELSE Word("reject")
<1>1. Word("reject") \in Seq(Words) /\ Word("init") \in Seq(Words) /\ <<>> \in Seq(Words)
  BY Written, OneWord DEF Word
<1>2. reply \in Seq(Words)
  BY <1>1
<1>3. end \in Ends /\ end.state = (IF e.state = "init" THEN "established" ELSE e.state) /\ end.sending = e.sending
  BY DEF Ends
<1>4. StartsB(e) = [end |-> end, reply |-> reply, bundle |-> None, settled |-> None]
  BY DEF StartsB, SessInit, Nothing
<1> HIDE DEF end, reply
<1>5. StartsB(e) \in Answer
  BY <1>2, <1>3, <1>4 DEF Answer
<1>6. LET r == StartsB(e) IN r.end = end /\ r.reply = reply /\ r.bundle = None /\ r.settled = None
  BY <1>4
<1> QED
  BY <1>3, <1>5, <1>6 DEF reply

LEMMA SegmentType ==
  ASSUME NEW l \in Layers, NEW e \in Ends, NEW m \in SegmentWord
  PROVE  Segment(l, e, m) \in Answer
<1> DEFINE rx == IF m.n = 1 THEN [id |-> m.id, got |-> 0] ELSE e.rx
           known == e.state = "established" /\ rx # None /\ rx.id = m.id
<1>1. m.id \in Nat /\ m.n \in 1 .. Segments /\ m.bundle \in Bundles
  BY DEF SegmentWord
<1>2. rx \in [id : Nat, got : Nat] \cup {None}
  BY <1>1 DEF Ends
<1>3. CASE known
  <2>1. rx \in [id : Nat, got : Nat] /\ rx.got + 1 \in Nat
    BY <1>2, <1>3
  <2>2. <<[kind |-> "ack", id |-> m.id, got |-> rx.got + 1]>> \in Seq(Words)
    BY <1>1, <2>1, Written, OneWord
  <2>3. [e EXCEPT !.rx = IF m.n = Segments THEN None ELSE [rx EXCEPT !.got = @ + 1]] \in Ends
    BY <2>1 DEF Ends
  <2>4. Segment(l, e, m) = [Nothing([e EXCEPT !.rx = IF m.n = Segments THEN None ELSE [rx EXCEPT !.got = @ + 1]]) EXCEPT
              !.reply = <<[kind |-> "ack", id |-> m.id, got |-> rx.got + 1]>>,
              !.bundle = IF m.n = Segments THEN m.bundle ELSE None]
    BY <1>3 DEF Segment
  <2> HIDE DEF rx, known
  <2> QED
    BY <1>1, <2>2, <2>3, <2>4 DEF Nothing, Answer
<1>4. CASE ~known
  <2>1. Word("reject") \in Seq(Words) /\ <<>> \in Seq(Words)
    BY Written, OneWord DEF Word
  <2>2. Segment(l, e, m) = [Nothing(e) EXCEPT !.reply = IF l.version = 4 THEN Word("reject") ELSE <<>>]
    BY <1>4 DEF Segment
  <2> QED
    BY <2>1, <2>2 DEF Nothing, Answer
<1> QED
  BY <1>3, <1>4

LEMMA AckFields ==
  ASSUME NEW e \in Ends, NEW m \in Words
  PROVE  LET r == Ack(e, m) IN
           /\ r \in Answer /\ r.reply = <<>> /\ r.end.state = e.state /\ r.bundle = None
           /\ r.settled = IF e.sending = m.id /\ m.got = Segments THEN "acked" ELSE None
           /\ r.end.sending = IF e.sending = m.id /\ m.got = Segments THEN None ELSE e.sending
<1> DEFINE end == [e EXCEPT !.sending = None]
<1>0. <<>> \in Seq(Words)
  OBVIOUS
<1>1. end \in Ends /\ end.state = e.state /\ end.sending = None
  BY DEF Ends
<1>2. CASE e.sending = m.id /\ m.got = Segments
  <2>1. Ack(e, m) = [end |-> end, reply |-> <<>>, bundle |-> None, settled |-> "acked"]
    BY <1>2 DEF Ack, Nothing
  <2> HIDE DEF end
  <2>2. Ack(e, m) \in Answer
    BY <1>0, <1>1, <2>1 DEF Answer
  <2> QED
    BY <1>1, <1>2, <2>1, <2>2
<1>3. CASE ~(e.sending = m.id /\ m.got = Segments)
  <2>1. Ack(e, m) = Nothing(e)
    BY <1>3 DEF Ack
  <2> QED
    BY <1>3, <2>1, NothingType, NothingFields
<1> QED
  BY <1>2, <1>3

LEMMA RefuseFields ==
  ASSUME NEW e \in Ends, NEW m \in Words
  PROVE  LET r == Refuse(e, m) IN
           /\ r \in Answer /\ r.reply = <<>> /\ r.end.state = e.state /\ r.bundle = None
           /\ r.settled = IF e.sending = m.id THEN "refused" ELSE None
           /\ r.end.sending = IF e.sending = m.id THEN None ELSE e.sending
<1> DEFINE end == [e EXCEPT !.sending = None]
<1>0. <<>> \in Seq(Words)
  OBVIOUS
<1>1. end \in Ends /\ end.state = e.state /\ end.sending = None
  BY DEF Ends
<1>2. CASE e.sending = m.id
  <2>1. Refuse(e, m) = [end |-> end, reply |-> <<>>, bundle |-> None, settled |-> "refused"]
    BY <1>2 DEF Refuse, Nothing
  <2> HIDE DEF end
  <2>2. Refuse(e, m) \in Answer
    BY <1>0, <1>1, <2>1 DEF Answer
  <2> QED
    BY <1>1, <1>2, <2>1, <2>2
<1>3. CASE ~(e.sending = m.id)
  <2>1. Refuse(e, m) = Nothing(e)
    BY <1>3 DEF Refuse
  <2> QED
    BY <1>3, <2>1, NothingType, NothingFields
<1> QED
  BY <1>2, <1>3

LEMMA TermFields ==
  ASSUME NEW e \in Ends, NEW m \in Words
  PROVE  LET r == Term(e, m) IN
           /\ r \in Answer /\ r.end.state = "ending" /\ r.end.sending = e.sending
           /\ r.bundle = None /\ r.settled = None
<1> DEFINE end == [e EXCEPT !.state = "ending"]
           reply == IF m.reply THEN <<>> ELSE <<[kind |-> "term", reply |-> TRUE]>>
<1>1. [kind |-> "term", reply |-> TRUE] \in Words
  BY Written
<1>2. reply \in Seq(Words)
  BY <1>1, OneWord
<1>3. end \in Ends /\ end.state = "ending" /\ end.sending = e.sending
  BY DEF Ends
<1>4. Term(e, m) = [Nothing(end) EXCEPT !.reply = reply]
  BY DEF Term
<1> HIDE DEF end, reply
<1>5. Term(e, m) = [end |-> end, reply |-> reply, bundle |-> None, settled |-> None]
  BY <1>4 DEF Nothing
<1>6. Term(e, m) \in Answer
  BY <1>2, <1>3, <1>5 DEF Answer
<1> QED
  BY <1>3, <1>5, <1>6

LEMMA RefusalFields ==
  ASSUME NEW e \in Ends, NEW m \in Words, m.kind = "segment"
  PROVE  LET r == Refusal(e, m) IN
           /\ r \in Answer /\ r.end.rx = None /\ r.end.state = e.state
           /\ r.reply = <<[kind |-> "refuse", id |-> m.id]>>
<1> DEFINE end == [e EXCEPT !.rx = None]
           reply == <<[kind |-> "refuse", id |-> m.id]>>
<1>1. m.id \in Nat
  BY Kinds DEF SegmentWord
<1>2. [kind |-> "refuse", id |-> m.id] \in Words
  BY <1>1, Written
<1>3. reply \in Seq(Words)
  BY <1>2, OneWord
<1>4. end \in Ends /\ end.state = e.state /\ end.rx = None
  BY DEF Ends
<1>5. Refusal(e, m) = [Nothing(end) EXCEPT !.reply = reply]
  BY DEF Refusal
<1> HIDE DEF end, reply
<1>6. Refusal(e, m) = [end |-> end, reply |-> reply, bundle |-> None, settled |-> None]
  BY <1>5 DEF Nothing
<1>7. Refusal(e, m) \in Answer
  BY <1>3, <1>4, <1>6 DEF Answer
<1> QED
  BY <1>4, <1>6, <1>7 DEF reply

LEMMA SegmentKeepsState ==
  ASSUME NEW l \in Layers, NEW e \in Ends, NEW m
  PROVE  Segment(l, e, m).end.state = e.state
  BY DEF Segment, Nothing, Ends

LEMMA AnswerAType ==
  ASSUME NEW l \in Layers, NEW e \in Ends, NEW m \in Words
  PROVE  HearsA(l, e, m) \in Answer
<1>1. CASE m.kind = "contact"
  <2>1. HearsA(l, e, m) = GreetsA(l, e)
    BY <1>1, Dispatch
  <2> QED
    BY <1>1, <2>1, GreetsAFields
<1>2. CASE m.kind = "init"
  <2>1. HearsA(l, e, m) = StartsA(e)
    BY <1>2, Dispatch
  <2> QED
    BY <1>2, <2>1, StartsAFields
<1>3. CASE m.kind = "segment"
  <2>1. HearsA(l, e, m) = Segment(l, e, m)
    BY <1>3, Dispatch
  <2> QED
    BY <1>3, <2>1, Kinds, SegmentType
<1>4. CASE m.kind = "ack"
  <2>1. HearsA(l, e, m) = Ack(e, m)
    BY <1>4, Dispatch
  <2> QED
    BY <1>4, <2>1, AckFields
<1>5. CASE m.kind = "refuse"
  <2>1. HearsA(l, e, m) = Refuse(e, m)
    BY <1>5, Dispatch
  <2> QED
    BY <1>5, <2>1, RefuseFields
<1>6. CASE m.kind = "term"
  <2>1. HearsA(l, e, m) = Term(e, m)
    BY <1>6, Dispatch
  <2> QED
    BY <1>6, <2>1, TermFields
<1>7. CASE m.kind = "reject"
  <2>1. HearsA(l, e, m) = Nothing(e)
    BY <1>7, Dispatch
  <2> QED
    BY <1>7, <2>1, NothingType
<1> QED
  BY <1>1, <1>2, <1>3, <1>4, <1>5, <1>6, <1>7, Kinds

LEMMA AnswerBType ==
  ASSUME NEW l \in Layers, NEW e \in Ends, NEW m \in Words
  PROVE  HearsB(l, e, m) \in Answer
<1>1. CASE m.kind = "contact"
  <2>1. HearsB(l, e, m) = GreetsB(l, e)
    BY <1>1, Dispatch
  <2> QED
    BY <1>1, <2>1, GreetsBFields
<1>2. CASE m.kind = "init"
  <2>1. HearsB(l, e, m) = StartsB(e)
    BY <1>2, Dispatch
  <2> QED
    BY <1>2, <2>1, StartsBFields
<1>3. CASE m.kind = "segment"
  <2>1. HearsB(l, e, m) = Segment(l, e, m)
    BY <1>3, Dispatch
  <2> QED
    BY <1>3, <2>1, Kinds, SegmentType
<1>4. CASE m.kind = "ack"
  <2>1. HearsB(l, e, m) = Ack(e, m)
    BY <1>4, Dispatch
  <2> QED
    BY <1>4, <2>1, AckFields
<1>5. CASE m.kind = "refuse"
  <2>1. HearsB(l, e, m) = Refuse(e, m)
    BY <1>5, Dispatch
  <2> QED
    BY <1>5, <2>1, RefuseFields
<1>6. CASE m.kind = "term"
  <2>1. HearsB(l, e, m) = Term(e, m)
    BY <1>6, Dispatch
  <2> QED
    BY <1>6, <2>1, TermFields
<1>7. CASE m.kind = "reject"
  <2>1. HearsB(l, e, m) = Nothing(e)
    BY <1>7, Dispatch
  <2> QED
    BY <1>7, <2>1, NothingType
<1> QED
  BY <1>1, <1>2, <1>3, <1>4, <1>5, <1>6, <1>7, Kinds

\* An end that hears a word stays open, or as it was.
LEMMA StaysOpen ==
  ASSUME NEW l \in Layers, NEW e \in Ends, NEW m \in Words, Open(e)
  PROVE  Open(HearsB(l, e, m).end)
<1>1. CASE m.kind = "contact"
  <2>1. HearsB(l, e, m) = GreetsB(l, e)
    BY <1>1, Dispatch
  <2> QED
    BY <1>1, <2>1, GreetsBFields DEF Open
<1>2. CASE m.kind = "init"
  <2>1. HearsB(l, e, m) = StartsB(e)
    BY <1>2, Dispatch
  <2> QED
    BY <1>2, <2>1, StartsBFields DEF Open
<1>3. CASE m.kind = "segment"
  <2>1. HearsB(l, e, m) = Segment(l, e, m)
    BY <1>3, Dispatch
  <2> QED
    BY <1>3, <2>1, SegmentKeepsState DEF Open
<1>4. CASE m.kind = "ack"
  <2>1. HearsB(l, e, m) = Ack(e, m)
    BY <1>4, Dispatch
  <2> QED
    BY <1>4, <2>1, AckFields DEF Open
<1>5. CASE m.kind = "refuse"
  <2>1. HearsB(l, e, m) = Refuse(e, m)
    BY <1>5, Dispatch
  <2> QED
    BY <1>5, <2>1, RefuseFields DEF Open
<1>6. CASE m.kind = "term"
  <2>1. HearsB(l, e, m) = Term(e, m)
    BY <1>6, Dispatch
  <2> QED
    BY <1>6, <2>1, TermFields DEF Open
<1>7. CASE m.kind = "reject"
  <2>1. HearsB(l, e, m) = Nothing(e)
    BY <1>7, Dispatch, SMTT(60)
  <2> QED
    BY <1>7, <2>1, NothingFields DEF Open
<1> QED
  BY <1>1, <1>2, <1>3, <1>4, <1>5, <1>6, <1>7, Kinds

-----------------------------------------------------------------------------
(* A hears a word.                                                         *)

\* The connection after A has handled the first word for it.
HeardA(l, c) ==
  LET r == HearsA(l, c.a, Head(c.toA))
      said == IF c.a.state = "ending" THEN <<>> ELSE r.reply
  IN  ToB([c EXCEPT !.a = r.end, !.toA = Tail(@),
                    !.ready = IF @ = "no" /\ r.end.state = "established" THEN "yes" ELSE @], said)

LEMMA HeardAFields ==
  ASSUME NEW l \in Layers, NEW c \in Connection, c.toA # <<>>
  PROVE  LET r == HearsA(l, c.a, c.toA[1])
             said == IF c.a.state = "ending" THEN <<>> ELSE r.reply
             d == HeardA(l, c)
         IN  /\ d \in Connection /\ r \in Answer
             /\ d.a = r.end /\ d.b = c.b /\ d.toA = Tail(c.toA) /\ d.cut = c.cut
             /\ d.toB = IF c.cut \/ ~Open(c.b) THEN c.toB ELSE c.toB \o said
             /\ d.ready = IF c.ready = "no" /\ r.end.state = "established" THEN "yes" ELSE c.ready
<1> DEFINE r == HearsA(l, c.a, c.toA[1])
           said == IF c.a.state = "ending" THEN <<>> ELSE r.reply
           x == [c EXCEPT !.a = r.end, !.toA = Tail(@),
                          !.ready = IF @ = "no" /\ r.end.state = "established" THEN "yes" ELSE @]
<1>1. Head(c.toA) = c.toA[1] /\ c.toA[1] \in Words /\ Tail(c.toA) \in Seq(Words)
  BY Hearing DEF Connection
<1>2. c.a \in Ends
  BY DEF Connection
<1>3. r \in Answer
  BY <1>1, <1>2, AnswerAType
<1>4. said \in Seq(Words)
  <2>1. <<>> \in Seq(Words)
    OBVIOUS
  <2> HIDE DEF r
  <2> QED
    BY <1>3, <2>1 DEF Answer
<1>5. HeardA(l, c) = ToB(x, said)
  BY <1>1 DEF HeardA
<1> HIDE DEF r, said
<1>6. x \in Connection
  BY <1>1, <1>3 DEF Connection, Answer
<1>7. /\ x.a = r.end /\ x.b = c.b /\ x.toA = Tail(c.toA) /\ x.cut = c.cut /\ x.toB = c.toB
      /\ x.ready = IF c.ready = "no" /\ r.end.state = "established" THEN "yes" ELSE c.ready
  BY DEF Connection
<1> HIDE DEF x
<1>8. /\ ToB(x, said) \in Connection
      /\ ToB(x, said) = [x EXCEPT !.toB = IF x.cut \/ ~Open(x.b) THEN x.toB ELSE x.toB \o said]
  BY <1>4, <1>6, ToBFields
<1>9. LET d == ToB(x, said) IN
         /\ d.a = x.a /\ d.b = x.b /\ d.toA = x.toA /\ d.cut = x.cut /\ d.ready = x.ready
         /\ d.toB = IF x.cut \/ ~Open(x.b) THEN x.toB ELSE x.toB \o said
  BY <1>6, <1>8 DEF Connection
<1> QED
  BY <1>3, <1>5, <1>7, <1>8, <1>9 DEF r, said

\* Before the greeting is over.
LEMMA GreetedA ==
  ASSUME NEW l \in Layers, NEW c \in Connection, c.toA # <<>>, Greeting(l, c),
         c.a.state \in {"contact", "init"}
  PROVE  Greeting(l, HeardA(l, c)) /\ Quiet(HeardA(l, c))
<1> DEFINE m == c.toA[1]
           r == HearsA(l, c.a, m)
           d == HeardA(l, c)
<1>1. /\ d.a = r.end /\ d.b = c.b /\ d.toA = Tail(c.toA)
      /\ d.toB = IF c.cut \/ ~Open(c.b) THEN c.toB ELSE c.toB \o r.reply
      /\ r \in Answer
  BY HeardAFields
<1>2. m \in Words /\ c.a \in Ends /\ c.toA \in Seq(Words)
  BY Hearing DEF Connection
<1>3. c.toB = <<>> /\ c.toB \o r.reply = r.reply
  <2>1. c.toB = <<>>
    BY DEF Greeting
  <2> QED
    BY <1>1, <2>1, Writing DEF Answer
<1>4. l.version \in {3, 4}
  BY LayerType
<1>5. c.b.state \in {"none", "contact", "init", "established", "ending", "closed"}
  BY DEF Connection, Ends
<1>6. /\ DOMAIN Tail(c.toA) = 1 .. (Len(c.toA) - 1) /\ DOMAIN c.toA = 1 .. Len(c.toA) /\ Len(c.toA) \in Nat
      /\ \A i \in DOMAIN Tail(c.toA) : i + 1 \in DOMAIN c.toA /\ Tail(c.toA)[i] = c.toA[i + 1]
      /\ Tail(c.toA) = <<>> <=> Len(c.toA) = 1
  BY <1>2, Hearing
<1>7. CASE c.a.state = "contact"
  <2>1. c.toA = Word("contact")
    BY <1>7 DEF Greeting
  <2>2. m.kind = "contact" /\ Tail(c.toA) = <<>>
    BY <2>1 DEF Word
  <2>3. r = GreetsA(l, c.a)
    BY <1>2, <2>2, Dispatch
  <2>4. /\ r.end.state = IF l.version = 4 THEN "init" ELSE "established"
        /\ r.reply = IF l.version = 4 THEN Word("init") ELSE <<>>
    BY <1>2, <2>3, GreetsAFields
  <2>5. c.b.state \in {IF l.version = 4 THEN "init" ELSE "established", "closed"}
    BY <1>7 DEF Greeting
  <2>6. Word("init") # <<>> /\ Word("init") # Word("contact")
    BY DEF Word
  <2>7. d.toA = <<>> /\ DOMAIN d.toA = {}
    BY <1>1, <2>2
  <2> HIDE DEF d, r
  <2>8. d.a.state \in {"init", "established"} /\ d.b.state = c.b.state /\ d.toB \in {<<>>, Word("init")}
        /\ (d.a.state = "established" => d.toB = <<>> /\ l.version = 3)
        /\ (d.a.state = "init" => l.version = 4)
        /\ (d.toB # <<>> => d.a.state = "init" /\ Open(c.b))
    BY <1>1, <1>3, <1>4, <2>4, <2>6
  <2>9. DOMAIN <<>> = {}
    OBVIOUS
  <2>10. ~Open(d.b) => d.toB = <<>>
    BY <1>1, <2>8
  <2> HIDE DEF d
  <2>11. Greeting(l, d)
    <3>1. \A i \in DOMAIN d.toA : FALSE
      BY <2>7
    <3>2. CASE l.version = 4
      <4>1. d.a.state = "init" /\ d.b.state \in {"init", "closed"} /\ (d.toB # <<>> => d.b.state = "init")
        BY <2>5, <2>8, <3>2 DEF Open
      <4> QED
        BY <2>7, <2>8, <2>10, <3>1, <3>2, <4>1 DEF Greeting, Open
    <3>3. CASE l.version = 3
      <4>1. d.a.state = "established" /\ d.b.state \in {"established", "closed"} /\ d.toB = <<>>
        BY <2>5, <2>8, <3>3
      <4> QED
        BY <2>7, <2>9, <3>1, <4>1 DEF Greeting, Open
    <3> QED
      BY <1>4, <3>2, <3>3
  <2>12. Quiet(d)
    BY <2>7, <2>8 DEF Quiet, NoAcks
  <2> QED
    BY <2>11, <2>12 DEF d
<1>8. CASE c.a.state = "init"
  <2>1. /\ m.kind = "init" /\ c.b.state \in {"established", "closed"} /\ l.version = 4
        /\ \A i \in DOMAIN c.toA : i > 1 => c.toA[i].kind = "term"
    BY <1>8 DEF Greeting
  <2>0. m.kind = "init"
    BY <2>1
  <2>2. r = StartsA(c.a)
    BY <1>2, <2>0, Dispatch
  <2>3. r.end.state = "established" /\ r.reply = <<>>
    BY <1>2, <1>8, <2>2, StartsAFields
  <2>4. d.a.state = "established" /\ d.b = c.b /\ d.toB = <<>> /\ d.toA = Tail(c.toA)
    BY <1>1, <1>3, <2>3
  <2>5. \A i \in DOMAIN d.toA : d.toA[i].kind = "term" /\ c.toA[i + 1].kind = "term" /\ i + 1 \in DOMAIN c.toA
    BY <1>6, <2>1, <2>4
  <2>6. DOMAIN <<>> = {}
    OBVIOUS
  <2>7. (\E i \in DOMAIN c.toA : c.toA[i].kind = "term") => ~Open(c.b)
    BY DEF Greeting
  <2> HIDE DEF d, r
  <2>8. Greeting(l, d)
    BY <2>1, <2>4, <2>5, <2>6, <2>7 DEF Greeting, Open
  <2>9. Quiet(d)
    BY <2>4, <2>5 DEF Quiet, NoAcks
  <2> QED
    BY <2>8, <2>9 DEF d
<1> QED
  BY <1>7, <1>8

\* After it A writes nothing, and only a word about its transfer ends that.
LEMMA AnsweredA ==
  ASSUME NEW l \in Layers, NEW c \in Connection, c.toA # <<>>, Greeting(l, c),
         c.a.state \in {"established", "ending"}
  PROVE  LET m == c.toA[1]
             r == HearsA(l, c.a, m)
             d == HeardA(l, c)
         IN  /\ Greeting(l, d) /\ (Quiet(c) => Quiet(d))
             /\ d.toB = c.toB /\ d.b = c.b /\ d.toA = Tail(c.toA)
             /\ d.a.state \in {"established", "ending"}
             /\ d.a.sending = IF r.settled = None THEN c.a.sending ELSE None
             /\ r.settled = "acked" => m.kind = "ack" /\ m.got = Segments /\ m.id = c.a.sending
             /\ r.settled \in {"acked", "refused", None}
<1> DEFINE m == c.toA[1]
           r == HearsA(l, c.a, m)
           d == HeardA(l, c)
           said == IF c.a.state = "ending" THEN <<>> ELSE r.reply
<1>1. /\ d.a = r.end /\ d.b = c.b /\ d.toA = Tail(c.toA)
      /\ d.toB = IF c.cut \/ ~Open(c.b) THEN c.toB ELSE c.toB \o said
      /\ r \in Answer
  BY HeardAFields
<1>2. m \in Words /\ c.a \in Ends /\ c.toA \in Seq(Words) /\ c.toB \in Seq(Words)
  BY Hearing DEF Connection
<1>3. /\ DOMAIN Tail(c.toA) = 1 .. (Len(c.toA) - 1) /\ DOMAIN c.toA = 1 .. Len(c.toA)
      /\ Len(c.toA) \in Nat /\ Len(c.toA) >= 1
      /\ \A i \in DOMAIN Tail(c.toA) : i + 1 \in DOMAIN c.toA /\ Tail(c.toA)[i] = c.toA[i + 1]
  BY <1>2, Hearing
<1>4. 1 \in DOMAIN c.toA
  BY <1>3
<1>5. m.kind \in {"ack", "refuse", "reject", "term"} /\ (m.kind = "term" => ~Open(c.b))
  BY <1>4 DEF Greeting
<1>6. /\ r.end.state = IF m.kind = "term" THEN "ending" ELSE c.a.state
      /\ m.kind # "term" => r.reply = <<>>
      /\ r.end.sending = IF r.settled = None THEN c.a.sending ELSE None
      /\ r.settled = "acked" => m.kind = "ack" /\ m.got = Segments /\ m.id = c.a.sending
      /\ r.settled \in {"acked", "refused", None}
  <2>1. CASE m.kind = "ack"
    <3>1. r = Ack(c.a, m)
      BY <1>2, <2>1, Dispatch
    <3> QED
      BY <1>2, <2>1, <3>1, AckFields, Apart
  <2>2. CASE m.kind = "refuse"
    <3>1. r = Refuse(c.a, m)
      BY <1>2, <2>2, Dispatch
    <3> QED
      BY <1>2, <2>2, <3>1, RefuseFields, Apart
  <2>3. CASE m.kind = "reject"
    <3>1. r = Nothing(c.a)
      BY <1>2, <2>3, Dispatch
    <3> QED
      BY <1>2, <2>3, <3>1, NothingFields, Apart
  <2>4. CASE m.kind = "term"
    <3>1. r = Term(c.a, m)
      BY <1>2, <2>4, Dispatch
    <3> QED
      BY <1>2, <2>4, <3>1, TermFields, Apart
  <2> QED
    BY <1>5, <2>1, <2>2, <2>3, <2>4
<1>7. d.toB = c.toB
  <2>1. said = <<>> \/ ~Open(c.b)
    BY <1>5, <1>6
  <2>2. c.toB \o <<>> = c.toB
    BY <1>2
  <2> HIDE DEF said
  <2> QED
    BY <1>1, <2>1, <2>2
<1> HIDE DEF d, r, m
<1>8. \A i \in DOMAIN d.toA : i + 1 \in DOMAIN c.toA /\ d.toA[i] = c.toA[i + 1]
  BY <1>1, <1>3
<1>9. d.a.state \in {"established", "ending"} /\ (d.a.state = "established" => c.a.state = "established")
  BY <1>1, <1>5, <1>6
<1>10. Greeting(l, d)
  <2>1. \A i \in DOMAIN c.toA : c.toA[i].kind \in {"ack", "refuse", "reject", "term"}
    BY DEF Greeting
  <2>2. c.b.state \in {"established", "closed"} /\ \A i \in DOMAIN c.toB : c.toB[i].kind = "segment"
    BY DEF Greeting
  <2>3. (\E i \in DOMAIN c.toA : c.toA[i].kind = "term") => ~Open(c.b)
    BY DEF Greeting
  <2>4. (\E i \in DOMAIN d.toA : d.toA[i].kind = "term") => ~Open(d.b)
    BY <1>1, <1>8, <2>3
  <2>5. ~Open(d.b) => d.toB = <<>>
    BY <1>1, <1>7 DEF Greeting
  <2> QED
    BY <1>1, <1>7, <1>8, <1>9, <2>1, <2>2, <2>4, <2>5, ZenonT(60) DEF Greeting, Open
<1>11. Quiet(c) => Quiet(d)
  BY <1>7, <1>8, <1>9 DEF Quiet, NoAcks
<1> QED
  BY <1>1, <1>6, <1>7, <1>9, <1>10, <1>11 DEF d, r, m

\* The acknowledgement that ends a transfer is the last one of it.
LEMMA TransferAnsweredA ==
  ASSUME NEW l \in Layers, NEW c \in Connection, c.toA # <<>>, Greeting(l, c),
         c.a.state \in {"established", "ending"},
         NEW id, NEW b, c.a.sending = id, Under(c, id, b)
  PROVE  LET r == HearsA(l, c.a, c.toA[1])
             d == HeardA(l, c)
         IN  /\ Under(d, id, b) /\ (Finished(d) => Finished(c))
             /\ r.settled = "acked" => Finished(c) /\ NoAcks(d.toA)
<1> DEFINE m == c.toA[1]
           r == HearsA(l, c.a, m)
           d == HeardA(l, c)
<1>1. /\ d.toB = c.toB /\ d.b = c.b /\ d.toA = Tail(c.toA)
      /\ r.settled = "acked" => m.kind = "ack" /\ m.got = Segments /\ m.id = c.a.sending
  BY AnsweredA
<1>2. /\ DOMAIN Tail(c.toA) = 1 .. (Len(c.toA) - 1) /\ DOMAIN c.toA = 1 .. Len(c.toA)
      /\ Len(c.toA) \in Nat /\ Len(c.toA) >= 1
      /\ \A i \in DOMAIN Tail(c.toA) : i + 1 \in DOMAIN c.toA /\ Tail(c.toA)[i] = c.toA[i + 1]
  BY Hearing DEF Connection
<1>3. 1 \in DOMAIN c.toA /\ \A i \in DOMAIN c.toA : i \in Nat /\ c.toA[i] \in Words
  BY <1>2 DEF Connection
<1> HIDE DEF d, r, m
<1>4. \A i \in DOMAIN d.toA : i + 1 \in DOMAIN c.toA /\ d.toA[i] = c.toA[i + 1] /\ i \in Nat /\ i >= 1
  BY <1>1, <1>2
<1>5. \A i \in DOMAIN c.toA : c.toA[i].kind = "ack" =>
        /\ c.toA[i].id = id /\ c.toA[i].got <= Segments
        /\ c.toB # <<>> => c.toA[i].got < c.toB[1].n
        /\ \A j \in DOMAIN c.toA : j < i /\ c.toA[j].kind = "ack" => c.toA[j].got < c.toA[i].got
  BY DEF Under
<1>6. Under(d, id, b)
  <2>1. \A i \in DOMAIN d.toA : d.toA[i].kind = "ack" =>
          /\ d.toA[i].id = id /\ d.toA[i].got <= Segments
          /\ d.toB # <<>> => d.toA[i].got < d.toB[1].n
          /\ \A j \in DOMAIN d.toA : j < i /\ d.toA[j].kind = "ack" => d.toA[j].got < d.toA[i].got
    <3> SUFFICES ASSUME NEW i \in DOMAIN d.toA, d.toA[i].kind = "ack"
                 PROVE  /\ d.toA[i].id = id /\ d.toA[i].got <= Segments
                        /\ d.toB # <<>> => d.toA[i].got < d.toB[1].n
                        /\ \A j \in DOMAIN d.toA : j < i /\ d.toA[j].kind = "ack" => d.toA[j].got < d.toA[i].got
      OBVIOUS
    <3>1. i + 1 \in DOMAIN c.toA /\ d.toA[i] = c.toA[i + 1]
      BY <1>4
    <3>2. \A j \in DOMAIN d.toA : j < i => j + 1 \in DOMAIN c.toA /\ d.toA[j] = c.toA[j + 1] /\ j + 1 < i + 1
      BY <1>4
    <3> QED
      BY <1>1, <1>5, <3>1, <3>2
  <2> QED
    BY <1>1, <2>1 DEF Under
<1>7. Finished(d) => Finished(c)
  BY <1>4 DEF Finished
<1>8. ASSUME r.settled = "acked" PROVE Finished(c) /\ NoAcks(d.toA)
  <2>1. m.kind = "ack" /\ m.got = Segments
    BY <1>1, <1>8
  <2>2. Finished(c)
    BY <1>3, <2>1 DEF Finished, m
  <2>3. ASSUME NEW i \in DOMAIN d.toA, d.toA[i].kind = "ack" PROVE FALSE
    <3>1. i + 1 \in DOMAIN c.toA /\ c.toA[i + 1].kind = "ack" /\ 1 < i + 1
      BY <1>4, <2>3
    <3>2. c.toA[i + 1].got \in Nat
      BY <1>3, <3>1, Kinds DEF AckWord
    <3>3. c.toA[1].got < c.toA[i + 1].got /\ c.toA[i + 1].got <= Segments /\ c.toA[1].got = Segments
      BY <1>3, <1>5, <2>1, <3>1 DEF m
    <3> QED
      BY <3>2, <3>3, Apart
  <2> QED
    BY <2>2, <2>3 DEF NoAcks
<1> QED
  BY <1>6, <1>7, <1>8 DEF d, r, m

-----------------------------------------------------------------------------
(* B hears a word.                                                         *)

\* The connection after B has handled the first word for it.
HeardB(l, c) ==
  LET r == HearsB(l, c.b, Head(c.toB))
  IN  ToA([c EXCEPT !.b = r.end, !.toB = Tail(@)], IF c.b.state = "ending" THEN <<>> ELSE r.reply)

\* The connection after B has refused the transfer of the first segment for it.
RefusedB(c) ==
  LET m == Head(c.toB)
  IN  ToA([c EXCEPT !.b = Refusal(@, m).end, !.toB = Tail(@)], Refusal(c.b, m).reply)

\* Both answer the first word.
AnsweredWith(c, end, reply) == ToA([c EXCEPT !.b = end, !.toB = Tail(@)], reply)

LEMMA AnsweredFields ==
  ASSUME NEW c \in Connection, NEW end \in Ends, NEW reply \in Seq(Words), c.toB # <<>>
  PROVE  LET d == AnsweredWith(c, end, reply)
         IN  /\ d \in Connection
             /\ d.b = end /\ d.a = c.a /\ d.toB = Tail(c.toB) /\ d.cut = c.cut /\ d.ready = c.ready
             /\ d.toA = IF c.cut \/ ~Open(c.a) THEN c.toA ELSE c.toA \o reply
<1> DEFINE x == [c EXCEPT !.b = end, !.toB = Tail(@)]
<1>1. Tail(c.toB) \in Seq(Words)
  BY Hearing DEF Connection
<1>2. x \in Connection
  BY <1>1 DEF Connection
<1>3. x.b = end /\ x.a = c.a /\ x.toB = Tail(c.toB) /\ x.cut = c.cut /\ x.ready = c.ready /\ x.toA = c.toA
  BY DEF Connection
<1>4. AnsweredWith(c, end, reply) = ToA(x, reply)
  BY DEF AnsweredWith
<1> HIDE DEF x
<1>5. /\ ToA(x, reply) \in Connection
      /\ ToA(x, reply) = [x EXCEPT !.toA = IF x.cut \/ ~Open(x.a) THEN x.toA ELSE x.toA \o reply]
  BY <1>2, ToAFields
<1> QED
  BY <1>2, <1>3, <1>4, <1>5 DEF Connection

LEMMA HeardBAnswers ==
  ASSUME NEW l \in Layers, NEW c \in Connection, c.toB # <<>>
  PROVE  LET r == HearsB(l, c.b, c.toB[1])
         IN  /\ r \in Answer
             /\ HeardB(l, c) = AnsweredWith(c, r.end, IF c.b.state = "ending" THEN <<>> ELSE r.reply)
<1>1. Head(c.toB) = c.toB[1] /\ c.toB[1] \in Words /\ c.b \in Ends
  BY Hearing DEF Connection
<1> QED
  BY <1>1, AnswerBType DEF HeardB, AnsweredWith

LEMMA RefusedBAnswers ==
  ASSUME NEW c \in Connection, c.toB # <<>>, c.toB[1].kind = "segment"
  PROVE  /\ Refusal(c.b, c.toB[1]) \in Answer
         /\ RefusedB(c) = AnsweredWith(c, Refusal(c.b, c.toB[1]).end, Refusal(c.b, c.toB[1]).reply)
<1>1. Head(c.toB) = c.toB[1] /\ c.toB[1] \in Words /\ c.b \in Ends
  BY Hearing DEF Connection
<1> QED
  BY <1>1, RefusalFields DEF RefusedB, AnsweredWith

\* B answers a segment with one word about the transfer.
LEMMA SegmentAnswered ==
  ASSUME NEW l \in Layers, NEW c \in Connection, c.toB # <<>>, c.toB[1].kind = "segment",
         c.b.state = "established"
  PROVE  LET r == Segment(l, c.b, c.toB[1])
         IN  /\ HearsB(l, c.b, c.toB[1]) = r
             /\ r.end.state = "established"
             /\ \A i \in DOMAIN r.reply : r.reply[i].kind \in {"ack", "reject"}
<1>1. c.toB[1] \in Words /\ c.b \in Ends
  BY Hearing DEF Connection
<1>2. HearsB(l, c.b, c.toB[1]) = Segment(l, c.b, c.toB[1])
  BY <1>1, Dispatch
<1>3. Segment(l, c.b, c.toB[1]).end.state = "established"
  BY <1>1, SegmentKeepsState
<1>4. \A i \in DOMAIN Segment(l, c.b, c.toB[1]).reply :
        Segment(l, c.b, c.toB[1]).reply[i].kind \in {"ack", "reject"}
  BY DEF Segment, Nothing, Word
<1> QED
  BY <1>2, <1>3, <1>4

\* Once the ends have greeted each other B only answers segments.
LEMMA GreetingAnswered ==
  ASSUME NEW l, NEW c \in Connection, c.toB # <<>>, Greeting(l, c),
         c.a.state \in {"established", "ending"},
         NEW end \in Ends, NEW reply \in Seq(Words), end.state = "established",
         \A i \in DOMAIN reply : reply[i].kind \in {"ack", "refuse", "reject"}
  PROVE  Greeting(l, AnsweredWith(c, end, reply))
<1> DEFINE d == AnsweredWith(c, end, reply)
<1>1. /\ d.b = end /\ d.a = c.a /\ d.toB = Tail(c.toB)
      /\ d.toA = IF c.cut \/ ~Open(c.a) THEN c.toA ELSE c.toA \o reply
  BY AnsweredFields
<1> HIDE DEF d
<1>2. c.b.state = "established" /\ Open(c.b)
  BY DEF Greeting, Open
<1>3. /\ \A i \in DOMAIN c.toA : c.toA[i].kind \in {"ack", "refuse", "reject", "term"} /\ c.toA[i].kind # "term"
      /\ \A i \in DOMAIN c.toB : c.toB[i].kind = "segment"
  BY <1>2 DEF Greeting
<1>4. \A i \in DOMAIN d.toB : d.toB[i].kind = "segment"
  <2>1. \A i \in DOMAIN Tail(c.toB) : i + 1 \in DOMAIN c.toB /\ Tail(c.toB)[i] = c.toB[i + 1]
    BY Hearing DEF Connection
  <2> QED
    BY <1>1, <1>3, <2>1
<1>5. \A i \in DOMAIN d.toA : d.toA[i].kind \in {"ack", "refuse", "reject"}
  <2>1. CASE d.toA = c.toA
    BY <1>3, <2>1
  <2>2. CASE d.toA = c.toA \o reply
    <3>1. c.toA \in Seq(Words)
      BY DEF Connection
    <3>2. /\ Len(c.toA) \in Nat /\ Len(reply) \in Nat
          /\ DOMAIN c.toA = 1 .. Len(c.toA) /\ DOMAIN reply = 1 .. Len(reply)
          /\ DOMAIN d.toA = 1 .. (Len(c.toA) + Len(reply))
          /\ \A i \in DOMAIN c.toA : d.toA[i] = c.toA[i]
          /\ \A i \in DOMAIN d.toA : i > Len(c.toA) => d.toA[i] = reply[i - Len(c.toA)]
      BY <2>2, <3>1, Writing, LenProperties
    <3>3. \A i \in DOMAIN d.toA : i \in DOMAIN c.toA \/ (i > Len(c.toA) /\ i - Len(c.toA) \in DOMAIN reply)
      BY <3>2
    <3> QED
      BY <1>3, <3>2, <3>3
  <2> QED
    BY <1>1, <2>1, <2>2
<1>6. Greeting(l, d)
  BY <1>1, <1>4, <1>5 DEF Greeting, Open
<1> QED
  BY <1>6 DEF d

LEMMA GreetingHeardB ==
  ASSUME NEW l \in Layers, NEW c \in Connection, c.toB # <<>>, Greeting(l, c)
  PROVE  LET d == HeardB(l, c)
         IN  d \in Connection /\ d.a = c.a /\ Greeting(l, d) /\ (Quiet(c) => Quiet(d))
<1> DEFINE m == c.toB[1]
           r == HearsB(l, c.b, m)
           said == IF c.b.state = "ending" THEN <<>> ELSE r.reply
           d == HeardB(l, c)
<1>1. r \in Answer /\ d = AnsweredWith(c, r.end, said)
  BY HeardBAnswers
<1>2. said \in Seq(Words) /\ r.end \in Ends
  <2>1. <<>> \in Seq(Words)
    OBVIOUS
  <2> HIDE DEF r
  <2> QED
    BY <1>1, <2>1 DEF Answer
<1>3. /\ d \in Connection
      /\ d.b = r.end /\ d.a = c.a /\ d.toB = Tail(c.toB) /\ d.cut = c.cut
      /\ d.toA = IF c.cut \/ ~Open(c.a) THEN c.toA ELSE c.toA \o said
  <2> HIDE DEF r, said, d
  <2> QED
    BY <1>1, <1>2, AnsweredFields
<1>4. m \in Words /\ c.b \in Ends /\ c.a \in Ends /\ c.toA \in Seq(Words)
  BY Hearing DEF Connection
<1>5. Open(c.b) /\ Open(d.b)
  <2>1. Open(c.b)
    BY DEF Greeting
  <2> QED
    BY <1>3, <1>4, <2>1, StaysOpen
<1>6. c.a.state # "none"
  BY <1>5 DEF Greeting, Open
<1>7. c.a.state \in {"contact", "init", "established", "ending", "closed"}
  BY <1>4, <1>6 DEF Ends
<1>8. l.version \in {3, 4} /\ DOMAIN <<>> = {} /\ Word("contact") # <<>> /\ Word("init") # <<>>
  BY LayerType DEF Word
<1>9. \A i \in DOMAIN c.toA : c.toA[i].kind # "term"
  BY <1>5 DEF Greeting
<1>10. CASE c.a.state = "closed"
  <2>1. c.toA = <<>> /\ d.toA = <<>>
    BY <1>3, <1>10 DEF Greeting, Open
  <2> HIDE DEF d
  <2>9. Greeting(l, d)
    BY <1>3, <1>5, <1>8, <1>10, <2>1 DEF Greeting, Open
  <2>10. Quiet(d)
    BY <1>3, <1>10 DEF Quiet
  <2>11. d \in Connection /\ d.a = c.a
    BY <1>3
  <2> QED
    BY <2>9, <2>10, <2>11 DEF d
<1>11. CASE c.a.state = "contact"
  <2>1. c.toB = Word("contact") /\ c.b.state = "contact" /\ c.toA = <<>>
    BY <1>11 DEF Greeting
  <2>2. m.kind = "contact" /\ Tail(c.toB) = <<>>
    BY <2>1 DEF Word
  <2>3. r = GreetsB(l, c.b)
    BY <1>4, <2>2, Dispatch
  <2>4. r.end.state = (IF l.version = 4 THEN "init" ELSE "established") /\ r.reply = Word("contact")
    BY <1>4, <2>3, GreetsBFields
  <2>5. d.toA \in {<<>>, Word("contact")}
    <3>1. said = Word("contact")
      BY <2>1, <2>4
    <3>2. <<>> \o said = said
      BY <1>2
    <3> HIDE DEF said, d, r, m
    <3> QED
      BY <1>3, <2>1, <3>1, <3>2
  <2>6. \A i \in DOMAIN Word("contact") : Word("contact")[i].kind # "term"
    BY DEF Word
  <2>7. \A i \in DOMAIN d.toA : d.toA[i].kind # "term"
    BY <1>8, <2>5, <2>6
  <2>8. d.toB = <<>> /\ d.b.state = (IF l.version = 4 THEN "init" ELSE "established")
    BY <1>3, <2>2, <2>4
  <2> HIDE DEF d, r, m
  <2>9. Greeting(l, d)
    BY <1>3, <1>5, <1>8, <1>11, <2>5, <2>7, <2>8 DEF Greeting, Open
  <2>10. Quiet(d)
    BY <1>3, <1>11 DEF Quiet
  <2> QED
    BY <1>3, <2>9, <2>10 DEF d
<1>12. CASE c.a.state = "init"
  <2>1. c.toB = Word("init") /\ c.b.state = "init" /\ c.toA = <<>> /\ l.version = 4
    BY <1>12 DEF Greeting
  <2>2. m.kind = "init" /\ Tail(c.toB) = <<>>
    BY <2>1 DEF Word
  <2>3. r = StartsB(c.b)
    BY <1>4, <2>2, Dispatch
  <2>4. r.end.state = "established" /\ r.reply = Word("init")
    BY <1>4, <2>1, <2>3, StartsBFields
  <2>5. d.toA \in {<<>>, Word("init")} /\ (~d.cut => d.toA = Word("init"))
    <3>1. said = Word("init")
      BY <2>1, <2>4
    <3>2. <<>> \o said = said
      BY <1>2
    <3> HIDE DEF said, d, r, m
    <3> QED
      BY <1>3, <1>12, <2>1, <3>1, <3>2 DEF Open
  <2>6. DOMAIN Word("init") = {1} /\ Word("init")[1].kind = "init"
    BY DEF Word
  <2>7. /\ \A i \in DOMAIN d.toA : i = 1 /\ d.toA[i].kind = "init"
        /\ d.toA # <<>> => d.toA[1].kind = "init"
    BY <1>8, <2>5, <2>6
  <2>8. d.toB = <<>> /\ d.b.state = "established"
    BY <1>3, <2>2, <2>4
  <2> HIDE DEF d, r, m
  <2>9. Greeting(l, d)
    BY <1>3, <1>5, <1>8, <1>12, <2>1, <2>5, <2>7, <2>8 DEF Greeting, Open
  <2>10. Quiet(d)
    BY <1>3, <1>12 DEF Quiet
  <2> QED
    BY <1>3, <2>9, <2>10 DEF d
<1>13. CASE c.a.state \in {"established", "ending"}
  <2>1. c.b.state = "established" /\ m.kind = "segment"
    <3>1. 1 \in DOMAIN c.toB
      BY Hearing DEF Connection
    <3> QED
      BY <1>5, <1>13, <3>1 DEF Greeting, Open
  <2>2. r.end.state = "established" /\ said = r.reply /\ \A i \in DOMAIN r.reply : r.reply[i].kind \in {"ack", "reject"}
    BY <2>1, SegmentAnswered
  <2>3. Greeting(l, d)
    <3> HIDE DEF r, m
    <3> QED
      BY <1>1, <1>2, <1>13, <2>2, GreetingAnswered
  <2>4. Quiet(c) => Quiet(d)
    <3> HIDE DEF d, r, m
    <3> QED
      BY <1>3, <1>13 DEF Quiet
  <2> QED
    BY <1>3, <2>3, <2>4
<1> QED
  BY <1>7, <1>10, <1>11, <1>12, <1>13

\* An answer to the first segment that acknowledges no more than it leaves the
\* transfer in order.
LEMMA TransferAnswered ==
  ASSUME NEW c \in Connection, c.toB # <<>>, NEW id, NEW b, Under(c, id, b),
         NEW end \in Ends, NEW reply \in Seq(Words), Len(reply) <= 1,
         \A i \in DOMAIN reply : reply[i].kind = "ack" => reply[i].id = id /\ reply[i].got = c.toB[1].n,
         end.rx # None /\ c.toB[1].n < Segments => end.rx.id = id /\ end.rx.got = c.toB[1].n
  PROVE  LET d == AnsweredWith(c, end, reply)
         IN  /\ Under(d, id, b)
             /\ c.toB[1].n = Segments => d.toB = <<>>
             /\ Finished(d) => Finished(c) \/ (c.toB[1].n = Segments /\ \E i \in DOMAIN reply : reply[i].kind = "ack")
<1> DEFINE d == AnsweredWith(c, end, reply)
           n == c.toB[1].n
<1>1. /\ d.b = end /\ d.a = c.a /\ d.toB = Tail(c.toB)
      /\ d.toA = IF c.cut \/ ~Open(c.a) THEN c.toA ELSE c.toA \o reply
  BY AnsweredFields
<1> HIDE DEF d
<1>2. /\ DOMAIN Tail(c.toB) = 1 .. (Len(c.toB) - 1) /\ DOMAIN c.toB = 1 .. Len(c.toB)
      /\ Len(c.toB) \in Nat /\ Len(c.toB) >= 1
      /\ \A i \in DOMAIN Tail(c.toB) : i + 1 \in DOMAIN c.toB /\ Tail(c.toB)[i] = c.toB[i + 1]
      /\ Tail(c.toB) = <<>> <=> Len(c.toB) = 1
  BY Hearing DEF Connection
<1>3. \A i \in DOMAIN c.toB : /\ c.toB[i].kind = "segment" /\ c.toB[i].id = id /\ c.toB[i].bundle = b
                              /\ c.toB[i].n = n + i - 1 /\ c.toB[i].n \in 1 .. Segments
  <2>1. \A i \in DOMAIN c.toB : c.toB[i].kind = "segment" /\ c.toB[i] \in Words
    BY DEF Under, Connection
  <2>2. \A i \in DOMAIN c.toB : c.toB[i].n \in 1 .. Segments
    BY <2>1, Kinds DEF SegmentWord
  <2> QED
    BY <2>2 DEF Under
<1>4. n \in 1 .. Segments /\ Segments \in Nat
  BY <1>2, <1>3, Apart
<1>5. n = Segments => d.toB = <<>>
  <2>1. ASSUME n = Segments, Len(c.toB) # 1 PROVE FALSE
    <3>1. 2 \in DOMAIN c.toB
      BY <1>2, <2>1
    <3>2. c.toB[2].n = n + 2 - 1 /\ c.toB[2].n \in 1 .. Segments
      BY <1>3, <3>1
    <3> QED
      BY <1>4, <2>1, <3>2
  <2> QED
    BY <1>1, <1>2, <2>1
<1>6. \A i \in DOMAIN d.toB : /\ i + 1 \in DOMAIN c.toB /\ d.toB[i] = c.toB[i + 1]
                              /\ d.toB[i].n = n + i
  <2> SUFFICES ASSUME NEW i \in DOMAIN d.toB
               PROVE  i + 1 \in DOMAIN c.toB /\ d.toB[i] = c.toB[i + 1] /\ d.toB[i].n = n + i
    OBVIOUS
  <2>1. i + 1 \in DOMAIN c.toB /\ d.toB[i] = c.toB[i + 1] /\ i \in Nat
    BY <1>1, <1>2
  <2>2. c.toB[i + 1].n = n + (i + 1) - 1
    BY <1>3, <2>1
  <2> QED
    BY <1>4, <2>1, <2>2
<1>7. d.toB # <<>> => 1 \in DOMAIN d.toB /\ d.toB[1].n = n + 1 /\ n < Segments
  <2>1. d.toB # <<>> => 1 \in DOMAIN d.toB
    BY <1>1, <1>2
  <2> QED
    BY <1>4, <1>5, <1>6, <2>1
<1>8. \A i \in DOMAIN d.toB : /\ d.toB[i].kind = "segment" /\ d.toB[i].id = id /\ d.toB[i].bundle = b
                              /\ d.toB[i].n = d.toB[1].n + i - 1
  <2> SUFFICES ASSUME NEW i \in DOMAIN d.toB
               PROVE  /\ d.toB[i].kind = "segment" /\ d.toB[i].id = id /\ d.toB[i].bundle = b
                      /\ d.toB[i].n = d.toB[1].n + i - 1
    OBVIOUS
  <2>1. d.toB # <<>> /\ i \in Nat
    BY <1>1, <1>2
  <2>2. d.toB[i].n = n + i /\ d.toB[1].n = n + 1
    BY <1>6, <1>7, <2>1
  <2>3. d.toB[i].kind = "segment" /\ d.toB[i].id = id /\ d.toB[i].bundle = b
    BY <1>3, <1>6
  <2>4. n \in Nat
    BY <1>4
  <2> HIDE DEF n
  <2>5. n + i = n + 1 + i - 1
    BY <2>1, <2>4
  <2> QED
    BY <2>2, <2>3, <2>5
<1>9. d.toB # <<>> /\ d.b.rx # None /\ d.toB[1].n > 1 => d.b.rx.id = id /\ d.b.rx.got + 1 = d.toB[1].n
  BY <1>1, <1>4, <1>7
\* Old acknowledgements are of earlier segments, the new one is of this.
<1>10. \A i \in DOMAIN c.toA : c.toA[i].kind = "ack" =>
         /\ c.toA[i].id = id /\ c.toA[i].got < n
         /\ \A j \in DOMAIN c.toA : j < i /\ c.toA[j].kind = "ack" => c.toA[j].got < c.toA[i].got
  BY DEF Under
<1>11. \A i \in DOMAIN d.toA :
         \/ i \in DOMAIN c.toA /\ d.toA[i] = c.toA[i]
         \/ /\ \A j \in DOMAIN c.toA : j < i
            /\ \A j \in DOMAIN d.toA : j < i => j \in DOMAIN c.toA
            /\ 1 \in DOMAIN reply /\ d.toA[i] = reply[1]
  <2>1. CASE d.toA = c.toA
    BY <2>1
  <2>2. CASE d.toA = c.toA \o reply
    <3>1. c.toA \in Seq(Words)
      BY DEF Connection
    <3>2. /\ Len(c.toA) \in Nat /\ Len(reply) \in Nat
          /\ DOMAIN c.toA = 1 .. Len(c.toA) /\ DOMAIN reply = 1 .. Len(reply)
          /\ DOMAIN d.toA = 1 .. (Len(c.toA) + Len(reply))
          /\ \A i \in DOMAIN c.toA : d.toA[i] = c.toA[i]
          /\ \A i \in DOMAIN d.toA : i > Len(c.toA) => d.toA[i] = reply[i - Len(c.toA)]
      BY <2>2, <3>1, Writing, LenProperties
    <3> QED
      BY <3>2
  <2> QED
    BY <1>1, <2>1, <2>2
<1>12. \A i \in DOMAIN d.toA : d.toA[i].kind = "ack" =>
         /\ d.toA[i].id = id /\ d.toA[i].got <= n
         /\ \A j \in DOMAIN d.toA : j < i /\ d.toA[j].kind = "ack" => d.toA[j].got < d.toA[i].got
  <2> SUFFICES ASSUME NEW i \in DOMAIN d.toA, d.toA[i].kind = "ack"
               PROVE  /\ d.toA[i].id = id /\ d.toA[i].got <= n
                      /\ \A j \in DOMAIN d.toA : j < i /\ d.toA[j].kind = "ack" => d.toA[j].got < d.toA[i].got
    OBVIOUS
  <2>0. \A j \in DOMAIN c.toA : c.toA[j].kind = "ack" => c.toA[j].got \in Nat
    BY Kinds DEF Connection, AckWord
  <2>1. CASE i \in DOMAIN c.toA /\ d.toA[i] = c.toA[i]
    <3>1. c.toA[i].id = id /\ c.toA[i].got < n /\ c.toA[i].got \in Nat
      BY <1>10, <2>0, <2>1
    <3>2. ASSUME NEW j \in DOMAIN d.toA, j < i, d.toA[j].kind = "ack" PROVE d.toA[j].got < d.toA[i].got
      <4>1. j \in DOMAIN c.toA /\ d.toA[j] = c.toA[j]
        <5>1. i \in Nat /\ j \in Nat
          BY <1>1, <2>1, AnsweredFields DEF d, Connection
        <5> QED
          BY <1>11, <2>1, <3>2, <5>1
      <4> QED
        BY <1>10, <2>1, <3>2, <4>1
    <3> QED
      BY <1>4, <2>1, <3>1, <3>2
  <2>2. CASE /\ \A j \in DOMAIN c.toA : j < i
             /\ \A j \in DOMAIN d.toA : j < i => j \in DOMAIN c.toA
             /\ 1 \in DOMAIN reply /\ d.toA[i] = reply[1]
    <3>1. d.toA[i].id = id /\ d.toA[i].got = n
      BY <2>2
    <3>2. ASSUME NEW j \in DOMAIN d.toA, j < i, d.toA[j].kind = "ack" PROVE d.toA[j].got < d.toA[i].got
      <4>1. j \in DOMAIN c.toA
        BY <2>2, <3>2
      <4>2. d.toA[j] = c.toA[j] \/ (\A k \in DOMAIN c.toA : k < j)
        BY <1>11
      <4>3. j \in Nat
        BY <4>1 DEF Connection
      <4> QED
        BY <1>10, <3>1, <3>2, <4>1, <4>2, <4>3
    <3> QED
      BY <1>4, <3>1, <3>2
  <2> QED
    BY <1>11, <2>1, <2>2
<1>13. \A i \in DOMAIN d.toA : d.toA[i].kind = "ack" => d.toA[i].got \in Nat
  <2>1. d \in Connection
    BY AnsweredFields DEF d
  <2> QED
    BY <2>1, Kinds DEF Connection, AckWord
<1>14. Under(d, id, b)
  <2>1. \A i \in DOMAIN d.toA : d.toA[i].kind = "ack" =>
          /\ d.toA[i].id = id /\ d.toA[i].got <= Segments
          /\ d.toB # <<>> => d.toA[i].got < d.toB[1].n
          /\ \A j \in DOMAIN d.toA : j < i /\ d.toA[j].kind = "ack" => d.toA[j].got < d.toA[i].got
    <3> SUFFICES ASSUME NEW i \in DOMAIN d.toA, d.toA[i].kind = "ack"
                 PROVE  /\ d.toA[i].got <= Segments
                        /\ d.toB # <<>> => d.toA[i].got < d.toB[1].n
      BY <1>12
    <3>1. d.toA[i].got <= n /\ d.toA[i].got \in Nat
      BY <1>12, <1>13
    <3> QED
      BY <1>4, <1>7, <3>1
  <2> QED
    BY <1>8, <1>9, <2>1 DEF Under
<1>15. ASSUME Finished(d), ~Finished(c)
       PROVE  n = Segments /\ \E i \in DOMAIN reply : reply[i].kind = "ack"
  <2>1. PICK i \in DOMAIN d.toA : d.toA[i].kind = "ack" /\ d.toA[i].got = Segments
    BY <1>15 DEF Finished
  <2>2. ~(i \in DOMAIN c.toA /\ d.toA[i] = c.toA[i])
    BY <1>15, <2>1 DEF Finished
  <2> QED
    BY <1>4, <1>11, <2>1, <2>2
<1> QED
  BY <1>5, <1>14, <1>15 DEF d

\* B acknowledges a segment of the transfer, or rejects it; it has the bundle
\* when it acknowledges the last.
LEMMA TransferHeardB ==
  ASSUME NEW l \in Layers, NEW c \in Connection, c.toB # <<>>, Greeting(l, c),
         c.a.state \in {"established", "ending"},
         NEW id, NEW b \in Bundles, Under(c, id, b)
  PROVE  LET r == HearsB(l, c.b, c.toB[1])
             d == HeardB(l, c)
         IN  /\ Under(d, id, b)
             /\ r.bundle # None => d.toB = <<>>
             /\ Finished(d) => Finished(c) \/ r.bundle = b
<1> DEFINE m == c.toB[1]
           r == HearsB(l, c.b, m)
           d == HeardB(l, c)
           rx == IF m.n = 1 THEN [id |-> m.id, got |-> 0] ELSE c.b.rx
           known == rx # None /\ rx.id = m.id
<1>1. m \in Words /\ c.b \in Ends /\ 1 \in DOMAIN c.toB
  BY Hearing DEF Connection
<1>2. m.kind = "segment" /\ m.id = id /\ m.bundle = b
  BY <1>1 DEF Under
<1>3. m \in SegmentWord /\ m.n \in 1 .. Segments /\ id \in Nat /\ Segments \in Nat
  BY <1>1, <1>2, Kinds, Apart DEF SegmentWord
<1>4. c.b.state = "established"
  BY DEF Greeting, Open
<1>5. r = Segment(l, c.b, m) /\ r \in Answer
  BY <1>1, <1>2, Dispatch, AnswerBType
<1>6. d = AnsweredWith(c, r.end, r.reply)
  BY <1>4, HeardBAnswers
<1>7. r.end \in Ends /\ r.reply \in Seq(Words)
  BY <1>5 DEF Answer
<1>8. rx \in [id : Nat, got : Nat] \cup {None}
  BY <1>1, <1>2, <1>3 DEF Ends
<1>9. CASE known
  <2>1. rx \in [id : Nat, got : Nat] /\ rx.got + 1 = m.n
    <3>1. rx \in [id : Nat, got : Nat]
      BY <1>8, <1>9
    <3>2. CASE m.n = 1
      BY <3>1, <3>2
    <3>3. CASE m.n # 1
      <4>1. c.b.rx # None /\ m.n > 1
        BY <1>3, <1>9, <3>3
      <4> QED
        BY <3>1, <3>3, <4>1 DEF Under
    <3> QED
      BY <3>2, <3>3
  <2>2. r = [Nothing([c.b EXCEPT !.rx = IF m.n = Segments THEN None ELSE [rx EXCEPT !.got = @ + 1]]) EXCEPT
               !.reply = <<[kind |-> "ack", id |-> m.id, got |-> rx.got + 1]>>,
               !.bundle = IF m.n = Segments THEN m.bundle ELSE None]
    BY <1>4, <1>5, <1>9 DEF Segment
  <2> HIDE DEF rx, known, r, d, m
  <2>3. /\ r.end = [c.b EXCEPT !.rx = IF m.n = Segments THEN None ELSE [rx EXCEPT !.got = @ + 1]]
        /\ r.reply = <<[kind |-> "ack", id |-> m.id, got |-> m.n]>>
        /\ r.bundle = IF m.n = Segments THEN b ELSE None
    BY <1>2, <2>1, <2>2 DEF Nothing
  <2>4. r.end.rx # None /\ m.n < Segments => r.end.rx.id = id /\ r.end.rx.got = m.n
    <3>1. r.end.rx = IF m.n = Segments THEN None ELSE [rx EXCEPT !.got = @ + 1]
      BY <1>1, <2>3 DEF Ends
    <3>2. [rx EXCEPT !.got = @ + 1].id = rx.id /\ [rx EXCEPT !.got = @ + 1].got = m.n
      BY <2>1
    <3> QED
      BY <1>2, <1>3, <1>9, <3>1, <3>2 DEF known
  <2>5. /\ Len(r.reply) <= 1
        /\ \A i \in DOMAIN r.reply : r.reply[i].kind = "ack" => r.reply[i].id = id /\ r.reply[i].got = m.n
    BY <1>2, <2>3
  <2>6. /\ Under(d, id, b)
        /\ m.n = Segments => d.toB = <<>>
        /\ Finished(d) => Finished(c) \/ m.n = Segments
    BY <1>6, <1>7, <2>4, <2>5, TransferAnswered DEF m
  <2>7. /\ Under(d, id, b)
        /\ r.bundle # None => d.toB = <<>>
        /\ Finished(d) => Finished(c) \/ r.bundle = b
    BY <2>3, <2>6
  <2> QED
    BY <2>7 DEF d, r, m
<1>10. CASE ~known
  <2>1. r = [Nothing(c.b) EXCEPT !.reply = IF l.version = 4 THEN Word("reject") ELSE <<>>]
    BY <1>5, <1>10 DEF Segment
  <2> HIDE DEF r, d
  <2>2. r.end = c.b /\ r.reply \in {Word("reject"), <<>>} /\ r.bundle = None
    BY <2>1 DEF Nothing
  <2>3. c.b.rx # None /\ m.n < Segments => c.b.rx.id = id /\ c.b.rx.got = m.n
    <3>1. CASE m.n = 1
      <4>1. rx = [id |-> m.id, got |-> 0] /\ rx \in [id : Nat, got : Nat]
        BY <1>2, <1>3, <3>1
      <4> QED
        BY <1>10, <4>1, Apart
    <3>2. CASE m.n # 1
      <4>1. c.b.rx = None \/ c.b.rx.id # m.id
        BY <1>10, <3>2
      <4>2. c.b.rx # None => c.b.rx.id = id
        BY <1>3, <3>2 DEF Under
      <4> QED
        BY <1>2, <4>1, <4>2
    <3> QED
      BY <3>1, <3>2
  <2>4. Len(r.reply) <= 1 /\ \A i \in DOMAIN r.reply : r.reply[i].kind # "ack"
    <3>1. CASE r.reply = <<>>
      BY <3>1
    <3>2. CASE r.reply = Word("reject")
      BY <3>2 DEF Word
    <3> QED
      BY <2>2, <3>1, <3>2
  <2> HIDE DEF m
  <2>5. Under(d, id, b) /\ (Finished(d) => Finished(c))
    BY <1>6, <1>7, <2>2, <2>3, <2>4, TransferAnswered DEF m
  <2>6. /\ Under(d, id, b)
        /\ r.bundle # None => d.toB = <<>>
        /\ Finished(d) => Finished(c) \/ r.bundle = b
    BY <2>2, <2>5
  <2> QED
    BY <2>6 DEF d, r, m
<1> QED
  BY <1>9, <1>10

\* B forgets a transfer it refuses.
LEMMA TransferRefusedB ==
  ASSUME NEW l \in Layers, NEW c \in Connection, c.toB # <<>>, Greeting(l, c),
         c.toB[1].kind = "segment", c.b.state = "established"
  PROVE  LET d == RefusedB(c)
         IN  /\ d \in Connection /\ d.a = c.a /\ d.ready = c.ready
             /\ Greeting(l, d) /\ (Quiet(c) => Quiet(d))
             /\ \A id : \A b : Under(c, id, b) => Under(d, id, b) /\ (Finished(d) => Finished(c))
<1> DEFINE r == Refusal(c.b, c.toB[1])
           d == RefusedB(c)
<1>1. r \in Answer /\ d = AnsweredWith(c, r.end, r.reply)
  BY RefusedBAnswers
<1>2. c.toB[1] \in Words /\ c.b \in Ends /\ c.a \in Ends /\ 1 \in DOMAIN c.toB
  BY Hearing DEF Connection
<1>3. r.end.rx = None /\ r.end.state = c.b.state /\ r.reply = <<[kind |-> "refuse", id |-> c.toB[1].id]>>
  BY <1>2, RefusalFields
<1> HIDE DEF r, d
<1>4. r.end \in Ends /\ r.reply \in Seq(Words)
  BY <1>1 DEF Answer
<1>5. /\ d \in Connection
      /\ d.b = r.end /\ d.a = c.a /\ d.toB = Tail(c.toB) /\ d.cut = c.cut /\ d.ready = c.ready
      /\ d.toA = IF c.cut \/ ~Open(c.a) THEN c.toA ELSE c.toA \o r.reply
  BY <1>1, <1>4, AnsweredFields
<1>6. Len(r.reply) <= 1 /\ \A i \in DOMAIN r.reply : r.reply[i].kind = "refuse"
  BY <1>3
<1>7. c.a.state \in {"established", "ending", "closed"}
  <2>1. c.a.state # "contact" /\ c.a.state # "init"
    <3>1. Word("contact")[1].kind = "contact" /\ Word("init")[1].kind = "init"
      BY DEF Word
    <3> QED
      BY <3>1 DEF Greeting
  <2>2. c.a.state # "none"
    BY DEF Greeting
  <2> QED
    BY <1>2, <2>1, <2>2 DEF Ends
<1>8. Greeting(l, d)
  <2>1. CASE c.a.state \in {"established", "ending"}
    <3>1. r.end.state = "established" /\ \A i \in DOMAIN r.reply : r.reply[i].kind \in {"ack", "refuse", "reject"}
      BY <1>3, <1>6
    <3> QED
      BY <1>1, <1>4, <2>1, <3>1, GreetingAnswered
  <2>2. CASE c.a.state = "closed"
    <3>1. c.toA = <<>> /\ d.toA = <<>>
      BY <1>5, <2>2 DEF Greeting, Open
    <3>2. DOMAIN <<>> = {}
      OBVIOUS
    <3> QED
      BY <1>3, <1>5, <2>2, <3>1, <3>2 DEF Greeting, Open
  <2> QED
    BY <1>7, <2>1, <2>2
<1>9. Quiet(c) => Quiet(d)
  BY <1>5 DEF Quiet
<1>10. ASSUME NEW id, NEW b, Under(c, id, b) PROVE Under(d, id, b) /\ (Finished(d) => Finished(c))
  <2>1. \A i \in DOMAIN r.reply : r.reply[i].kind # "ack"
    BY <1>6
  <2> QED
    BY <1>1, <1>3, <1>4, <1>6, <1>10, <2>1, TransferAnswered
<1> QED
  BY <1>5, <1>8, <1>9, <1>10 DEF d

-----------------------------------------------------------------------------
(* A connection ends.                                                      *)

\* The connection after the network lost what was under way.
Broken(c, i, j) == [c EXCEPT !.cut = TRUE, !.toA = SubSeq(@, 1, i), !.toB = SubSeq(@, 1, j)]

LEMMA BrokenFields ==
  ASSUME NEW c \in Connection, NEW i \in 0 .. Len(c.toA), NEW j \in 0 .. Len(c.toB)
  PROVE  LET d == Broken(c, i, j)
         IN  /\ d \in Connection /\ d.a = c.a /\ d.b = c.b /\ d.ready = c.ready /\ d.cut = TRUE
             /\ DOMAIN d.toA \subseteq DOMAIN c.toA /\ \A x \in DOMAIN d.toA : d.toA[x] = c.toA[x]
             /\ DOMAIN d.toB \subseteq DOMAIN c.toB /\ \A x \in DOMAIN d.toB : d.toB[x] = c.toB[x]
             /\ d.toA = <<>> \/ (d.toA[1] = c.toA[1] /\ c.toA # <<>>)
             /\ d.toB = <<>> \/ (d.toB[1] = c.toB[1] /\ c.toB # <<>>)
             /\ Len(c.toA) = 1 => d.toA \in {<<>>, c.toA}
             /\ Len(c.toB) = 1 => d.toB \in {<<>>, c.toB}
<1>1. c.toA \in Seq(Words) /\ c.toB \in Seq(Words)
  BY DEF Connection
<1>2. SubSeq(c.toA, 1, i) \in Seq(Words) /\ SubSeq(c.toB, 1, j) \in Seq(Words)
  BY <1>1, Losing
<1>3. LET d == Broken(c, i, j)
      IN  /\ d \in Connection /\ d.a = c.a /\ d.b = c.b /\ d.ready = c.ready /\ d.cut = TRUE
          /\ d.toA = SubSeq(c.toA, 1, i) /\ d.toB = SubSeq(c.toB, 1, j)
  BY <1>2 DEF Broken, Connection
<1>4. ASSUME NEW s \in Seq(Words), NEW n \in 0 .. Len(s)
      PROVE  LET t == SubSeq(s, 1, n)
             IN  /\ DOMAIN t \subseteq DOMAIN s /\ \A x \in DOMAIN t : t[x] = s[x]
                 /\ t = <<>> \/ (t[1] = s[1] /\ s # <<>>)
                 /\ Len(s) = 1 => t \in {<<>>, s}
  <2> DEFINE t == SubSeq(s, 1, n)
  <2>1. t \in Seq(Words) /\ DOMAIN t = 1 .. n /\ \A x \in 1 .. n : x \in DOMAIN s /\ t[x] = s[x]
    BY Losing
  <2>2. t = <<>> <=> n = 0
    BY Losing
  <2>3. Len(s) \in Nat /\ DOMAIN s = 1 .. Len(s) /\ DOMAIN <<>> = {}
    BY LenProperties
  <2> HIDE DEF t
  <2>4. n # 0 => 1 \in 1 .. n
    BY <2>3
  <2>5. Len(s) = 1 => t \in {<<>>, s}
    <3>1. CASE n = 0
      BY <2>2, <3>1
    <3>2. CASE n = 1 /\ Len(s) = 1
      <4>1. Len(t) = 1 /\ Len(s) = 1 /\ t[1] = s[1]
        BY <2>1, <3>2, LenProperties
      <4>2. t = s
        BY <2>1, <4>1, SeqEqual
      <4> QED
        BY <4>2
    <3> QED
      BY <3>1, <3>2
  <2>6. /\ DOMAIN t \subseteq DOMAIN s /\ \A x \in DOMAIN t : t[x] = s[x]
        /\ t = <<>> \/ (t[1] = s[1] /\ s # <<>>)
    BY <2>1, <2>2, <2>3, <2>4
  <2> QED
    BY <2>5, <2>6 DEF t
<1> QED
  BY <1>1, <1>3, <1>4, SMTT(60)

LEMMA GreetingBroken ==
  ASSUME NEW l, NEW c \in Connection, Greeting(l, c),
         NEW i \in 0 .. Len(c.toA), NEW j \in 0 .. Len(c.toB)
  PROVE  LET d == Broken(c, i, j)
         IN  /\ Greeting(l, d) /\ (Quiet(c) => Quiet(d))
             /\ \A id : \A b : Under(c, id, b) => Under(d, id, b)
             /\ Finished(d) => Finished(c)
             /\ c.toB = <<>> => d.toB = <<>>
<1> DEFINE d == Broken(c, i, j)
<1>1. /\ d \in Connection /\ d.a = c.a /\ d.b = c.b /\ d.ready = c.ready /\ d.cut = TRUE
      /\ DOMAIN d.toA \subseteq DOMAIN c.toA /\ \A x \in DOMAIN d.toA : d.toA[x] = c.toA[x]
      /\ DOMAIN d.toB \subseteq DOMAIN c.toB /\ \A x \in DOMAIN d.toB : d.toB[x] = c.toB[x]
      /\ d.toA = <<>> \/ (d.toA[1] = c.toA[1] /\ c.toA # <<>>)
      /\ d.toB = <<>> \/ (d.toB[1] = c.toB[1] /\ c.toB # <<>>)
      /\ Len(c.toA) = 1 => d.toA \in {<<>>, c.toA}
      /\ Len(c.toB) = 1 => d.toB \in {<<>>, c.toB}
  BY BrokenFields
<1>2. c.toA = <<>> => d.toA = <<>>
  BY <1>1
<1>3. c.toB = <<>> => d.toB = <<>>
  BY <1>1
<1>4. \A kind : c.toA = Word(kind) => d.toA \in {<<>>, c.toA}
  BY <1>1 DEF Word
<1>5. \A kind : c.toB = Word(kind) => d.toB \in {<<>>, c.toB}
  BY <1>1 DEF Word
<1> HIDE DEF d
<1>6. Greeting(l, d)
  <2>1. c.a.state = "contact" => /\ d.toB \in {<<>>, Word("contact")} /\ d.toA \in {<<>>, Word("contact")}
                                 /\ d.toB # <<>> => c.toB # <<>>
                                 /\ d.toA # <<>> => c.toA # <<>>
    BY <1>2, <1>3, <1>4, <1>5 DEF Greeting
  <2>2. c.a.state = "init" => /\ d.toB \in {<<>>, Word("init")}
                              /\ d.toB # <<>> => c.toB # <<>>
                              /\ d.toA # <<>> => c.toA # <<>> /\ d.toA[1] = c.toA[1]
    BY <1>1, <1>2, <1>3, <1>5 DEF Greeting
  <2>3. c.a.state = "contact" => Greeting(l, d)
    BY <1>1, <1>2, <1>3, <2>1 DEF Greeting, Open
  <2>4. c.a.state = "init" => Greeting(l, d)
    BY <1>1, <1>2, <1>3, <2>2 DEF Greeting, Open
  <2>5. c.a.state \notin {"contact", "init"} => Greeting(l, d)
    BY <1>1, <1>2, <1>3 DEF Greeting, Open
  <2> QED
    BY <2>3, <2>4, <2>5
<1>7. Quiet(c) => Quiet(d)
  BY <1>1, <1>3 DEF Quiet, NoAcks
<1>8. ASSUME NEW id, NEW b, Under(c, id, b) PROVE Under(d, id, b)
  BY <1>1, <1>8, SMTT(60) DEF Under
<1>9. Finished(d) => Finished(c)
  BY <1>1 DEF Finished
<1> QED
  BY <1>3, <1>6, <1>7, <1>8, <1>9 DEF d

\* B's end is gone: nothing can reach it any more.
LEMMA GreetingShutB ==
  ASSUME NEW l, NEW c \in Connection, Greeting(l, c)
  PROVE  LET d == ShutB(c)
         IN  /\ Greeting(l, d) /\ (Quiet(c) => Quiet(d))
             /\ \A id : \A b : Under(c, id, b) => Under(d, id, b)
             /\ Finished(d) => Finished(c)
             /\ d.toB = <<>>
<1> DEFINE d == ShutB(c)
<1>1. /\ d \in Connection /\ ~Open(d.b) /\ d.a = c.a /\ d.toA = c.toA /\ d.cut = c.cut
      /\ Open(c.b) => d.toB = <<>> /\ d.b.state = "closed"
      /\ ~Open(c.b) => d = c
  BY ShutFields
<1> HIDE DEF d
<1>2. Finished(d) => Finished(c)
  BY <1>1 DEF Finished
<1>3. CASE ~Open(c.b)
  <2>1. d = c /\ c.toB = <<>>
    BY <1>1, <1>3 DEF Greeting
  <2> QED
    BY <1>2, <2>1 DEF d
<1>4. CASE Open(c.b)
  <2>1. d.toB = <<>> /\ DOMAIN d.toB = {} /\ d.b.state = "closed"
    BY <1>1, <1>4
  <2>2. c.a.state # "none"
    BY <1>4 DEF Greeting, Open
  <2>3. Greeting(l, d)
    BY <1>1, <2>1, <2>2 DEF Greeting, Open
  <2>4. Quiet(c) => Quiet(d)
    BY <1>1, <2>1 DEF Quiet
  <2>5. ASSUME NEW id, NEW b, Under(c, id, b) PROVE Under(d, id, b)
    BY <1>1, <2>1, <2>5 DEF Under
  <2> QED
    BY <1>2, <2>1, <2>3, <2>4, <2>5 DEF d
<1> QED
  BY <1>3, <1>4

\* A's end is gone: nothing is said about the rest.
LEMMA GreetingShutA ==
  ASSUME NEW l, NEW c \in Connection, ~Open(c.b) => c.toB = <<>>, Greeting(l, c) \/ Open(c.a)
  PROVE  LET d == ShutA(c)
         IN  Greeting(l, d) /\ (Quiet(c) => Quiet(d)) /\ ~Open(d.a)
<1> DEFINE d == ShutA(c)
<1>1. /\ d \in Connection /\ ~Open(d.a) /\ d.b = c.b /\ d.toB = c.toB
      /\ Open(c.a) => d.toA = <<>> /\ d.a.state = "closed"
      /\ ~Open(c.a) => d = c
  BY ShutFields
<1> HIDE DEF d
<1>2. DOMAIN <<>> = {}
  OBVIOUS
<1>3. CASE Open(c.a)
  <2>1. Greeting(l, d)
    BY <1>1, <1>2, <1>3 DEF Greeting, Open
  <2>2. Quiet(d)
    BY <1>1, <1>3 DEF Quiet
  <2> QED
    BY <1>1, <2>1, <2>2 DEF d
<1>4. CASE ~Open(c.a)
  <2>1. d = c
    BY <1>1, <1>4
  <2> QED
    BY <1>1, <1>4, <2>1 DEF d
<1> QED
  BY <1>3, <1>4

\* B says a last word, if it says one, and is gone.
LEMMA GreetingFarewellB ==
  ASSUME NEW l \in Layers, NEW c \in Connection, Greeting(l, c),
         c.b.state \in {"established", "ending"},
         NEW words \in Seq(Words), Len(words) <= 1, l.version = 3 => words = <<>>,
         \A i \in DOMAIN words : words[i].kind = "term"
  PROVE  LET d == ShutB(ToA(c, words))
         IN  /\ d \in Connection /\ d.a = c.a /\ d.ready = c.ready
             /\ Greeting(l, d) /\ (Quiet(c) => Quiet(d))
             /\ \A id : \A b : Under(c, id, b) => Under(d, id, b)
             /\ Finished(d) => Finished(c)
             /\ d.toB = <<>>
<1> DEFINE x == ToA(c, words)
           d == ShutB(x)
<1>1. /\ x \in Connection /\ x.a = c.a /\ x.b = c.b /\ x.cut = c.cut /\ x.ready = c.ready
      /\ x.toA = IF c.cut \/ ~Open(c.a) THEN c.toA ELSE c.toA \o words
  BY ToAFields
<1> HIDE DEF x
<1>2. /\ d \in Connection /\ ~Open(d.b) /\ d.a = c.a /\ d.toA = x.toA /\ d.cut = c.cut /\ d.ready = c.ready
      /\ d.toB = <<>> /\ d.b.state = "closed"
  BY <1>1, ShutFields DEF Open
<1> HIDE DEF d
<1>3. c.toA \in Seq(Words) /\ c.a.state \in {"none", "contact", "init", "established", "ending", "closed"}
  BY DEF Connection, Ends
<1>4. /\ \A i \in DOMAIN c.toA : i \in Nat /\ i >= 1
      /\ DOMAIN c.toA = 1 .. Len(c.toA) /\ Len(c.toA) \in Nat
  BY <1>3, LenProperties
<1>5. \A i \in DOMAIN d.toA : \/ i \in DOMAIN c.toA /\ d.toA[i] = c.toA[i]
                              \/ d.toA[i].kind = "term" /\ i = Len(c.toA) + 1
  <2>1. CASE d.toA = c.toA
    BY <2>1
  <2>2. CASE d.toA = c.toA \o words
    <3>1. /\ Len(words) \in Nat /\ DOMAIN words = 1 .. Len(words)
          /\ DOMAIN d.toA = 1 .. (Len(c.toA) + Len(words))
          /\ \A i \in DOMAIN c.toA : d.toA[i] = c.toA[i]
          /\ \A i \in DOMAIN d.toA : i > Len(c.toA) => d.toA[i] = words[i - Len(c.toA)]
      BY <1>3, <2>2, Writing, LenProperties
    <3>2. \A i \in DOMAIN d.toA : i > Len(c.toA) => i - Len(c.toA) \in DOMAIN words
      BY <1>4, <3>1
    <3> QED
      BY <1>4, <3>1, <3>2
  <2> QED
    BY <1>1, <1>2, <2>1, <2>2
<1>6. /\ c.a.state = "contact" => d.toA = c.toA
      /\ c.a.state = "init" => c.b.state = "established" /\ (d.toA = c.toA \/ c.toA # <<>>)
  <2>1. ASSUME c.a.state = "contact" PROVE d.toA = c.toA
    <3>1. l.version = 3
      BY <2>1, LayerType DEF Greeting
    <3>2. c.toA \o <<>> = c.toA
      BY <1>3
    <3> QED
      BY <1>1, <1>2, <3>1, <3>2
  <2>2. c.a.state = "init" => c.b.state = "established"
    BY DEF Greeting
  <2>3. c.a.state = "init" => d.toA = c.toA \/ c.toA # <<>>
    BY <1>1, <1>2, <2>2 DEF Greeting
  <2> QED
    BY <2>1, <2>2, <2>3
<1>7. Greeting(l, d)
  <2>1. CASE c.a.state = "contact"
    BY <1>2, <1>6, <2>1 DEF Greeting, Open
  <2>2. CASE c.a.state = "init"
    <3>1. d.toA # <<>> => c.toA # <<>> /\ d.toA[1] = c.toA[1]
      <4>1. d.toA = c.toA \/ (c.toA # <<>> /\ 1 \in DOMAIN c.toA /\ 1 # Len(c.toA) + 1)
        <5>1. c.toA # <<>> => Len(c.toA) # 0
          BY <1>3, EmptySeq
        <5> QED
          BY <1>4, <1>6, <2>2, <5>1
      <4>2. d.toA = c.toA \/ d.toA = c.toA \o words
        BY <1>1, <1>2
      <4>3. c.toA # <<>> => (c.toA \o words)[1] = c.toA[1]
        BY <1>3, <1>4, <4>1, Writing, EmptySeq
      <4> QED
        BY <4>1, <4>2, <4>3
    <3>2. \A i \in DOMAIN d.toA : i > 1 => d.toA[i].kind = "term"
      BY <1>5, <2>2, <3>1 DEF Greeting
    <3>3. d.toA # <<>> => d.toA[1].kind = "init"
      BY <2>2, <3>1 DEF Greeting
    <3>4. l.version = 4
      BY <2>2 DEF Greeting
    <3> QED
      BY <1>2, <2>2, <3>2, <3>3, <3>4 DEF Greeting, Open
  <2>3. CASE c.a.state \in {"established", "ending"}
    <3>1. \A i \in DOMAIN d.toA : d.toA[i].kind \in {"ack", "refuse", "reject", "term"}
      BY <1>5, <2>3 DEF Greeting
    <3>2. DOMAIN d.toB = {}
      BY <1>2
    <3> QED
      BY <1>2, <2>3, <3>1, <3>2 DEF Greeting, Open
  <2>4. CASE c.a.state \in {"none", "closed"}
    <3>1. d.toA = c.toA /\ c.toA = <<>> /\ c.a.state # "none"
      BY <1>1, <1>2, <2>4 DEF Greeting, Open
    <3> QED
      BY <1>2, <2>4, <3>1 DEF Greeting, Open
  <2> QED
    BY <1>3, <2>1, <2>2, <2>3, <2>4
<1>8. Quiet(c) => Quiet(d)
  BY <1>2, <1>5 DEF Quiet, NoAcks
<1>9. \A i \in DOMAIN d.toA : d.toA[i].kind = "ack" => i \in DOMAIN c.toA /\ d.toA[i] = c.toA[i]
  BY <1>5
<1>10. ASSUME NEW id, NEW b, Under(c, id, b) PROVE Under(d, id, b)
  <2>1. DOMAIN d.toB = {}
    BY <1>2
  <2> QED
    BY <1>2, <1>9, <1>10, <2>1 DEF Under
<1>11. Finished(d) => Finished(c)
  BY <1>9 DEF Finished
<1> QED
  BY <1>2, <1>7, <1>8, <1>10, <1>11 DEF d, x

\* A says a last word, if it says one, and is gone.
LEMMA GreetingFarewellA ==
  ASSUME NEW l, NEW c \in Connection, Greeting(l, c), NEW words \in Seq(Words), Open(c.a)
  PROVE  LET d == ShutA(ToB(c, words))
         IN  /\ d \in Connection /\ d.b = c.b /\ d.ready = c.ready
             /\ Greeting(l, d) /\ Quiet(d) /\ ~Open(d.a)
<1> DEFINE x == ToB(c, words)
<1>1. /\ x \in Connection /\ x.a = c.a /\ x.b = c.b /\ x.cut = c.cut /\ x.ready = c.ready
      /\ ~Open(c.b) => x.toB = c.toB
  BY ToBFields
<1> HIDE DEF x
<1>2. ~Open(x.b) => x.toB = <<>>
  BY <1>1 DEF Greeting
<1>3. Greeting(l, ShutA(x)) /\ ~Open(ShutA(x).a)
  BY <1>1, <1>2, GreetingShutA
<1>4. ShutA(x) \in Connection /\ ShutA(x).b = x.b /\ ShutA(x).ready = x.ready
  BY <1>1, ShutFields
<1>5. Quiet(ShutA(x))
  BY <1>3 DEF Quiet, Open
<1> QED
  BY <1>1, <1>3, <1>4, <1>5 DEF x

-----------------------------------------------------------------------------
(* A transfer begins.                                                      *)

\* The connection after A has begun to send bundle b.
Begun(l, c, b) ==
  ToB([c EXCEPT !.a = Sending(l, c.a), !.ready = "listened"], Transfer(TransferId(l, c.a), b))

LEMMA TransferBegins ==
  ASSUME NEW l \in Layers, l.acks, NEW c \in Connection, NEW b \in Bundles,
         Greeting(l, c), Quiet(c), c.a.state = "established"
  PROVE  LET d == Begun(l, c, b)
         IN  /\ d \in Connection /\ d.ready = "listened" /\ Greeting(l, d)
             /\ d.a.state = "established" /\ d.a.sending \in Nat
             /\ Under(d, d.a.sending, b) /\ ~Finished(d)
<1> DEFINE id == TransferId(l, c.a)
           x == [c EXCEPT !.a = Sending(l, c.a), !.ready = "listened"]
           words == Transfer(id, b)
           d == ToB(x, words)
<1>1. c.a \in Ends /\ id \in Nat
  BY DEF Connection, Ends, TransferId
<1>2. /\ Sending(l, c.a) \in Ends /\ Sending(l, c.a).state = "established"
      /\ Sending(l, c.a).sending = id
  <2> DEFINE y == [c.a EXCEPT !.next = @ + 1]
  <2>1. y \in Ends /\ y.state = "established"
    BY <1>1 DEF Ends
  <2>2. Sending(l, c.a) = [y EXCEPT !.sending = id]
    BY DEF Sending
  <2> HIDE DEF y, id
  <2> QED
    BY <1>1, <2>1, <2>2 DEF Ends
<1> HIDE DEF id
<1>3. /\ x \in Connection /\ x.a = Sending(l, c.a) /\ x.b = c.b /\ x.toA = c.toA /\ x.toB = c.toB
      /\ x.cut = c.cut /\ x.ready = "listened"
  BY <1>2 DEF Connection
<1> HIDE DEF x
<1>4. /\ Transfer(id, b) \in Seq(Words)
      /\ DOMAIN Transfer(id, b) = 1 .. Segments
      /\ \A i \in 1 .. Segments : /\ Transfer(id, b)[i].kind = "segment" /\ Transfer(id, b)[i].id = id
                                  /\ Transfer(id, b)[i].n = i /\ Transfer(id, b)[i].bundle = b
  BY <1>1, TransferType
<1> HIDE DEF words, d
<1>5. /\ d \in Connection /\ d.a = x.a /\ d.b = c.b /\ d.toA = c.toA /\ d.ready = "listened"
      /\ d.toB = IF c.cut \/ ~Open(c.b) THEN c.toB ELSE c.toB \o Transfer(id, b)
  <2>1. d = ToB(x, words)
    BY DEF d, words
  <2>2. words \in Seq(Words)
    BY <1>4 DEF words
  <2>3. /\ ToB(x, words) \in Connection /\ ToB(x, words).a = x.a /\ ToB(x, words).b = x.b
        /\ ToB(x, words).toA = x.toA /\ ToB(x, words).ready = x.ready
        /\ ToB(x, words).toB = IF x.cut \/ ~Open(x.b) THEN x.toB ELSE x.toB \o words
    BY <1>3, <2>2, ToBFields
  <2> QED
    BY <1>3, <2>1, <2>3 DEF words
<1>6. c.toB = <<>> /\ NoAcks(c.toA)
  BY DEF Quiet
<1>7. d.toB \in {<<>>, Transfer(id, b)} /\ (~Open(c.b) => d.toB = <<>>)
  <2>1. <<>> \o Transfer(id, b) = Transfer(id, b)
    BY <1>4
  <2> QED
    BY <1>5, <1>6, <2>1
<1>8. \A i \in DOMAIN d.toB : /\ d.toB[i].kind = "segment" /\ d.toB[i].id = id
                              /\ d.toB[i].n = i /\ d.toB[i].bundle = b
  <2>1. DOMAIN <<>> = {}
    OBVIOUS
  <2>2. CASE d.toB = <<>>
    BY <2>1, <2>2
  <2>3. CASE d.toB = Transfer(id, b)
    BY <1>4, <2>3
  <2> QED
    BY <1>7, <2>2, <2>3
<1>9. d.toB # <<>> => d.toB[1].n = 1
  BY <1>4, <1>7, Apart
<1>10. \A i \in DOMAIN d.toB : i \in Nat /\ (i = 1 + i - 1)
  <2>1. \A i \in DOMAIN d.toB : i \in Nat
    BY <1>5 DEF Connection
  <2> QED
    BY <2>1
<1>11. Greeting(l, d)
  BY <1>2, <1>3, <1>5, <1>7, <1>8 DEF Greeting, Open
<1>12. Under(d, id, b) /\ ~Finished(d)
  <2>1. DOMAIN <<>> = {}
    OBVIOUS
  <2>2. \A i \in DOMAIN d.toA : d.toA[i].kind # "ack"
    BY <1>5, <1>6 DEF NoAcks
  <2>3. \A i \in DOMAIN d.toB : d.toB # <<>> /\ d.toB[i].n = d.toB[1].n + i - 1
    <3>1. \A i \in DOMAIN d.toB : d.toB # <<>>
      BY <2>1
    <3> QED
      BY <1>8, <1>9, <1>10, <3>1
  <2>4. ~Finished(d)
    BY <2>2 DEF Finished
  <2>5. Under(d, id, b)
    BY <1>8, <1>9, <2>2, <2>3 DEF Under
  <2> QED
    BY <2>4, <2>5
<1>13. d.a.state = "established" /\ d.a.sending = id
  BY <1>2, <1>3, <1>5
<1> QED
  BY <1>1, <1>5, <1>11, <1>12, <1>13 DEF d, x, words, id, Begun

-----------------------------------------------------------------------------
(* The spool.                                                              *)

\* Among files there is an oldest.
LEMMA OldestIsThere ==
  ASSUME NEW files, files \subseteq File, IsFiniteSet(files), files # {}
  PROVE  Oldest(files) \in files /\ \A g \in files : Oldest(files).name <= g.name
<1>1. /\ NextName(files) \in Nat
      /\ \A f \in files : f.name \in Nat /\ f.name < NextName(files)
  BY NextNameIsNew DEF File
<1> DEFINE before(f) == NextName(files) - f.name
           S == {before(f) : f \in files}
<1>2. S \subseteq Nat /\ S # {}
  BY <1>1
<1>3. IsFiniteSet(S)
  <2>1. [f \in files |-> before(f)] \in Surjection(files, S)
    BY DEF Surjection
  <2> QED
    BY <2>1, FS_Surjection
<1>4. Max(S) \in S /\ \A x \in S : x <= Max(S)
  <2> HIDE DEF S
  <2> QED
    BY <1>2, <1>3, MaxIsThere
<1>5. PICK f \in files : Max(S) = before(f)
  BY <1>4
<1>6. \A g \in files : f.name <= g.name
  <2> SUFFICES ASSUME NEW g \in files PROVE f.name <= g.name
    OBVIOUS
  <2>1. before(g) \in S
    OBVIOUS
  <2>2. before(g) <= before(f)
    BY <1>4, <1>5, <2>1
  <2> QED
    BY <1>1, <2>2
<1> QED
  BY <1>6 DEF Oldest

LEMMA BundleOf ==
  ASSUME NEW p \in Payloads, NEW of \in Sizes, NEW n \in 1 .. of, NEW i \in 1 .. n
  PROVE  MakeBundle(p, i - 1, of) \in Bundles
<1>1. of \in Nat /\ i - 1 \in 0 .. (of - 1)
  BY GatewayAssumption
<1>2. MakeBundle(p, i - 1, of) \in {MakeBundle(q, part, of) : q \in Payloads, part \in 0 .. (of - 1)}
  BY <1>1
<1> QED
  BY <1>2, GatewayAssumption DEF PayloadBundles

\* Adding the bundles of a payload keeps every file, and makes one of each.
LEMMA Adding ==
  ASSUME GatewayTypeOK, FilesAreNamed, NothingLost,
         NEW p \in Payloads, NEW of \in Sizes, NEW n \in 1 .. of, Add(p, n, of)
  PROVE  /\ spool' \subseteq File /\ IsFiniteSet(spool') /\ seq' \in Nat /\ stored' \in Seq(Bundles)
         /\ spool \subseteq spool' /\ seq <= seq' /\ \A f \in spool' : f.name < seq => f \in spool
         /\ \A f \in spool' : f.name < seq'
         /\ \A f, g \in spool' : f.name = g.name => f = g
         /\ \A i \in DOMAIN stored' : stored'[i] \in taken \/ \E f \in spool' : f.bundle = stored'[i]
<1> DEFINE bundle(i) == MakeBundle(p, i - 1, of)
           bundles == [i \in 1 .. n |-> bundle(i)]
           new == {[name |-> seq + i - 1, bundle |-> bundles[i]] : i \in 1 .. n}
<1>1. of \in Nat /\ n \in Nat /\ n >= 1 /\ seq \in Nat
  BY GatewayAssumption DEF GatewayTypeOK
<1>2. \A i \in 1 .. n : bundles[i] \in Bundles
  BY BundleOf
<1>3. /\ spool' = {f \in spool : f.name \notin seq .. (seq + n - 1)} \cup new
      /\ seq' = seq + n
      /\ stored' = stored \o bundles
  BY DEF Add
<1>4. \A f \in spool : f.name \in Nat /\ f.name < seq
  BY DEF FilesAreNamed, GatewayTypeOK, File
<1> HIDE DEF bundles
<1>5. {f \in spool : f.name \notin seq .. (seq + n - 1)} = spool
  BY <1>1, <1>4
<1>6. new \subseteq File /\ \A f \in new : f.name >= seq /\ f.name < seq + n
  BY <1>1, <1>2 DEF File
<1>7. IsFiniteSet(new)
  <2>1. [i \in 1 .. n |-> [name |-> seq + i - 1, bundle |-> bundles[i]]] \in Surjection(1 .. n, new)
    BY DEF Surjection
  <2>2. IsFiniteSet(1 .. n)
    BY <1>1, FS_Interval
  <2> QED
    BY <2>1, <2>2, FS_Surjection
<1>8. \A f, g \in new : f.name = g.name => f = g
  <2> SUFFICES ASSUME NEW f \in new, NEW g \in new, f.name = g.name PROVE f = g
    OBVIOUS
  <2>1. PICK i \in 1 .. n : f = [name |-> seq + i - 1, bundle |-> bundles[i]]
    OBVIOUS
  <2>2. PICK j \in 1 .. n : g = [name |-> seq + j - 1, bundle |-> bundles[j]]
    OBVIOUS
  <2>3. i = j
    <3>1. seq + i - 1 = seq + j - 1
      BY <2>1, <2>2
    <3> QED
      BY <1>1, <3>1
  <2> QED
    BY <2>1, <2>2, <2>3
<1>9. bundles \in Seq(Bundles) /\ Len(bundles) = n
  <2>1. bundles \in [1 .. n -> Bundles]
    BY <1>2 DEF bundles
  <2> QED
    BY <1>1, <2>1, IsASeq, LenProperties
<1>10. \A i \in 1 .. n : \E f \in new : f.bundle = bundles[i]
  <2> TAKE i \in 1 .. n
  <2>1. [name |-> seq + i - 1, bundle |-> bundles[i]] \in new
    OBVIOUS
  <2> QED
    BY <2>1
<1> HIDE DEF new
<1>11. spool' = spool \cup new
  BY <1>3, <1>5
<1>12. stored \in Seq(Bundles) /\ spool \subseteq File /\ IsFiniteSet(spool)
  BY DEF GatewayTypeOK
<1>13. \A i \in DOMAIN stored' : stored'[i] \in taken \/ \E f \in spool' : f.bundle = stored'[i]
  <2> SUFFICES ASSUME NEW i \in DOMAIN stored'
               PROVE  stored'[i] \in taken \/ \E f \in spool' : f.bundle = stored'[i]
    OBVIOUS
  <2>1. /\ Len(stored) \in Nat /\ DOMAIN stored = 1 .. Len(stored) /\ DOMAIN stored' = 1 .. (Len(stored) + n)
        /\ i <= Len(stored) => stored'[i] = stored[i]
        /\ i > Len(stored) => stored'[i] = bundles[i - Len(stored)]
    <3>1. /\ stored \o bundles \in Seq(Bundles)
          /\ Len(stored \o bundles) = Len(stored) + n
          /\ \A j \in 1 .. (Len(stored) + n) :
               (stored \o bundles)[j] = IF j <= Len(stored) THEN stored[j] ELSE bundles[j - Len(stored)]
      BY <1>9, <1>12, ConcatProperties
    <3>2. Len(stored) \in Nat /\ DOMAIN stored = 1 .. Len(stored)
      BY <1>12, LenProperties
    <3>3. DOMAIN (stored \o bundles) = 1 .. (Len(stored) + n)
      BY <3>1, LenProperties
    <3>4. stored' = stored \o bundles
      BY <1>3
    <3>5. i \in 1 .. (Len(stored) + n)
      BY <3>3, <3>4
    <3>6. i \in Nat /\ ~(i > Len(stored) /\ i <= Len(stored))
      BY <1>1, <3>2, <3>5
    <3>7. (stored \o bundles)[i] = IF i <= Len(stored) THEN stored[i] ELSE bundles[i - Len(stored)]
      BY <3>1, <3>5
    <3> QED
      BY <3>2, <3>3, <3>4, <3>6, <3>7
  <2>2. CASE i <= Len(stored)
    BY <1>11, <2>1, <2>2 DEF NothingLost
  <2>3. CASE i > Len(stored)
    <3>1. i - Len(stored) \in 1 .. n
      BY <1>1, <2>1, <2>3
    <3> QED
      BY <1>10, <1>11, <2>1, <2>3, <3>1
  <2> QED
    BY <2>1, <2>2, <2>3
<1>14. \A f \in spool' : f.name \in Nat /\ f.name < seq'
  BY <1>1, <1>3, <1>4, <1>6, <1>11 DEF File
<1>15. \A f, g \in spool' : f.name = g.name => f = g
  <2> SUFFICES ASSUME NEW f \in spool', NEW g \in spool', f.name = g.name PROVE f = g
    OBVIOUS
  <2>1. f \in new /\ g \in new => f = g
    BY <1>8
  <2>2. f \in spool /\ g \in spool => f = g
    BY DEF FilesAreNamed
  <2>3. ~(f \in new /\ g \in spool) /\ ~(f \in spool /\ g \in new)
    BY <1>1, <1>4, <1>6
  <2> QED
    BY <1>11, <2>1, <2>2, <2>3
<1>16. IsFiniteSet(spool')
  BY <1>7, <1>11, <1>12, FS_Union
<1>17. stored' \in Seq(Bundles)
  BY <1>3, <1>9, <1>12, ConcatProperties
<1>18. \A f \in spool' : f.name < seq => f \in spool
  <2>1. \A f \in new : f.name \in Nat /\ ~(f.name < seq)
    BY <1>1, <1>6 DEF File
  <2> QED
    BY <1>11, <2>1
<1> QED
  BY <1>1, <1>3, <1>6, <1>11, <1>12, <1>13, <1>14, <1>15, <1>16, <1>17, <1>18

-----------------------------------------------------------------------------
(* What happens on B's side leaves A where it is.                          *)

\* Connection c becomes d and what B has grows from T to U, A's end as it was.
Follows(l, c, d, T, U) ==
  /\ d \in Connection /\ d.a = c.a /\ d.ready = c.ready
  /\ Greeting(l, d) /\ (Quiet(c) => Quiet(d))
  /\ c.a.state \in {"established", "ending"} =>
       \A b \in Bundles : Transferring(c, b, T) => Transferring(d, b, U)

LEMMA FollowsItself ==
  ASSUME NEW l, NEW c \in Connection, Greeting(l, c), NEW T, NEW U, T \subseteq U
  PROVE  Follows(l, c, c, T, U)
BY DEF Follows, Transferring

LEMMA FollowsOn ==
  ASSUME NEW l, NEW c, NEW d, NEW e, NEW T, NEW U, NEW V,
         Follows(l, c, d, T, U), Follows(l, d, e, U, V)
  PROVE  Follows(l, c, e, T, V)
BY DEF Follows

LEMMA FollowsShutB ==
  ASSUME NEW l, NEW c \in Connection, Greeting(l, c), NEW T
  PROVE  Follows(l, c, ShutB(c), T, T)
<1> DEFINE d == ShutB(c)
<1>1. d \in Connection /\ d.a = c.a /\ d.ready = c.ready
  BY ShutFields
<1>2. /\ Greeting(l, d) /\ (Quiet(c) => Quiet(d))
      /\ \A id : \A b : Under(c, id, b) => Under(d, id, b)
      /\ Finished(d) => Finished(c)
      /\ d.toB = <<>>
  BY GreetingShutB
<1> HIDE DEF d
<1> QED
  <2>1. Follows(l, c, d, T, T)
    BY <1>1, <1>2 DEF Follows, Transferring
  <2> QED
    BY <2>1 DEF d

LEMMA FollowsBroken ==
  ASSUME NEW l, NEW c \in Connection, Greeting(l, c), NEW T,
         NEW i \in 0 .. Len(c.toA), NEW j \in 0 .. Len(c.toB)
  PROVE  Follows(l, c, Broken(c, i, j), T, T)
<1> DEFINE d == Broken(c, i, j)
<1>1. d \in Connection /\ d.a = c.a /\ d.ready = c.ready
  BY BrokenFields
<1>2. /\ Greeting(l, d) /\ (Quiet(c) => Quiet(d))
      /\ \A id : \A b : Under(c, id, b) => Under(d, id, b)
      /\ Finished(d) => Finished(c)
      /\ c.toB = <<>> => d.toB = <<>>
  BY GreetingBroken
<1> HIDE DEF d
<1> QED
  <2>1. Follows(l, c, d, T, T)
    BY <1>1, <1>2 DEF Follows, Transferring
  <2> QED
    BY <2>1 DEF d

LEMMA FollowsRefusedB ==
  ASSUME NEW l \in Layers, NEW c \in Connection, c.toB # <<>>, Greeting(l, c), NEW T,
         c.toB[1].kind = "segment", c.b.state = "established"
  PROVE  Follows(l, c, RefusedB(c), T, T)
<1> DEFINE d == RefusedB(c)
<1>1. /\ d \in Connection /\ d.a = c.a /\ d.ready = c.ready
      /\ Greeting(l, d) /\ (Quiet(c) => Quiet(d))
      /\ \A id : \A b : Under(c, id, b) => Under(d, id, b) /\ (Finished(d) => Finished(c))
  BY TransferRefusedB
<1> HIDE DEF d
<1>2. ASSUME NEW b \in Bundles, Transferring(c, b, T) PROVE Transferring(d, b, T)
  BY <1>1, <1>2 DEF Transferring
<1> QED
  <2>1. Follows(l, c, d, T, T)
    BY <1>1, <1>2 DEF Follows
  <2> QED
    BY <2>1 DEF d

\* B hears a word; it then has the bundle it has received in full.
Received(l, c, T) ==
  LET r == HearsB(l, c.b, c.toB[1]) IN IF r.bundle = None THEN T ELSE T \cup {r.bundle}

LEMMA FollowsHeardB ==
  ASSUME NEW l \in Layers, NEW c \in Connection, c.toB # <<>>, Greeting(l, c), NEW T
  PROVE  Follows(l, c, HeardB(l, c), T, Received(l, c, T))
<1> DEFINE d == HeardB(l, c)
           r == HearsB(l, c.b, c.toB[1])
           U == Received(l, c, T)
<1>1. d \in Connection /\ d.a = c.a /\ Greeting(l, d) /\ (Quiet(c) => Quiet(d))
  BY GreetingHeardB
<1>2. d.ready = c.ready
  <2>1. /\ r \in Answer
        /\ d = AnsweredWith(c, r.end, IF c.b.state = "ending" THEN <<>> ELSE r.reply)
    BY HeardBAnswers
  <2>2. r.end \in Ends /\ r.reply \in Seq(Words) /\ <<>> \in Seq(Words)
    BY <2>1 DEF Answer
  <2> DEFINE reply == IF c.b.state = "ending" THEN <<>> ELSE r.reply
  <2>3. reply \in Seq(Words)
    BY <2>2
  <2> HIDE DEF reply, r, d
  <2>4. AnsweredWith(c, r.end, reply).ready = c.ready
    BY <2>2, <2>3, AnsweredFields
  <2> QED
    BY <2>1, <2>4 DEF reply
<1>3. ASSUME c.a.state \in {"established", "ending"}, NEW b \in Bundles, Transferring(c, b, T)
      PROVE  Transferring(d, b, U)
  <2>1. /\ Under(d, c.a.sending, b)
        /\ r.bundle # None => d.toB = <<>>
        /\ Finished(d) => Finished(c) \/ r.bundle = b
    <3>1. Under(c, c.a.sending, b)
      BY <1>3 DEF Transferring
    <3> QED
      BY <1>3, <3>1, TransferHeardB
  <2>2. /\ r.bundle = None => U = T
        /\ r.bundle # None => U = T \cup {r.bundle}
    BY DEF Received
  <2>3. b # None
    BY Apart
  <2> HIDE DEF d, r, U
  <2> QED
    BY <1>1, <1>3, <2>1, <2>2, <2>3 DEF Transferring
<1> HIDE DEF d, U, r
<1> QED
  <2>1. Follows(l, c, d, T, U)
    BY <1>1, <1>2, <1>3 DEF Follows
  <2> QED
    BY <2>1 DEF d, U

LEMMA FollowsFarewellB ==
  ASSUME NEW l \in Layers, NEW c \in Connection, Greeting(l, c), NEW T,
         c.b.state \in {"established", "ending"},
         NEW words \in Seq(Words), Len(words) <= 1, l.version = 3 => words = <<>>,
         \A i \in DOMAIN words : words[i].kind = "term"
  PROVE  Follows(l, c, ShutB(ToA(c, words)), T, T)
<1> DEFINE d == ShutB(ToA(c, words))
<1>1. /\ d \in Connection /\ d.a = c.a /\ d.ready = c.ready
      /\ Greeting(l, d) /\ (Quiet(c) => Quiet(d))
      /\ \A id : \A b : Under(c, id, b) => Under(d, id, b)
      /\ Finished(d) => Finished(c)
      /\ d.toB = <<>>
  BY GreetingFarewellB
<1> HIDE DEF d
<1> QED
  <2>1. Follows(l, c, d, T, T)
    BY <1>1 DEF Follows, Transferring
  <2> QED
    BY <2>1 DEF d

LEMMA FarSide ==
  ASSUME GatewayTypeOK, GatewayInvariant, UNCHANGED <<layer, diskVars, pump>>,
         conns' \in [Conns -> Connection], taken \subseteq taken', taken' \subseteq Bundles,
         \A k \in Conns : Follows(layer, conns[k], conns'[k], taken, taken')
  PROVE  GatewayTypeOK' /\ GatewayInvariant'
<1>1. /\ layer' = layer /\ spool' = spool /\ seq' = seq /\ stored' = stored /\ pump' = pump
      /\ FilesAreNamed /\ PumpKnows /\ TransferInv /\ NothingLost
  BY DEF diskVars, GatewayInvariant
<1>2. \A k \in Conns : /\ conns'[k].a = conns[k].a /\ conns'[k].ready = conns[k].ready
                       /\ Greeting(layer, conns'[k]) /\ (Quiet(conns[k]) => Quiet(conns'[k]))
  BY DEF Follows
<1>3. pump \in Pump /\ (pump.session # None => pump.session \in Conns) /\ (pump.dial # None => pump.dial \in Conns)
  BY DEF GatewayTypeOK, Pump
<1>4. GatewayTypeOK'
  BY <1>1 DEF GatewayTypeOK
<1>5. FilesAreNamed'
  BY <1>1 DEF FilesAreNamed
<1>6. PumpKnows'
  BY <1>1, <1>2, <1>3 DEF PumpKnows, OneSession
<1>7. NothingLost'
  BY <1>1 DEF NothingLost
<1>8. TransferInv'
  <2>1. \A k \in Conns : k \in {pump.session, pump.dial} /\ pump.pc \notin {"sending", "failed"} => Quiet(conns'[k])
    BY <1>1, <1>2 DEF TransferInv
  <2>2. ASSUME pump.pc = "sending"
        PROVE  \E f \in spool : f.name = pump.file /\ Transferring(conns'[pump.session], f.bundle, taken')
    <3>1. PICK f \in spool : f.name = pump.file /\ Transferring(conns[pump.session], f.bundle, taken)
      BY <1>1, <2>2 DEF TransferInv
    <3>2. f.bundle \in Bundles
      BY DEF GatewayTypeOK, File
    <3>3. pump.session \in Conns /\ conns[pump.session].a.state \in {"established", "ending"}
      BY <1>1, <1>3, <2>2 DEF PumpKnows
    <3>4. Transferring(conns'[pump.session], f.bundle, taken')
      BY <3>1, <3>2, <3>3 DEF Follows
    <3> QED
      BY <3>1, <3>4
  <2>3. pump.pc = "acked" => \A f \in spool : f.name = pump.file => f.bundle \in taken'
    BY <1>1 DEF TransferInv
  <2> QED
    BY <1>1, <2>1, <2>2, <2>3 DEF TransferInv
<1>9. \A k \in Conns : Greeting(layer', conns'[k])
  BY <1>1, <1>2
<1> QED
  BY <1>4, <1>5, <1>6, <1>7, <1>8, <1>9 DEF GatewayInvariant

\* One connection changes.
LEMMA FarSideOfOne ==
  ASSUME GatewayTypeOK, GatewayInvariant, UNCHANGED <<layer, diskVars, pump>>,
         NEW k \in Conns, NEW d, conns' = [conns EXCEPT ![k] = d],
         taken \subseteq taken', taken' \subseteq Bundles,
         Follows(layer, conns[k], d, taken, taken')
  PROVE  GatewayTypeOK' /\ GatewayInvariant'
<1>1. conns \in [Conns -> Connection] /\ d \in Connection /\ layer \in Layers
  BY DEF GatewayTypeOK, Follows
<1>2. conns' \in [Conns -> Connection]
  BY <1>1
<1>3. \A j \in Conns : Follows(layer, conns[j], conns'[j], taken, taken')
  <2> SUFFICES ASSUME NEW j \in Conns PROVE Follows(layer, conns[j], conns'[j], taken, taken')
    OBVIOUS
  <2>1. CASE j = k
    BY <1>1, <2>1
  <2>2. CASE j # k
    <3>1. conns'[j] = conns[j] /\ conns[j] \in Connection /\ Greeting(layer, conns[j])
      BY <1>1, <2>2 DEF GatewayInvariant
    <3>2. Follows(layer, conns[j], conns[j], taken, taken')
      BY <1>1, <3>1, FollowsItself
    <3> QED
      BY <3>1, <3>2
  <2> QED
    BY <2>1, <2>2
<1> QED
  BY <1>2, <1>3, FarSide

LEMMA HearBKeeps ==
  ASSUME GatewayTypeOK, GatewayInvariant, NEW k \in Conns, HearB(k)
  PROVE  GatewayTypeOK' /\ GatewayInvariant'
<1> DEFINE c == conns[k]
           d == HeardB(layer, c)
           r == HearsB(layer, c.b, c.toB[1])
<1>1. c \in Connection /\ c.toB # <<>> /\ Greeting(layer, c) /\ layer \in Layers /\ taken \subseteq Bundles
  BY DEF HearB, GatewayTypeOK, GatewayInvariant
<1>2. Head(c.toB) = c.toB[1]
  BY <1>1, Hearing DEF Connection
<1>3. HeardByB(k) = r
  BY <1>2 DEF HeardByB, HearsB
<1>4. conns' = [conns EXCEPT ![k] = d]
  BY DEF HearB, HeardByB, HeardB, HearsB
<1>5. UNCHANGED <<layer, diskVars, pump>>
  BY DEF HearB
<1>6. r.bundle \in Bundles \cup {None}
  <2>1. r \in Answer
    BY <1>1, HeardBAnswers
  <2> QED
    BY <2>1 DEF Answer
<1>7. taken' = Received(layer, c, taken)
  <2>1. r.bundle = None => taken' = taken
    BY <1>3, SMTT(60) DEF HearB, farVars
  <2>2. r.bundle # None => taken' = taken \cup {r.bundle}
    BY <1>3 DEF HearB, FromDtn
  <2> QED
    BY <2>1, <2>2 DEF Received
<1>8. taken \subseteq taken' /\ taken' \subseteq Bundles
  BY <1>1, <1>6, <1>7 DEF Received
<1>9. Follows(layer, c, d, taken, taken')
  <2>1. Follows(layer, c, d, taken, Received(layer, c, taken))
    BY <1>1, FollowsHeardB
  <2> QED
    BY <1>7, <2>1
<1> HIDE DEF d
<1> QED
  BY <1>4, <1>5, <1>8, <1>9, FarSideOfOne

LEMMA RefuseBKeeps ==
  ASSUME GatewayTypeOK, GatewayInvariant, NEW k \in Conns, RefuseB(k)
  PROVE  GatewayTypeOK' /\ GatewayInvariant'
<1> DEFINE c == conns[k]
           d == RefusedB(c)
<1>1. c \in Connection /\ c.toB # <<>> /\ Greeting(layer, c) /\ layer \in Layers /\ taken \subseteq Bundles
  BY DEF RefuseB, GatewayTypeOK, GatewayInvariant
<1>2. Head(c.toB) = c.toB[1]
  BY <1>1, Hearing DEF Connection
<1>3. c.toB[1].kind = "segment" /\ c.b.state = "established"
  BY <1>2 DEF RefuseB
<1>4. conns' = [conns EXCEPT ![k] = d] /\ taken' = taken /\ UNCHANGED <<layer, diskVars, pump>>
  BY DEF RefuseB, RefusedB, farVars
<1>5. Follows(layer, c, d, taken, taken)
  BY <1>1, <1>3, FollowsRefusedB
<1> HIDE DEF d
<1> QED
  BY <1>1, <1>4, <1>5, FarSideOfOne

LEMMA CloseBKeeps ==
  ASSUME GatewayTypeOK, GatewayInvariant, NEW k \in Conns, CloseB(k)
  PROVE  GatewayTypeOK' /\ GatewayInvariant'
<1>1. conns[k] \in Connection /\ Greeting(layer, conns[k]) /\ taken \subseteq Bundles
  BY DEF GatewayTypeOK, GatewayInvariant
<1>2. /\ conns' = [conns EXCEPT ![k] = ShutB(conns[k])]
      /\ taken' = taken /\ UNCHANGED <<layer, diskVars, pump>>
  BY DEF CloseB, farVars
<1>3. Follows(layer, conns[k], ShutB(conns[k]), taken, taken)
  BY <1>1, FollowsShutB
<1> QED
  BY <1>1, <1>2, <1>3, FarSideOfOne

LEMMA BreakKeeps ==
  ASSUME GatewayTypeOK, GatewayInvariant, NEW k \in Conns, Break(k)
  PROVE  GatewayTypeOK' /\ GatewayInvariant'
<1>1. conns[k] \in Connection /\ Greeting(layer, conns[k]) /\ taken \subseteq Bundles
  BY DEF GatewayTypeOK, GatewayInvariant
<1>2. PICK i \in 0 .. Len(conns[k].toA), j \in 0 .. Len(conns[k].toB) :
        conns' = [conns EXCEPT ![k] =
          [conns[k] EXCEPT !.cut = TRUE, !.toA = SubSeq(@, 1, i), !.toB = SubSeq(@, 1, j)]]
  BY Zenon DEF Break
<1>3. taken' = taken /\ UNCHANGED <<layer, diskVars, pump>>
  BY Zenon DEF Break, farVars
<1>4. Follows(layer, conns[k], Broken(conns[k], i, j), taken, taken)
  BY <1>1, FollowsBroken
<1>5. conns' = [conns EXCEPT ![k] = Broken(conns[k], i, j)]
  BY <1>2 DEF Broken
<1> QED
  BY <1>1, <1>3, <1>4, <1>5, FarSideOfOne

LEMMA FarewellWords ==
  ASSUME layer \in Layers
  PROVE  /\ Farewell \in Seq(Words) /\ Len(Farewell) <= 1 /\ (layer.version = 3 => Farewell = <<>>)
         /\ \A i \in DOMAIN Farewell : Farewell[i].kind = "term"
<1> DEFINE w == [kind |-> "term", reply |-> FALSE]
<1>1. w \in Words /\ w.kind = "term"
  BY DEF Words, TermWord
<1> HIDE DEF w
<1>2. <<w>> \in Seq(Words) /\ Len(<<w>>) <= 1 /\ \A i \in DOMAIN <<w>> : <<w>>[i].kind = "term"
  BY <1>1, OneWord
<1>3. <<>> \in Seq(Words) /\ Len(<<>>) <= 1 /\ DOMAIN <<>> = {}
  OBVIOUS
<1>4. Farewell = IF layer.version = 4 THEN <<w>> ELSE <<>>
  BY DEF Farewell, w
<1> QED
  BY <1>2, <1>3, <1>4

LEMMA IdleTimeoutBKeeps ==
  ASSUME GatewayTypeOK, GatewayInvariant, NEW k \in Conns, IdleTimeoutB(k)
  PROVE  GatewayTypeOK' /\ GatewayInvariant'
<1> DEFINE d == ShutB(ToA(conns[k], Farewell))
<1>1. conns \in [Conns -> Connection] /\ Greeting(layer, conns[k]) /\ taken \subseteq Bundles /\ layer \in Layers
  BY DEF GatewayTypeOK, GatewayInvariant
<1>2. /\ conns' = [conns EXCEPT ![k] = d] /\ conns[k].b.state \in {"established", "ending"}
      /\ taken' = taken /\ UNCHANGED <<layer, diskVars, pump>>
  BY <1>1 DEF IdleTimeoutB, farVars
<1>3. Follows(layer, conns[k], d, taken, taken)
  BY <1>1, <1>2, FarewellWords, FollowsFarewellB
<1> HIDE DEF d
<1> QED
  BY <1>1, <1>2, <1>3, FarSideOfOne

LEMMA RestartBKeeps ==
  ASSUME GatewayTypeOK, GatewayInvariant, RestartB
  PROVE  GatewayTypeOK' /\ GatewayInvariant'
<1>1. conns \in [Conns -> Connection] /\ taken \subseteq Bundles /\ \A k \in Conns : Greeting(layer, conns[k])
  BY DEF GatewayTypeOK, GatewayInvariant
<1>2. /\ conns' = [k \in Conns |-> ShutB(conns[k])]
      /\ taken' = taken /\ UNCHANGED <<layer, diskVars, pump>>
  BY DEF RestartB
<1>3. \A k \in Conns : Follows(layer, conns[k], conns'[k], taken, taken')
  BY <1>1, <1>2, FollowsShutB
<1>4. conns' \in [Conns -> Connection]
  BY <1>1, <1>2, ShutFields
<1> QED
  BY <1>1, <1>2, <1>3, <1>4, FarSide

\* Only an established end receives bundles.
LEMMA ReceivesEstablished ==
  ASSUME NEW l \in Layers, NEW e \in Ends, NEW m \in Words, HearsB(l, e, m).bundle # None
  PROVE  e.state = "established"
<1>1. ASSUME m.kind = "segment", e.state # "established" PROVE FALSE
  <2>1. Segment(l, e, m) = [Nothing(e) EXCEPT !.reply = IF l.version = 4 THEN Word("reject") ELSE <<>>]
    BY <1>1 DEF Segment
  <2>2. Segment(l, e, m).bundle = None
    BY <2>1 DEF Nothing
  <2> QED
    BY <1>1, <2>2, Dispatch
<1>2. CASE m.kind = "contact"
  BY <1>2, Dispatch, GreetsBFields
<1>3. CASE m.kind = "init"
  BY <1>3, Dispatch, StartsBFields
<1>4. CASE m.kind = "ack"
  BY <1>4, Dispatch, AckFields
<1>5. CASE m.kind = "refuse"
  BY <1>5, Dispatch, RefuseFields
<1>6. CASE m.kind = "term"
  BY <1>6, Dispatch, TermFields
<1>7. CASE m.kind = "reject"
  BY <1>7, Dispatch, NothingFields
<1> QED
  BY <1>1, <1>2, <1>3, <1>4, <1>5, <1>6, <1>7, Kinds

\* Connections with the same fields are the same.
LEMMA SameFields ==
  ASSUME NEW x \in Connection, NEW y \in Connection, x.a = y.a, x.b = y.b, x.toA = y.toA, x.toB = y.toB,
         x.cut = y.cut, x.ready = y.ready
  PROVE  x = y
BY DEF Connection

\* B is killed once it has acknowledged a bundle.
LEMMA ShutAfterAnswer ==
  ASSUME NEW l \in Layers, NEW c \in Connection, c.toB # <<>>, HearsB(l, c.b, c.toB[1]).bundle # None
  PROVE  ShutB(ToA(c, HearsB(l, c.b, c.toB[1]).reply)) = ShutB(HeardB(l, c))
<1> DEFINE r == HearsB(l, c.b, c.toB[1])
           x == ToA(c, r.reply)
           y == HeardB(l, c)
<1>1. c.toB[1] \in Words /\ c.b \in Ends /\ Head(c.toB) = c.toB[1]
  BY Hearing DEF Connection
<1>2. c.b.state = "established"
  BY <1>1, ReceivesEstablished
<1>3. r \in Answer /\ y = AnsweredWith(c, r.end, r.reply)
  BY <1>2, HeardBAnswers
<1>4. r.end \in Ends /\ r.reply \in Seq(Words)
  BY <1>3 DEF Answer
<1>5. /\ y \in Connection /\ y.b = r.end /\ y.a = c.a /\ y.cut = c.cut /\ y.ready = c.ready
      /\ y.toA = IF c.cut \/ ~Open(c.a) THEN c.toA ELSE c.toA \o r.reply
  <2> HIDE DEF r, y
  <2> QED
    BY <1>3, <1>4, AnsweredFields
<1>6. /\ x \in Connection /\ x.b = c.b /\ x.a = c.a /\ x.cut = c.cut /\ x.ready = c.ready
      /\ x.toA = IF c.cut \/ ~Open(c.a) THEN c.toA ELSE c.toA \o r.reply
  <2> HIDE DEF r
  <2> QED
    BY <1>4, ToAFields
<1>7. Open(c.b) /\ Open(r.end)
  BY <1>1, <1>2, StaysOpen DEF Open
<1> HIDE DEF x, y, r
<1>8. ShutB(x) = [x EXCEPT !.b = Shut(x.b), !.toB = <<>>] /\ ShutB(y) = [y EXCEPT !.b = Shut(y.b), !.toB = <<>>]
  BY <1>5, <1>6, <1>7 DEF ShutB
<1>9. Shut(x.b) = Shut(y.b) /\ Shut(x.b) \in Ends
  BY DEF Shut, NoEnd, Ends
<1>10. /\ ShutB(x) \in Connection /\ ShutB(x).a = x.a /\ ShutB(x).toA = x.toA
       /\ ShutB(x).cut = x.cut /\ ShutB(x).ready = x.ready
       /\ ShutB(y) \in Connection /\ ShutB(y).a = y.a /\ ShutB(y).toA = y.toA
       /\ ShutB(y).cut = y.cut /\ ShutB(y).ready = y.ready
  BY <1>5, <1>6, ShutFields
<1>11. ShutB(x).b = Shut(x.b) /\ ShutB(x).toB = <<>>
  BY <1>6, <1>8 DEF Connection
<1>12. ShutB(y).b = Shut(x.b) /\ ShutB(y).toB = <<>>
  BY <1>5, <1>8, <1>9 DEF Connection
<1> QED
  <2>1. ShutB(x) = ShutB(y)
    BY <1>5, <1>6, <1>10, <1>11, <1>12, SameFields
  <2> QED
    BY <2>1 DEF x, y, r

LEMMA KilledAfterAckKeeps ==
  ASSUME GatewayTypeOK, GatewayInvariant, NEW k \in Conns, KilledAfterAck(k)
  PROVE  GatewayTypeOK' /\ GatewayInvariant'
<1> DEFINE c == conns[k]
           d == HeardB(layer, c)
           r == HearsB(layer, c.b, c.toB[1])
<1>1. /\ conns \in [Conns -> Connection] /\ c.toB # <<>> /\ layer \in Layers /\ taken \subseteq Bundles
      /\ \A j \in Conns : Greeting(layer, conns[j])
  BY DEF KilledAfterAck, GatewayTypeOK, GatewayInvariant
<1>2. Head(c.toB) = c.toB[1]
  BY <1>1, Hearing DEF Connection
<1>3. HeardByB(k) = r
  BY <1>2 DEF HeardByB, HearsB
<1>4. /\ conns' = [j \in Conns |-> ShutB(IF j = k THEN ToA(c, r.reply) ELSE conns[j])]
      /\ r.bundle # None /\ taken' = taken \cup {r.bundle} /\ UNCHANGED <<layer, diskVars, pump>>
  BY <1>3 DEF KilledAfterAck
<1>5. r.bundle \in Bundles
  <2>1. r \in Answer
    BY <1>1, HeardBAnswers
  <2> QED
    BY <1>4, <2>1 DEF Answer
<1>6. taken' = Received(layer, c, taken) /\ taken \subseteq taken' /\ taken' \subseteq Bundles
  BY <1>1, <1>4, <1>5 DEF Received
<1>7. Follows(layer, c, ShutB(d), taken, taken')
  <2>1. Follows(layer, c, d, taken, taken')
    BY <1>1, <1>6, FollowsHeardB
  <2>2. d \in Connection /\ Greeting(layer, d)
    BY <2>1 DEF Follows
  <2>3. Follows(layer, d, ShutB(d), taken', taken')
    BY <2>2, FollowsShutB
  <2> HIDE DEF d
  <2> QED
    BY <2>1, <2>3, FollowsOn
<1>8. ShutB(ToA(c, r.reply)) = ShutB(d)
  BY <1>1, <1>4, ShutAfterAnswer
<1>9. conns'[k] = ShutB(d)
  BY <1>4, <1>8
<1>10. \A j \in Conns : Follows(layer, conns[j], conns'[j], taken, taken')
  <2> SUFFICES ASSUME NEW j \in Conns PROVE Follows(layer, conns[j], conns'[j], taken, taken')
    OBVIOUS
  <2>1. CASE j = k
    BY <1>7, <1>9, <2>1
  <2>2. CASE j # k
    <3>1. conns'[j] = ShutB(conns[j])
      BY <1>4, <2>2
    <3>2. Follows(layer, conns[j], ShutB(conns[j]), taken, taken)
      BY <1>1, FollowsShutB
    <3>3. ShutB(conns[j]) \in Connection /\ Greeting(layer, ShutB(conns[j]))
      BY <3>2 DEF Follows
    <3>4. Follows(layer, ShutB(conns[j]), ShutB(conns[j]), taken, taken')
      BY <1>6, <3>3, FollowsItself
    <3> QED
      BY <3>1, <3>2, <3>4, FollowsOn
  <2> QED
    BY <2>1, <2>2
<1>11. conns' \in [Conns -> Connection]
  <2>1. \A j \in Conns : conns'[j] \in Connection
    BY <1>10 DEF Follows
  <2> QED
    BY <1>4, <2>1
<1> HIDE DEF c, d, r
<1> QED
  BY <1>4, <1>6, <1>10, <1>11, FarSide

-----------------------------------------------------------------------------
(* What happens to A.                                                      *)

LEMMA FromIpKeeps ==
  ASSUME GatewayTypeOK, GatewayInvariant, NEW p \in Payloads, FromIp(p)
  PROVE  GatewayTypeOK' /\ GatewayInvariant'
<1>1. PICK n \in Sizes : Add(p, n, n)
  BY DEF FromIp
<1>2. n \in 1 .. n
  BY GatewayAssumption
<1>3. FilesAreNamed /\ PumpKnows /\ TransferInv /\ NothingLost
  BY DEF GatewayInvariant
<1>4. /\ spool' \subseteq File /\ IsFiniteSet(spool') /\ seq' \in Nat /\ stored' \in Seq(Bundles)
      /\ spool \subseteq spool' /\ seq <= seq' /\ \A f \in spool' : f.name < seq => f \in spool
      /\ \A f \in spool' : f.name < seq'
      /\ \A f, g \in spool' : f.name = g.name => f = g
      /\ \A i \in DOMAIN stored' : stored'[i] \in taken \/ \E f \in spool' : f.bundle = stored'[i]
  BY <1>1, <1>2, <1>3, Adding
<1>5. /\ layer' = layer /\ conns' = conns /\ taken' = taken
      /\ pump' = [pump EXCEPT !.pc = IF @ = "waiting" THEN "woken" ELSE @]
  BY DEF FromIp, farVars
<1>6. /\ pump \in Pump /\ pump' \in Pump
      /\ pump'.session = pump.session /\ pump'.dial = pump.dial /\ pump'.file = pump.file
      /\ pump'.pc = IF pump.pc = "waiting" THEN "woken" ELSE pump.pc
  BY <1>5 DEF GatewayTypeOK, Pump
<1>7. GatewayTypeOK'
  BY <1>4, <1>5, <1>6 DEF GatewayTypeOK
<1>8. FilesAreNamed'
  <2>1. pump.file # None => pump.file \in Nat /\ pump.file < seq
    BY <1>3, <1>6 DEF FilesAreNamed, Pump
  <2>2. seq \in Nat
    BY DEF GatewayTypeOK
  <2> QED
    BY <1>4, <1>6, <2>1, <2>2 DEF FilesAreNamed
<1>9. PumpKnows'
  BY <1>3, <1>5, <1>6 DEF PumpKnows, OneSession
<1>10. TransferInv'
  <2>1. pump.pc = "sending" =>
          \E f \in spool' : f.name = pump.file /\ Transferring(conns[pump.session], f.bundle, taken)
    BY <1>3, <1>4 DEF TransferInv
  <2>2. ASSUME pump.pc = "acked", NEW f \in spool', f.name = pump.file PROVE f.bundle \in taken
    <3>1. f.name # None
      BY <1>4, Apart DEF File
    <3>2. f \in spool
      BY <1>3, <1>4, <2>2, <3>1 DEF FilesAreNamed
    <3> QED
      BY <1>3, <2>2, <3>2 DEF TransferInv
  <2>3. \A k \in Conns : k \in {pump.session, pump.dial} /\ pump.pc \notin {"sending", "failed"} => Quiet(conns[k])
    BY <1>3 DEF TransferInv
  <2>4. pump'.pc \in {"sending", "failed", "acked"} <=> pump.pc \in {"sending", "failed", "acked"}
    BY <1>6
  <2> QED
    BY <1>5, <1>6, <2>1, <2>2, <2>3 DEF TransferInv
<1>11. NothingLost'
  BY <1>4, <1>5 DEF NothingLost
<1>12. \A k \in Conns : Greeting(layer', conns'[k])
  BY <1>5 DEF GatewayInvariant
<1> QED
  BY <1>7, <1>8, <1>9, <1>10, <1>11, <1>12 DEF GatewayInvariant

\* A is killed: every connection is shut and the pump knows of none.
LEMMA KilledKeeps ==
  ASSUME GatewayTypeOK, GatewayInvariant, Killed, layer' = layer, taken' = taken,
         spool' \subseteq File, IsFiniteSet(spool'), seq' \in Nat, stored' \in Seq(Bundles),
         \A f \in spool' : f.name < seq',
         \A f, g \in spool' : f.name = g.name => f = g,
         \A i \in DOMAIN stored' : stored'[i] \in taken \/ \E f \in spool' : f.bundle = stored'[i]
  PROVE  GatewayTypeOK' /\ GatewayInvariant'
<1>1. /\ conns \in [Conns -> Connection] /\ conns' = [k \in Conns |-> ShutA(conns[k])]
      /\ pump' = [pc |-> "down", session |-> None, dial |-> None, file |-> None]
  BY DEF Killed, Down, GatewayTypeOK
<1>2. \A k \in Conns : conns'[k] \in Connection /\ Greeting(layer, conns'[k]) /\ ~Open(conns'[k].a)
  <2> TAKE k \in Conns
  <2>1. Greeting(layer, conns[k]) /\ conns[k] \in Connection
    BY <1>1 DEF GatewayInvariant
  <2>2. ~Open(conns[k].b) => conns[k].toB = <<>>
    BY <2>1 DEF Greeting
  <2>3. ShutA(conns[k]) \in Connection
    BY <2>1, ShutFields
  <2>4. Greeting(layer, ShutA(conns[k])) /\ ~Open(ShutA(conns[k]).a)
    BY <2>1, <2>2, GreetingShutA
  <2> QED
    BY <1>1, <2>3, <2>4
<1>3. pump' \in Pump
  BY <1>1 DEF Pump
<1>4. GatewayTypeOK'
  BY <1>1, <1>2, <1>3 DEF GatewayTypeOK
<1>5. FilesAreNamed'
  BY <1>1 DEF FilesAreNamed
<1>6. PumpKnows'
  BY <1>1, <1>2 DEF PumpKnows, OneSession
<1>7. TransferInv'
  BY <1>1, Apart DEF TransferInv
<1>8. NothingLost'
  BY DEF NothingLost
<1> QED
  BY <1>2, <1>4, <1>5, <1>6, <1>7, <1>8 DEF GatewayInvariant

LEMMA CrashKeeps ==
  ASSUME GatewayTypeOK, GatewayInvariant, Crash
  PROVE  GatewayTypeOK' /\ GatewayInvariant'
<1>1. layer' = layer /\ taken' = taken /\ spool' = spool /\ seq' = seq /\ stored' = stored /\ Killed
  BY DEF Crash, diskVars, farVars
<1>2. /\ spool \subseteq File /\ IsFiniteSet(spool) /\ seq \in Nat /\ stored \in Seq(Bundles)
      /\ \A f \in spool : f.name < seq
      /\ \A f, g \in spool : f.name = g.name => f = g
      /\ \A i \in DOMAIN stored : stored[i] \in taken \/ \E f \in spool : f.bundle = stored[i]
  BY DEF GatewayTypeOK, GatewayInvariant, FilesAreNamed, NothingLost
<1> QED
  BY <1>1, <1>2, KilledKeeps

LEMMA KilledSpoolingKeeps ==
  ASSUME GatewayTypeOK, GatewayInvariant, NEW p \in Payloads, KilledSpooling(p)
  PROVE  GatewayTypeOK' /\ GatewayInvariant'
<1>0. PICK of \in Sizes : \E n \in 1 .. (of - 1) : Add(p, n, of)
  BY DEF KilledSpooling
<1>1. PICK n \in 1 .. (of - 1) : Add(p, n, of)
  BY <1>0
<1>2. n \in 1 .. of
  <2>1. of \in Nat
    BY GatewayAssumption
  <2> QED
    BY <2>1
<1>3. FilesAreNamed /\ NothingLost
  BY DEF GatewayInvariant
<1>4. /\ spool' \subseteq File /\ IsFiniteSet(spool') /\ seq' \in Nat /\ stored' \in Seq(Bundles)
      /\ \A f \in spool' : f.name < seq'
      /\ \A f, g \in spool' : f.name = g.name => f = g
      /\ \A i \in DOMAIN stored' : stored'[i] \in taken \/ \E f \in spool' : f.bundle = stored'[i]
  BY <1>1, <1>2, <1>3, Adding
<1>5. layer' = layer /\ taken' = taken /\ Killed
  BY DEF KilledSpooling, farVars
<1> QED
  BY <1>4, <1>5, KilledKeeps

LEMMA RestartKeeps ==
  ASSUME GatewayTypeOK, GatewayInvariant, Restart
  PROVE  GatewayTypeOK' /\ GatewayInvariant'
<1>1. /\ layer' = layer /\ conns' = conns /\ taken' = taken /\ spool' = spool /\ stored' = stored
      /\ seq' = NextName(spool) /\ pump.pc = "down"
      /\ pump' = [pc |-> "woken", session |-> None, dial |-> None, file |-> None]
  BY DEF Restart, Down, farVars
<1>2. FilesAreNamed /\ PumpKnows /\ TransferInv /\ NothingLost
  BY DEF GatewayInvariant
<1>3. seq' \in Nat /\ \A f \in spool' : f.name < seq'
  BY <1>1, NextNameIsNew DEF GatewayTypeOK
<1>4. pump' \in Pump
  BY <1>1 DEF Pump
<1>5. GatewayTypeOK'
  BY <1>1, <1>3, <1>4 DEF GatewayTypeOK
<1>6. FilesAreNamed'
  BY <1>1, <1>2, <1>3 DEF FilesAreNamed
<1>7. PumpKnows'
  BY <1>1, <1>2 DEF PumpKnows, OneSession
<1>8. TransferInv'
  BY <1>1, Apart DEF TransferInv
<1>9. NothingLost' /\ \A k \in Conns : Greeting(layer', conns'[k])
  BY <1>1, <1>2 DEF NothingLost, GatewayInvariant
<1> QED
  BY <1>5, <1>6, <1>7, <1>8, <1>9 DEF GatewayInvariant

\* Only the pump and connections change, and no transfer goes on.
LEMMA NoTransfer ==
  ASSUME GatewayTypeOK, GatewayInvariant, UNCHANGED <<layer, diskVars, farVars>>,
         pump' \in Pump, pump'.file \in {None, pump.file},
         pump'.pc \notin {"sending", "acked"},
         conns' \in [Conns -> Connection],
         \A k \in Conns : Greeting(layer, conns'[k]),
         \A k \in Conns : k \in {pump'.session, pump'.dial} /\ pump'.pc # "failed" => Quiet(conns'[k]),
         PumpKnows'
  PROVE  GatewayTypeOK' /\ GatewayInvariant'
<1>1. /\ layer' = layer /\ taken' = taken /\ spool' = spool /\ seq' = seq /\ stored' = stored
      /\ FilesAreNamed /\ NothingLost
  BY DEF diskVars, farVars, GatewayInvariant
<1>2. GatewayTypeOK'
  BY <1>1 DEF GatewayTypeOK
<1>3. FilesAreNamed'
  BY <1>1 DEF FilesAreNamed
<1>4. TransferInv'
  BY <1>1 DEF TransferInv
<1>5. NothingLost'
  BY <1>1 DEF NothingLost
<1> QED
  BY <1>1, <1>2, <1>3, <1>4, <1>5 DEF GatewayInvariant

LEMMA ShutAKeepsGreeting ==
  ASSUME NEW l, NEW c \in Connection, Greeting(l, c)
  PROVE  /\ ShutA(c) \in Connection /\ Greeting(l, ShutA(c)) /\ (Quiet(c) => Quiet(ShutA(c)))
         /\ ~Open(ShutA(c).a) /\ ShutA(c).ready = c.ready
<1>1. ~Open(c.b) => c.toB = <<>>
  BY DEF Greeting
<1> QED
  BY <1>1, GreetingShutA, ShutFields

LEMMA ConnectFailsKeeps ==
  ASSUME GatewayTypeOK, GatewayInvariant, ConnectFails
  PROVE  GatewayTypeOK' /\ GatewayInvariant'
<1>1. /\ conns \in [Conns -> Connection] /\ pump \in Pump /\ PumpKnows
      /\ \A k \in Conns : Greeting(layer, conns[k])
  BY DEF GatewayTypeOK, GatewayInvariant
<1>2. /\ pump.pc = "connecting" /\ pump' = [pump EXCEPT !.pc = "failed"]
      /\ UNCHANGED <<layer, diskVars, farVars>>
  BY DEF ConnectFails
<1>3. /\ pump' \in Pump /\ pump'.pc = "failed" /\ pump'.file = pump.file
      /\ pump'.session = pump.session /\ pump'.dial = pump.dial /\ pump.session = None
  BY <1>1, <1>2 DEF Pump, PumpKnows
<1>4. CASE pump.dial = None /\ UNCHANGED conns
  <2>1. PumpKnows'
    BY <1>1, <1>2, <1>3, <1>4 DEF PumpKnows, OneSession
  <2> QED
    BY <1>1, <1>2, <1>3, <1>4, <2>1, NoTransfer
<1>5. CASE pump.dial # None /\ conns' = [conns EXCEPT ![pump.dial] = ShutA(@)]
  <2>1. pump.dial \in Conns
    BY <1>1, <1>5 DEF Pump
  <2>2. /\ conns'[pump.dial] = ShutA(conns[pump.dial])
        /\ \A k \in Conns : k # pump.dial => conns'[k] = conns[k]
    BY <1>1, <1>5, <2>1
  <2>3. /\ ShutA(conns[pump.dial]) \in Connection /\ Greeting(layer, ShutA(conns[pump.dial]))
        /\ ~Open(ShutA(conns[pump.dial]).a) /\ ShutA(conns[pump.dial]).ready = conns[pump.dial].ready
    BY <1>1, <2>1, ShutAKeepsGreeting
  <2>4. conns' \in [Conns -> Connection]
    BY <1>1, <1>5, <2>3
  <2>5. \A k \in Conns : Greeting(layer, conns'[k])
    BY <1>1, <2>2, <2>3
  <2>6. PumpKnows'
    BY <1>1, <1>3, <2>1, <2>2, <2>3 DEF PumpKnows, OneSession
  <2> QED
    BY <1>2, <1>3, <2>4, <2>5, <2>6, NoTransfer
<1> QED
  BY <1>4, <1>5 DEF ConnectFails

\* A new connection.
Dialled(c) == [c EXCEPT !.a = Fresh, !.b = Fresh, !.toB = Word("contact")]

LEMMA FreshFields ==
  ASSUME NEW c, c = NoConnection
  PROVE  LET d == Dialled(c)
         IN  /\ c \in Connection /\ d \in Connection /\ d.ready = "no" /\ c.ready = "no"
             /\ Quiet(d) /\ \A l : Greeting(l, d) /\ Greeting(l, c)
             /\ ~Open(c.a)
<1> DEFINE w == Word("contact")
           d == [c EXCEPT !.a = Fresh, !.b = Fresh, !.toB = w]
<1>1. w \in Seq(Words) /\ w # <<>> /\ DOMAIN w = {1} /\ w[1].kind = "contact"
  BY Written, OneWord DEF Word
<1>2. <<>> \in Seq(Words) /\ DOMAIN <<>> = {}
  OBVIOUS
<1>3. NoEnd \in Ends /\ Fresh \in Ends /\ NoEnd.state = "none" /\ Fresh.state = "contact"
  BY DEF NoEnd, Fresh, Ends
<1>4. /\ c.a = NoEnd /\ c.b = NoEnd /\ c.toA = <<>> /\ c.toB = <<>> /\ c.cut = FALSE /\ c.ready = "no"
      /\ c \in Connection
  BY <1>2, <1>3 DEF NoConnection, Connection
<1>5. \A l : Greeting(l, c)
  BY <1>2, <1>3, <1>4 DEF Greeting, Open
<1> HIDE DEF w
<1>6. /\ d \in Connection /\ d.a = Fresh /\ d.b = Fresh /\ d.toB = w /\ d.toA = <<>> /\ d.ready = "no"
  BY <1>1, <1>3, <1>4 DEF Connection
<1> HIDE DEF d
<1>7. \A l : Greeting(l, d)
  <2>1. w = Word("contact")
    BY DEF w
  <2> QED
    BY <1>2, <1>3, <1>6, <2>1 DEF Greeting, Open
<1>8. Quiet(d) /\ ~Open(c.a)
  BY <1>3, <1>4, <1>6 DEF Quiet, Open
<1> QED
  BY <1>4, <1>5, <1>6, <1>7, <1>8 DEF d, w, Dialled

LEMMA TcpConnectKeeps ==
  ASSUME GatewayTypeOK, GatewayInvariant, NEW k \in Conns, TcpConnect(k)
  PROVE  GatewayTypeOK' /\ GatewayInvariant'
<1> DEFINE d == Dialled(conns[k])
<1>1. /\ conns \in [Conns -> Connection] /\ pump \in Pump /\ PumpKnows
      /\ \A j \in Conns : Greeting(layer, conns[j])
  BY DEF GatewayTypeOK, GatewayInvariant
<1>2. /\ pump.pc = "connecting" /\ pump.dial = None /\ conns[k] = NoConnection
      /\ pump' = [pump EXCEPT !.dial = k] /\ UNCHANGED <<layer, diskVars, farVars>>
  BY DEF TcpConnect
<1>3. conns' = [conns EXCEPT ![k] = d]
  <2>1. conns' = [conns EXCEPT ![k].a = Fresh, ![k].b = Fresh, ![k].toB = Word("contact")]
    BY DEF TcpConnect
  <2> QED
    BY <1>1, <2>1 DEF Dialled
<1>4. /\ d \in Connection /\ d.ready = "no" /\ Quiet(d) /\ Greeting(layer, d) /\ ~Open(conns[k].a)
  BY <1>2, FreshFields
<1> HIDE DEF d
<1>5. /\ pump' \in Pump /\ pump'.pc = "connecting" /\ pump'.file = pump.file
      /\ pump'.session = None /\ pump'.dial = k
  BY <1>1, <1>2 DEF Pump, PumpKnows
<1>6. conns' \in [Conns -> Connection] /\ conns'[k] = d /\ \A j \in Conns : j # k => conns'[j] = conns[j]
  BY <1>1, <1>3, <1>4
<1>7. \A j \in Conns : Greeting(layer, conns'[j])
  BY <1>1, <1>4, <1>6
<1>8. \A j \in Conns : Open(conns[j].a) => j \in {pump.session, pump.dial}
  BY <1>1 DEF PumpKnows, OneSession
<1>9. \A j \in Conns : ~Open(conns[j].a)
  BY <1>1, <1>2, <1>8, Apart DEF PumpKnows
<1>10. PumpKnows'
  BY <1>4, <1>5, <1>6, <1>9 DEF PumpKnows, OneSession
<1>11. \A j \in Conns : j \in {pump'.session, pump'.dial} => Quiet(conns'[j])
  BY <1>4, <1>5, <1>6, Apart
<1> QED
  BY <1>2, <1>5, <1>6, <1>7, <1>10, <1>11, NoTransfer

LEMMA CatchKeeps ==
  ASSUME GatewayTypeOK, GatewayInvariant, Catch
  PROVE  GatewayTypeOK' /\ GatewayInvariant'
<1>1. /\ conns \in [Conns -> Connection] /\ pump \in Pump /\ PumpKnows
      /\ \A k \in Conns : Greeting(layer, conns[k])
  BY DEF GatewayTypeOK, GatewayInvariant
<1>2. /\ pump.pc = "failed" /\ UNCHANGED <<layer, diskVars, farVars>>
      /\ pump' = [pc |-> "backoff", session |-> None, dial |-> None, file |-> None]
      /\ conns' = IF pump.session = None THEN conns ELSE [conns EXCEPT ![pump.session] = ShutA(@)]
  BY DEF Catch, Down
<1>3. pump' \in Pump
  BY <1>2 DEF Pump
<1>4. \A k \in Conns : Open(conns[k].a) => k = pump.session
  <2> SUFFICES ASSUME NEW k \in Conns, Open(conns[k].a) PROVE k = pump.session
    OBVIOUS
  <2>1. k \in {pump.session, pump.dial}
    BY <1>1 DEF PumpKnows, OneSession
  <2>2. pump.dial # None => ~Open(conns[pump.dial].a)
    BY <1>1, <1>2 DEF PumpKnows
  <2> QED
    BY <2>1, <2>2, Apart
<1>5. conns' \in [Conns -> Connection] /\ \A k \in Conns : Greeting(layer, conns'[k]) /\ ~Open(conns'[k].a)
  <2>1. CASE pump.session = None
    BY <1>1, <1>2, <1>4, <2>1, Apart
  <2>2. CASE pump.session # None
    <3>1. pump.session \in Conns
      BY <1>1, <2>2 DEF Pump
    <3>2. /\ ShutA(conns[pump.session]) \in Connection /\ Greeting(layer, ShutA(conns[pump.session]))
          /\ ~Open(ShutA(conns[pump.session]).a)
      BY <1>1, <3>1, ShutAKeepsGreeting
    <3>3. conns' = [conns EXCEPT ![pump.session] = ShutA(conns[pump.session])]
      BY <1>2, <2>2
    <3>4. /\ conns'[pump.session] = ShutA(conns[pump.session])
          /\ \A k \in Conns : k # pump.session => conns'[k] = conns[k]
      BY <1>1, <3>1, <3>3
    <3>5. conns' \in [Conns -> Connection]
      BY <1>1, <3>2, <3>3
    <3> QED
      BY <1>1, <1>4, <3>2, <3>4, <3>5
  <2> QED
    BY <2>1, <2>2
<1>6. PumpKnows'
  BY <1>2, <1>5 DEF PumpKnows, OneSession
<1>7. \A k \in Conns : ~(k \in {pump'.session, pump'.dial})
  BY <1>2, Apart
<1> QED
  BY <1>2, <1>3, <1>5, <1>6, <1>7, NoTransfer

LEMMA AckTimeoutKeeps ==
  ASSUME GatewayTypeOK, GatewayInvariant, AckTimeout
  PROVE  GatewayTypeOK' /\ GatewayInvariant'
<1> DEFINE k == pump.session
           d == [conns[k] EXCEPT !.a.sending = None]
<1>1. /\ conns \in [Conns -> Connection] /\ pump \in Pump /\ PumpKnows
      /\ \A j \in Conns : Greeting(layer, conns[j])
  BY DEF GatewayTypeOK, GatewayInvariant
<1>2. /\ pump.pc = "sending" /\ UNCHANGED <<layer, diskVars, farVars>>
      /\ pump' = [pump EXCEPT !.pc = "failed"]
      /\ conns' = [conns EXCEPT ![pump.session].a.sending = None]
  BY DEF AckTimeout
<1>3. k \in Conns /\ pump.dial = None
  BY <1>1, <1>2 DEF PumpKnows, Pump
<1>4. conns' = [conns EXCEPT ![k] = d]
  BY <1>1, <1>2, <1>3
<1>5. /\ d \in Connection /\ d.a.state = conns[k].a.state /\ d.b = conns[k].b /\ d.toA = conns[k].toA
      /\ d.toB = conns[k].toB /\ d.cut = conns[k].cut /\ d.ready = conns[k].ready
  <2> DEFINE c == conns[k]
             e == [c.a EXCEPT !.sending = None]
  <2>1. c \in Connection
    BY <1>1, <1>3
  <2>2. c.a \in Ends
    BY <2>1 DEF Connection
  <2>3. e \in Ends /\ e.state = c.a.state
    BY <2>2 DEF Ends
  <2>4. d = [c EXCEPT !.a = e]
    OBVIOUS
  <2> HIDE DEF e, c, d
  <2>5. /\ d \in Connection /\ d.a = e /\ d.b = c.b /\ d.toA = c.toA
        /\ d.toB = c.toB /\ d.cut = c.cut /\ d.ready = c.ready
    BY <2>1, <2>3, <2>4 DEF Connection
  <2> QED
    BY <2>3, <2>5 DEF c
<1>6. /\ pump' \in Pump /\ pump'.pc = "failed" /\ pump'.file = pump.file
      /\ pump'.session = pump.session /\ pump'.dial = None
  BY <1>1, <1>2, <1>3 DEF Pump
<1> HIDE DEF d
<1>7. conns' \in [Conns -> Connection] /\ conns'[k] = d /\ \A j \in Conns : j # k => conns'[j] = conns[j]
  BY <1>1, <1>3, <1>4, <1>5, SMTT(60)
<1>8. Greeting(layer, d)
  <2>1. Greeting(layer, conns[k])
    BY <1>1, <1>3
  <2> QED
    BY <1>5, <2>1 DEF Greeting, Open
<1>9. \A j \in Conns : Greeting(layer, conns'[j])
  BY <1>1, <1>7, <1>8
<1>10. PumpKnows'
  BY <1>1, <1>3, <1>5, <1>6, <1>7 DEF PumpKnows, OneSession, Open
<1> QED
  BY <1>2, <1>6, <1>7, <1>9, <1>10, NoTransfer

\* A's end of a connection is gone: its handlers run.
LEMMA ALeaves ==
  ASSUME GatewayTypeOK, GatewayInvariant, UNCHANGED <<layer, diskVars, farVars>>,
         NEW k \in Conns, Open(conns[k].a), pump' = PumpOnClose(k),
         NEW d \in Connection, conns' = [conns EXCEPT ![k] = d],
         Greeting(layer, d), ~Open(d.a), d.ready = conns[k].ready
  PROVE  GatewayTypeOK' /\ GatewayInvariant'
<1> DEFINE listened == conns[k].ready = "listened"
           rejected == \/ pump.pc = "sending" /\ pump.session = k /\ conns[k].a.sending # None
                       \/ pump.pc = "connecting" /\ pump.dial = k /\ conns[k].ready = "no"
<1>1. /\ conns \in [Conns -> Connection] /\ pump \in Pump /\ PumpKnows /\ TransferInv
      /\ \A j \in Conns : Greeting(layer, conns[j])
      /\ layer' = layer /\ taken' = taken /\ spool' = spool /\ seq' = seq /\ stored' = stored
      /\ FilesAreNamed /\ NothingLost
  BY DEF GatewayTypeOK, GatewayInvariant, diskVars, farVars
<1>2. pump' = [pump EXCEPT !.pc = IF rejected THEN "failed" ELSE IF listened /\ @ = "waiting" THEN "woken" ELSE @,
                           !.session = IF listened THEN None ELSE @]
  BY DEF PumpOnClose
<1>3. /\ pump' \in Pump /\ pump'.dial = pump.dial /\ pump'.file = pump.file
      /\ pump'.session = IF listened THEN None ELSE pump.session
      /\ pump'.pc = IF rejected THEN "failed" ELSE IF listened /\ pump.pc = "waiting" THEN "woken" ELSE pump.pc
  <2> HIDE DEF rejected, listened
  <2> QED
    BY <1>1, <1>2 DEF Pump
<1>4. conns' \in [Conns -> Connection] /\ conns'[k] = d /\ \A j \in Conns : j # k => conns'[j] = conns[j]
  BY <1>1
<1>5. \A j \in Conns : Greeting(layer, conns'[j])
  BY <1>1, <1>4
<1>6. k \in {pump.session, pump.dial} /\ k # None
  BY <1>1, Apart DEF PumpKnows, OneSession
<1>7. listened => pump.session = k
  <2>1. pump.dial # None => conns[pump.dial].ready # "listened"
    BY <1>1 DEF PumpKnows
  <2> QED
    BY <1>6, <2>1
<1>8. pump.pc = "sending" => rejected
  <2>1. pump.pc = "sending" => pump.dial = None /\ conns[pump.session].a.sending # None
    BY <1>1 DEF PumpKnows
  <2> QED
    BY <1>6, <2>1
<1>9. rejected => pump.pc = "sending" \/ (pump.pc = "connecting" /\ pump.dial = k)
  OBVIOUS
<1> HIDE DEF rejected
<1>10. pump'.pc # "sending"
  BY <1>3, <1>8
<1>11. PumpKnows'
  <2>1. OneSession'
    <3> SUFFICES ASSUME NEW j \in Conns, Open(conns'[j].a) PROVE j \in {pump'.session, pump'.dial}
      BY DEF OneSession
    <3>1. j # k
      BY <1>4
    <3>2. j \in {pump.session, pump.dial}
      BY <1>1, <1>4, <3>1 DEF PumpKnows, OneSession
    <3> QED
      BY <1>3, <1>7, <3>1, <3>2
  <2>2. pump'.pc \in {"down", "backoff", "connecting"} => pump'.session = None
    BY <1>1, <1>3 DEF PumpKnows
  <2>3. pump'.pc \notin {"connecting", "failed"} => pump'.dial = None
    BY <1>1, <1>3 DEF PumpKnows
  <2>4. pump'.dial # None => pump'.dial \in Conns /\ conns'[pump'.dial].ready # "listened"
    BY <1>1, <1>3, <1>4 DEF PumpKnows, Pump
  <2>5. pump'.pc = "failed" /\ pump'.dial # None => ~Open(conns'[pump'.dial].a)
    <3> SUFFICES ASSUME pump'.pc = "failed", pump'.dial # None PROVE ~Open(conns'[pump.dial].a)
      BY <1>3
    <3>1. pump.dial \in Conns
      BY <1>3, <2>4
    <3>2. CASE pump.dial = k
      BY <1>4, <3>2
    <3>3. CASE pump.dial # k
      <4>1. pump.pc = "failed"
        BY <1>1, <1>3, <1>9, <3>3 DEF PumpKnows
      <4> QED
        BY <1>1, <1>3, <1>4, <3>1, <3>3, <4>1 DEF PumpKnows
    <3> QED
      BY <3>2, <3>3
  <2>6. pump'.pc \in {"down", "backoff"} => pump'.file = None
    BY <1>1, <1>3 DEF PumpKnows
  <2> QED
    BY <1>10, <2>1, <2>2, <2>3, <2>4, <2>5, <2>6 DEF PumpKnows
<1>12. Quiet(d)
  BY DEF Quiet, Open
<1>13. TransferInv'
  <2>1. ASSUME NEW j \in Conns, j \in {pump'.session, pump'.dial}, pump'.pc \notin {"sending", "failed"}
        PROVE  Quiet(conns'[j])
    <3>1. j \in {pump.session, pump.dial} /\ pump.pc \notin {"sending", "failed"}
      BY <1>3, <1>8, <2>1, Apart
    <3>2. Quiet(conns[j])
      BY <1>1, <3>1 DEF TransferInv
    <3> QED
      BY <1>4, <1>12, <3>2
  <2>2. pump'.pc = "acked" => \A f \in spool : f.name = pump.file => f.bundle \in taken
    BY <1>1, <1>3 DEF TransferInv
  <2> QED
    BY <1>1, <1>3, <1>10, <2>1, <2>2 DEF TransferInv
<1>14. GatewayTypeOK'
  BY <1>1, <1>3, <1>4 DEF GatewayTypeOK
<1>15. FilesAreNamed' /\ NothingLost'
  BY <1>1, <1>3 DEF FilesAreNamed, NothingLost
<1> QED
  BY <1>1, <1>5, <1>11, <1>13, <1>14, <1>15 DEF GatewayInvariant

LEMMA CloseAKeeps ==
  ASSUME GatewayTypeOK, GatewayInvariant, NEW k \in Conns, CloseA(k)
  PROVE  GatewayTypeOK' /\ GatewayInvariant'
<1>1. conns[k] \in Connection /\ Greeting(layer, conns[k])
  BY DEF GatewayTypeOK, GatewayInvariant
<1>2. /\ Open(conns[k].a) /\ conns' = [conns EXCEPT ![k] = ShutA(conns[k])] /\ pump' = PumpOnClose(k)
      /\ UNCHANGED <<layer, diskVars, farVars>>
  BY DEF CloseA
<1>3. /\ ShutA(conns[k]) \in Connection /\ Greeting(layer, ShutA(conns[k]))
      /\ ~Open(ShutA(conns[k]).a) /\ ShutA(conns[k]).ready = conns[k].ready
  BY <1>1, ShutAKeepsGreeting
<1> QED
  BY <1>2, <1>3, ALeaves

LEMMA IdleTimeoutAKeeps ==
  ASSUME GatewayTypeOK, GatewayInvariant, NEW k \in Conns, IdleTimeoutA(k)
  PROVE  GatewayTypeOK' /\ GatewayInvariant'
<1> DEFINE d == ShutA(ToB(conns[k], Farewell))
<1>1. conns \in [Conns -> Connection] /\ Greeting(layer, conns[k]) /\ layer \in Layers
  BY DEF GatewayTypeOK, GatewayInvariant
<1>2. /\ Open(conns[k].a) /\ conns' = [conns EXCEPT ![k] = d] /\ pump' = PumpOnClose(k)
      /\ UNCHANGED <<layer, diskVars, farVars>>
  BY <1>1 DEF IdleTimeoutA, Open
<1>3. d \in Connection /\ Greeting(layer, d) /\ ~Open(d.a) /\ d.ready = conns[k].ready
  BY <1>1, <1>2, FarewellWords, GreetingFarewellA
<1> HIDE DEF d
<1> QED
  BY <1>2, <1>3, ALeaves

\* What the pump does when A has heard the first word on connection k.
Settles(k, settled) ==
  IF settled = None \/ pump.pc # "sending" \/ pump.session # k THEN pump
  ELSE [pump EXCEPT !.pc = IF settled = "acked" THEN "acked" ELSE "failed"]

LEMMA HearAMakes ==
  ASSUME GatewayTypeOK, GatewayInvariant, NEW k \in Conns, HearA(k)
  PROVE  /\ conns[k] \in Connection /\ Greeting(layer, conns[k]) /\ conns[k].toA # <<>> /\ layer \in Layers
         /\ conns' = [conns EXCEPT ![k] = HeardA(layer, conns[k])]
         /\ pump' = Settles(k, HearsA(layer, conns[k].a, conns[k].toA[1]).settled)
         /\ UNCHANGED <<layer, diskVars, farVars>>
<1>1. conns[k] \in Connection /\ Greeting(layer, conns[k]) /\ conns[k].toA # <<>> /\ layer \in Layers
  BY DEF HearA, GatewayTypeOK, GatewayInvariant
<1>2. Head(conns[k].toA) = conns[k].toA[1]
  BY <1>1, Hearing DEF Connection
<1>3. conns' = [conns EXCEPT ![k] = HeardA(layer, conns[k])]
  BY DEF HearA, HeardA, HearsA
<1>4. pump' = Settles(k, HearsA(layer, conns[k].a, conns[k].toA[1]).settled)
  BY <1>2 DEF HearA, HearsA, Settles
<1>5. UNCHANGED <<layer, diskVars, farVars>>
  BY DEF HearA
<1> QED
  BY <1>1, <1>3, <1>4, <1>5

LEMMA HearAKeeps ==
  ASSUME GatewayTypeOK, GatewayInvariant, NEW k \in Conns, HearA(k)
  PROVE  GatewayTypeOK' /\ GatewayInvariant'
<1> DEFINE c == conns[k]
           r == HearsA(layer, c.a, c.toA[1])
           d == HeardA(layer, c)
<1>1. /\ conns \in [Conns -> Connection] /\ pump \in Pump /\ PumpKnows /\ TransferInv
      /\ \A j \in Conns : Greeting(layer, conns[j])
      /\ FilesAreNamed /\ NothingLost
  BY DEF GatewayTypeOK, GatewayInvariant
<1>2. /\ c \in Connection /\ Greeting(layer, c) /\ c.toA # <<>> /\ layer \in Layers
      /\ conns' = [conns EXCEPT ![k] = d] /\ pump' = Settles(k, r.settled)
      /\ layer' = layer /\ taken' = taken /\ spool' = spool /\ seq' = seq /\ stored' = stored
  BY HearAMakes DEF diskVars, farVars
<1>3. /\ d \in Connection
      /\ d.ready = IF c.ready = "no" /\ r.end.state = "established" THEN "yes" ELSE c.ready
  BY <1>2, HeardAFields, SMTT(60)
<1>4. Open(c.a) /\ c.a.state \in {"contact", "init", "established", "ending"}
  BY <1>2 DEF Greeting, Open, Connection, Ends
<1>5. k \in {pump.session, pump.dial} /\ k # None
  BY <1>1, <1>4, Apart DEF PumpKnows, OneSession
<1>6. c.a.state \in {"contact", "init"} => Greeting(layer, d) /\ Quiet(d)
  BY <1>2, GreetedA
<1>7. c.a.state \in {"established", "ending"} =>
        /\ Greeting(layer, d) /\ (Quiet(c) => Quiet(d))
        /\ d.toB = c.toB /\ d.a.state \in {"established", "ending"}
        /\ d.a.sending = IF r.settled = None THEN c.a.sending ELSE None
        /\ r.settled \in {"acked", "refused", None}
  BY <1>2, AnsweredA
<1> DEFINE settles == ~(r.settled = None \/ pump.pc # "sending" \/ pump.session # k)
<1>8. ~settles => pump' = pump
  BY <1>2 DEF Settles
<1>9. settles => pump.pc = "sending" /\ pump.session = k /\ r.settled # None
                 /\ pump' = [pump EXCEPT !.pc = IF r.settled = "acked" THEN "acked" ELSE "failed"]
  BY <1>2 DEF Settles
<1>10. pump.pc = "sending" =>
         /\ pump.session \in Conns /\ pump.dial = None
         /\ conns[pump.session].a.state \in {"established", "ending"} /\ conns[pump.session].a.sending # None
  BY <1>1 DEF PumpKnows, Pump
<1>11. pump.pc = "sending" => pump.session = k /\ c.a.state \in {"established", "ending"}
  BY <1>5, <1>10
<1>12. pump.pc = "sending" =>
         \E f \in spool : f.name = pump.file /\ f.bundle \in Bundles /\ Transferring(c, f.bundle, taken)
  BY <1>1, <1>11 DEF TransferInv, GatewayTypeOK, File
<1>13. ASSUME NEW b \in Bundles, pump.pc = "sending", Transferring(c, b, taken)
       PROVE  /\ r.settled = None => Transferring(d, b, taken)
              /\ r.settled = "acked" => b \in taken /\ d.toB = <<>> /\ NoAcks(d.toA)
  <2>1. /\ Under(d, c.a.sending, b) /\ (Finished(d) => Finished(c))
        /\ r.settled = "acked" => Finished(c) /\ NoAcks(d.toA)
    BY <1>2, <1>11, <1>13, TransferAnsweredA DEF Transferring
  <2> HIDE DEF d, r, c
  <2> QED
    BY <1>7, <1>11, <1>13, <2>1 DEF Transferring
<1>14. conns'[k] = d /\ \A j \in Conns : j # k => conns'[j] = conns[j]
  BY <1>1, <1>2, <1>3
<1>15. conns' \in [Conns -> Connection]
  BY <1>1, <1>2, <1>3
<1>16. Greeting(layer, d) /\ (pump.pc \notin {"sending", "failed"} => Quiet(d))
  <2>1. pump.pc \notin {"sending", "failed"} => Quiet(c)
    BY <1>1, <1>5 DEF TransferInv
  <2> QED
    BY <1>4, <1>6, <1>7, <2>1
<1> HIDE DEF d, r, settles
<1>17. /\ pump' \in Pump /\ pump'.session = pump.session /\ pump'.dial = pump.dial /\ pump'.file = pump.file
       /\ ~settles => pump'.pc = pump.pc
       /\ settles => pump'.pc = IF r.settled = "acked" THEN "acked" ELSE "failed"
  <2>1. CASE ~settles
    BY <1>1, <1>8, <2>1
  <2>2. CASE settles
    BY <1>1, <1>9, <2>2 DEF Pump
  <2> QED
    BY <2>1, <2>2
<1>18. GatewayTypeOK'
  BY <1>2, <1>15, <1>17 DEF GatewayTypeOK
<1>19. FilesAreNamed' /\ NothingLost' /\ \A j \in Conns : Greeting(layer', conns'[j])
  BY <1>1, <1>2, <1>14, <1>16, <1>17 DEF FilesAreNamed, NothingLost
<1>20. PumpKnows'
  <2>1. OneSession'
    BY <1>1, <1>5, <1>14, <1>17 DEF OneSession, PumpKnows
  <2>2. pump'.dial # None => pump.dial \in Conns /\ conns'[pump.dial].ready # "listened"
    BY <1>1, <1>3, <1>14, <1>17 DEF PumpKnows, Pump
  <2>3. ASSUME pump'.pc = "failed", pump'.dial # None PROVE ~Open(conns'[pump'.dial].a)
    <3>1. pump.pc = "failed" /\ pump.dial # None
      BY <1>9, <1>10, <1>17, <2>3
    <3>2. pump.dial # k
      BY <1>1, <1>4, <3>1 DEF PumpKnows
    <3> QED
      BY <1>1, <1>14, <1>17, <2>2, <2>3, <3>1, <3>2 DEF PumpKnows
  <2>4. ASSUME pump'.pc = "sending"
        PROVE  /\ pump'.session # None /\ conns'[pump'.session].a.state \in {"established", "ending"}
               /\ conns'[pump'.session].a.sending # None
    <3>1. pump.pc = "sending" /\ ~settles
      BY <1>17, <2>4
    <3>2. r.settled = None
      BY <1>11, <3>1 DEF settles
    <3> QED
      BY <1>5, <1>7, <1>10, <1>11, <1>14, <1>17, <3>1, <3>2
  <2>5. /\ pump'.pc \in {"down", "backoff", "connecting"} => pump'.session = None
        /\ pump'.pc \in {"down", "backoff"} => pump'.file = None
        /\ pump'.pc \notin {"connecting", "failed"} => pump'.dial = None
    BY <1>1, <1>9, <1>10, <1>17 DEF PumpKnows
  <2> QED
    BY <1>17, <2>1, <2>2, <2>3, <2>4, <2>5 DEF PumpKnows
<1>21. TransferInv'
  <2>1. ASSUME NEW j \in Conns, j \in {pump'.session, pump'.dial}, pump'.pc \notin {"sending", "failed"}
        PROVE  Quiet(conns'[j])
    <3>1. CASE ~settles
      <4>1. pump.pc \notin {"sending", "failed"} /\ j \in {pump.session, pump.dial}
        BY <1>17, <2>1, <3>1
      <4>2. Quiet(conns[j])
        BY <1>1, <4>1 DEF TransferInv
      <4> QED
        BY <1>14, <1>16, <4>1, <4>2
    <3>2. CASE settles
      <4>1. r.settled = "acked" /\ pump.pc = "sending" /\ j = k
        BY <1>9, <1>10, <1>17, <2>1, <3>2, Apart
      <4>2. d.toB = <<>> /\ NoAcks(d.toA)
        BY <1>12, <1>13, <4>1
      <4> QED
        BY <1>14, <4>1, <4>2 DEF Quiet
    <3> QED
      BY <3>1, <3>2
  <2>2. ASSUME pump'.pc = "sending"
        PROVE  \E f \in spool : f.name = pump.file /\ Transferring(conns'[pump.session], f.bundle, taken)
    <3>1. pump.pc = "sending" /\ ~settles
      BY <1>17, <2>2
    <3>2. r.settled = None /\ pump.session = k
      BY <1>11, <3>1 DEF settles
    <3>3. PICK f \in spool : f.name = pump.file /\ f.bundle \in Bundles /\ Transferring(c, f.bundle, taken)
      BY <1>12, <3>1
    <3>4. Transferring(d, f.bundle, taken)
      BY <1>13, <3>1, <3>2, <3>3
    <3> QED
      BY <1>14, <3>2, <3>3, <3>4
  <2>3. ASSUME pump'.pc = "acked", NEW f \in spool, f.name = pump.file PROVE f.bundle \in taken
    <3>1. CASE ~settles
      BY <1>1, <1>17, <2>3, <3>1 DEF TransferInv
    <3>2. CASE settles
      <4>1. r.settled = "acked" /\ pump.pc = "sending"
        BY <1>9, <1>17, <2>3, <3>2
      <4>2. PICK g \in spool : g.name = pump.file /\ g.bundle \in Bundles /\ Transferring(c, g.bundle, taken)
        BY <1>12, <4>1
      <4>3. f = g
        BY <1>1, <2>3, <4>2 DEF FilesAreNamed
      <4> QED
        BY <1>13, <4>1, <4>2, <4>3
    <3> QED
      BY <3>1, <3>2
  <2> QED
    BY <1>2, <1>17, <2>1, <2>2, <2>3 DEF TransferInv
<1> QED
  BY <1>18, <1>19, <1>20, <1>21 DEF GatewayInvariant

-----------------------------------------------------------------------------
(* The turns of the pump.                                                  *)

\* A turn with session k, the only one there may be, and files of the spool.
LEMMA TurnKeeps ==
  ASSUME GatewayTypeOK, GatewayInvariant, layer.acks, NEW k \in Conns \cup {None},
         NEW files, files \subseteq spool, spool' = files,
         layer' = layer, seq' = seq, stored' = stored, taken' = taken,
         \A i \in DOMAIN stored : stored[i] \in taken \/ \E f \in files : f.bundle = stored[i],
         \A j \in Conns : Open(conns[j].a) => j = k,
         k = None => pump.session = None,
         k # None => Quiet(conns[k]),
         Turn(k, files)
  PROVE  GatewayTypeOK' /\ GatewayInvariant'
<1>1. /\ conns \in [Conns -> Connection] /\ pump \in Pump /\ layer \in Layers
      /\ \A j \in Conns : Greeting(layer, conns[j])
      /\ FilesAreNamed /\ spool \subseteq File /\ IsFiniteSet(spool)
  BY DEF GatewayTypeOK, GatewayInvariant
<1>2. spool' \subseteq File /\ IsFiniteSet(spool')
  BY <1>1, FS_Subset
<1>3. \A f \in files : f \in File /\ f.name < seq
  BY <1>1 DEF FilesAreNamed
<1>4. NothingLost'
  BY DEF NothingLost
<1>5. \A f, g \in spool' : f.name = g.name => f = g
  BY <1>1 DEF FilesAreNamed
<1>6. GatewayTypeOK' /\ GatewayInvariant'
  <2> SUFFICES /\ pump' \in Pump /\ conns' \in [Conns -> Connection]
               /\ pump'.file # None => pump'.file < seq
               /\ PumpKnows'
               /\ \A j \in Conns : Greeting(layer, conns'[j])
               /\ TransferInv'
    <3>1. seq \in Nat /\ stored \in Seq(Bundles) /\ taken \subseteq Bundles
      BY DEF GatewayTypeOK
    <3> QED
      BY <1>1, <1>2, <1>3, <1>4, <1>5, <3>1 DEF GatewayTypeOK, GatewayInvariant, FilesAreNamed
  <2>1. CASE k = None
    <3>1. /\ pump' = [pump EXCEPT !.pc = "connecting", !.dial = None, !.file = None] /\ conns' = conns
      BY <2>1 DEF Turn
    <3>2. /\ pump' \in Pump /\ pump'.pc = "connecting" /\ pump'.session = None /\ pump'.dial = None
          /\ pump'.file = None
      BY <1>1, <2>1, <3>1 DEF Pump
    <3>3. \A j \in Conns : ~Open(conns[j].a)
      BY <2>1, Apart
    <3>4. PumpKnows'
      BY <3>1, <3>2, <3>3 DEF PumpKnows, OneSession
    <3>5. TransferInv'
      BY <3>2, Apart DEF TransferInv
    <3> QED
      BY <1>1, <3>1, <3>2, <3>4, <3>5
  <2>2. CASE k # None /\ files = {}
    <3> DEFINE d == [conns[k] EXCEPT !.ready = "listened"]
    <3>1. k \in Conns
      BY <2>2
    <3>2. /\ pump' = [pump EXCEPT !.pc = "waiting", !.session = k, !.dial = None, !.file = None]
          /\ conns' = [conns EXCEPT ![k].ready = "listened"]
      BY <2>2 DEF Turn
    <3>3. conns' = [conns EXCEPT ![k] = d]
      BY <1>1, <3>1, <3>2
    <3>4. /\ d \in Connection /\ d.a = conns[k].a /\ d.b = conns[k].b /\ d.toA = conns[k].toA
          /\ d.toB = conns[k].toB /\ d.cut = conns[k].cut
      BY <1>1, <3>1 DEF Connection
    <3> HIDE DEF d
    <3>5. conns' \in [Conns -> Connection] /\ conns'[k] = d /\ \A j \in Conns : j # k => conns'[j] = conns[j]
      BY <1>1, <3>1, <3>3, <3>4
    <3>6. /\ pump' \in Pump /\ pump'.pc = "waiting" /\ pump'.session = k /\ pump'.dial = None
          /\ pump'.file = None
      BY <1>1, <3>1, <3>2 DEF Pump
    <3>7. Greeting(layer, d) /\ Quiet(d)
      <4>1. Greeting(layer, conns[k]) /\ Quiet(conns[k])
        BY <1>1, <2>2, <3>1
      <4> QED
        BY <3>4, <4>1 DEF Greeting, Open, Quiet
    <3>8. PumpKnows'
      BY <3>5, <3>6 DEF PumpKnows, OneSession
    <3>9. TransferInv'
      BY <3>5, <3>6, <3>7, Apart DEF TransferInv
    <3> QED
      BY <1>1, <3>5, <3>6, <3>7, <3>8, <3>9
  <2>3. CASE k # None /\ files # {}
    <3> DEFINE f == Oldest(files)
    <3>1. k \in Conns /\ f \in files /\ f \in File /\ f.name \in Nat /\ f.bundle \in Bundles /\ f.name < seq
      <4>1. files \subseteq File /\ IsFiniteSet(files)
        BY <1>2
      <4>2. f \in files
        BY <2>3, <4>1, OldestIsThere
      <4> QED
        BY <1>3, <2>3, <4>2 DEF File
    <3>2. Send(k, f)
      BY <2>3 DEF Turn
    <3> HIDE DEF f
    <3>3. Greeting(layer, conns[k]) /\ Quiet(conns[k]) /\ conns[k] \in Connection
      BY <1>1, <2>3, <3>1
    <3>4. CASE conns[k].a.state # "established"
      <4> DEFINE d == [conns[k] EXCEPT !.ready = "listened"]
      <4>1. /\ pump' = [pump EXCEPT !.session = k, !.dial = None, !.file = f.name, !.pc = "failed"]
            /\ conns' = [conns EXCEPT ![k] = d]
        BY <1>1, <3>1, <3>2, <3>4 DEF Send
      <4>2. /\ d \in Connection /\ d.a = conns[k].a /\ d.b = conns[k].b /\ d.toA = conns[k].toA
            /\ d.toB = conns[k].toB /\ d.cut = conns[k].cut
        BY <3>3 DEF Connection
      <4> HIDE DEF d
      <4>3. conns' \in [Conns -> Connection] /\ conns'[k] = d /\ \A j \in Conns : j # k => conns'[j] = conns[j]
        BY <1>1, <3>1, <4>1, <4>2
      <4>4. /\ pump' \in Pump /\ pump'.pc = "failed" /\ pump'.session = k /\ pump'.dial = None
            /\ pump'.file = f.name
        BY <1>1, <3>1, <4>1 DEF Pump
      <4>5. Greeting(layer, d)
        BY <3>3, <4>2 DEF Greeting, Open
      <4>6. PumpKnows'
        BY <4>2, <4>3, <4>4 DEF PumpKnows, OneSession
      <4>7. TransferInv'
        BY <4>4 DEF TransferInv
      <4> QED
        BY <1>1, <3>1, <4>3, <4>4, <4>5, <4>6, <4>7
    <3>5. CASE conns[k].a.state = "established"
      <4> DEFINE d == Begun(layer, conns[k], f.bundle)
      <4>1. pump' = [pump EXCEPT !.session = k, !.dial = None, !.file = f.name, !.pc = "sending"]
        BY <3>2, <3>5 DEF Send
      <4>2. conns' = [conns EXCEPT ![k] = d]
        BY <1>1, <3>1, <3>2, <3>5 DEF Send, Begun
      <4>3. /\ d \in Connection /\ d.ready = "listened" /\ Greeting(layer, d)
            /\ d.a.state = "established" /\ d.a.sending \in Nat
            /\ Under(d, d.a.sending, f.bundle) /\ ~Finished(d)
        BY <1>1, <3>1, <3>3, <3>5, TransferBegins
      <4> HIDE DEF d
      <4>4. conns' \in [Conns -> Connection] /\ conns'[k] = d /\ \A j \in Conns : j # k => conns'[j] = conns[j]
        BY <1>1, <3>1, <4>2, <4>3
      <4>5. /\ pump' \in Pump /\ pump'.pc = "sending" /\ pump'.session = k /\ pump'.dial = None
            /\ pump'.file = f.name
        BY <1>1, <3>1, <4>1 DEF Pump
      <4>6. PumpKnows'
        BY <3>1, <4>3, <4>4, <4>5, Apart DEF PumpKnows, OneSession
      <4>7. TransferInv'
        <5>1. Transferring(d, f.bundle, taken)
          BY <4>3 DEF Transferring
        <5> QED
          BY <3>1, <4>4, <4>5, <5>1 DEF TransferInv
      <4> QED
        BY <1>1, <3>1, <4>3, <4>4, <4>5, <4>6, <4>7
    <3> QED
      BY <3>4, <3>5
  <2> QED
    BY <2>1, <2>2, <2>3
<1> QED
  BY <1>6

LEMMA LoopKeeps ==
  ASSUME GatewayTypeOK, GatewayInvariant, layer.acks, Loop
  PROVE  GatewayTypeOK' /\ GatewayInvariant'
<1>1. /\ pump \in Pump /\ PumpKnows /\ TransferInv /\ NothingLost
  BY DEF GatewayTypeOK, GatewayInvariant
<1>2. /\ pump.pc \in {"woken", "backoff"} /\ Turn(pump.session, spool)
      /\ layer' = layer /\ spool' = spool /\ seq' = seq /\ stored' = stored /\ taken' = taken
  BY DEF Loop, diskVars, farVars
<1>3. pump.session \in Conns \cup {None} /\ pump.dial = None
  BY <1>1, <1>2 DEF Pump, PumpKnows
<1>4. \A j \in Conns : Open(conns[j].a) => j = pump.session
  BY <1>1, <1>3, Apart DEF PumpKnows, OneSession
<1>5. pump.session # None => Quiet(conns[pump.session])
  BY <1>1, <1>2, <1>3 DEF TransferInv
<1>6. \A i \in DOMAIN stored : stored[i] \in taken \/ \E f \in spool : f.bundle = stored[i]
  BY <1>1 DEF NothingLost
<1> QED
  BY <1>2, <1>3, <1>4, <1>5, <1>6, TurnKeeps

LEMMA ConnectedKeeps ==
  ASSUME GatewayTypeOK, GatewayInvariant, layer.acks, Connected
  PROVE  GatewayTypeOK' /\ GatewayInvariant'
<1>1. /\ pump \in Pump /\ PumpKnows /\ TransferInv /\ NothingLost
  BY DEF GatewayTypeOK, GatewayInvariant
<1>2. /\ pump.pc = "connecting" /\ pump.dial # None /\ Turn(pump.dial, spool)
      /\ layer' = layer /\ spool' = spool /\ seq' = seq /\ stored' = stored /\ taken' = taken
  BY DEF Connected, diskVars, farVars
<1>3. pump.dial \in Conns /\ pump.session = None
  BY <1>1, <1>2 DEF Pump, PumpKnows
<1>4. \A j \in Conns : Open(conns[j].a) => j = pump.dial
  BY <1>1, <1>3, Apart DEF PumpKnows, OneSession
<1>5. Quiet(conns[pump.dial])
  BY <1>1, <1>2, <1>3 DEF TransferInv
<1>6. \A i \in DOMAIN stored : stored[i] \in taken \/ \E f \in spool : f.bundle = stored[i]
  BY <1>1 DEF NothingLost
<1> QED
  BY <1>2, <1>3, <1>4, <1>5, <1>6, TurnKeeps

LEMMA SentKeeps ==
  ASSUME GatewayTypeOK, GatewayInvariant, layer.acks, Sent
  PROVE  GatewayTypeOK' /\ GatewayInvariant'
<1> DEFINE files == {f \in spool : f.name # pump.file}
<1>1. /\ pump \in Pump /\ PumpKnows /\ TransferInv /\ NothingLost
  BY DEF GatewayTypeOK, GatewayInvariant
<1>2. /\ pump.pc = "acked" /\ spool' = files /\ Turn(pump.session, files)
      /\ layer' = layer /\ seq' = seq /\ stored' = stored /\ taken' = taken
  BY DEF Sent, farVars
<1>3. pump.session \in Conns \cup {None} /\ pump.dial = None
  BY <1>1, <1>2 DEF Pump, PumpKnows
<1>4. \A j \in Conns : Open(conns[j].a) => j = pump.session
  BY <1>1, <1>3, Apart DEF PumpKnows, OneSession
<1>5. pump.session # None => Quiet(conns[pump.session])
  BY <1>1, <1>2, <1>3 DEF TransferInv
<1>6. \A i \in DOMAIN stored : stored[i] \in taken \/ \E f \in files : f.bundle = stored[i]
  <2> TAKE i \in DOMAIN stored
  <2>1. CASE stored[i] \in taken
    BY <2>1
  <2>2. ASSUME NEW f \in spool, f.bundle = stored[i], stored[i] \notin taken PROVE f \in files
    BY <1>1, <1>2, <2>2 DEF TransferInv
  <2> QED
    BY <1>1, <2>1, <2>2 DEF NothingLost
<1>7. files \subseteq spool
  OBVIOUS
<1> HIDE DEF files
<1> QED
  BY <1>2, <1>3, <1>4, <1>5, <1>6, <1>7, TurnKeeps

-----------------------------------------------------------------------------
(* The theorems.                                                           *)

LEMMA InitMakes ==
  ASSUME Init
  PROVE  GatewayTypeOK /\ GatewayInvariant
<1>1. /\ layer \in Layers /\ spool = {} /\ seq = 1 /\ stored = <<>> /\ taken = {}
      /\ pump = [pc |-> "woken", session |-> None, dial |-> None, file |-> None]
      /\ conns = [k \in Conns |-> NoConnection]
  BY DEF Init, Down
<1>2. \A k \in Conns : conns[k] \in Connection /\ ~Open(conns[k].a) /\ Greeting(layer, conns[k])
  BY <1>1, FreshFields
<1>3. IsFiniteSet({}) /\ <<>> \in Seq(Bundles) /\ DOMAIN <<>> = {}
  BY FS_EmptySet
<1>4. pump \in Pump
  BY <1>1 DEF Pump
<1>5. GatewayTypeOK
  BY <1>1, <1>2, <1>3, <1>4 DEF GatewayTypeOK
<1>6. FilesAreNamed /\ NothingLost
  BY <1>1, <1>3 DEF FilesAreNamed, NothingLost
<1>7. PumpKnows
  BY <1>1, <1>2 DEF PumpKnows, OneSession
<1>8. TransferInv
  BY <1>1, Apart DEF TransferInv
<1> QED
  BY <1>2, <1>5, <1>6, <1>7, <1>8 DEF GatewayInvariant

\* Both ends ask for acknowledgements, whatever the convergence layer.
Acknowledged == \A l \in Layers : l.acks

LEMMA StepKeeps ==
  ASSUME Acknowledged, GatewayTypeOK, GatewayInvariant, [Next]_vars
  PROVE  GatewayTypeOK' /\ GatewayInvariant'
<1>1. layer.acks
  BY DEF Acknowledged, GatewayTypeOK
<1>2. ASSUME NEW p \in Payloads, FromIp(p) PROVE GatewayTypeOK' /\ GatewayInvariant'
  BY <1>2, FromIpKeeps
<1>3. CASE Steps
  <2>1. CASE Restart
    BY <2>1, RestartKeeps
  <2>2. CASE Loop
    BY <1>1, <2>2, LoopKeeps
  <2>3. CASE Connected
    BY <1>1, <2>3, ConnectedKeeps
  <2>4. CASE Sent
    BY <1>1, <2>4, SentKeeps
  <2>5. CASE Catch
    BY <2>5, CatchKeeps
  <2>6. ASSUME NEW k \in Conns, TcpConnect(k) PROVE GatewayTypeOK' /\ GatewayInvariant'
    BY <2>6, TcpConnectKeeps
  <2>7. ASSUME NEW k \in Conns, HearA(k) PROVE GatewayTypeOK' /\ GatewayInvariant'
    BY <2>7, HearAKeeps
  <2>8. ASSUME NEW k \in Conns, CloseA(k) PROVE GatewayTypeOK' /\ GatewayInvariant'
    BY <2>8, CloseAKeeps
  <2>9. ASSUME NEW k \in Conns, HearB(k) PROVE GatewayTypeOK' /\ GatewayInvariant'
    BY <2>9, HearBKeeps
  <2>10. ASSUME NEW k \in Conns, CloseB(k) PROVE GatewayTypeOK' /\ GatewayInvariant'
    BY <2>10, CloseBKeeps
  <2> QED
    BY <1>3, <2>1, <2>2, <2>3, <2>4, <2>5, <2>6, <2>7, <2>8, <2>9, <2>10 DEF Steps, PumpSteps, EndA, EndB
<1>4. CASE Faults
  <2>1. CASE Crash
    BY <2>1, CrashKeeps
  <2>2. ASSUME NEW p \in Payloads, KilledSpooling(p) PROVE GatewayTypeOK' /\ GatewayInvariant'
    BY <2>2, KilledSpoolingKeeps
  <2>3. CASE ConnectFails
    BY <2>3, ConnectFailsKeeps
  <2>4. CASE AckTimeout
    BY <2>4, AckTimeoutKeeps
  <2>5. CASE RestartB
    BY <2>5, RestartBKeeps
  <2>6. ASSUME NEW k \in Conns, RefuseB(k) PROVE GatewayTypeOK' /\ GatewayInvariant'
    BY <2>6, RefuseBKeeps
  <2>7. ASSUME NEW k \in Conns, KilledAfterAck(k) PROVE GatewayTypeOK' /\ GatewayInvariant'
    BY <2>7, KilledAfterAckKeeps
  <2>8. ASSUME NEW k \in Conns, Break(k) PROVE GatewayTypeOK' /\ GatewayInvariant'
    BY <2>8, BreakKeeps
  <2>9. ASSUME NEW k \in Conns, IdleTimeoutA(k) PROVE GatewayTypeOK' /\ GatewayInvariant'
    BY <2>9, IdleTimeoutAKeeps
  <2>10. ASSUME NEW k \in Conns, IdleTimeoutB(k) PROVE GatewayTypeOK' /\ GatewayInvariant'
    BY <2>10, IdleTimeoutBKeeps
  <2> QED
    BY <1>4, <2>1, <2>2, <2>3, <2>4, <2>5, <2>6, <2>7, <2>8, <2>9, <2>10 DEF Faults
<1>5. CASE UNCHANGED vars
  <2>1. /\ layer' = layer /\ spool' = spool /\ seq' = seq /\ stored' = stored /\ pump' = pump
        /\ conns' = conns /\ taken' = taken
    BY <1>5 DEF vars, diskVars, farVars
  <2>2. GatewayTypeOK'
    BY <2>1 DEF GatewayTypeOK
  <2>3. FilesAreNamed' /\ PumpKnows' /\ NothingLost' /\ TransferInv'
    BY <2>1 DEF GatewayInvariant, FilesAreNamed, PumpKnows, OneSession, NothingLost, TransferInv
  <2>4. \A k \in Conns : Greeting(layer', conns'[k])
    BY <2>1 DEF GatewayInvariant
  <2> QED
    BY <2>2, <2>3, <2>4 DEF GatewayInvariant
<1> QED
  BY <1>2, <1>3, <1>4, <1>5 DEF Next

LEMMA InvariantHolds ==
  ASSUME Acknowledged
  PROVE  Spec => [](GatewayTypeOK /\ GatewayInvariant)
<1>1. Init => GatewayTypeOK /\ GatewayInvariant
  BY InitMakes
<1>2. GatewayTypeOK /\ GatewayInvariant /\ [Next]_vars => (GatewayTypeOK /\ GatewayInvariant)'
  BY StepKeeps
<1> QED
  BY <1>1, <1>2, PTL DEF Spec

\* Whatever is killed, cut or late, the gateways' state stays well formed: in
\* particular every word on a connection is one of the protocol's (tcpcl4.mjs,
\* tcpcl3.mjs), and the spool holds files of whole bundles.
THEOREM GatewayIsTyped ==
  ASSUME Acknowledged
  PROVE  Spec => []GatewayTypeOK
<1> QED
  BY InvariantHolds, PTL

\* _pump deletes a file only when the far gateway has all of its bundle, when
\* the layer acknowledges: for every number of payloads, kills and connections.
THEOREM NothingIsLost ==
  ASSUME Acknowledged
  PROVE  Spec => []NothingLost
<1>1. GatewayInvariant => NothingLost
  BY DEF GatewayInvariant
<1> QED
  BY <1>1, InvariantHolds, PTL

\* Close events of earlier sessions never take the current one from _pump.
THEOREM ThereIsOneSession ==
  ASSUME Acknowledged
  PROVE  Spec => []OneSession
<1>1. GatewayInvariant => OneSession
  BY DEF GatewayInvariant, PumpKnows
<1> QED
  BY <1>1, InvariantHolds, PTL

-----------------------------------------------------------------------------
(* The order of what goes over the link, and what B makes of it.           *)

\* Every segment among words s is of a bundle in D.
Carry(s, D) == \A i \in DOMAIN s : s[i].kind = "segment" => s[i].bundle \in D

\* The bundles of which all that were stored before are in T.
Due(S, T) == {b \in Bundles : \E i \in DOMAIN S : S[i] = b /\ \A j \in DOMAIN S : j < i => S[j] \in T}

\* Payloads are numbered as they come in; each is split once, and no bundle is
\* stored twice.
StoredOnce ==
  /\ \E q \in Nat : Queued = 1 .. q
  /\ \A i, j \in DOMAIN stored : stored[i] = stored[j] => i = j
  /\ \A i, j \in DOMAIN stored : stored[i].payload = stored[j].payload => stored[i].of = stored[j].of

\* The order of the files' names is the order of storing.
FilesInOrder ==
  /\ \A f \in spool : \E i \in DOMAIN stored : stored[i] = f.bundle
  /\ \A f, g \in spool : \A i, j \in DOMAIN stored :
       f.name < g.name /\ stored[i] = f.bundle /\ stored[j] = g.bundle => i < j

\* What B has in full was stored, and what is under way is due.
InOrder ==
  /\ \A b \in taken : \E i \in DOMAIN stored : stored[i] = b
  /\ \A k \in Conns : Carry(conns[k].toB, Due(stored, taken))

\* A fragment is held only of a bundle that B has acknowledged.
PartsTaken ==
  /\ partial \in [Payloads -> SUBSET Nat]
  /\ \A p \in Payloads : \A n \in partial[p] : \E b \in taken : b.payload = p /\ b.part = n

\* What the far side made of the bundles it has.
Reassembled == PartsTaken /\ DeliveredWhole

Ordered == StoredOnce /\ FilesInOrder /\ InOrder /\ Reassembled

-----------------------------------------------------------------------------
(* What words carry.                                                       *)

LEMMA CarryWords ==
  ASSUME NEW D, NEW s \in Seq(Words), Carry(s, D)
  PROVE  /\ Carry(<<>>, D)
         /\ s # <<>> => Carry(Tail(s), D)
         /\ \A n \in 0 .. Len(s) : Carry(SubSeq(s, 1, n), D)
         /\ \A t \in Seq(Words) : Carry(t, D) => Carry(s \o t, D)
<1>1. Carry(<<>>, D)
  BY DEF Carry
<1>2. ASSUME s # <<>> PROVE Carry(Tail(s), D)
  <2>1. \A i \in DOMAIN Tail(s) : i + 1 \in DOMAIN s /\ Tail(s)[i] = s[i + 1]
    BY <1>2, Hearing
  <2> QED
    BY <2>1 DEF Carry
<1>3. ASSUME NEW n \in 0 .. Len(s) PROVE Carry(SubSeq(s, 1, n), D)
  <2>1. /\ DOMAIN SubSeq(s, 1, n) = 1 .. n
        /\ \A i \in 1 .. n : i \in DOMAIN s /\ SubSeq(s, 1, n)[i] = s[i]
    BY Losing
  <2> QED
    BY <2>1 DEF Carry
<1>4. ASSUME NEW t \in Seq(Words), Carry(t, D) PROVE Carry(s \o t, D)
  <2>1. /\ Len(s) \in Nat /\ Len(t) \in Nat /\ DOMAIN s = 1 .. Len(s) /\ DOMAIN t = 1 .. Len(t)
        /\ DOMAIN (s \o t) = 1 .. (Len(s) + Len(t))
        /\ \A i \in DOMAIN s : (s \o t)[i] = s[i]
        /\ \A i \in DOMAIN (s \o t) : i > Len(s) => (s \o t)[i] = t[i - Len(s)]
    BY Writing, LenProperties
  <2>2. \A i \in DOMAIN (s \o t) : i \in DOMAIN s \/ (i > Len(s) /\ i - Len(s) \in DOMAIN t)
    BY <2>1
  <2> QED
    BY <1>4, <2>1, <2>2 DEF Carry
<1> QED
  BY <1>1, <1>2, <1>3, <1>4

\* The segments of a transfer carry its bundle, other words carry nothing.
LEMMA CarryTransfer ==
  ASSUME NEW id \in Nat, NEW D, NEW b \in Bundles \cap D
  PROVE  Transfer(id, b) \in Seq(Words) /\ Carry(Transfer(id, b), D)
<1>1. /\ Transfer(id, b) \in Seq(Words) /\ DOMAIN Transfer(id, b) = 1 .. Segments
      /\ \A i \in 1 .. Segments : Transfer(id, b)[i].bundle = b
  BY TransferType
<1> QED
  BY <1>1 DEF Carry

LEMMA AnswersCarryNothing ==
  ASSUME NEW l \in Layers, NEW e \in Ends, NEW m \in Words, NEW D
  PROVE  Carry(HearsA(l, e, m).reply, D)
<1>1. /\ Carry(<<>>, D) /\ Carry(Word("contact"), D) /\ Carry(Word("init"), D) /\ Carry(Word("reject"), D)
  BY DEF Carry, Word
<1>2. CASE m.kind = "contact"
  BY <1>1, <1>2, Dispatch, GreetsAFields
<1>3. CASE m.kind = "init"
  BY <1>1, <1>3, Dispatch, StartsAFields
<1>4. CASE m.kind = "segment"
  <2>1. \A i \in DOMAIN Segment(l, e, m).reply : Segment(l, e, m).reply[i].kind \in {"ack", "reject"}
    BY DEF Segment, Nothing, Word
  <2>2. HearsA(l, e, m) = Segment(l, e, m)
    BY <1>4, Dispatch
  <2> QED
    BY <2>1, <2>2 DEF Carry
<1>5. CASE m.kind = "ack"
  BY <1>1, <1>5, Dispatch, AckFields
<1>6. CASE m.kind = "refuse"
  BY <1>1, <1>6, Dispatch, RefuseFields
<1>7. CASE m.kind = "term"
  <2>1. \A i \in DOMAIN Term(e, m).reply : Term(e, m).reply[i].kind = "term"
    BY DEF Term, Nothing
  <2>2. HearsA(l, e, m) = Term(e, m)
    BY <1>7, Dispatch
  <2> QED
    BY <2>1, <2>2 DEF Carry
<1>8. CASE m.kind = "reject"
  BY <1>1, <1>8, Dispatch, NothingFields
<1> QED
  BY <1>2, <1>3, <1>4, <1>5, <1>6, <1>7, <1>8, Kinds

\* B receives the bundle of the segment it has heard.
LEMMA ReceivesWhatCame ==
  ASSUME NEW l \in Layers, NEW e \in Ends, NEW m \in Words, HearsB(l, e, m).bundle # None
  PROVE  m.kind = "segment" /\ HearsB(l, e, m).bundle = m.bundle
<1>1. CASE m.kind = "segment"
  <2>1. Segment(l, e, m).bundle \in {None, m.bundle}
    BY DEF Segment, Nothing
  <2> QED
    BY <1>1, <2>1, Dispatch
<1>2. CASE m.kind = "contact"
  BY <1>2, Dispatch, GreetsBFields
<1>3. CASE m.kind = "init"
  BY <1>3, Dispatch, StartsBFields
<1>4. CASE m.kind = "ack"
  BY <1>4, Dispatch, AckFields
<1>5. CASE m.kind = "refuse"
  BY <1>5, Dispatch, RefuseFields
<1>6. CASE m.kind = "term"
  BY <1>6, Dispatch, TermFields
<1>7. CASE m.kind = "reject"
  BY <1>7, Dispatch, NothingFields
<1> QED
  BY <1>1, <1>2, <1>3, <1>4, <1>5, <1>6, <1>7, Kinds

-----------------------------------------------------------------------------
(* What B makes of a bundle.                                               *)

\* Bundles of one payload differ in their place only.
LEMMA PartOfBundle ==
  ASSUME NEW b \in Bundles, NEW c \in Bundles, b.payload = c.payload, b.of = c.of
  PROVE  /\ b.part \in Nat /\ b.of \in Nat /\ b.part < b.of /\ b.payload \in Payloads
         /\ [b EXCEPT !.part = c.part] = c
<1>1. PICK m \in Sizes : b \in {MakeBundle(p, part, m) : p \in Payloads, part \in 0 .. (m - 1)}
  BY GatewayAssumption DEF PayloadBundles
<1>2. PICK n \in Sizes : c \in {MakeBundle(p, part, n) : p \in Payloads, part \in 0 .. (n - 1)}
  BY GatewayAssumption DEF PayloadBundles
<1>3. PICK p \in Payloads, part \in 0 .. (m - 1) : b = [payload |-> p, part |-> part, of |-> m]
  BY <1>1 DEF MakeBundle
<1>4. PICK q \in Payloads, place \in 0 .. (n - 1) : c = [payload |-> q, part |-> place, of |-> n]
  BY <1>2 DEF MakeBundle
<1>5. m \in Nat /\ n \in Nat
  BY GatewayAssumption
<1> QED
  BY <1>3, <1>4, <1>5

\* What B holds of each payload, and what it has handed over, is of the bundles
\* in T; those in T agree on how their payload was split.
Agreed(T) == \A b, c \in T : b.payload = c.payload => b.of = c.of

HeldOf(held_, T) ==
  /\ held_ \in [Payloads -> SUBSET Nat]
  /\ \A p \in Payloads : \A n \in held_[p] : \E b \in T : b.payload = p /\ b.part = n

HandedOver(out, T) ==
  \A p \in out : \E b \in T : b.payload = p /\ \A i \in 0 .. (b.of - 1) : [b EXCEPT !.part = i] \in T

LEMMA FromDtnReassembles ==
  ASSUME Reassembled, NEW b \in Bundles, FromDtn(b), taken \cup {b} \subseteq Bundles, Agreed(taken \cup {b})
  PROVE  taken' = taken \cup {b} /\ Reassembled'
<1> DEFINE T == taken \cup {b}
<1>1. taken' = T
  BY DEF FromDtn
<1>2. HeldOf(partial, taken) /\ HandedOver(delivered, taken)
  BY DEF Reassembled, PartsTaken, DeliveredWhole, HeldOf, HandedOver
<1>3. HeldOf(partial, T) /\ HandedOver(delivered, T)
  BY <1>2 DEF HeldOf, HandedOver
<1>4. b.part \in Nat /\ b.of \in Nat /\ b.part < b.of /\ b.payload \in Payloads /\ [b EXCEPT !.part = b.part] = b
  BY PartOfBundle
<1>5. CASE b.of = 1 /\ delivered' = delivered \cup {b.payload} /\ UNCHANGED partial
  <2>1. \A i \in 0 .. (b.of - 1) : i = b.part
    BY <1>4, <1>5
  <2>2. \A i \in 0 .. (b.of - 1) : [b EXCEPT !.part = i] \in T
    BY <1>4, <2>1
  <2>3. HandedOver(delivered', T)
    BY <1>3, <1>5, <2>2 DEF HandedOver
  <2> QED
    BY <1>1, <1>3, <1>5, <2>3 DEF Reassembled, PartsTaken, DeliveredWhole, HeldOf, HandedOver
<1>6. ASSUME NEW stale \in Payloads \cup {None}, Reassemble(b, stale) PROVE Reassembled'
  <2> DEFINE p == b.payload
             fresh == IF stale = None THEN partial ELSE [partial EXCEPT ![stale] = {}]
             room == IF stale = None THEN held ELSE held - Cardinality(partial[stale])
             parts == fresh[p] \cup {b.part}
             whole == Whole(b, parts)
             full == b.part \notin fresh[p] /\ room + 1 > MaxHeld
  <2>1. /\ partial' = IF full THEN fresh ELSE [fresh EXCEPT ![p] = IF whole THEN {} ELSE parts]
        /\ delivered' = IF whole /\ ~full THEN delivered \cup {p} ELSE delivered
    BY <1>6 DEF Reassemble
  <2>2. HeldOf(fresh, T)
    BY <1>3 DEF HeldOf
  <2>3. \A n \in parts : \E c \in T : c.payload = p /\ c.part = n
    BY <1>4, <2>2 DEF HeldOf
  <2>4. ASSUME whole PROVE \A i \in 0 .. (b.of - 1) : [b EXCEPT !.part = i] \in T
    <3> SUFFICES ASSUME NEW i \in 0 .. (b.of - 1) PROVE [b EXCEPT !.part = i] \in T
      OBVIOUS
    <3>1. i \in parts
      BY <2>4 DEF Whole
    <3> HIDE DEF parts
    <3>2. PICK c \in T : c.payload = b.payload /\ c.part = i
      BY <2>3, <3>1
    <3>3. c \in Bundles /\ b \in T /\ c.of = b.of
      BY <3>2 DEF Agreed
    <3>4. [b EXCEPT !.part = c.part] = c
      BY <3>2, <3>3, PartOfBundle
    <3> QED
      BY <3>2, <3>4
  <2> HIDE DEF full, whole, fresh
  <2>5. HeldOf(partial', T)
    <3>1. parts \in SUBSET Nat
      BY <1>4, <2>2 DEF HeldOf
    <3>2. HeldOf([fresh EXCEPT ![p] = {}], T) /\ HeldOf([fresh EXCEPT ![p] = parts], T)
      <4> HIDE DEF parts
      <4> QED
        BY <1>4, <2>2, <2>3, <3>1 DEF HeldOf
    <3> HIDE DEF parts
    <3> QED
      BY <2>1, <2>2, <3>2
  <2>6. HandedOver(delivered', T)
    <3>1. whole => HandedOver(delivered \cup {p}, T)
      <4> HIDE DEF T
      <4>1. b \in T
        BY DEF T
      <4> QED
        BY <1>3, <2>4, <4>1 DEF HandedOver
    <3> QED
      BY <1>3, <2>1, <3>1
  <2> QED
    BY <1>1, <2>5, <2>6 DEF Reassembled, PartsTaken, DeliveredWhole, HeldOf, HandedOver
<1> QED
  <2>1. \/ b.of = 1 /\ delivered' = delivered \cup {b.payload} /\ UNCHANGED partial
        \/ \E stale \in Payloads \cup {None} : Reassemble(b, stale)
    BY DEF FromDtn
  <2> QED
    BY <1>1, <1>5, <1>6, <2>1

-----------------------------------------------------------------------------
(* Every step either hands on what is due or stores a payload.             *)

Carried(cs, D) == \A k \in Conns : Carry(cs[k].toB, D)

\* What a step does that stores no payload.
HandsOn ==
  /\ stored' = stored /\ spool' \subseteq spool
  /\ taken' = taken \/ \E b \in Due(stored, taken) : taken' = taken \cup {b}
  /\ Carried(conns', Due(stored, taken))
  /\ Reassembled'

\* What a step does that stores the first n bundles of a payload.
Stores(p, n, of) ==
  /\ Add(p, n, of)
  /\ Carried(conns', Due(stored, taken))
  /\ UNCHANGED farVars

\* A step that leaves the far side alone and the disk too, or deletes a file.
LEMMA NearSide ==
  ASSUME Ordered, UNCHANGED farVars, stored' = stored, spool' \subseteq spool,
         Carried(conns', Due(stored, taken))
  PROVE  HandsOn
<1>1. taken' = taken /\ partial' = partial /\ delivered' = delivered
  BY DEF farVars
<1>2. Reassembled'
  BY <1>1 DEF Ordered, Reassembled, PartsTaken, DeliveredWhole
<1> QED
  BY <1>1, <1>2 DEF HandsOn

\* One connection changes.
LEMMA OneCarries ==
  ASSUME GatewayTypeOK, NEW D, Carried(conns, D), NEW k \in Conns, NEW d, Carry(d.toB, D),
         conns' = [conns EXCEPT ![k] = d]
  PROVE  Carried(conns', D)
<1>1. \A j \in Conns : conns'[j] = IF j = k THEN d ELSE conns[j]
  BY DEF GatewayTypeOK
<1> QED
  BY <1>1 DEF Carried

\* What is due at a step.
LEMMA DueIsCarried ==
  ASSUME Ordered
  PROVE  Carried(conns, Due(stored, taken))
BY DEF Ordered, InOrder, Carried

\* Shutting an end or writing to B carries no more.
LEMMA CarryShut ==
  ASSUME NEW c \in Connection, NEW D, Carry(c.toB, D)
  PROVE  Carry(ShutA(c).toB, D) /\ Carry(ShutB(c).toB, D)
<1>1. ShutA(c).toB = c.toB /\ ShutB(c).toB \in {c.toB, <<>>}
  BY ShutFields
<1>2. Carry(<<>>, D)
  BY DEF Carry
<1> QED
  BY <1>1, <1>2

LEMMA CarrySpoken ==
  ASSUME NEW c \in Connection, NEW D, Carry(c.toB, D), NEW words \in Seq(Words), Carry(words, D)
  PROVE  Carry(ToB(c, words).toB, D)
<1>1. c.toB \in Seq(Words)
  BY DEF Connection
<1>2. Carry(c.toB \o words, D)
  BY <1>1, CarryWords
<1>3. ToB(c, words).toB \in {c.toB, c.toB \o words}
  BY ToBFields
<1> QED
  BY <1>2, <1>3

-----------------------------------------------------------------------------
(* Steps of B, and of connections.                                         *)

\* The bundles of a payload, stored ones, agree on how it was split.
LEMMA DueIsStored ==
  ASSUME Ordered, NEW b \in Due(stored, taken)
  PROVE  b \in Bundles /\ Agreed(taken \cup {b})
<1>1. \A c \in taken \cup {b} : \E i \in DOMAIN stored : stored[i] = c
  BY DEF Ordered, InOrder, Due
<1>2. \A i, j \in DOMAIN stored : stored[i].payload = stored[j].payload => stored[i].of = stored[j].of
  BY DEF Ordered, StoredOnce
<1> QED
  BY <1>1, <1>2 DEF Agreed, Due

\* What B has heard is due.
LEMMA HeardIsDue ==
  ASSUME GatewayTypeOK, Ordered, NEW k \in Conns, conns[k].toB # <<>>
  PROVE  LET r == HeardByB(k)
         IN  /\ r \in Answer /\ Head(conns[k].toB) = conns[k].toB[1]
             /\ r.bundle # None => r.bundle \in Due(stored, taken)
<1> DEFINE c == conns[k]
           m == c.toB[1]
           r == HearsB(layer, c.b, m)
<1>1. c \in Connection /\ layer \in Layers
  BY DEF GatewayTypeOK
<1>2. c.toB \in Seq(Words) /\ c.b \in Ends
  BY <1>1 DEF Connection
<1>3. Head(c.toB) = m /\ m \in Words /\ 1 \in DOMAIN c.toB
  BY <1>2, Hearing
<1>4. HeardByB(k) = r
  BY <1>3 DEF HeardByB, HearsB
<1>5. r \in Answer
  BY <1>1, HeardBAnswers
<1>6. Carry(c.toB, Due(stored, taken))
  BY DueIsCarried DEF Carried
<1>7. r.bundle # None => r.bundle \in Due(stored, taken)
  BY <1>1, <1>2, <1>3, <1>6, ReceivesWhatCame DEF Carry
<1> HIDE DEF r
<1> QED
  BY <1>3, <1>4, <1>5, <1>7

LEMMA HearBHandsOn ==
  ASSUME GatewayTypeOK, Ordered, NEW k \in Conns, HearB(k)
  PROVE  HandsOn
<1> DEFINE c == conns[k]
           r == HeardByB(k)
           D == Due(stored, taken)
           reply == IF c.b.state = "ending" THEN <<>> ELSE r.reply
           d == ToA([c EXCEPT !.b = r.end, !.toB = Tail(@)], reply)
<1>1. c \in Connection /\ c.toB # <<>> /\ c.toB \in Seq(Words)
  BY DEF HearB, GatewayTypeOK, Connection
<1>2. r \in Answer /\ (r.bundle # None => r.bundle \in D)
  BY <1>1, HeardIsDue
<1>3. conns' = [conns EXCEPT ![k] = d] /\ UNCHANGED diskVars
  BY DEF HearB
<1>4. IF r.bundle = None THEN UNCHANGED farVars ELSE FromDtn(r.bundle)
  BY DEF HearB
<1> HIDE DEF r
<1>5. Carry(d.toB, D)
  <2>1. <<>> \in Seq(Words)
    OBVIOUS
  <2>2. reply \in Seq(Words) /\ r.end \in Ends
    BY <1>2, <2>1 DEF Answer
  <2>3. Carry(c.toB, D)
    BY DueIsCarried DEF Carried
  <2>4. d = AnsweredWith(c, r.end, reply)
    BY DEF AnsweredWith
  <2> HIDE DEF d, reply, c, D
  <2>5. d.toB = Tail(c.toB)
    BY <1>1, <2>2, <2>4, AnsweredFields
  <2> QED
    BY <1>1, <2>3, <2>5, CarryWords
<1> HIDE DEF d
<1>6. Carried(conns', D)
  BY <1>3, <1>5, DueIsCarried, OneCarries
<1>7. CASE r.bundle = None
  BY <1>3, <1>4, <1>6, <1>7, NearSide DEF diskVars
<1>8. CASE r.bundle # None
  <2> DEFINE b == r.bundle
  <2>1. b \in Bundles /\ Agreed(taken \cup {b}) /\ taken \cup {b} \subseteq Bundles /\ FromDtn(b)
    BY <1>2, <1>4, <1>8, DueIsStored DEF GatewayTypeOK
  <2>2. taken' = taken \cup {b} /\ Reassembled'
    BY <2>1, FromDtnReassembles DEF Ordered
  <2> QED
    BY <1>2, <1>3, <1>6, <1>8, <2>2 DEF HandsOn, diskVars
<1> QED
  BY <1>7, <1>8

LEMMA KilledAfterAckHandsOn ==
  ASSUME GatewayTypeOK, Ordered, NEW k \in Conns, KilledAfterAck(k)
  PROVE  HandsOn
<1> DEFINE r == HeardByB(k)
           D == Due(stored, taken)
           b == r.bundle
<1>1. /\ conns' = [j \in Conns |-> ShutB(IF j = k THEN ToA(conns[k], r.reply) ELSE conns[j])]
      /\ conns[k].toB # <<>> /\ r.bundle # None
      /\ taken' = taken \cup {b} /\ partial' = [p \in Payloads |-> {}]
      /\ delivered' = delivered /\ UNCHANGED diskVars
  BY DEF KilledAfterAck
<1>2. r \in Answer /\ b \in D
  BY <1>1, HeardIsDue
<1> HIDE DEF r
<1>3. Carried(conns', D)
  <2> SUFFICES ASSUME NEW j \in Conns PROVE Carry(conns'[j].toB, D)
    BY DEF Carried
  <2> DEFINE x == IF j = k THEN ToA(conns[k], r.reply) ELSE conns[j]
  <2>1. /\ conns[j] \in Connection /\ conns[k] \in Connection
        /\ Carry(conns[j].toB, D) /\ Carry(conns[k].toB, D)
    BY DueIsCarried DEF GatewayTypeOK, Carried
  <2>2. r.reply \in Seq(Words)
    BY <1>2 DEF Answer
  <2>3. x \in Connection /\ Carry(x.toB, D)
    BY <2>1, <2>2, ToAFields
  <2>4. conns'[j] = ShutB(x)
    BY <1>1
  <2> HIDE DEF x
  <2> QED
    BY <2>3, <2>4, CarryShut
<1>4. Reassembled'
  <2>1. PartsTaken'
    BY <1>1 DEF PartsTaken
  <2>2. DeliveredWhole'
    BY <1>1 DEF Ordered, Reassembled, DeliveredWhole
  <2> QED
    BY <2>1, <2>2 DEF Reassembled
<1> QED
  BY <1>1, <1>2, <1>3, <1>4 DEF HandsOn, diskVars

LEMMA RestartBHandsOn ==
  ASSUME GatewayTypeOK, Ordered, RestartB
  PROVE  HandsOn
<1>1. /\ conns' = [k \in Conns |-> ShutB(conns[k])] /\ partial' = [p \in Payloads |-> {}]
      /\ taken' = taken /\ delivered' = delivered /\ UNCHANGED diskVars
  BY DEF RestartB
<1>2. Carried(conns', Due(stored, taken))
  <2> SUFFICES ASSUME NEW k \in Conns PROVE Carry(conns'[k].toB, Due(stored, taken))
    BY DEF Carried
  <2>1. conns[k] \in Connection /\ Carry(conns[k].toB, Due(stored, taken)) /\ conns'[k] = ShutB(conns[k])
    BY <1>1, DueIsCarried DEF GatewayTypeOK, Carried
  <2> QED
    BY <2>1, CarryShut
<1>3. PartsTaken' /\ DeliveredWhole'
  BY <1>1 DEF Ordered, Reassembled, PartsTaken, DeliveredWhole
<1> QED
  BY <1>1, <1>2, <1>3 DEF HandsOn, Reassembled, diskVars

\* What else happens on a connection to B.
LEMMA FarEndHandsOn ==
  ASSUME GatewayTypeOK, Ordered, NEW k \in Conns,
         RefuseB(k) \/ Break(k) \/ CloseB(k) \/ IdleTimeoutB(k)
  PROVE  HandsOn
<1> DEFINE c == conns[k]
           D == Due(stored, taken)
<1>1. c \in Connection /\ Carry(c.toB, D) /\ layer \in Layers
  BY DueIsCarried DEF GatewayTypeOK, Carried
<1>2. c.toB \in Seq(Words)
  BY <1>1 DEF Connection
<1>3. \E d : conns' = [conns EXCEPT ![k] = d] /\ Carry(d.toB, D)
  <2>1. CASE RefuseB(k)
    <3>1. c.toB # <<>> /\ Head(c.toB).kind = "segment"
      BY <2>1 DEF RefuseB
    <3>2. conns' = [conns EXCEPT ![k] = RefusedB(c)]
      BY <2>1 DEF RefuseB, RefusedB
    <3>3. c.toB[1].kind = "segment"
      BY <1>2, <3>1, Hearing
    <3>4. /\ Refusal(c.b, c.toB[1]) \in Answer
          /\ RefusedB(c) = AnsweredWith(c, Refusal(c.b, c.toB[1]).end, Refusal(c.b, c.toB[1]).reply)
      BY <1>1, <3>1, <3>3, RefusedBAnswers
    <3>5. Refusal(c.b, c.toB[1]).end \in Ends /\ Refusal(c.b, c.toB[1]).reply \in Seq(Words)
      BY <3>4 DEF Answer
    <3>6. RefusedB(c).toB = Tail(c.toB)
      BY <1>1, <3>1, <3>4, <3>5, AnsweredFields
    <3>7. Carry(Tail(c.toB), D)
      BY <1>1, <1>2, <3>1, CarryWords
    <3> QED
      BY <3>2, <3>6, <3>7
  <2>2. CASE Break(k)
    <3>1. PICK i \in 0 .. Len(c.toA), j \in 0 .. Len(c.toB) : conns' = [conns EXCEPT ![k] = Broken(c, i, j)]
      BY <2>2 DEF Break, Broken
    <3>2. Broken(c, i, j).toB = SubSeq(c.toB, 1, j)
      BY <1>1 DEF Broken, Connection
    <3>3. Carry(SubSeq(c.toB, 1, j), D)
      BY <1>1, <1>2, CarryWords
    <3> QED
      BY <3>1, <3>2, <3>3
  <2>3. CASE CloseB(k)
    <3>1. conns' = [conns EXCEPT ![k] = ShutB(c)]
      BY <2>3 DEF CloseB
    <3>2. Carry(ShutB(c).toB, D)
      BY <1>1, CarryShut
    <3> QED
      BY <3>1, <3>2
  <2>4. CASE IdleTimeoutB(k)
    <3> DEFINE x == ToA(c, Farewell)
    <3>1. conns' = [conns EXCEPT ![k] = ShutB(x)]
      BY <1>1, <2>4 DEF IdleTimeoutB, GatewayTypeOK
    <3>2. x \in Connection /\ x.toB = c.toB
      BY <1>1, FarewellWords, ToAFields
    <3> HIDE DEF x
    <3>3. Carry(ShutB(x).toB, D)
      BY <1>1, <3>2, CarryShut
    <3> QED
      BY <3>1, <3>3
  <2> QED
    BY <2>1, <2>2, <2>3, <2>4
<1>4. Carried(conns', D)
  BY <1>3, DueIsCarried, OneCarries
<1>5. UNCHANGED <<diskVars, farVars>>
  BY DEF RefuseB, Break, CloseB, IdleTimeoutB
<1> QED
  BY <1>4, <1>5, NearSide DEF diskVars

-----------------------------------------------------------------------------
(* Steps of A that store nothing.                                          *)

LEMMA HearAHandsOn ==
  ASSUME GatewayTypeOK, GatewayInvariant, Ordered, NEW k \in Conns, HearA(k)
  PROVE  HandsOn
<1> DEFINE c == conns[k]
           r == HearsA(layer, c.a, c.toA[1])
           said == IF c.a.state = "ending" THEN <<>> ELSE r.reply
           D == Due(stored, taken)
<1>1. /\ c \in Connection /\ c.toA # <<>> /\ layer \in Layers
      /\ conns' = [conns EXCEPT ![k] = HeardA(layer, c)]
      /\ UNCHANGED <<layer, diskVars, farVars>>
  BY HearAMakes, SMTT(60)
<1>2. /\ r \in Answer
      /\ HeardA(layer, c).toB \in {c.toB, c.toB \o said}
  BY <1>1, HeardAFields
<1>3. c.toA \in Seq(Words) /\ c.toB \in Seq(Words) /\ c.a \in Ends
  BY <1>1 DEF Connection
<1>4. said \in Seq(Words) /\ Carry(said, D)
  <2>1. <<>> \in Seq(Words) /\ Carry(<<>>, D)
    BY DEF Carry
  <2>2. c.toA[1] \in Words
    BY <1>1, <1>3, Hearing
  <2>3. Carry(r.reply, D)
    BY <1>1, <1>3, <2>2, AnswersCarryNothing
  <2>4. r.reply \in Seq(Words)
    BY <1>2 DEF Answer
  <2> QED
    BY <2>1, <2>3, <2>4
<1> HIDE DEF said
<1>5. Carry(c.toB, D) /\ Carry(c.toB \o said, D)
  <2>1. Carry(c.toB, D)
    BY DueIsCarried DEF Carried
  <2> QED
    BY <1>3, <1>4, <2>1, CarryWords
<1>6. Carry(HeardA(layer, c).toB, D)
  BY <1>2, <1>5
<1>7. Carried(conns', D)
  BY <1>1, <1>6, DueIsCarried, OneCarries
<1> QED
  BY <1>1, <1>7, NearSide DEF diskVars

LEMMA NearEndHandsOn ==
  ASSUME GatewayTypeOK, Ordered, NEW k \in Conns, CloseA(k) \/ IdleTimeoutA(k) \/ TcpConnect(k)
  PROVE  HandsOn
<1> DEFINE c == conns[k]
           D == Due(stored, taken)
<1>1. /\ conns \in [Conns -> Connection] /\ c \in Connection /\ Carry(c.toB, D) /\ layer \in Layers
  BY DueIsCarried DEF GatewayTypeOK, Carried
<1>2. \E d : conns' = [conns EXCEPT ![k] = d] /\ Carry(d.toB, D)
  <2>1. CASE CloseA(k)
    <3>1. conns' = [conns EXCEPT ![k] = ShutA(c)]
      BY <2>1 DEF CloseA
    <3>2. Carry(ShutA(c).toB, D)
      BY <1>1, CarryShut
    <3> QED
      BY <3>1, <3>2
  <2>2. CASE IdleTimeoutA(k)
    <3> DEFINE x == ToB(c, Farewell)
    <3>1. conns' = [conns EXCEPT ![k] = ShutA(x)]
      BY <1>1, <2>2 DEF IdleTimeoutA
    <3>2. Farewell \in Seq(Words) /\ Carry(Farewell, D)
      BY <1>1, FarewellWords DEF Carry
    <3>3. x \in Connection /\ Carry(x.toB, D)
      BY <1>1, <3>2, ToBFields, CarrySpoken
    <3> HIDE DEF x
    <3>4. Carry(ShutA(x).toB, D)
      BY <3>3, CarryShut
    <3> QED
      BY <3>1, <3>4
  <2>3. CASE TcpConnect(k)
    <3> DEFINE d == [c EXCEPT !.a = Fresh, !.b = Fresh, !.toB = Word("contact")]
    <3>1. conns' = [conns EXCEPT ![k] = d]
      BY <1>1, <2>3 DEF TcpConnect
    <3>2. d.toB = Word("contact")
      BY <1>1 DEF Connection
    <3>3. Carry(d.toB, D)
      BY <3>2 DEF Carry, Word
    <3> HIDE DEF d
    <3> QED
      BY <3>1, <3>3
  <2> QED
    BY <2>1, <2>2, <2>3
<1>3. Carried(conns', D)
  BY <1>2, DueIsCarried, OneCarries
<1>4. UNCHANGED <<diskVars, farVars>>
  BY DEF CloseA, IdleTimeoutA, TcpConnect
<1> QED
  BY <1>3, <1>4, NearSide DEF diskVars

\* A is killed: its ends of the connections are shut.
LEMMA KilledCarries ==
  ASSUME GatewayTypeOK, Ordered, Killed
  PROVE  Carried(conns', Due(stored, taken))
<1> SUFFICES ASSUME NEW k \in Conns PROVE Carry(conns'[k].toB, Due(stored, taken))
  BY DEF Carried
<1>1. conns[k] \in Connection /\ Carry(conns[k].toB, Due(stored, taken)) /\ conns'[k] = ShutA(conns[k])
  BY DueIsCarried DEF GatewayTypeOK, Carried, Killed
<1> QED
  BY <1>1, CarryShut

\* The pump, or its process, does something that sends nothing.
LEMMA PumpHandsOn ==
  ASSUME GatewayTypeOK, Ordered, Crash \/ Restart \/ ConnectFails \/ Catch \/ AckTimeout
  PROVE  HandsOn
<1> DEFINE D == Due(stored, taken)
<1>1. conns \in [Conns -> Connection] /\ pump \in Pump /\ Carried(conns, D)
  BY DueIsCarried DEF GatewayTypeOK
<1>2. \A k \in Conns : conns[k] \in Connection /\ Carry(conns[k].toB, D) /\ Carry(ShutA(conns[k]).toB, D)
  BY <1>1, CarryShut DEF Carried
<1>3. Carried(conns', D)
  <2>1. CASE Crash
    BY <2>1, KilledCarries DEF Crash
  <2>2. CASE Restart
    BY <1>1, <2>2 DEF Restart
  <2>3. CASE ConnectFails
    <3>1. \/ conns' = conns
          \/ pump.dial \in Conns /\ conns' = [conns EXCEPT ![pump.dial] = ShutA(conns[pump.dial])]
      BY <1>1, <2>3 DEF ConnectFails, Pump
    <3> QED
      BY <1>1, <1>2, <3>1, OneCarries
  <2>4. CASE Catch
    <3>1. \/ conns' = conns
          \/ pump.session \in Conns /\ conns' = [conns EXCEPT ![pump.session] = ShutA(conns[pump.session])]
      BY <1>1, <2>4 DEF Catch, Pump
    <3> QED
      BY <1>1, <1>2, <3>1, OneCarries
  <2>5. CASE AckTimeout
    <3>1. conns' = [conns EXCEPT ![pump.session].a.sending = None]
      BY <2>5 DEF AckTimeout
    <3>2. \A k \in Conns : conns'[k].toB = conns[k].toB
      BY <1>1, <3>1 DEF Connection
    <3> QED
      BY <1>1, <3>2 DEF Carried
  <2> QED
    BY <2>1, <2>2, <2>3, <2>4, <2>5
<1>4. stored' = stored /\ spool' = spool /\ UNCHANGED farVars
  BY DEF Crash, Restart, ConnectFails, Catch, AckTimeout, diskVars
<1> QED
  BY <1>3, <1>4, NearSide

\* The oldest file's bundle is due: what was stored before has no file.
LEMMA OldestIsDue ==
  ASSUME GatewayTypeOK, FilesAreNamed, Ordered, NEW files, files \subseteq spool, files # {},
         \A i \in DOMAIN stored : stored[i] \in taken \/ \E f \in files : f.bundle = stored[i]
  PROVE  Oldest(files) \in spool /\ Oldest(files).bundle \in Due(stored, taken)
<1> DEFINE f == Oldest(files)
<1>1. files \subseteq File /\ IsFiniteSet(files)
  BY FS_Subset DEF GatewayTypeOK
<1>2. f \in files /\ \A g \in files : f.name <= g.name
  BY <1>1, OldestIsThere
<1> HIDE DEF f
<1>3. f \in spool /\ f \in File
  BY <1>1, <1>2
<1>4. PICK i \in DOMAIN stored : stored[i] = f.bundle
  BY <1>3 DEF Ordered, FilesInOrder
<1>5. ASSUME NEW j \in DOMAIN stored, j < i, stored[j] \notin taken PROVE FALSE
  <2>1. PICK g \in files : g.bundle = stored[j]
    BY <1>5
  <2>2. i \in Nat /\ j \in Nat /\ i # j
    <3>1. stored \in Seq(Bundles)
      BY DEF GatewayTypeOK
    <3>2. DOMAIN stored = 1 .. Len(stored) /\ Len(stored) \in Nat
      BY <3>1, LenProperties
    <3> QED
      BY <1>5, <3>2
  <2>3. g # f
    BY <1>4, <2>1, <2>2 DEF Ordered, StoredOnce
  <2>4. g \in spool /\ g.name \in Nat /\ f.name \in Nat
    BY <1>1, <1>2, <2>1 DEF File
  <2>5. f.name # g.name
    BY <1>3, <2>3, <2>4 DEF FilesAreNamed
  <2>6. f.name < g.name
    BY <1>2, <2>1, <2>4, <2>5
  <2>7. i < j
    BY <1>3, <1>4, <2>1, <2>4, <2>6 DEF Ordered, FilesInOrder
  <2> QED
    BY <1>5, <2>2, <2>7
<1>6. f.bundle \in Bundles
  BY <1>3 DEF File
<1> QED
  BY <1>3, <1>4, <1>5, <1>6 DEF Due, f

\* What a turn of the pump writes is due.
LEMMA TurnCarries ==
  ASSUME GatewayTypeOK, FilesAreNamed, Ordered, NEW k \in Conns \cup {None}, NEW files, files \subseteq spool,
         \A i \in DOMAIN stored : stored[i] \in taken \/ \E f \in files : f.bundle = stored[i],
         Turn(k, files)
  PROVE  Carried(conns', Due(stored, taken))
<1> DEFINE D == Due(stored, taken)
<1>1. conns \in [Conns -> Connection] /\ Carried(conns, D) /\ layer \in Layers
  BY DueIsCarried DEF GatewayTypeOK
<1>2. CASE k = None
  BY <1>1, <1>2 DEF Turn
<1>3. CASE k # None /\ files = {}
  <2>1. conns' = [conns EXCEPT ![k].ready = "listened"]
    BY <1>3 DEF Turn
  <2>2. \A j \in Conns : conns'[j].toB = conns[j].toB
    BY <1>1, <2>1 DEF Connection
  <2> QED
    BY <1>1, <2>2 DEF Carried
<1>4. CASE k # None /\ files # {}
  <2> DEFINE c == conns[k]
             e == c.a
             f == Oldest(files)
             words == Transfer(TransferId(layer, e), f.bundle)
             idle == [c EXCEPT !.ready = "listened"]
             x == [c EXCEPT !.a = Sending(layer, e), !.ready = "listened"]
  <2>1. k \in Conns /\ c \in Connection /\ Carry(c.toB, D) /\ e \in Ends
    BY <1>1, <1>4 DEF Carried, Connection
  <2>2. Send(k, f)
    BY <1>4 DEF Turn
  <2>3. conns' = [conns EXCEPT ![k] = IF e.state # "established" THEN idle ELSE ToB(x, words)]
    BY <1>1, <2>1, <2>2 DEF Send
  <2>4. f \in spool /\ f.bundle \in D
    BY <1>4, OldestIsDue
  <2>5. idle.toB = c.toB
    BY <2>1 DEF Connection
  <2>6. TransferId(layer, e) \in Nat
    BY <2>1 DEF TransferId, Ends
  <2>7. words \in Seq(Words) /\ Carry(words, D)
    <3>1. f.bundle \in Bundles \cap D
      BY <2>4 DEF Due
    <3> HIDE DEF f, D
    <3> QED
      BY <2>6, <3>1, CarryTransfer
  <2>8. x \in Connection /\ x.toB = c.toB
    <3>1. Sending(layer, e) \in Ends
      <4> DEFINE outstanding == IF layer.acks THEN TransferId(layer, e) ELSE None
                 y == [e EXCEPT !.next = @ + 1]
      <4>1. outstanding \in Nat \cup {None} /\ y \in Ends
        BY <2>1, <2>6 DEF Ends
      <4>2. Sending(layer, e) = [y EXCEPT !.sending = outstanding]
        BY DEF Sending
      <4> HIDE DEF y, outstanding
      <4> QED
        BY <4>1, <4>2 DEF Ends
    <3> QED
      BY <2>1, <3>1 DEF Connection
  <2> HIDE DEF x, words, idle, D
  <2>9. Carry(ToB(x, words).toB, D)
    BY <2>1, <2>7, <2>8, CarrySpoken
  <2>10. Carry((IF e.state # "established" THEN idle ELSE ToB(x, words)).toB, D)
    BY <2>1, <2>5, <2>9
  <2> QED
    BY <1>1, <2>1, <2>3, <2>10, OneCarries DEF D
<1> QED
  BY <1>2, <1>3, <1>4

LEMMA TurnsHandOn ==
  ASSUME GatewayTypeOK, GatewayInvariant, Ordered, Loop \/ Connected \/ Sent
  PROVE  HandsOn
<1> DEFINE files == {f \in spool : f.name # pump.file}
<1>1. /\ pump \in Pump /\ FilesAreNamed /\ TransferInv
      /\ \A i \in DOMAIN stored : stored[i] \in taken \/ \E f \in spool : f.bundle = stored[i]
  BY DEF GatewayTypeOK, GatewayInvariant, NothingLost
<1>2. pump.session \in Conns \cup {None} /\ pump.dial \in Conns \cup {None}
  BY <1>1 DEF Pump
<1>3. CASE Loop
  <2>1. Turn(pump.session, spool) /\ UNCHANGED <<diskVars, farVars>>
    BY <1>3 DEF Loop
  <2>2. Carried(conns', Due(stored, taken))
    BY <1>1, <1>2, <2>1, TurnCarries
  <2> QED
    BY <2>1, <2>2, NearSide DEF diskVars
<1>4. CASE Connected
  <2>1. Turn(pump.dial, spool) /\ UNCHANGED <<diskVars, farVars>>
    BY <1>4 DEF Connected
  <2>2. Carried(conns', Due(stored, taken))
    BY <1>1, <1>2, <2>1, TurnCarries
  <2> QED
    BY <2>1, <2>2, NearSide DEF diskVars
<1>5. CASE Sent
  <2>1. /\ Turn(pump.session, files) /\ spool' = files /\ stored' = stored /\ UNCHANGED farVars
        /\ pump.pc = "acked"
    BY <1>5 DEF Sent
  <2>2. \A i \in DOMAIN stored : stored[i] \in taken \/ \E f \in files : f.bundle = stored[i]
    BY <1>1, <2>1 DEF TransferInv
  <2>3. files \subseteq spool
    OBVIOUS
  <2> HIDE DEF files
  <2>4. Carried(conns', Due(stored, taken))
    BY <1>1, <1>2, <2>1, <2>2, <2>3, TurnCarries
  <2> QED
    BY <2>1, <2>3, <2>4, NearSide
<1> QED
  BY <1>3, <1>4, <1>5

-----------------------------------------------------------------------------
(* Storing the bundles of a payload.                                       *)

\* The first n bundles of a payload that is split in "of".
First(p, n, of) == [i \in 1 .. n |-> MakeBundle(p, i - 1, of)]

LEMMA FirstType ==
  ASSUME NEW p \in Payloads, NEW of \in Sizes, NEW n \in 1 .. of
  PROVE  /\ n \in Nat /\ n >= 1
         /\ First(p, n, of) \in Seq(Bundles) /\ Len(First(p, n, of)) = n
         /\ \A i \in 1 .. n : /\ First(p, n, of)[i].payload = p /\ First(p, n, of)[i].of = of
                              /\ First(p, n, of)[i].part = i - 1
<1>1. of \in Nat /\ n \in Nat /\ n >= 1
  BY GatewayAssumption
<1>2. \A i \in 1 .. n : MakeBundle(p, i - 1, of) \in Bundles
  BY BundleOf
<1>3. First(p, n, of) \in [1 .. n -> Bundles]
  BY <1>2 DEF First
<1>4. First(p, n, of) \in Seq(Bundles) /\ Len(First(p, n, of)) = n
  BY <1>1, <1>3, IsASeq, LenProperties
<1> QED
  BY <1>1, <1>4 DEF First, MakeBundle

\* Where the bundles stored so far and those of payload p are.
Grown(p, n, of) ==
  /\ Len(stored) \in Nat /\ DOMAIN stored = 1 .. Len(stored) /\ Len(stored') = Len(stored) + n
  /\ DOMAIN stored' = 1 .. (Len(stored) + n)
  /\ \A i \in 1 .. Len(stored) : stored'[i] = stored[i] /\ stored[i].payload # p
  /\ \A i \in 1 .. n : /\ stored'[Len(stored) + i] = First(p, n, of)[i]
                       /\ stored'[Len(stored) + i].payload = p /\ stored'[Len(stored) + i].of = of
                       /\ stored'[Len(stored) + i].part = i - 1
  /\ \E q \in Nat : Queued = 1 .. q /\ p = q + 1

LEMMA StoresGrows ==
  ASSUME GatewayTypeOK, Ordered, NEW p \in Payloads, NEW of \in Sizes, NEW n \in 1 .. of, Add(p, n, of)
  PROVE  Grown(p, n, of)
<1> DEFINE new == First(p, n, of)
<1>1. stored' = stored \o new /\ p = Cardinality(Queued) + 1
  BY DEF Add, First
<1>2. /\ n \in Nat /\ n >= 1 /\ new \in Seq(Bundles) /\ Len(new) = n
      /\ \A i \in 1 .. n : new[i].payload = p /\ new[i].of = of /\ new[i].part = i - 1
  BY FirstType
<1>3. stored \in Seq(Bundles)
  BY DEF GatewayTypeOK
<1> HIDE DEF new
<1>4. Len(stored) \in Nat /\ DOMAIN stored = 1 .. Len(stored)
  BY <1>3, LenProperties
<1>5. /\ stored' \in Seq(Bundles) /\ Len(stored') = Len(stored) + n
      /\ \A i \in 1 .. (Len(stored) + n) : stored'[i] = IF i <= Len(stored) THEN stored[i] ELSE new[i - Len(stored)]
  BY <1>1, <1>2, <1>3, ConcatProperties
<1>6. DOMAIN stored' = 1 .. (Len(stored) + n)
  BY <1>5, LenProperties
<1>7. PICK q \in Nat : Queued = 1 .. q
  BY DEF Ordered, StoredOnce
<1>8. p = q + 1
  <2>1. Cardinality(1 .. q) = q
    BY <1>7, FS_Interval
  <2> QED
    BY <1>1, <1>7, <2>1
<1>9. \A i \in 1 .. Len(stored) : stored'[i] = stored[i] /\ stored[i].payload # p
  <2> SUFFICES ASSUME NEW i \in 1 .. Len(stored) PROVE stored'[i] = stored[i] /\ stored[i].payload # p
    OBVIOUS
  <2>1. stored[i].payload \in 1 .. q
    BY <1>4, <1>7 DEF Queued
  <2>2. i \in 1 .. (Len(stored) + n) /\ i <= Len(stored)
    BY <1>2, <1>4
  <2> QED
    BY <1>5, <1>7, <1>8, <2>1, <2>2
<1>10. \A i \in 1 .. n : stored'[Len(stored) + i] = new[i]
  <2> SUFFICES ASSUME NEW i \in 1 .. n PROVE stored'[Len(stored) + i] = new[i]
    OBVIOUS
  <2>1. /\ Len(stored) + i \in 1 .. (Len(stored) + n) /\ ~(Len(stored) + i <= Len(stored))
        /\ Len(stored) + i - Len(stored) = i
    BY <1>2, <1>4
  <2> QED
    BY <1>5, <2>1
<1> QED
  BY <1>2, <1>4, <1>5, <1>6, <1>7, <1>8, <1>9, <1>10, ZenonT(60) DEF Grown, new

\* Every index is one of before or one of the payload's.
LEMMA GrownIndices ==
  ASSUME NEW p, NEW n \in Nat, NEW of, Grown(p, n, of), NEW i \in DOMAIN stored'
  PROVE  \/ i \in 1 .. Len(stored) /\ i \in DOMAIN stored
         \/ \E m \in 1 .. n : i = Len(stored) + m
<1>1. Len(stored) \in Nat /\ DOMAIN stored = 1 .. Len(stored) /\ i \in 1 .. (Len(stored) + n)
  BY DEF Grown
<1>2. CASE i <= Len(stored)
  BY <1>1, <1>2
<1>3. CASE ~(i <= Len(stored))
  <2>1. i - Len(stored) \in 1 .. n /\ i = Len(stored) + (i - Len(stored))
    BY <1>1, <1>3
  <2> QED
    BY <2>1
<1> QED
  BY <1>2, <1>3

LEMMA StoresOnce ==
  ASSUME Ordered, NEW p, NEW n \in Nat, n >= 1, NEW of, Grown(p, n, of)
  PROVE  StoredOnce'
<1> DEFINE L == Len(stored)
<1>0. /\ L \in Nat /\ DOMAIN stored = 1 .. L /\ DOMAIN stored' = 1 .. (L + n)
      /\ \A i \in 1 .. L : stored'[i] = stored[i] /\ stored[i].payload # p
      /\ \A m \in 1 .. n : /\ stored'[L + m].payload = p /\ stored'[L + m].of = of
                           /\ stored'[L + m].part = m - 1
  BY DEF Grown
<1>1. /\ \A i, j \in DOMAIN stored : stored[i] = stored[j] => i = j
      /\ \A i, j \in DOMAIN stored : stored[i].payload = stored[j].payload => stored[i].of = stored[j].of
  BY DEF Ordered, StoredOnce
<1>2. ASSUME NEW i \in DOMAIN stored', NEW j \in DOMAIN stored', stored'[i].payload = stored'[j].payload
      PROVE  stored'[i].of = stored'[j].of /\ (stored'[i] = stored'[j] => i = j)
  <2>0. /\ i \in 1 .. L \/ \E m \in 1 .. n : i = L + m
        /\ j \in 1 .. L \/ \E m \in 1 .. n : j = L + m
    BY GrownIndices
  <2> HIDE DEF L
  <2>1. CASE i \in 1 .. L
    <3>1. stored'[j].payload # p
      BY <1>0, <1>2, <2>1
    <3>2. ~\E m \in 1 .. n : j = L + m
      BY <1>0, <3>1
    <3>3. j \in 1 .. L
      BY <2>0, <3>2
    <3> QED
      BY <1>0, <1>1, <1>2, <2>1, <3>3
  <2>2. ASSUME NEW m \in 1 .. n, i = L + m PROVE stored'[i].of = stored'[j].of /\ (stored'[i] = stored'[j] => i = j)
    <3>0. stored'[j].payload = p
      BY <1>0, <1>2, <2>2
    <3>1. PICK o \in 1 .. n : j = L + o
      BY <1>0, <2>0, <3>0
    <3>2. /\ stored'[i].of = of /\ stored'[j].of = of
          /\ stored'[i].part = m - 1 /\ stored'[j].part = o - 1
      BY <1>0, <2>2, <3>1
    <3>3. stored'[i] = stored'[j] => m - 1 = o - 1
      BY <3>2
    <3>4. m \in Nat /\ o \in Nat
      OBVIOUS
    <3> QED
      BY <2>2, <3>1, <3>2, <3>3, <3>4
  <2> QED
    BY <2>0, <2>1, <2>2
<1>3. \E q \in Nat : Queued' = 1 .. q
  <2>1. PICK q \in Nat : Queued = 1 .. q /\ p = q + 1
    BY DEF Grown
  <2>2. Queued' = Queued \cup {p}
    <3>1. ASSUME NEW i \in DOMAIN stored' PROVE stored'[i].payload \in Queued \cup {p}
      <4> HIDE DEF L
      <4>1. CASE i \in 1 .. L
        BY <1>0, <4>1 DEF Queued
      <4>2. CASE \E m \in 1 .. n : i = L + m
        BY <1>0, <4>2
      <4> QED
        BY <4>1, <4>2, GrownIndices DEF L
    <3>2. ASSUME NEW i \in DOMAIN stored PROVE stored[i].payload \in Queued'
      <4>1. i \in DOMAIN stored' /\ stored'[i] = stored[i]
        BY <1>0
      <4>2. stored'[i].payload \in Queued'
        BY <4>1 DEF Queued
      <4> QED
        BY <4>1, <4>2
    <3>3. p \in Queued'
      <4>1. L + 1 \in DOMAIN stored' /\ 1 \in 1 .. n
        BY <1>0
      <4>2. stored'[L + 1].payload = p
        BY <1>0, <4>1
      <4> QED
        BY <4>1, <4>2 DEF Queued
    <3> QED
      BY <3>1, <3>2, <3>3 DEF Queued
  <2>3. Queued' = 1 .. (q + 1)
    BY <2>1, <2>2
  <2> QED
    BY <2>1, <2>3
<1> QED
  BY <1>2, <1>3 DEF StoredOnce

\* The new files come after the old ones, as their bundles do.
LEMMA StoresInOrder ==
  ASSUME GatewayTypeOK, FilesAreNamed, Ordered, NEW p, NEW n \in Nat, NEW of, Grown(p, n, of),
         StoredOnce', Add(p, n, of)
  PROVE  FilesInOrder'
<1> DEFINE L == Len(stored)
           file(m) == [name |-> seq + m - 1, bundle |-> First(p, n, of)[m]]
<1>0. /\ L \in Nat /\ DOMAIN stored = 1 .. L /\ DOMAIN stored' = 1 .. (L + n)
      /\ \A i \in 1 .. L : stored'[i] = stored[i]
      /\ \A m \in 1 .. n : stored'[L + m] = First(p, n, of)[m]
  BY DEF Grown
<1>1. seq \in Nat /\ \A f \in spool : f.name \in Nat /\ f.name < seq
  BY DEF GatewayTypeOK, FilesAreNamed, File
<1>2. spool' \subseteq spool \cup {file(m) : m \in 1 .. n}
  BY DEF Add, First
<1> HIDE DEF L
\* The index of a file's bundle.
<1>3. ASSUME NEW f \in spool', NEW i \in DOMAIN stored', stored'[i] = f.bundle
      PROVE  \/ f \in spool /\ i \in DOMAIN stored /\ stored[i] = f.bundle
             \/ \E m \in 1 .. n : f = file(m) /\ i = L + m
  <2>1. CASE f \in spool
    <3>1. PICK j \in DOMAIN stored : stored[j] = f.bundle
      BY <2>1 DEF Ordered, FilesInOrder
    <3>2. j \in DOMAIN stored' /\ stored'[j] = stored[j]
      BY <1>0
    <3>3. i = j
      BY <1>3, <3>1, <3>2 DEF StoredOnce
    <3> QED
      BY <2>1, <3>1, <3>3
  <2>2. ASSUME NEW m \in 1 .. n, f = file(m) PROVE i = L + m
    <3>1. L + m \in DOMAIN stored' /\ stored'[L + m] = f.bundle
      BY <1>0, <2>2
    <3> QED
      BY <1>3, <3>1 DEF StoredOnce
  <2> QED
    BY <1>2, <2>1, <2>2
<1>4. ASSUME NEW f \in spool', NEW g \in spool', NEW i \in DOMAIN stored', NEW j \in DOMAIN stored',
             f.name < g.name, stored'[i] = f.bundle, stored'[j] = g.bundle
      PROVE  i < j
  <2>1. CASE f \in spool /\ i \in DOMAIN stored /\ stored[i] = f.bundle
    <3>1. CASE g \in spool /\ j \in DOMAIN stored /\ stored[j] = g.bundle
      BY <1>4, <2>1, <3>1 DEF Ordered, FilesInOrder
    <3>2. CASE \E m \in 1 .. n : g = file(m) /\ j = L + m
      BY <1>0, <2>1, <3>2
    <3> QED
      BY <1>3, <1>4, <3>1, <3>2
  <2>2. ASSUME NEW m \in 1 .. n, f = file(m), i = L + m PROVE i < j
    <3>1. g \notin spool
      BY <1>1, <1>4, <2>2
    <3>2. PICK o \in 1 .. n : g = file(o) /\ j = L + o
      BY <1>3, <1>4, <3>1
    <3>3. seq + m - 1 < seq + o - 1
      BY <1>4, <2>2, <3>2
    <3> QED
      BY <1>0, <1>1, <2>2, <3>2, <3>3
  <2> QED
    BY <1>3, <1>4, <2>1, <2>2
<1>5. ASSUME NEW f \in spool' PROVE \E i \in DOMAIN stored' : stored'[i] = f.bundle
  <2>1. CASE f \in spool
    <3>1. PICK j \in DOMAIN stored : stored[j] = f.bundle
      BY <2>1 DEF Ordered, FilesInOrder
    <3> QED
      BY <1>0, <3>1
  <2>2. ASSUME NEW m \in 1 .. n, f = file(m) PROVE \E i \in DOMAIN stored' : stored'[i] = f.bundle
    <3>1. L + m \in DOMAIN stored' /\ stored'[L + m] = f.bundle
      BY <1>0, <2>2
    <3> QED
      BY <3>1
  <2> QED
    BY <1>2, <2>1, <2>2
<1> QED
  BY <1>4, <1>5 DEF FilesInOrder

-----------------------------------------------------------------------------
(* What is due stays due.                                                  *)

LEMMA DueGrows ==
  ASSUME NEW S, NEW U, NEW T, NEW V, T \subseteq V, DOMAIN S \subseteq DOMAIN U,
         \A i \in DOMAIN S : U[i] = S[i] /\ \A j \in DOMAIN U : j < i => j \in DOMAIN S
  PROVE  Due(S, T) \subseteq Due(U, V)
BY DEF Due

LEMMA CarriedOn ==
  ASSUME NEW cs, NEW D, NEW E, D \subseteq E, Carried(cs, D)
  PROVE  Carried(cs, E)
BY DEF Carried, Carry

LEMMA HandsOnKeeps ==
  ASSUME Ordered, HandsOn
  PROVE  Ordered'
<1>1. /\ stored' = stored /\ spool' \subseteq spool /\ Carried(conns', Due(stored, taken)) /\ Reassembled'
      /\ taken' = taken \/ \E b \in Due(stored, taken) : taken' = taken \cup {b}
  BY DEF HandsOn
<1>2. StoredOnce'
  BY <1>1 DEF Ordered, StoredOnce, Queued
<1>3. FilesInOrder'
  BY <1>1 DEF Ordered, FilesInOrder
<1>4. taken \subseteq taken' /\ \A b \in taken' : \E i \in DOMAIN stored : stored[i] = b
  BY <1>1 DEF Ordered, InOrder, Due
<1>5. Due(stored, taken) \subseteq Due(stored', taken')
  BY <1>1, <1>4, DueGrows
<1>6. Carried(conns', Due(stored', taken'))
  BY <1>1, <1>5, CarriedOn
<1>7. InOrder'
  BY <1>1, <1>4, <1>6 DEF InOrder, Carried
<1> QED
  BY <1>1, <1>2, <1>3, <1>7 DEF Ordered

LEMMA StoresKeeps ==
  ASSUME GatewayTypeOK, FilesAreNamed, Ordered,
         NEW p \in Payloads, NEW of \in Sizes, NEW n \in 1 .. of, Stores(p, n, of)
  PROVE  Ordered'
<1>1. /\ Add(p, n, of) /\ Carried(conns', Due(stored, taken))
      /\ taken' = taken /\ partial' = partial /\ delivered' = delivered
  BY DEF Stores, farVars
<1>2. n \in Nat /\ n >= 1 /\ Grown(p, n, of)
  BY <1>1, FirstType, StoresGrows
<1>3. StoredOnce'
  BY <1>2, StoresOnce
<1>4. FilesInOrder'
  BY <1>1, <1>2, <1>3, StoresInOrder
<1>5. DOMAIN stored \subseteq DOMAIN stored' /\ \A i \in DOMAIN stored : stored'[i] = stored[i]
  <2>1. /\ Len(stored) \in Nat /\ DOMAIN stored = 1 .. Len(stored) /\ DOMAIN stored' = 1 .. (Len(stored) + n)
        /\ \A i \in 1 .. Len(stored) : stored'[i] = stored[i]
    BY <1>2 DEF Grown
  <2> QED
    BY <1>2, <2>1
<1>6. \A i \in DOMAIN stored : \A j \in DOMAIN stored' : j < i => j \in DOMAIN stored
  <2>1. Len(stored) \in Nat /\ DOMAIN stored = 1 .. Len(stored) /\ DOMAIN stored' = 1 .. (Len(stored) + n)
    BY <1>2 DEF Grown
  <2> QED
    BY <1>2, <2>1
<1>7. Due(stored, taken) \subseteq Due(stored', taken')
  BY <1>1, <1>5, <1>6, DueGrows
<1>8. Carried(conns', Due(stored', taken'))
  BY <1>1, <1>7, CarriedOn
<1>9. InOrder'
  BY <1>1, <1>5, <1>8 DEF Ordered, InOrder, Carried
<1>10. Reassembled'
  BY <1>1 DEF Ordered, Reassembled, PartsTaken, DeliveredWhole
<1> QED
  BY <1>3, <1>4, <1>9, <1>10 DEF Ordered

-----------------------------------------------------------------------------
(* Every step.                                                             *)

StoresSome == \E p \in Payloads : \E of \in Sizes : \E n \in 1 .. of : Stores(p, n, of)

LEMMA StepHandsOnOrStores ==
  ASSUME GatewayTypeOK, GatewayInvariant, Ordered, [Next]_vars
  PROVE  HandsOn \/ StoresSome
<1>1. ASSUME NEW p \in Payloads, FromIp(p) PROVE StoresSome
  <2>1. PICK n \in Sizes : Add(p, n, n)
    BY <1>1 DEF FromIp
  <2>2. n \in 1 .. n
    BY GatewayAssumption
  <2>3. UNCHANGED farVars /\ conns' = conns
    BY <1>1 DEF FromIp
  <2>4. Stores(p, n, n)
    BY <2>1, <2>3, DueIsCarried DEF Stores
  <2> QED
    BY <2>2, <2>4 DEF StoresSome
<1>2. ASSUME NEW p \in Payloads, KilledSpooling(p) PROVE StoresSome
  <2>1. PICK of \in Sizes : \E n \in 1 .. (of - 1) : Add(p, n, of)
    BY <1>2 DEF KilledSpooling
  <2>2. PICK n \in 1 .. (of - 1) : Add(p, n, of)
    BY <2>1
  <2>3. n \in 1 .. of
    <3>1. of \in Nat
      BY GatewayAssumption
    <3> QED
      BY <3>1
  <2>4. Killed /\ UNCHANGED farVars
    BY <1>2 DEF KilledSpooling
  <2>5. Stores(p, n, of)
    BY <2>2, <2>4, KilledCarries DEF Stores
  <2> QED
    BY <2>3, <2>5 DEF StoresSome
<1>3. CASE Steps
  BY <1>3, PumpHandsOn, TurnsHandOn, NearEndHandsOn, FarEndHandsOn, HearAHandsOn, HearBHandsOn
  DEF Steps, PumpSteps, EndA, EndB
<1>4. CASE Faults
  BY <1>2, <1>4, PumpHandsOn, RestartBHandsOn, KilledAfterAckHandsOn, NearEndHandsOn, FarEndHandsOn DEF Faults
<1>5. CASE UNCHANGED vars
  <2>1. UNCHANGED <<diskVars, farVars>> /\ conns' = conns
    BY <1>5 DEF vars
  <2> QED
    BY <2>1, DueIsCarried, NearSide DEF diskVars
<1> QED
  BY <1>1, <1>3, <1>4, <1>5 DEF Next

LEMMA OrderBegins ==
  ASSUME Init
  PROVE  Ordered
<1>1. /\ spool = {} /\ stored = <<>> /\ taken = {} /\ delivered = {}
      /\ partial = [p \in Payloads |-> {}] /\ conns = [k \in Conns |-> NoConnection]
  BY DEF Init
<1>2. DOMAIN <<>> = {} /\ 1 .. 0 = {}
  OBVIOUS
<1>3. Queued = 1 .. 0
  BY <1>1, <1>2 DEF Queued
<1>4. StoredOnce
  BY <1>1, <1>2, <1>3 DEF StoredOnce
<1>5. FilesInOrder
  BY <1>1 DEF FilesInOrder
<1>6. InOrder
  BY <1>1 DEF InOrder, Carry, NoConnection
<1>7. Reassembled
  BY <1>1 DEF Reassembled, PartsTaken, DeliveredWhole
<1> QED
  BY <1>4, <1>5, <1>6, <1>7 DEF Ordered

LEMMA OrderHolds ==
  ASSUME Acknowledged
  PROVE  Spec => [](GatewayTypeOK /\ GatewayInvariant /\ Ordered)
<1>1. Init => GatewayTypeOK /\ GatewayInvariant /\ Ordered
  BY InitMakes, OrderBegins
<1>2. ASSUME GatewayTypeOK, GatewayInvariant, Ordered, [Next]_vars PROVE Ordered'
  <2>1. FilesAreNamed
    BY <1>2 DEF GatewayInvariant
  <2> QED
    BY <1>2, <2>1, StepHandsOnOrStores, HandsOnKeeps, StoresKeeps DEF StoresSome
<1>3. GatewayTypeOK /\ GatewayInvariant /\ Ordered /\ [Next]_vars
        => (GatewayTypeOK /\ GatewayInvariant /\ Ordered)'
  BY <1>2, StepKeeps
<1> QED
  BY <1>1, <1>3, PTL DEF Spec

\* A payload reaches the far IP side only when B has acknowledged every one of
\* its fragments, whatever expired, was discarded or came twice (_reassemble),
\* for every number of payloads and however often both gateways are killed.
THEOREM DeliveryIsWhole ==
  ASSUME Acknowledged
  PROVE  Spec => []DeliveredWhole
<1>1. Ordered => DeliveredWhole
  BY DEF Ordered, Reassembled
<1> QED
  BY <1>1, OrderHolds, PTL

\* The two gateways implement the abstract store-and-forward link: what B has
\* in full grows one bundle at a time in the order of storing, however often
\* the spool is listed again after a kill ("resends what was waiting, in order").
THEOREM LinkKeepsPromise ==
  ASSUME Acknowledged
  PROVE  Spec => StoredAndForwarded
<1>1. Init => Promise!Init
  BY DEF Init, Promise!Init
<1>2. ASSUME GatewayTypeOK, GatewayInvariant, Ordered, [Next]_vars
      PROVE  [Promise!Store \/ Promise!Forward]_<<stored, taken>>
  <2>1. CASE HandsOn
    <3>1. CASE stored' = stored /\ taken' = taken
      BY <3>1
    <3>2. ASSUME NEW b \in Due(stored, taken), taken' = taken \cup {b}, b \notin taken
          PROVE  Promise!Forward
      <4>1. PICK i \in DOMAIN stored : stored[i] = b /\ \A j \in DOMAIN stored : j < i => stored[j] \in taken
        BY DEF Due
      <4>2. \A j \in 1 .. (i - 1) : j \in DOMAIN stored /\ j < i
        <5>1. stored \in Seq(Bundles)
          BY <1>2 DEF GatewayTypeOK
        <5>2. DOMAIN stored = 1 .. Len(stored) /\ Len(stored) \in Nat
          BY <5>1, LenProperties
        <5> QED
          BY <4>1, <5>2
      <4>3. stored' = stored
        BY <2>1 DEF HandsOn
      <4> QED
        BY <3>2, <4>1, <4>2, <4>3 DEF Promise!Forward
    <3> QED
      BY <2>1, <3>1, <3>2 DEF HandsOn
  <2>2. ASSUME NEW p \in Payloads, NEW of \in Sizes, NEW n \in 1 .. of, Stores(p, n, of)
        PROVE  Promise!Store
    <3>1. stored' = stored \o First(p, n, of) /\ taken' = taken
      BY <2>2 DEF Stores, Add, First, farVars
    <3>2. n \in Nat /\ n >= 1 /\ First(p, n, of) \in Seq(Bundles) /\ Len(First(p, n, of)) = n
      BY FirstType
    <3>3. stored \in Seq(Bundles)
      BY <1>2 DEF GatewayTypeOK
    <3>4. Len(stored') > Len(stored)
      <4>1. Len(stored') = Len(stored) + n /\ Len(stored) \in Nat
        BY <3>1, <3>2, <3>3, ConcatProperties, LenProperties
      <4> QED
        BY <3>2, <4>1
    <3>5. SubSeq(stored', 1, Len(stored)) = stored
      BY <3>1, <3>2, <3>3
    <3> QED
      BY <3>1, <3>4, <3>5 DEF Promise!Store
  <2> QED
    BY <1>2, <2>1, <2>2, StepHandsOnOrStores DEF StoresSome
<1>3. GatewayTypeOK /\ GatewayInvariant /\ Ordered /\ [Next]_vars
        => [Promise!Store \/ Promise!Forward]_<<stored, taken>>
  BY <1>2
<1> QED
  BY <1>1, <1>3, OrderHolds, PTL DEF Spec, StoredAndForwarded, Promise!Spec
=============================================================================
