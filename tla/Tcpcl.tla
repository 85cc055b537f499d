------------------------------- MODULE Tcpcl -------------------------------
(***************************************************************************)
(* The TCP convergence layer sessions of gateway/tcpcl4.mjs (RFC 9174) and *)
(* gateway/tcpcl3.mjs (RFC 7242) as functions: what one end of a session   *)
(* does with one message of its peer.  The two versions differ in the      *)
(* handshake, in transfer ids and in whether a transfer is acknowledged.   *)
(*                                                                         *)
(* Every bundle is cut into Segments segments.  TLS, allow lists, parser   *)
(* limits and keepalive messages are left out: they end a session or leave *)
(* it as it is, which the breaks and timeouts of Gateway do as well.       *)
(***************************************************************************)
EXTENDS Naturals, Sequences

CONSTANTS
  Bundles,
  Segments,   \* segments per bundle: its size over the peer's segment MRU, rounded up
  None

ASSUME TcpclAssumption ==
  /\ Segments \in Nat \ {0}
  /\ None \notin Bundles \cup Nat \cup [id : Nat, got : Nat] \cup {"acked", "refused"}

\* A version, and whether both ends set the request-acknowledgement flag.
\* Version 4 always acknowledges.
Layer == {[version |-> 4, acks |-> TRUE], [version |-> 3, acks |-> TRUE], [version |-> 3, acks |-> FALSE]}

\* One end of a session: what it is receiving and what it is sending.
End == [state : {"none", "contact", "init", "established", "ending", "closed"},
        rx : [id : Nat, got : 0 .. Segments] \cup {None},
        next : Nat, sending : Nat \cup {None}]

NoEnd == [state |-> "none", rx |-> None, next |-> 0, sending |-> None]

Fresh == [NoEnd EXCEPT !.state = "contact"]

\* _teardown: outstanding transfers are rejected; nothing else is used again.
Shut(e) == [NoEnd EXCEPT !.state = "closed"]

Message ==
  [kind : {"contact", "init", "reject"}]
    \cup [kind : {"segment"}, id : Nat, n : 1 .. Segments, bundle : Bundles]
    \cup [kind : {"ack"}, id : Nat, got : 1 .. Segments]
    \cup [kind : {"refuse"}, id : Nat]
    \cup [kind : {"term"}, reply : BOOLEAN]

Word(kind) == <<[kind |-> kind]>>

\* send: the transfer as its segments; version 3 has no transfer ids.
TransferId(layer, e) == IF layer.version = 4 THEN e.next ELSE 0

Transfer(id, b) == [n \in 1 .. Segments |-> [kind |-> "segment", id |-> id, n |-> n, bundle |-> b]]

Sending(layer, e) ==
  [e EXCEPT !.next = @ + 1,
            !.sending = IF layer.acks THEN TransferId(layer, e) ELSE None]

-----------------------------------------------------------------------------
(* What an end e does with message m: its new state, what it writes back,  *)
(* the bundle it has received in full, and how its own transfer ended.     *)

Nothing(e) == [end |-> e, reply |-> <<>>, bundle |-> None, settled |-> None]

\* The passive end answers the contact header with its own; the active end goes
\* on with SESS_INIT, which version 3 does not have.
Contact(layer, active, e) ==
  [Nothing([e EXCEPT !.state = IF layer.version = 4 THEN "init" ELSE "established"]) EXCEPT
     !.reply = IF ~active THEN Word("contact")
               ELSE IF layer.version = 4 THEN Word("init") ELSE <<>>]

SessInit(active, e) ==
  IF e.state # "init" THEN [Nothing(e) EXCEPT !.reply = Word("reject")]
  ELSE [Nothing([e EXCEPT !.state = "established"]) EXCEPT
          !.reply = IF active THEN <<>> ELSE Word("init")]

\* A segment that belongs to no transfer is rejected; any other is acknowledged
\* with the total so far, and the last one completes the bundle.
Segment(layer, e, m) ==
  LET rx == IF m.n = 1 THEN [id |-> m.id, got |-> 0] ELSE e.rx
      known == e.state = "established" /\ rx # None /\ rx.id = m.id
  IN  IF known
      THEN [Nothing([e EXCEPT !.rx = IF m.n = Segments THEN None ELSE [rx EXCEPT !.got = @ + 1]]) EXCEPT
              !.reply = <<[kind |-> "ack", id |-> m.id, got |-> rx.got + 1]>>,
              !.bundle = IF m.n = Segments THEN m.bundle ELSE None]
      ELSE [Nothing(e) EXCEPT !.reply = IF layer.version = 4 THEN Word("reject") ELSE <<>>]

\* The peer refuses the transfer its segment belongs to (RFC 9174 section 5.2.4).
Refusal(e, m) == [Nothing([e EXCEPT !.rx = None]) EXCEPT !.reply = <<[kind |-> "refuse", id |-> m.id]>>]

\* Fault: the first acknowledgement ends the transfer.
AckOfAnySegment(e, m) ==
  IF e.sending = m.id THEN [Nothing([e EXCEPT !.sending = None]) EXCEPT !.settled = "acked"] ELSE Nothing(e)

\* The transfer is over when all of it is acknowledged.
Ack(e, m) ==
  IF e.sending = m.id /\ m.got = Segments
  THEN [Nothing([e EXCEPT !.sending = None]) EXCEPT !.settled = "acked"]
  ELSE Nothing(e)

Refuse(e, m) ==
  IF e.sending = m.id THEN [Nothing([e EXCEPT !.sending = None]) EXCEPT !.settled = "refused"] ELSE Nothing(e)

Term(e, m) ==
  [Nothing([e EXCEPT !.state = "ending"]) EXCEPT
     !.reply = IF m.reply THEN <<>> ELSE <<[kind |-> "term", reply |-> TRUE]>>]

OnMessage(layer, active, e, m) ==
  CASE m.kind = "contact" -> Contact(layer, active, e)
    [] m.kind = "init"    -> SessInit(active, e)
    [] m.kind = "segment" -> Segment(layer, e, m)
    [] m.kind = "ack"     -> Ack(e, m)
    [] m.kind = "refuse"  -> Refuse(e, m)
    [] m.kind = "term"    -> Term(e, m)
    [] m.kind = "reject"  -> Nothing(e)
=============================================================================
