---------------------------- MODULE FlightKeyring ----------------------------
(***************************************************************************)
(* The key ring on board (flight/keyring.c): the rules of Keyring in C,    *)
(* over arrays of fixed size and unsigned times.  It is fed what the       *)
(* reference ring is fed, record by record or as a Key Record Block, and   *)
(* must judge every key as that does.                                      *)
(*                                                                         *)
(* A record that the reader of keyring.c does not take is one of kind      *)
(* "other": of an unknown kind, too long, or not in the form it reads.     *)
(***************************************************************************)
EXTENDS Keyring, FiniteSetsExt

CONSTANTS
  OnboardRecords,  \* CK_KR_MAX_RECORDS
  OnboardAnchors,  \* CK_KR_MAX_ANCHORS
  ClockModulus,    \* times are unsigned, modulo this
  Arrivals,        \* what may arrive: sequences of records, each a call
  SeenTimes,       \* when
  MaxArrivals      \* bound

ASSUME FlightAssumption ==
  /\ {OnboardRecords, OnboardAnchors, MaxArrivals} \subseteq Nat
  /\ ClockModulus \in Nat /\ Never < ClockModulus
  /\ Cardinality(Anchors) <= OnboardAnchors

VARIABLES
  onboard,    \* the ring on board, like a ring of Keyring
  reference,  \* the ring of keyring.mjs that was fed the same
  turnedAway, \* a call returned an error
  arrivals

flightVars == <<onboard, reference, turnedAway, arrivals>>

-----------------------------------------------------------------------------

OnboardReadable(r) == r.kind \in {"key", "revoke"}

\* Fault: the time of a record is that of its last sighting.
AddSeenLast(kr, r, seenAt) ==
  IF Knows(kr, r)
  THEN [ok |-> TRUE, kr |-> [i \in DOMAIN kr |-> IF kr[i].rec = r THEN [kr[i] EXCEPT !.seenAt = seenAt]
                                                 ELSE kr[i]]]
  ELSE [ok |-> Len(kr) < OnboardRecords, kr |-> Append(kr, [rec |-> r, seenAt |-> seenAt])]

\* ck_kr_add
OnboardAdd(kr, r, seenAt) ==
  CASE ~OnboardReadable(r) -> [ok |-> FALSE, kr |-> kr]
    [] OnboardReadable(r) /\ Knows(kr, r) ->
         [ok |-> TRUE,
          kr |-> [i \in DOMAIN kr |->
                    IF kr[i].rec = r THEN [kr[i] EXCEPT !.seenAt = Min({@, seenAt})] ELSE kr[i]]]
    [] OTHER ->
         IF Len(kr) >= OnboardRecords THEN [ok |-> FALSE, kr |-> kr]
         ELSE [ok |-> TRUE, kr |-> Append(kr, [rec |-> r, seenAt |-> seenAt])]

\* ck_kr_ingest_block: up to the first record that it cannot take.
OnboardIngest(kr, block, seenAt) ==
  FoldLeft(LAMBDA acc, r : IF acc.ok THEN OnboardAdd(acc.kr, r, seenAt) ELSE acc,
           [ok |-> TRUE, kr |-> kr], block)

\* The reference skips what it cannot read.
ReferenceIngest(ring, block, seenAt) == Ingest(ring, SelectSeq(block, OnboardReadable), seenAt)

-----------------------------------------------------------------------------
(* The rules, over indices into the array; 0 is no record.                 *)

CkWindow(f, t) ==
  /\ t >= IF f.notBefore > SkewMs THEN f.notBefore - SkewMs ELSE 0
  /\ t <= (f.notAfter + SkewMs) % ClockModulus

KeyIndices(kr, k) == {i \in DOMAIN kr : kr[i].rec.kind = "key" /\ kr[i].rec.key = k}

CkPubOf(kr, k) == k \in Anchors \/ KeyIndices(kr, k) # {}

CkNoChain == [ok |-> FALSE, rec |-> 0, anchor |-> 0, roles |-> {}, chain |-> {}]

\* chain_of, where up is what it and revoked_from find one level deeper.
CkChain(kr, up, k) ==
  LET takes(i) ==
        LET r == kr[i].rec
            issuer == up.chain[r.issuer]
        IN  /\ issuer.ok /\ "issue" \in issuer.roles
            /\ issuer.rec # 0 => CkWindow(kr[issuer.rec].rec, r.issuedAt)
            /\ up.revoked[r.issuer] # Never => kr[i].seenAt < up.revoked[r.issuer]
      good == {i \in KeyIndices(kr, k) : takes(i)}
  IN  IF k \in Anchors
      THEN [ok |-> TRUE, rec |-> 0, anchor |-> k, roles |-> Roles, chain |-> {k}]
      ELSE IF good = {} THEN CkNoChain
      ELSE LET i == Min(good)
               issuer == up.chain[kr[i].rec.issuer]
           IN  [ok |-> TRUE, rec |-> i, anchor |-> issuer.anchor, roles |-> kr[i].rec.roles,
                chain |-> {k} \cup issuer.chain]

\* revoked_from
CkRevoked(kr, up, k) ==
  LET target == up.chain[k]
      allowed(signer) ==
        \/ signer = k /\ CkPubOf(kr, k)
        \/ signer # k /\ target.ok /\ signer \in target.chain
        \/ signer # k /\ signer \in Anchors
        \/ /\ signer # k /\ up.chain[signer].ok /\ "revoke" \in up.chain[signer].roles
           /\ target.ok /\ up.chain[signer].anchor = target.anchor
      from == {kr[i].rec.effectiveFrom :
                 i \in {j \in DOMAIN kr : /\ kr[j].rec.kind = "revoke" /\ kr[j].rec.target = k
                                          /\ CkPubOf(kr, kr[j].rec.issuer) /\ allowed(kr[j].rec.issuer)}}
  IN  IF from = {} THEN Never ELSE Min(from)

\* Level by level from the deepest: there only an anchor has a chain, and
\* nothing counts as revoked.
CkRules(kr) ==
  FoldLeft(LAMBDA up, d : [chain |-> [k \in Keys |-> CkChain(kr, up, k)],
                           revoked |-> [k \in Keys |-> CkRevoked(kr, up, k)]],
           [chain |-> [k \in Keys |-> CkChain(<<>>, <<>>, k)], revoked |-> [k \in Keys |-> Never]],
           [d \in 1 .. MaxDepth |-> d])

\* ck_kr_status
CkStatus(kr, rules, k, eid, t, role) ==
  LET c == rules.chain[k]
      ok == /\ c.ok
            /\ IF c.rec # 0
               THEN kr[c.rec].rec.subject = eid /\ role \in c.roles /\ CkWindow(kr[c.rec].rec, t)
               ELSE AnchorEid[c.anchor] = eid
  IN  [ok |-> ok, revokedFrom |-> IF ok THEN rules.revoked[k] ELSE Never]

-----------------------------------------------------------------------------

RingInit == onboard = <<>> /\ reference = <<>> /\ turnedAway = FALSE /\ arrivals = 0

Arrive(block, at) ==
  /\ arrivals < MaxArrivals
  /\ LET taken == OnboardIngest(onboard, block, at)
     IN  onboard' = taken.kr /\ turnedAway' = (turnedAway \/ ~taken.ok)
  /\ reference' = ReferenceIngest(reference, block, at)
  /\ arrivals' = arrivals + 1

RingNext == \E block \in Arrivals, at \in SeenTimes : Arrive(block, at)

-----------------------------------------------------------------------------

Queries(ring) ==
  {<<ring[i].rec.key, ring[i].rec.subject, t>> :
     i \in {j \in DOMAIN ring : IsKey(ring[j].rec)}, t \in 0 .. Never - 1}

\* Until a call on board returned an error the two rings judge every key alike
\* for every node, time and role: who may sign, and from when it is revoked
\* (keyring.h:13-14, keyring-vectors.mjs:1-3). A full ring, or a record that it
\* cannot read, parts them: what comes after in the block is lost on board.
FlightAgrees ==
  ~turnedAway =>
    LET rules == CkRules(onboard)
        verdicts == Verdicts(reference)
    IN  \A q \in Queries(reference), role \in Roles :
          LET js == Judge(verdicts, q[1], q[2], q[3], role)
              ck == CkStatus(onboard, rules, q[1], q[2], q[3], role)
          IN  ck.ok = js.ok /\ (js.ok => ck.revokedFrom = js.revokedFrom)
=============================================================================
