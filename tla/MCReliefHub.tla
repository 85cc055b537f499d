---------------------------- MODULE MCReliefHub ----------------------------
(* A small hub: one report of two chunks, two relays, one clinic, and a    *)
(* node the directory does not list.                                       *)
EXTENDS ReliefHub

CONSTANTS clinic, r1, r2, stranger, p

MCNodes == {clinic, r1, r2, stranger}
MCClinics == {clinic}
MCRelays == {r1, r2}
MCPayloads == {p}
MCClinicOf == [id \in {p} |-> clinic]
MCChunkCount == [id \in {p} |-> 2]
MCOpens == [id \in {p} |-> TRUE]

R(hop, version, prev) == [hop |-> hop, key |-> <<hop, version>>, prev |-> prev, sound |-> TRUE]

M(key) == [kind |-> "manifest", id |-> p, signer |-> key, sound |-> TRUE, lastHop |-> r2]

C(i, intact, custody) == [kind |-> "chunk", id |-> p, index |-> i, intact |-> intact,
                          form |-> "whole", custody |-> custody, lastHop |-> r2]

\* Chunk frames with fields missing.
Lacking(form) == [C(0, FALSE, <<R(r1, 0, clinic)>>) EXCEPT !.form = form]

\* The genuine frames, under the first relay's old and replacement device; a
\* manifest under a stranger's key; a damaged chunk; a chunk that skipped a
\* custodian; a chunk without its bytes and a frame without its chunk.
MCArrivals ==
  { M(<<clinic, 0>>), M(<<stranger, 0>>),
    C(0, TRUE, <<R(r1, 0, clinic)>>), C(0, TRUE, <<R(r1, 1, clinic)>>),
    C(0, FALSE, <<R(r1, 0, clinic)>>),
    C(1, TRUE, <<R(r1, 0, clinic), R(r2, 0, r1)>>),
    C(1, TRUE, <<R(r2, 0, r1)>>),
    Lacking("bare"), Lacking("broken") }

\* What came with its fields.
MCWhole == {f \in MCArrivals : f.kind = "chunk" => f.form = "whole"}

\* The clinic signs as a custodian of its own chunk.
MCClinicCarries == {M(<<clinic, 0>>), C(0, TRUE, <<R(clinic, 0, clinic)>>)}
=============================================================================
