---------------------------- MODULE StationLedgers ----------------------------
(***************************************************************************)
(* Two ground stations that hear one spacecraft (ground/lib.mjs): each     *)
(* files what it received, seals a ledger over it with a report for every  *)
(* scheduled pass, and the two ledgers are compared. A record is what it   *)
(* says; that its signature holds is left out, and a product's content is  *)
(* the product, or "altered" on the disk.                                  *)
(***************************************************************************)
EXTENDS MerkleTrees

CONSTANTS
  Schedules,  \* by station, the schedules it may have: sequences of [id, start, end]
  LastMoment, \* bounds: the time that passes, and the products sent
  MaxProducts

VARIABLES
  moment,
  schedule,
  kept,       \* by station, the files: [name, at]
  ledgers,    \* by station, <<>> or its sealed ledger
  altered,    \* by station, the products changed on its disk
  downlinked  \* products sent so far

groundVars == <<moment, schedule, kept, ledgers, altered, downlinked>>

GroundStations == DOMAIN Schedules

\* passFor: the first pass that a time falls in, both ends included.
PassFor(passes, t) ==
  LET in == {i \in DOMAIN passes : passes[i].start <= t /\ t <= passes[i].end}
  IN  IF in = {} THEN <<>> ELSE <<passes[Min(in)].id>>

FileOrder(files) == SetToSortSeq(files, LAMBDA a, b : a.at < b.at \/ (a.at = b.at /\ a.name < b.name))

FileRecords(passes, f) ==
  <<[kind |-> "manifest", name |-> f.name, content |-> f.name, pass |-> PassFor(passes, f.at)],
    [kind |-> "custody", bundle |-> f.name, receivedAt |-> f.at]>>

\* The report of a pass; with no data, a gap until data next arrived.
PassReport(passes, files, p) ==
  LET got == SelectSeq(files, LAMBDA f : PassFor(passes, f.at) = <<p.id>>)
      next == SelectSeq(files, LAMBDA f : f.at > p.end)
  IN  [kind |-> "pass", pass |-> p, products |-> Len(got), silent |-> got = <<>>,
       gapUntil |-> IF got = <<>> /\ next # <<>> THEN <<next[1].at>> ELSE <<>>]

\* Fault: the number of the records is not compared.
SealMatchesRoot(records, seal) ==
  seal.root = BuildTree([i \in DOMAIN records |-> Leaf(records[i])])

SealMatches(records, seal) ==
  /\ seal.root = BuildTree([i \in DOMAIN records |-> Leaf(records[i])])
  /\ seal.count = Len(records)

\* buildLedger: manifests and receipts, pass reports, what no pass explains,
\* and the seal over all of them.
BuildLedger(passes, received) ==
  LET files == FileOrder(received)
      rest == SelectSeq(files, LAMBDA f : PassFor(passes, f.at) = <<>>)
      order == SortSeq(passes, LAMBDA p, q : p.start < q.start)
      records == FlattenSeq([i \in DOMAIN files |-> FileRecords(passes, files[i])])
                   \o [i \in DOMAIN order |-> PassReport(passes, files, order[i])]
                   \o IF rest = <<>> THEN <<>> ELSE <<[kind |-> "unscheduled", products |-> rest]>>
  IN  [records |-> records,
       seal |-> [root |-> BuildTree([i \in DOMAIN records |-> Leaf(records[i])]), count |-> Len(records)]]

\* verifyLedger, with the products on the disk hashed again.
VerifyLedger(records, seal, changed) ==
  /\ SealMatches(records, seal)
  /\ \A i \in DOMAIN records : records[i].kind = "manifest" => records[i].name \notin changed

Reports(l) == {l.records[i] : i \in {j \in DOMAIN l.records : l.records[j].kind = "pass"}}

\* comparePasses: a finding for every two passes that overlap.
ComparePasses(a, b) ==
  {[pa |-> x[1], pb |-> x[2],
    finding |-> CASE x[1].silent /\ x[2].silent -> "shared_silence"
                  [] x[1].silent /\ ~x[2].silent -> "gap_at_a"
                  [] ~x[1].silent /\ x[2].silent -> "gap_at_b"
                  [] OTHER -> "both_received"] :
     x \in {y \in Reports(a) \X Reports(b) :
              Max({y[1].pass.start, y[2].pass.start}) < Min({y[1].pass.end, y[2].pass.end})}}

\* corroborate: what both have.
Corroborated(a, b) ==
  LET names(l) == {l.records[i].content : i \in {j \in DOMAIN l.records : l.records[j].kind = "manifest"}}
  IN  names(a) \cap names(b)

-----------------------------------------------------------------------------

GroundInit ==
  /\ moment = 0
  /\ \E a \in Schedules[1], b \in Schedules[2] : schedule = <<a, b>>
  /\ kept = <<{}, {}>> /\ ledgers = <<<<>>, <<>>>> /\ altered = <<{}, {}>>
  /\ downlinked = 0

\* The spacecraft sends a product; some stations, or none, receive it.
Downlink ==
  /\ downlinked < MaxProducts
  /\ downlinked' = downlinked + 1
  /\ \E hearing \in SUBSET GroundStations :
       kept' = [s \in GroundStations |->
                       kept[s] \cup (IF s \in hearing THEN {[name |-> downlinked, at |-> moment]} ELSE {})]
  /\ UNCHANGED <<moment, schedule, ledgers, altered>>

GroundTick ==
  /\ moment < LastMoment
  /\ moment' = moment + 1
  /\ UNCHANGED <<schedule, kept, ledgers, altered, downlinked>>

SealLedger(s) ==
  /\ ledgers[s] = <<>>
  /\ ledgers' = [ledgers EXCEPT ![s] = <<BuildLedger(schedule[s], kept[s])>>]
  /\ UNCHANGED <<moment, schedule, kept, altered, downlinked>>

\* A file on the disk changes.
AlterFile(s) ==
  /\ ledgers[s] # <<>> /\ altered[s] = {}
  /\ \E f \in kept[s] : altered' = [altered EXCEPT ![s] = {f.name}]
  /\ UNCHANGED <<moment, schedule, kept, ledgers, downlinked>>

GroundNext == Downlink \/ GroundTick \/ \E s \in GroundStations : SealLedger(s) \/ AlterFile(s)

-----------------------------------------------------------------------------

\* Ledgers a little different from one: a record dropped, repeated or out of
\* its place.
Near(records) ==
  {RemoveAt(records, i) : i \in IF Len(records) = 1 THEN {} ELSE DOMAIN records}
    \cup {Append(records, records[i]) : i \in DOMAIN records}
    \cup {[records EXCEPT ![i] = records[i + 1], ![i + 1] = records[i]] : i \in 1 .. Len(records) - 1}

\* The files that a sealed ledger is about.
LedgerFiles(s) ==
  LET records == ledgers[s][1].records
  IN  {f \in kept[s] : \E i \in DOMAIN records :
                              records[i].kind = "manifest" /\ records[i].name = f.name}

During(s, pass) == {f \in LedgerFiles(s) : pass.start <= f.at /\ f.at <= pass.end}

\* A ledger verifies exactly as it was sealed, over products as they were
\* ("dropping, adding or re-signing any record changes the root"). A silent
\* pass is silence: nothing came in during it that another pass of the station
\* does not account for, and nothing from its end to the end of its gap. And
\* where the two ledgers are compared, a gap is laid to a station only if it
\* reported none of the pass and the other something of its own that overlaps
\* (ground/README.md, lib.mjs:129-138).
LedgersTell ==
  /\ \A s \in GroundStations : ledgers[s] # <<>> =>
       LET l == ledgers[s][1]
       IN  /\ VerifyLedger(l.records, l.seal, altered[s])
                <=> altered[s] \cap {f.name : f \in LedgerFiles(s)} = {}
           /\ \A records \in Near(l.records) :
                VerifyLedger(records, l.seal, {}) => records = l.records
           /\ \A r \in Reports(l) : r.silent =>
                /\ \A f \in During(s, r.pass) :
                     PassFor(schedule[s], f.at) \notin {<<>>, <<r.pass.id>>}
                /\ \A f \in LedgerFiles(s) : f.at > r.pass.end =>
                     r.gapUntil # <<>> /\ f.at >= r.gapUntil[1] /\ r.gapUntil[1] > r.pass.end
  /\ (\A s \in GroundStations : ledgers[s] # <<>>) =>
       LET a == ledgers[1][1]
           b == ledgers[2][1]
       IN  /\ \A x \in ComparePasses(a, b) :
                /\ x.finding \in {"gap_at_a", "both_received"} => During(2, x.pb.pass) # {}
                /\ x.finding \in {"gap_at_b", "both_received"} => During(1, x.pa.pass) # {}
           /\ Corroborated(a, b)
                = {f.name : f \in LedgerFiles(1)} \cap {f.name : f \in LedgerFiles(2)}
=============================================================================
