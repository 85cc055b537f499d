----------------------------- MODULE ReliefHub -----------------------------
(***************************************************************************)
(* The hub daemon of relief/kit/node.mjs around the hub of ReliefRoles: a  *)
(* frame is appended to frames.jsonl before it is ingested, a verified     *)
(* report is written to the inbox, a timer reloads the config and asks for *)
(* what is missing, and a restart replays the frame log with the stored    *)
(* arrival times under the config of the day.  An operator may revoke a    *)
(* key at any time; the process may be killed at any point, also halfway   *)
(* through an append.  What the network delivers is any frame of Arrivals  *)
(* signed with keys that have been issued.                                 *)
(***************************************************************************)
EXTENDS ReliefRoles

CONSTANTS
  Arrivals,      \* the frames the network may deliver
  MaxLog,        \* bound: frames that reach the hub, a malformed one counted twice
  MaxTime,       \* bound: the hub's clock
  MaxRevokes,    \* bound: revocations
  MaxCrashes,    \* bound: kills of the hub process
  PromptReload,  \* TRUE: no frame arrives between a revocation and its reload
  TornWrites     \* TRUE: a kill may cut the line being appended short

ASSUME HubAssumption ==
  /\ Arrivals \subseteq Frame
  /\ MaxLog \in Nat /\ MaxTime \in Nat /\ MaxRevokes \in Nat /\ MaxCrashes \in Nat
  /\ PromptReload \in BOOLEAN /\ TornWrites \in BOOLEAN

VARIABLES
  hub,      \* payloads and paid (memory)
  dir,      \* the directory the hub runs with (memory)
  config,   \* the directory in the hub's config file (disk)
  frameLog, \* frames.jsonl (disk)
  inbox,    \* report ids written to inbox/ (disk)
  mode,     \* the process: "up", "down", "replaying", or "stuck" at startup
  pos,      \* frames replayed so far
  now,      \* the hub's clock
  asked,    \* history: when this process made each report's resend requests
  crashes   \* kills so far

vars == <<hub, dir, config, frameLog, inbox, mode, pos, now, asked, crashes>>

Logged == [at : Nat, frame : Frame, whole : BOOLEAN]

TypeOK ==
  /\ hub \in Hub
  /\ dir \in Directory
  /\ config \in Directory
  /\ frameLog \in Seq(Logged)
  /\ inbox \subseteq Payloads
  /\ mode \in {"up", "down", "replaying", "stuck"}
  /\ pos \in 0 .. Len(frameLog)
  /\ now \in Nat
  /\ asked \in [Payloads -> Seq(Nat)]
  /\ crashes \in Nat

Init ==
  /\ hub = EmptyHub
  /\ dir = Provisioned
  /\ config = Provisioned
  /\ frameLog = <<>>
  /\ inbox = {}
  /\ mode = "up"
  /\ pos = 0
  /\ now = 0
  /\ asked = [id \in Payloads |-> <<>>]
  /\ crashes = 0

-----------------------------------------------------------------------------

\* Only keys that exist can have signed a frame.
Issued(key) == key[1] \in Clinics \cup Relays => key[2] <= KeyOf(config, key[1])[2]

Signers(f) == IF f.kind = "manifest" THEN {f.signer} ELSE {f.custody[k].key : k \in DOMAIN f.custody}

Malformed(f) == f.kind = "chunk" /\ f.form # "whole"

Room(f) ==
  LET frames == [n \in DOMAIN frameLog |-> frameLog[n].frame]
  IN  Len(frames) + Len(SelectSeq(Append(frames, f), Malformed)) < MaxLog

MayArrive(f) ==
  /\ mode = "up"
  /\ Room(f)
  /\ \A key \in Signers(f) : Issued(key)
  /\ PromptReload => dir = config

AppendLine(f, whole) == frameLog' = Append(frameLog, [at |-> now, frame |-> f, whole |-> whole])

Verified(h) == {id \in Payloads : h.entries[id].report = "verified"}

\* persist: a report is written out once it is verified.
Persist(id) == inbox' = inbox \cup (Verified(hub') \cap {id})

\* t.onFrame of the hub: log the frame, ingest it, write the report out.
Receive(f) ==
  /\ MayArrive(f)
  /\ ~Throws(hub, f, now, dir)
  /\ AppendLine(f, TRUE)
  /\ hub' = Ingest(hub, f, now, dir)
  /\ Persist(f.id)
  /\ UNCHANGED <<dir, config, mode, pos, now, asked, crashes>>

\* The process and its memory are gone.
Ended ==
  /\ mode' = "down"
  /\ hub' = EmptyHub
  /\ pos' = 0
  /\ asked' = [id \in Payloads |-> <<>>]

\* ingest throws out of the handler, which nothing catches: the process ends
\* with the frame in its log.
ReceiveThrows(f) ==
  /\ MayArrive(f)
  /\ Throws(hub, f, now, dir)
  /\ AppendLine(f, TRUE)
  /\ Ended
  /\ UNCHANGED <<dir, config, inbox, now, crashes>>

Die ==
  /\ crashes < MaxCrashes
  /\ crashes' = crashes + 1
  /\ Ended

\* The process is killed in that handler, after the append or in the middle of it.
KilledWhileLogging(f) ==
  /\ MayArrive(f)
  /\ \E whole \in {TRUE, ~TornWrites} : AppendLine(f, whole)
  /\ Die
  /\ UNCHANGED <<dir, config, inbox, now>>

Crash ==
  /\ mode \in {"up", "replaying"}
  /\ Die
  /\ UNCHANGED <<dir, config, frameLog, inbox, now>>

\* startNode: read the config, then replay the log before listening.
Restart ==
  /\ mode = "down"
  /\ mode' = "replaying"
  /\ dir' = config
  /\ UNCHANGED <<hub, config, frameLog, inbox, pos, now, asked, crashes>>

\* A line the replay loop gets past.
Replays(h, line, directory) == line.whole /\ ~Throws(h, line.frame, line.at, directory)

\* Fault: a replayed frame is judged by today's clock.
ReplayNow ==
  /\ mode = "replaying"
  /\ pos < Len(frameLog)
  /\ Replays(hub, frameLog[pos + 1], dir)
  /\ hub' = Ingest(hub, frameLog[pos + 1].frame, now, dir)
  /\ Persist(frameLog[pos + 1].frame.id)
  /\ pos' = pos + 1
  /\ UNCHANGED <<dir, config, frameLog, mode, now, asked, crashes>>

\* Fault: the last line is never replayed.
ReplayAllButLast ==
  /\ mode = "replaying"
  /\ pos < Len(frameLog) - 1
  /\ Replays(hub, frameLog[pos + 1], dir)
  /\ hub' = Ingest(hub, frameLog[pos + 1].frame, frameLog[pos + 1].at, dir)
  /\ Persist(frameLog[pos + 1].frame.id)
  /\ pos' = pos + 1
  /\ UNCHANGED <<dir, config, frameLog, mode, now, asked, crashes>>

Replay ==
  /\ mode = "replaying"
  /\ pos < Len(frameLog)
  /\ LET line == frameLog[pos + 1]
     IN  IF Replays(hub, line, dir)
         THEN /\ hub' = Ingest(hub, line.frame, line.at, dir)
              /\ Persist(line.frame.id)
              /\ pos' = pos + 1
              /\ UNCHANGED mode
         ELSE /\ mode' = "stuck"     \* JSON.parse or ingest throws out of startNode
              /\ UNCHANGED <<hub, inbox, pos>>
  /\ UNCHANGED <<dir, config, frameLog, now, asked, crashes>>

Listen ==
  /\ mode = "replaying"
  /\ pos = Len(frameLog)
  /\ mode' = "up"
  /\ pos' = 0
  /\ UNCHANGED <<hub, dir, config, frameLog, inbox, now, asked, crashes>>

\* The poll timer: reload a changed config, then make the requests that are due.
Tick ==
  LET due == {id \in Payloads : Due(id, hub.entries[id], now)}
  IN  /\ mode = "up"
      /\ dir' = config
      /\ hub' = [hub EXCEPT !.entries =
                   [id \in Payloads |-> IF id \in due THEN Asked(@[id], now) ELSE @[id]]]
      /\ asked' = [id \in Payloads |-> IF id \in due THEN Append(asked[id], now) ELSE asked[id]]
      /\ UNCHANGED <<config, frameLog, inbox, mode, pos, now, crashes>>

\* provision.mjs --revoke, and the new config copied to the hub.  The instant
\* is later than any frame received so far: a frame and a revocation do not
\* share a millisecond.
Revoke(n) ==
  /\ Cardinality(config.revoked) < MaxRevokes
  /\ now' = now + 1
  /\ config' = Revoked(config, n, now + 1)
  /\ UNCHANGED <<hub, dir, frameLog, inbox, mode, pos, asked, crashes>>

Advance ==
  /\ now < MaxTime
  /\ now' = now + 1
  /\ UNCHANGED <<hub, dir, config, frameLog, inbox, mode, pos, asked, crashes>>

Next ==
  \/ \E f \in Arrivals : Receive(f) \/ ReceiveThrows(f) \/ KilledWhileLogging(f)
  \/ Crash
  \/ Restart
  \/ Replay
  \/ Listen
  \/ Tick
  \/ \E n \in Clinics \cup Relays : Revoke(n)
  \/ Advance

Spec == Init /\ [][Next]_vars

\* Started again by its supervisor, the process runs through its startup.
Startup == Restart \/ Replay \/ Listen

FairSpec == Spec /\ WF_vars(Startup)

-----------------------------------------------------------------------------
(* What a frame proves to anyone who holds the public keys.                *)

\* A genuine chunk with an unbroken chain of receipts from the clinic, each
\* signed with a key of the node it names.
Custodied(f) ==
  /\ f.kind = "chunk"
  /\ f.intact
  /\ f.index \in Index(f.id)
  /\ f.custody # <<>>
  /\ \A k \in DOMAIN f.custody : f.custody[k].sound /\ f.custody[k].key[1] = f.custody[k].hop
  /\ Continuous(f.custody, ClinicOf[f.id])

Authored(f) == f.kind = "manifest" /\ f.sound /\ f.signer[1] = ClinicOf[f.id]

\* The lines of the log that can be read back.
Lines == {line \in {frameLog[n] : n \in DOMAIN frameLog} : line.whole}

\* A line that earns the handoff p: a relay, a report and a chunk index.
Earns(line, p) ==
  /\ Custodied(line.frame)
  /\ line.frame.id = p[2] /\ line.frame.index = p[3]
  /\ \E k \in DOMAIN line.frame.custody : line.frame.custody[k].hop = p[1]

\* None of the line's receipts is signed with a key of "revoked" that had been
\* revoked when the frame arrived.
Unrevoked(line, revoked) ==
  \A k \in DOMAIN line.frame.custody : \A r \in revoked :
    line.frame.custody[k].key = r.pub => line.at < r.revokedAt

\* Money: the hub owes a relay for a chunk only on a frame in its durable log
\* that carries that relay's own receipt in an unbroken verified chain
\* (roles.mjs check: "Pays only for receipts that verified").
PaidIsEarned == \A p \in hub.paid : \E line \in Lines : Earns(line, p)

\* "A key is accepted only for frames that reached the hub before revokedAt, by
\* the hub's own clock" (roles.mjs header), across reloads, restarts and chunks
\* that waited unchecked for their manifest: no handoff is owed on the word of a
\* revoked key.
RevokedKeyNeverPaid ==
  \A p \in hub.paid : \E line \in Lines : Earns(line, p) /\ Unrevoked(line, config.revoked)

\* The log completes a report.
Complete(id, lines) ==
  /\ Opens[id]
  /\ \E line \in lines : Authored(line.frame) /\ line.frame.id = id
  /\ \A i \in Index(id) : \E line \in lines :
       Custodied(line.frame) /\ line.frame.id = id /\ line.frame.index = i

\* A report the hub shows as verified, or wrote to its inbox before any number
\* of restarts, rests on the clinic's own manifest and on a custodied genuine
\* copy of every chunk, all of them in the log (roles.mjs finalize).
VerifiedIsComplete ==
  \A id \in Payloads :
    id \in inbox \/ hub.entries[id].report = "verified" => Complete(id, Lines)

\* "work done before the loss still counts": what was in the inbox before a
\* revocation and a restart is verified again by the restarted hub.
InboxRestored ==
  mode = "up" => \A id \in inbox : hub.entries[id].report = "verified"

\* A damaged chunk or a manifest under the wrong key cannot block a report while
\* the hub runs: once a good manifest is there, a good copy of each chunk
\* arriving after it settles the report, whatever else arrived and was checked
\* (roles.mjs check and finalize comments).  A frame on which the check throws
\* is not dropped but ends the process, and every start after it: it is the
\* premise mode = "up" that leaves it out, and LegibleLogRecovers that says when
\* the hub is up again.
GoodFramesSuffice ==
  \A id \in Payloads :
    /\ mode = "up"
    /\ \E m \in DOMAIN frameLog :
         /\ frameLog[m].frame.kind = "manifest" /\ frameLog[m].frame.id = id
         /\ ManifestOk(frameLog[m].frame, frameLog[m].at, dir)
         /\ \A i \in Index(id) : \E n \in DOMAIN frameLog :
              LET f == frameLog[n].frame
              IN  /\ n > m /\ f.kind = "chunk" /\ f.form = "whole" /\ f.id = id /\ f.index = i
                  /\ Acceptable(id, [index |-> i, intact |-> f.intact, custody |-> f.custody,
                                     at |-> frameLog[n].at], dir)
    => hub.entries[id].report # "none"

\* A node has one role (provision.mjs:32): no clinic signs as a custodian and no
\* report names a relay as its clinic.  Where one does, a revocation changes how
\* older frames are judged: keysAt looks up both books in one list.
RolesApart ==
  /\ \A id \in Payloads : ClinicOf[id] \notin Relays
  /\ \A f \in Arrivals : f.kind = "chunk" =>
       \A k \in DOMAIN f.custody : f.custody[k].hop \notin Clinics

\* owed in payout.mjs, and the replay loop of node.mjs, in one step, over lines
\* none of which throws: so it is with the log of a hub that runs.
Rebuilt(lines, directory) ==
  LET fold[n \in 0 .. Len(lines)] ==
        IF n = 0 THEN EmptyHub
        ELSE IF lines[n].whole
             THEN Ingest(fold[n - 1], lines[n].frame, lines[n].at, directory)
             ELSE fold[n - 1]
  IN  fold[Len(lines)]

\* What the log can tell: everything but the count of requests already made.
Told(h) == [paid    |-> h.paid,
            entries |-> [id \in Payloads |->
                           [h.entries[id] EXCEPT !.resends = 0, !.nextAt = 0]]]

\* A running hub, restarted or not, holds exactly what its log tells, whatever
\* keys were revoked since the frames arrived, as long as RolesApart; and the
\* payout tool, which folds the log beside the live hub with the config file and
\* not the hub's memory, owes what the dashboard shows (node.mjs:100-105,
\* payout.mjs:29-36).
LiveIsRebuilt ==
  mode = "up" => /\ Told(hub) = Told(Rebuilt(frameLog, dir))
                 /\ hub.paid = Rebuilt(frameLog, config).paid

\* Requests wait resendAfterMs after the last frame of the report, also one
\* that came before a restart, and while the process runs they back off,
\* doubling (comment of tick in roles.mjs).
RequestsBackOff ==
  [][\A id \in Payloads : Len(asked'[id]) > Len(asked[id]) =>
       /\ \A n \in DOMAIN frameLog :
            frameLog[n].frame.id = id => now >= frameLog[n].at + ResendAfter
       /\ \A k \in DOMAIN asked[id] : now >= asked[id][k] + ResendAfter * 2 ^ k]_vars

\* A killed hub comes back: "Replay the frame log so a restarted hub has its
\* full state back" (node.mjs:100).  Not so with a line cut short in the log, or
\* with a frame on which ingest throws.
RestartRecovers == mode = "down" ~> mode = "up"

\* The directory that the process goes by, or would if it were started.
Startable == IF mode = "down" THEN config ELSE dir

\* The log has whole lines, no frame without its chunk and no chunk without its
\* bytes for a report whose manifest is accepted.
Legible ==
  \A n \in DOMAIN frameLog :
    LET chunk == frameLog[n].frame
    IN  /\ frameLog[n].whole
        /\ chunk.kind = "chunk" =>
             /\ chunk.form # "broken"
             /\ chunk.form = "bare" =>
                  \A m \in DOMAIN frameLog :
                    LET manifest == frameLog[m].frame
                    IN  ~ /\ manifest.kind = "manifest" /\ manifest.id = chunk.id
                          /\ ManifestOk(manifest, frameLog[m].at, Startable)

\* A hub with a legible log does not stay down for ever, under whatever config
\* it is started: a chunk without its bytes does no harm until its report's
\* manifest is accepted, in whatever order they came (startNode).
LegibleLogRecovers == []<>(mode = "up" \/ ~Legible)
=============================================================================
