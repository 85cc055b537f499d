------------------------------ MODULE LongHaul ------------------------------
(***************************************************************************)
(* To and from a Voyager (voyager/schedule.mjs, link.mjs, mission.mjs):    *)
(* links that are open only in the windows of a signed schedule, a light   *)
(* time long, where a bundle goes out only if it fits before its window    *)
(* closes, may be lost, and is sent again when a NACK has come back over   *)
(* the link the other way. The science frame goes down, a command load     *)
(* goes up and the spacecraft's receipt for it comes down.                 *)
(*                                                                         *)
(* Which bundles are lost is a random draw there, any choice here. The     *)
(* signature of the schedule, that of the receipt and what the destination *)
(* verifies are left out.                                                  *)
(***************************************************************************)
EXTENDS Integers, Sequences, FiniteSets, FiniteSetsExt, Functions

CONSTANTS
  Days, DayLength,        \* the pattern of tracks: one a day
  TrackStart, TrackHours,
  CommandEvery,           \* every Nth track can command
  MissedDays,             \* sets of days that may be missed
  LightTime,
  SpaceTx,                \* by bundle: how long it takes on the space link
  NackTx(_),              \* how long a NACK for so many takes
  GroundTx, GroundDelay,
  ReadyAt,                \* by direction: when the bundles are there
  MaxRounds,              \* rounds after which a run gives up
  MaxLosses               \* bound: bundles lost in a run

\* Times are natural numbers (milliseconds of the epoch); tracks of two days do
\* not touch (missions.json: 8 hours of 24); a bundle takes time to send.
ASSUME HaulAssumption ==
  /\ {Days, DayLength, TrackStart, TrackHours, LightTime, GroundTx, GroundDelay} \subseteq Nat
  /\ TrackHours < DayLength /\ LightTime <= TrackStart
  /\ CommandEvery \in Nat \ {0}
  /\ SpaceTx \in Seq(Nat \ {0}) /\ SpaceTx # <<>>
  /\ \A n \in 1 .. Len(SpaceTx) : NackTx(n) \in Nat
  /\ {ReadyAt["down"], ReadyAt["up"]} \subseteq Nat

VARIABLES
  direction, \* "down", "up" or "ack"
  missed,    \* the days missed
  leg,       \* the link in use, 0 when the run is over
  round,
  waiting,   \* the bundles of this round that have yet to go
  free,      \* when the link is free again
  lost,      \* lost in this round
  landed,    \* when the last of this round has landed
  readyNow,  \* when each bundle may go: it is at the sender, and asked for
  delayedBy, \* windows of this link that bundles waited for
  sends,     \* every transmission
  gaps,
  outcome    \* "running", "carried" or "failed"

haulVars == <<direction, missed, leg, round, waiting, free, lost, landed, readyNow, delayedBy,
              sends, gaps, outcome>>

NoTime == -1

-----------------------------------------------------------------------------
(* The schedule. A window is [from, to], known by the day of its track.    *)

\* expandTracks: one a day but for those missed.
TrackDays == (0 .. Days - 1) \ missed

Track(d) == [from |-> d * DayLength + TrackStart, to |-> d * DayLength + TrackStart + TrackHours]

\* missionPlan: commands on some tracks; the spacecraft sends a light time
\* before every track.
UpWindows == [d \in {t \in TrackDays : t % CommandEvery = 0} |-> Track(d)]

DownWindows ==
  [d \in TrackDays |-> [from |-> Track(d).from - LightTime, to |-> Track(d).to - LightTime]]

NoWindows == [d \in {} |-> Track(d)]

SpaceLink(windows, reverse) ==
  [space |-> TRUE, windows |-> windows, reverse |-> reverse, delay |-> LightTime]

\* Always open.
Ground == [space |-> FALSE, windows |-> NoWindows, reverse |-> NoWindows, delay |-> GroundDelay]

Links(dir) ==
  CASE dir = "down" -> <<SpaceLink(DownWindows, UpWindows), Ground, Ground>>
    [] dir = "up" -> <<Ground, SpaceLink(UpWindows, DownWindows)>>
    [] dir = "ack" -> <<SpaceLink(DownWindows, NoWindows), Ground>>

Link == Links(direction)[leg]

\* txMsOf
Tx(link, i) == IF link.space THEN SpaceTx[i] ELSE GroundTx

\* nextStart: the first window in which it fits, NoTime if there is none.
NextStart(windows, t, tx) ==
  LET start(w) == Max({t, windows[w].from})
      fits == {w \in DOMAIN windows : start(w) + tx <= windows[w].to}
  IN  IF fits = {} THEN NoTime ELSE start(Min(fits))

-----------------------------------------------------------------------------

BundleIds == DOMAIN SpaceTx
Carried(dir) == IF dir = "ack" THEN {1} ELSE BundleIds

\* pending in order: first who was there first, then by number.
GoesNext(i) ==
  /\ i \in waiting
  /\ \A j \in waiting \ {i} : readyNow[i] < readyNow[j] \/ (readyNow[i] = readyNow[j] /\ i < j)

\* A path begins with its first link.
Begin(dir, at) ==
  /\ direction' = dir /\ leg' = 1 /\ round' = 1
  /\ readyNow' = at /\ waiting' = DOMAIN at
  /\ free' = NoTime /\ lost' = {} /\ landed' = NoTime /\ delayedBy' = {}

HaulInit ==
  /\ missed \in MissedDays
  /\ \E dir \in {"down", "up"} :
       direction = dir /\ readyNow = [i \in BundleIds |-> ReadyAt[dir]]
  /\ waiting = BundleIds
  /\ leg = 1 /\ round = 1 /\ free = NoTime /\ lost = {} /\ landed = NoTime
  /\ delayedBy = {} /\ sends = {} /\ gaps = {} /\ outcome = "running"

Losses == Cardinality({s \in sends : s.lost})

WindowOf(windows, start) ==
  CHOOSE w \in DOMAIN windows : windows[w].from <= start /\ start < windows[w].to

Running == outcome = "running"

\* The next bundle of a round goes out; it is noted if the window it goes out
\* in opened after it was there.
Transmit ==
  /\ Running
  /\ \E i \in waiting :
       LET tx == Tx(Link, i)
           from == Max({readyNow[i], free})
           start == IF Link.space THEN NextStart(Link.windows, from, tx) ELSE from
           w == WindowOf(Link.windows, start)
           late == Link.space /\ start > readyNow[i] /\ Link.windows[w].from > readyNow[i]
       IN  /\ GoesNext(i)
           /\ IF start = NoTime
              THEN outcome' = "failed" /\ UNCHANGED <<waiting, free, landed, delayedBy, sends, lost>>
              ELSE /\ waiting' = waiting \ {i}
                   /\ free' = start + tx
                   /\ landed' = Max({landed, start + tx + Link.delay})
                   /\ delayedBy' = IF late THEN delayedBy \cup {[w |-> w, item |-> i]} ELSE delayedBy
                   /\ \E gone \in BOOLEAN :
                        /\ gone => Link.space /\ direction # "ack" /\ Losses < MaxLosses
                        /\ lost' = IF gone THEN lost \cup {i} ELSE lost
                        /\ sends' = sends \cup
                             {[dir |-> direction, leg |-> leg, item |-> i, round |-> round,
                               had |-> readyNow[i], start |-> start, end |-> start + tx,
                               arrive |-> start + tx + Link.delay, lost |-> gone]}
                   /\ UNCHANGED outcome
  /\ UNCHANGED <<direction, missed, leg, round, readyNow, gaps>>

\* When the last of a round has landed the receiver asks for those lost, in
\* the next window of the link the other way; they go again when that is here.
AskAgain ==
  /\ Running /\ waiting = {} /\ lost # {}
  /\ LET tx == NackTx(Cardinality(lost))
         start == NextStart(Link.reverse, landed, tx)
         here == start + tx + LightTime
         again == [i \in BundleIds |-> IF i \in lost THEN here ELSE readyNow[i]]
     IN  IF start = NoTime \/ round > MaxRounds
         THEN outcome' = "failed" /\ UNCHANGED <<readyNow, waiting, round, lost, landed>>
         ELSE /\ readyNow' = again
              /\ waiting' = lost
              /\ round' = round + 1 /\ lost' = {} /\ landed' = NoTime
              /\ UNCHANGED outcome
  /\ UNCHANGED <<direction, missed, leg, free, delayedBy, sends, gaps>>

\* The transmission with which a bundle got over a link.
Through(dir, k, i) == CHOOSE s \in sends : s.dir = dir /\ s.leg = k /\ s.item = i /\ ~s.lost

\* When the window before window w closed.
ClosedBefore(windows, w) ==
  LET earlier == {v \in DOMAIN windows : v < w}
  IN  IF earlier = {} THEN NoTime ELSE windows[Max(earlier)].to

\* Fault: a bundle is noted only the first time that it waits.
GapRecordsOnce ==
  LET noted == {d \in delayedBy : \A e \in delayedBy : e.item = d.item => d.w <= e.w}
  IN  {[dir |-> direction, leg |-> leg,
        downAt |-> ClosedBefore(Link.windows, d.w),
        upAt |-> Link.windows[d.w].from,
        held |-> {e.item : e \in {x \in noted : x.w = d.w}}] : d \in noted}

\* One gap record for every window that bundles waited for.
GapRecords ==
  {[dir |-> direction, leg |-> leg,
    downAt |-> ClosedBefore(Link.windows, d.w),
    upAt |-> Link.windows[d.w].from,
    held |-> {e.item : e \in {x \in delayedBy : x.w = d.w}}] : d \in delayedBy}

\* All are over: on with the next link, or the path is done; the spacecraft
\* answers a command load with a receipt.
NextLeg ==
  /\ Running /\ waiting = {} /\ lost = {}
  /\ gaps' = gaps \cup GapRecords
  /\ LET at == [i \in Carried(direction) |-> Through(direction, leg, i).arrive]
     IN  CASE leg < Len(Links(direction)) ->
                /\ leg' = leg + 1 /\ round' = 1
                /\ readyNow' = at /\ waiting' = DOMAIN at
                /\ free' = NoTime /\ landed' = NoTime /\ delayedBy' = {}
                /\ UNCHANGED <<direction, lost, outcome>>
           [] leg = Len(Links(direction)) /\ direction = "up" ->
                Begin("ack", [i \in {1} |-> Max(Range(at))]) /\ UNCHANGED outcome
           [] OTHER ->
                /\ outcome' = "carried"
                /\ UNCHANGED <<direction, leg, round, waiting, free, lost, landed, readyNow, delayedBy>>
  /\ UNCHANGED <<missed, sends>>

HaulNext == Transmit \/ AskAgain \/ NextLeg

-----------------------------------------------------------------------------

OverSpace(s) == Links(s.dir)[s.leg].space
WindowsOf(s) == Links(s.dir)[s.leg].windows

\* Transmissions on a link do not overlap and lie within a window of the
\* schedule, each after the bundle was there; a bundle goes again only when
\* every transmission before has landed and a NACK has travelled back.
TracksAreKept ==
  \A s \in sends :
    /\ s.had <= s.start
    /\ OverSpace(s) =>
         \E w \in DOMAIN WindowsOf(s) : WindowsOf(s)[w].from <= s.start /\ s.end <= WindowsOf(s)[w].to
    /\ \A t \in sends \ {s} :
         t.dir = s.dir /\ t.leg = s.leg =>
           /\ t.end <= s.start \/ s.end <= t.start
           /\ s.round > t.round => s.start >= t.arrive + LightTime

\* contactAt: whether a contact was in force, in times twice the schedule's.
ContactAt(windows, t2) == \E w \in DOMAIN windows : 2 * windows[w].from <= t2 /\ t2 < 2 * windows[w].to

\* gapBackedByPlan
Backed(gap) ==
  LET windows == Links(gap.dir)[gap.leg].windows
      mid2 == IF gap.downAt = NoTime THEN 2 * gap.upAt - 1 ELSE gap.downAt + gap.upAt
  IN  /\ \A w \in DOMAIN windows :
           windows[w].from >= gap.upAt \/ (gap.downAt # NoTime /\ windows[w].to <= gap.downAt)
      /\ ~ContactAt(windows, mid2)

\* The record of this wait: it holds the bundle and ends with the opening,
\* after the bundle was there, of the window in which it went out.
EndsWait(gap, s) ==
  /\ gap.dir = s.dir /\ gap.leg = s.leg /\ s.item \in gap.held
  /\ s.had < gap.upAt
  /\ \E w \in DOMAIN WindowsOf(s) :
       gap.upAt = WindowsOf(s)[w].from /\ gap.upAt <= s.start /\ s.start < WindowsOf(s)[w].to

\* Every wait has a gap record of its own: it ends when the window opens in
\* which the bundle went out, so the record of a first wait does not do for that
\* of a resend. Records hold no others, and are backed by the schedule.
WaitsAreRecorded ==
  /\ \A gap \in gaps :
       /\ Backed(gap)
       /\ \A i \in gap.held : \E s \in sends : s.item = i /\ EndsWait(gap, s)
  /\ \A s \in sends :
       /\ OverSpace(s)
       /\ s.dir # direction \/ s.leg < leg \/ outcome = "carried"
       /\ \A w \in DOMAIN WindowsOf(s) : ~(WindowsOf(s)[w].from <= s.had /\ s.start < WindowsOf(s)[w].to)
       => \E gap \in gaps : EndsWait(gap, s)

\* The links of a mission are used as its signed schedule says, and every wait
\* for a window, that of a bundle sent again too, is in a record that ends with
\* it, backed by the schedule (schedule.mjs:1-4, link.mjs:1-13, 60-67,
\* mission.mjs:85).
ScheduleKept == TracksAreKept /\ WaitsAreRecorded
=============================================================================
