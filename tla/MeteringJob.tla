----------------------------- MODULE MeteringJob -----------------------------
(***************************************************************************)
(* The Flink job for one aggregation key: TokenUsageAggregator, its        *)
(* EventDeduplicator, the router of late events, the monthly volume meter  *)
(* with the price at its stamp (Pricing.tla), EventProjectionSink, the     *)
(* tumbling windows with BudgetEnforcerSink, the dead-letter queue and     *)
(* scripts/dlq_replay.py, with checkpoints and restarts of the job.        *)
(*                                                                         *)
(* Kafka keeps the records of the key in order, but the deduplicators run  *)
(* in parallel, keyed by event: records of different events reach the      *)
(* meter in any order.  A record goes through the operators in one step,   *)
(* since steps of two records commute in all but that order.  Watermarks   *)
(* come from the heartbeats on a topic of their own, so they are not tied  *)
(* to these records.  Event time and processing time are one small clock;  *)
(* watermark 0 is "none yet".                                              *)
(***************************************************************************)
EXTENDS Pricing, FiniteSets

CONSTANTS
  Ids,              \* event identities
  Usage,            \* the tokens of each event, per category
  Catalog, Model,   \* the catalog of the job, the model of the key
  MonthWidth,       \* a calendar month
  Width,            \* WINDOW_SECONDS
  DedupTTL,         \* EVENT_SAFETY_DEDUP_TTL_SECONDS
  MarkerTTL,        \* EVENT_PROJECTION_IDEMPOTENCY_TTL_SECONDS
  MaxAge, MaxAhead, \* custody quarantines timestamps outside of this range
  CopiesWithin,     \* custody may publish an event again this long after
  MaxLag,           \* a record is consumed within this time
  Period,           \* a checkpoint completes at least this often
  MaxNow,           \* bound of the clock
  LastPublish,      \* bound: no event is published after this instant
  MaxLog,           \* bound: records custody publishes
  MaxCrashes, MaxReplays,  \* bounds: restarts, replays, ...
  MaxTroubles       \* ... and both together with the events whose late message is lost

ASSUME MeteringAssumption ==
  /\ IsFiniteSet(Ids) /\ Usage \in [Ids -> [{Categories[i] : i \in Order} -> Nat]]
  /\ AcceptsCatalog(Catalog)
  /\ MonthWidth \in Nat \ {0} /\ MonthWidth % Width = 0
  /\ Width \in Nat \ {0} /\ DedupTTL \in Nat /\ MarkerTTL \in Nat
  /\ MaxAge \in Nat /\ MaxAhead \in Nat /\ CopiesWithin \in Nat
  /\ MaxLag \in Nat \ {0} /\ Period \in Nat \ {0}
  \* copies, and records read again after restarts, are known for long enough
  /\ CopiesWithin + MaxLag + MaxCrashes * (Period + MaxLag) < DedupTTL
  /\ CopiesWithin + MaxLag + MaxCrashes * (Period + MaxLag) < MarkerTTL
  /\ MaxNow \in Nat /\ LastPublish \in Nat /\ MaxLog \in Nat
  /\ MaxCrashes \in Nat /\ MaxReplays \in Nat /\ MaxTroubles \in Nat

VARIABLES
  now,
  log,              \* topic token-events: [id, stamp, at, replay]
  read,             \* positions of the records that went through
  wm,               \* watermark at the operators of the key
  seen,             \* EventDeduplicator: expiry of each id
  meter,            \* MonthlyVolumeMeter of the key: [month, tokens]
  stamped,          \* what it stamped since: [pos, before], before the volume ahead
  collected,        \* positions of the records held in windows that have not fired
  applied,          \* applied:{window}, 30 days
  marker,           \* projection:{id}: expiry
  projected, billed,   \* per id: how often it was added to the projections, to the counters
  spent,            \* cost_usd of the projections
  buffer, dlq,      \* late events [pos, at]: in the sink's producer, in the topic
  saved,            \* the last checkpoint
  restarted,        \* when the job restarted last
  unsent,           \* history: events whose late message was not delivered
  placed,           \* history: the volume at which each event was projected
  crashes, replays  \* history: how often

redis == <<applied, marker, projected, billed, spent, placed>>
volume == <<meter, stamped>>
job == <<read, wm, seen, volume, collected>>
vars == <<now, log, job, redis, buffer, dlq, unsent, saved, restarted, crashes, replays>>

\* No month yet.
NoMonth == -1
Meter0 == [month |-> NoMonth, tokens |-> 0]

Checkpoint0 ==
  [offset |-> 0, seen |-> [e \in Ids |-> 0], meter |-> Meter0, stamped |-> <<>>,
   collected |-> {}, at |-> 1]

Init ==
  /\ now = 1
  /\ log = <<>> /\ read = {} /\ wm = 0
  /\ seen = [e \in Ids |-> 0]
  /\ meter = Meter0 /\ stamped = <<>>
  /\ collected = {} /\ applied = {} /\ spent = 0
  /\ marker = [e \in Ids |-> 0]
  /\ projected = [e \in Ids |-> 0]
  /\ billed = [e \in Ids |-> 0]
  /\ placed = [e \in Ids |-> 0]
  /\ buffer = {} /\ dlq = {} /\ unsent = {}
  /\ saved = Checkpoint0
  /\ restarted = 0 /\ crashes = 0 /\ replays = 0

(***************************************************************************)
(* What the events weigh and cost at each place in the month.              *)
(***************************************************************************)
Volume == [e \in Ids |-> TotalTokens(Usage[e])]
Places == 0 .. ((MaxLog + MaxReplays) * Max({Volume[e] : e \in Ids}))
Cost == [e \in Ids |-> [before \in Places |-> EventCost(Catalog, Model, Usage[e], before)]]

WindowOf(p) == log[p].stamp \div Width
End(w) == (w + 1) * Width
Month(t) == t \div MonthWidth

(***************************************************************************)
(* Custody publishes: the first copy of an event, or, after an unclear     *)
(* acknowledgement, one more with a server timestamp of its own.           *)
(***************************************************************************)
CopyMayFollow(e) ==
  \A p \in DOMAIN log : log[p].id = e => now <= log[p].at + CopiesWithin

Publish(e, t) ==
  /\ now <= LastPublish /\ Len(log) < MaxLog /\ CopyMayFollow(e)
  /\ log' = Append(log, [id |-> e, stamp |-> t, at |-> now, replay |-> FALSE])
  /\ UNCHANGED <<now, job, redis, buffer, dlq, unsent, saved, restarted, crashes, replays>>

(***************************************************************************)
(* One record through the operators.                                       *)
(***************************************************************************)
\* LateEventRouter.isLate; operator replays pass.
LateAtRouter(p) == ~log[p].replay /\ wm # 0 /\ End(WindowOf(p)) <= wm

\* Mutant: the window operator takes whatever the router lets pass.
LateAtWindowNever(p) == FALSE

\* The window operator of Flink: a window is over at its last millisecond.
LateAtWindow(p) == wm # 0 /\ End(WindowOf(p)) - 1 <= wm

\* Mutant: the month of an event does not start the meter anew.
RolledNever(t) == IF meter.month = NoMonth THEN [month |-> Month(t), tokens |-> 0] ELSE meter

\* The meter starts anew whenever the month differs, back or forth.
Rolled(t) ==
  IF meter.month = Month(t) THEN meter ELSE [month |-> Month(t), tokens |-> 0]

\* MonthlyVolumeStampFunction, ahead of the projection and of the windows.
Stamp(p) ==
  LET m == Rolled(log[p].stamp)
  IN  /\ stamped' = Append(stamped, [pos |-> p, before |-> m.tokens])
      /\ meter' = [m EXCEPT !.tokens = @ + Volume[log[p].id]]

\* Mutant: the marker of an id is not written.
ProjectUnmarked(e, before) ==
  IF now < marker[e]
  THEN UNCHANGED <<marker, projected, spent, placed>>
  ELSE /\ projected' = [projected EXCEPT ![e] = @ + 1]
       /\ spent' = spent + Cost[e][before]
       /\ placed' = [placed EXCEPT ![e] = before]
       /\ UNCHANGED marker

\* EventProjectionSink, one script.
Project(e, before) ==
  IF now < marker[e]
  THEN UNCHANGED <<marker, projected, spent, placed>>
  ELSE /\ projected' = [projected EXCEPT ![e] = @ + 1]
       /\ spent' = spent + Cost[e][before]
       /\ placed' = [placed EXCEPT ![e] = before]
       /\ marker' = [marker EXCEPT ![e] = now + MarkerTTL]

\* Mutant: the late record is caught, and that is all.
ToDlqNothing(p) == UNCHANGED buffer

ToDlq(p) == buffer' = buffer \cup {[pos |-> p, at |-> now]}

Due == {w \in {WindowOf(p) : p \in collected} : End(w) - 1 <= wm}

\* keyBy(eventId): the records of one event stay in order, no others do.
Readable(p) ==
  /\ Due = {} /\ p \in DOMAIN log \ read
  /\ \A q \in 1 .. (p - 1) : log[q].id = log[p].id => q \in read

Duplicate(e) == now < seen[e]

Drop(p) ==
  /\ Readable(p) /\ Duplicate(log[p].id)
  /\ read' = read \cup {p}
  /\ UNCHANGED <<now, log, wm, seen, volume, collected, redis, buffer, dlq, unsent, saved, restarted, crashes, replays>>

Remember(e) == seen' = [seen EXCEPT ![e] = now + DedupTTL]

RouteLate(p) ==
  LET e == log[p].id
  IN  /\ Readable(p) /\ ~Duplicate(e) /\ LateAtRouter(p)
      /\ read' = read \cup {p} /\ Remember(e)
      /\ ToDlq(p)
      /\ UNCHANGED <<now, log, wm, volume, collected, redis, dlq, unsent, saved, restarted, crashes, replays>>

Collect(p) ==
  LET e == log[p].id
  IN  /\ Readable(p) /\ ~Duplicate(e) /\ ~LateAtRouter(p)
      /\ read' = read \cup {p} /\ Remember(e)
      /\ Stamp(p)
      /\ Project(e, Rolled(log[p].stamp).tokens)
      /\ IF LateAtWindow(p)
         THEN ToDlq(p) /\ UNCHANGED collected
         ELSE collected' = collected \cup {p} /\ UNCHANGED buffer
      /\ UNCHANGED <<now, log, wm, applied, billed, dlq, unsent, saved, restarted, crashes, replays>>

(***************************************************************************)
(* Event time.  Heartbeats and other keys advance the watermark; it trails *)
(* the clock, as heartbeats carry the time of their publication.           *)
(***************************************************************************)
\* Mutant: the watermark is not delayed.
AdvanceAhead(t) ==
  /\ Due = {}
  /\ wm < t /\ t <= now
  /\ wm' = t
  /\ UNCHANGED <<now, log, read, seen, volume, collected, redis, buffer, dlq, unsent, saved, restarted, crashes, replays>>

Advance(t) ==
  /\ Due = {}
  /\ wm < t /\ t < now
  /\ wm' = t
  /\ UNCHANGED <<now, log, read, seen, volume, collected, redis, buffer, dlq, unsent, saved, restarted, crashes, replays>>

In(w, e) == {p \in collected : WindowOf(p) = w /\ log[p].id = e}

\* UsageAggregate: an id counts once in a window.
Usages(w) == [e \in Ids |-> IF In(w, e) = {} THEN 0 ELSE 1]

\* Mutant: the window is applied without its marker.
FireAlways(w) ==
  /\ w \in Due
  /\ collected' = {p \in collected : WindowOf(p) # w}
  /\ applied' = applied \cup {w}
  /\ billed' = [e \in Ids |-> billed[e] + Usages(w)[e]]
  /\ UNCHANGED <<now, log, read, wm, seen, volume, marker, projected, spent, placed, buffer, dlq, unsent, saved, restarted, crashes, replays>>

\* BudgetEnforcerSink: a window that was applied before is skipped whole.
Fire(w) ==
  /\ w \in Due
  /\ collected' = {p \in collected : WindowOf(p) # w}
  /\ applied' = applied \cup {w}
  /\ billed' = IF w \in applied THEN billed
               ELSE [e \in Ids |-> billed[e] + Usages(w)[e]]
  /\ UNCHANGED <<now, log, read, wm, seen, volume, marker, projected, spent, placed, buffer, dlq, unsent, saved, restarted, crashes, replays>>

Troubles == crashes + replays + Cardinality(unsent)

(***************************************************************************)
(* The dead-letter queue.                                                  *)
(***************************************************************************)
Deliver(m) ==
  /\ m \in buffer
  /\ buffer' = buffer \ {m}
  /\ dlq' = dlq \cup {m}
  /\ UNCHANGED <<now, log, job, redis, unsent, saved, restarted, crashes, replays>>

\* Best effort: the sink catches what send raises, and asks for no result.
LoseLate(m) ==
  /\ m \in buffer /\ Troubles < MaxTroubles
  /\ buffer' = buffer \ {m}
  /\ unsent' = unsent \cup {log[m.pos].id}
  /\ UNCHANGED <<now, log, job, redis, dlq, saved, restarted, crashes, replays>>

\* dlq_replay.py copies the envelope; its receivedAt is its new timestamp.
Replay(m) ==
  /\ m \in dlq
  /\ replays < MaxReplays /\ Troubles < MaxTroubles
  /\ replays' = replays + 1
  /\ dlq' = dlq \ {m}
  /\ log' = Append(log, [id |-> log[m.pos].id, stamp |-> m.at, at |-> now, replay |-> TRUE])
  /\ UNCHANGED <<now, job, redis, buffer, unsent, saved, restarted, crashes>>

(***************************************************************************)
(* Checkpoints and restarts.                                               *)
(***************************************************************************)
MayCrash == crashes < MaxCrashes /\ Troubles < MaxTroubles

\* Barriers are aligned: everything up to an offset, and nothing behind it.
\* Bound: one checkpoint per instant, none after the last restart.
Save ==
  /\ Due = {} /\ saved.at < now /\ MayCrash
  /\ \E n \in 0 .. Len(log) :
       /\ read = 1 .. n
       /\ saved' = [offset |-> n, seen |-> seen, meter |-> meter, stamped |-> stamped,
                    collected |-> collected, at |-> now]
  /\ UNCHANGED <<now, log, job, redis, buffer, dlq, unsent, restarted, crashes, replays>>

\* Operator state and offsets go back; Redis and Kafka do not; the
\* watermark starts anew, late events not yet sent are gone.
Crash ==
  /\ MayCrash
  /\ crashes' = crashes + 1
  /\ read' = 1 .. saved.offset /\ seen' = saved.seen /\ collected' = saved.collected
  /\ meter' = saved.meter /\ stamped' = saved.stamped
  /\ wm' = 0
  /\ buffer' = {}
  /\ restarted' = now
  /\ UNCHANGED <<now, log, redis, dlq, unsent, saved, replays>>

\* Records are read in time, also after a restart; checkpoints complete in
\* time (a bound that matters only while the job may still restart).
Tick ==
  /\ now < MaxNow
  /\ \A p \in DOMAIN log \ read : now < log[p].at + MaxLag \/ now < restarted + MaxLag
  /\ MayCrash => now < saved.at + Period
  /\ now' = now + 1
  /\ UNCHANGED <<log, job, redis, buffer, dlq, unsent, saved, restarted, crashes, replays>>

Consume == \E p \in DOMAIN log : Drop(p) \/ RouteLate(p) \/ Collect(p)

Windows == 0 .. ((MaxNow + MaxAhead) \div Width)

Next ==
  \/ \E e \in Ids, t \in 1 .. (MaxNow + MaxAhead) :
       t \in (now - MaxAge) .. (now + MaxAhead) /\ Publish(e, t)
  \/ Consume
  \/ \E t \in 1 .. MaxNow : Advance(t)
  \/ \E w \in Windows : Fire(w)
  \/ \E m \in buffer : Deliver(m) \/ LoseLate(m)
  \/ \E m \in dlq : Replay(m)
  \/ Save \/ Crash \/ Tick

Spec == Init /\ [][Next]_vars

(* The job runs, heartbeats come, the clock goes on, checkpoints complete,    *)
(* and the producer is done with each message, one way or the other.          *)
Fairness ==
  /\ WF_vars(Consume) /\ WF_vars(Tick) /\ WF_vars(Save)
  /\ WF_vars(\E t \in 1 .. MaxNow : Advance(t))
  /\ WF_vars(\E w \in Windows : Fire(w))
  /\ WF_vars(\E m \in buffer : Deliver(m) \/ LoseLate(m))

FairSpec == Spec /\ Fairness

(***************************************************************************)
(* Properties.                                                             *)
(***************************************************************************)
\* The positions that were stamped.
Stamped == {stamped[i].pos : i \in DOMAIN stamped}

TypeOK ==
  /\ now \in Nat \ {0} /\ read \subseteq DOMAIN log
  /\ wm \in 0 .. (now - 1)
  /\ log \in Seq([id : Ids, stamp : Nat, at : Nat, replay : BOOLEAN])
  /\ meter \in [month : Nat \cup {NoMonth}, tokens : Nat]
  /\ stamped \in Seq([pos : read, before : Nat]) /\ collected \subseteq Stamped
  /\ spent \in Nat /\ placed \in [Ids -> Nat]
  /\ seen \in [Ids -> Nat] /\ marker \in [Ids -> Nat]
  /\ applied \subseteq Nat
  /\ projected \in [Ids -> Nat] /\ billed \in [Ids -> Nat]
  /\ buffer \cup dlq \subseteq [pos : DOMAIN log, at : 1 .. now] /\ unsent \subseteq Ids
  /\ saved.offset \in 0 .. Len(log) /\ saved.seen \in [Ids -> Nat]
  /\ saved.collected \subseteq DOMAIN log /\ saved.at \in 1 .. now
  /\ restarted \in 0 .. now /\ crashes \in Nat /\ replays \in Nat

(* An event enters the counters and the balance once, though custody may      *)
(* publish it again, with another timestamp and so into another window, and   *)
(* though a restart reads records and fires windows again.                    *)
ChargedOnce == crashes = 0 \/ replays = 0 => \A e \in Ids : billed[e] <= 1

(* So with the per-event projections (sessions, rollups, key spend), which    *)
(* have no window to hide behind but the marker of the event.                 *)
ProjectedOnce == replays = 0 => \A e \in Ids : projected[e] <= 1

Published(e) == \E p \in DOMAIN log : log[p].id = e

Accounted(e) ==
  \/ billed[e] > 0
  \/ \E p \in collected : log[p].id = e
  \/ \E m \in buffer \cup dlq : log[m.pos].id = e
  \/ \E p \in DOMAIN log \ read : log[p].id = e

(* Without restarts and replays, an event in Kafka is unread, in an open      *)
(* window, billed, or in the queue of late events, whatever the router and    *)
(* the window make of its watermark.  But for a late message that the sink    *)
(* failed to send and forgot: late data can be silently dropped after all     *)
(* (ADR-010 says not).                                                        *)
NothingLost ==
  crashes = 0 /\ replays = 0 => \A e \in Ids \ unsent : Published(e) => Accounted(e)

(* Every event in Kafka ends billed or in the dead-letter queue, with no      *)
(* traffic behind it but the heartbeats (docs/DESIGN.md:137), or its late     *)
(* message is one that the sink failed to send.                               *)
EventSettles ==
  \A e \in Ids :
    Published(e) ~> \/ billed[e] > 0
                    \/ \E m \in dlq : log[m.pos].id = e
                    \/ e \in unsent
                    \/ crashes > 0 \/ replays > 0

IdAt(i) == log[stamped[i].pos].id
MonthAt(i) == Month(log[stamped[i].pos].stamp)

\* The volume of the month ahead of a record, counted from what was stamped before it.
VolumeBefore(i) ==
  SumFunction([j \in {k \in 1 .. (i - 1) : MonthAt(k) = MonthAt(i)} |-> Volume[IdAt(j)]])

MonthsInOrder == \A i, j \in DOMAIN stamped : i < j => MonthAt(i) <= MonthAt(j)

Exact == [e \in Ids |-> [before \in Places |-> ExactCost(Catalog, Model, Usage[e], before)]]
Roundings == [e \in Ids |-> Chunks(Catalog, Model, Usage[e])]

Graduated == ModeOf(ModelPricing(Catalog, Model)) = "graduated"

\* What was projected is what was stamped, ...
CaughtUp == \A e \in Ids : projected[e] = Cardinality({i \in DOMAIN stamped : IdAt(i) = e})

\* ... each at the place it was projected with.
InPlace == \A i \in DOMAIN stamped : stamped[i].before = placed[IdAt(i)]

OffBy(amount) == IF amount < 0 THEN -amount ELSE amount

(* Under graduated prices it does not matter into which calls the usage of a  *)
(* month is cut: in whatever order they reach the meter, each token is        *)
(* charged at the tier of its own place in the month, but for half a          *)
(* micro-dollar per amount rounded.  The meter, the stamp, the walk through   *)
(* the tiers and the marker all have to agree on that place.  After a restart *)
(* this holds where records read again come back to their places, which the   *)
(* shuffle ahead of the meter does not guarantee; months that go back, and    *)
(* replays, start or enter the meter at another place, too.                   *)
PricedByVolume ==
  Graduated /\ MonthsInOrder /\ replays = 0 /\ (crashes > 0 => CaughtUp /\ InPlace)
  => LET exact == SumFunction([i \in DOMAIN stamped |-> Exact[IdAt(i)][VolumeBefore(i)]])
         chunks == SumFunction([i \in DOMAIN stamped |-> Roundings[IdAt(i)]])
     IN  2 * OffBy(Unit * spent - exact) <= Unit * chunks

(* A replayed event enters a fresh processing window                          *)
(* (TokenUsageAggregator.java:400): it is on its way to the counters, or back *)
(* in the queue, unless the sink failed to send it.                           *)
ReplayKeepsEvent == crashes = 0 => \A e \in Ids \ unsent : Published(e) => Accounted(e)

==============================================================================
