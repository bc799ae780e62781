------------------------------- MODULE Custody -------------------------------
(***************************************************************************)
(* Custody of token events: the Redis identity registry, the API calls     *)
(* that claim identities, publish to Kafka and answer, the delivery        *)
(* reports of the Kafka producer and the reconciliation of late reports.   *)
(*                                                                         *)
(* A call is one run of _accept_many_impl (api/ingestion.py), the path of  *)
(* POST /ingest (through the batcher) and of POST /ingest/batch; a call    *)
(* with one event is also _accept_impl with on_kafka_down = "fail".        *)
(* One clock unit stands for a stretch of seconds; only the order of the   *)
(* deadlines matters (5 s ack, 120 s pending, 300 s delivery, 600 s        *)
(* uncertain, 30 days accepted).                                           *)
(***************************************************************************)
EXTENDS Integers, FiniteSets

CONSTANTS
  Calls,            \* API calls, each serves one batch of events
  EventIds,         \* client event identities of one tenant
  Prints,           \* payload fingerprints
  NoPrint,          \* "no payload": the event is not part of the batch
  AckTimeout,       \* how long a call waits for Kafka
  DeliveryTimeout,  \* when the producer gives up and reports a failure
  PendingTTL, UncertainTTL, AcceptedTTL,   \* life of an identity per state
  MaxNow,           \* bound of the clock
  LastStart,        \* bound: no call starts after this instant
  MaxFaults,        \* bound: Redis operations that raise
  MaxCrashes,       \* bound: API processes that die
  OutcomeRace,      \* may a failure report land between timeout and classification?
  AmbiguousFailure  \* may the producer report a failure for a persisted record?

\* The lifetimes are ordered as the defaults of the code are.
ASSUME CustodyAssumption ==
  /\ NoPrint \notin Prints
  /\ AckTimeout \in Nat \ {0} /\ DeliveryTimeout \in Nat /\ PendingTTL \in Nat
  /\ UncertainTTL \in Nat /\ AcceptedTTL \in Nat \ {0} /\ MaxNow \in Nat /\ LastStart \in Nat
  /\ MaxFaults \in Nat /\ MaxCrashes \in Nat
  /\ AckTimeout < PendingTTL /\ AckTimeout < DeliveryTimeout
  /\ DeliveryTimeout < AckTimeout + UncertainTTL
  /\ OutcomeRace \in BOOLEAN /\ AmbiguousFailure \in BOOLEAN

VARIABLES
  now,                   \* seconds clock shared by Redis scripts and deadlines
  state, print, expiry,  \* identity registry: hash field and its expiry score
  phase, ask, item,      \* per call: control, payloads, per-event outcome
  sentAt,                \* per call: when it claimed and sent (no time passes in between)
  wire,                  \* producer: what became of each record
  late,                  \* reconciliation queued by a delivery report
  log,                   \* records in Kafka (grows only)
  faults, crashes

registry == <<state, print, expiry>>
threads == <<phase, ask, item, sentAt>>
kafka == <<wire, late, log>>
vars == <<now, registry, threads, kafka, faults, crashes>>

States == {"absent", "pending", "uncertain", "accepted"}
Phases == {"new", "sending", "waiting", "finalizing", "marking", "releasing",
           "done", "error", "crashed"}
Items == {"out", "same", "pending", "uncertain", "conflict",   \* answers of the claim
          "owned", "sent", "acked", "failed", "unsure", "stored"}
Wires == {"idle", "queued", "appended", "reported", "lost"}
Lates == {"none", "ok", "fail", "done"}

(* Phases in which a call has nothing left to do. *)
Over == {"new", "done", "error", "crashed"}

Record(c, e) == [call |-> c, event |-> e, at |-> now]
Records == [call : Calls, event : EventIds, at : Nat]

Init ==
  /\ now = 0
  /\ state = [e \in EventIds |-> "absent"]
  /\ print = [e \in EventIds |-> NoPrint]
  /\ expiry = [e \in EventIds |-> 0]
  /\ phase = [c \in Calls |-> "new"]
  /\ ask = [c \in Calls |-> [e \in EventIds |-> NoPrint]]
  /\ item = [c \in Calls |-> [e \in EventIds |-> "out"]]
  /\ sentAt = [c \in Calls |-> 0]
  /\ wire = [c \in Calls |-> [e \in EventIds |-> "idle"]]
  /\ late = [c \in Calls |-> [e \in EventIds |-> "none"]]
  /\ log = {}
  /\ faults = 0
  /\ crashes = 0

(***************************************************************************)
(* The three Lua scripts, on the fields named by a set of events.          *)
(***************************************************************************)
Expired(e) == state[e] # "absent" /\ expiry[e] <= now

(* The field holds this payload in one of the given states. *)
Holds(e, p, S) == state[e] \in S /\ print[e] = p

(* The events of a call whose outcome is one of S. *)
Having(c, S) == {e \in EventIds : item[c][e] \in S}

\* Mutant: the lifetime of a claim is taken off the clock.
ClaimFieldsBackdated(gone, won, want) ==
  /\ state' = [e \in EventIds |-> IF e \in won THEN "pending" ELSE state[e]]
  /\ print' = [e \in EventIds |-> IF e \in won THEN want[e] ELSE print[e]]
  /\ expiry' = [e \in EventIds |-> IF e \in won THEN now - PendingTTL ELSE expiry[e]]

(* CLAIM_EVENT_IDS_SCRIPT: fields in gone are dropped as expired, then     *)
(* each field in won (absent by then) becomes pending for its new payload. *)
ClaimFields(gone, won, want) ==
  /\ state' = [e \in EventIds |->
                IF e \in won THEN "pending" ELSE IF e \in gone THEN "absent" ELSE state[e]]
  /\ print' = [e \in EventIds |->
                IF e \in won THEN want[e] ELSE IF e \in gone THEN NoPrint ELSE print[e]]
  /\ expiry' = [e \in EventIds |->
                IF e \in won THEN now + PendingTTL ELSE IF e \in gone THEN 0 ELSE expiry[e]]

\* Mutant: a retry of what is still in flight is answered as idempotent.
ClaimReplyEager(e, p) == IF print[e] # p THEN "conflict" ELSE "same"

ClaimReply(e, p) ==
  IF print[e] # p THEN "conflict" ELSE IF state[e] = "accepted" THEN "same" ELSE state[e]

\* Mutant: the transition does not compare fingerprints.
MayAcceptAny(c, e) == state[e] \in {"pending", "uncertain"}

(* TRANSITION_EVENT_IDS_SCRIPT: which fields may move to the target.       *)
MayAccept(c, e) == Holds(e, ask[c][e], {"pending", "uncertain"})
MayDoubt(c, e) == Holds(e, ask[c][e], {"pending"})
(* ... and which are counted as matched when the target is "accepted".     *)
Accepts(c, e) == Holds(e, ask[c][e], {"pending", "uncertain", "accepted"})

Transition(S, target, ttl) ==
  /\ state' = [e \in EventIds |-> IF e \in S THEN target ELSE state[e]]
  /\ expiry' = [e \in EventIds |-> IF e \in S THEN now + ttl ELSE expiry[e]]
  /\ UNCHANGED print

\* Mutant: the release script does not spare accepted fields.
MayReleaseAny(c, e) == Holds(e, ask[c][e], {"pending", "uncertain", "accepted"})

(* RELEASE_EVENT_IDS_SCRIPT: the fingerprint is the only proof of owning.  *)
MayRelease(c, e) == Holds(e, ask[c][e], {"pending", "uncertain"})

Drop(S) ==
  /\ state' = [e \in EventIds |-> IF e \in S THEN "absent" ELSE state[e]]
  /\ print' = [e \in EventIds |-> IF e \in S THEN NoPrint ELSE print[e]]
  /\ expiry' = [e \in EventIds |-> IF e \in S THEN 0 ELSE expiry[e]]

(* A Redis operation raises; what it had already done stays done. *)
Fault == faults < MaxFaults /\ faults' = faults + 1

(***************************************************************************)
(* The call: claim, publish, wait, classify, finalize, mark, release.      *)
(***************************************************************************)
Wanted(want) == {e \in EventIds : want[e] # NoPrint}

\* Fields the claim script may drop: every expired one it was asked for,
\* and whichever others its bounded cleanup reaches.
Cleanable(want) ==
  {gone \in SUBSET {e \in EventIds : Expired(e)} :
     \A e \in Wanted(want) : Expired(e) => e \in gone}

Claim(c, want) ==
  /\ phase[c] = "new" /\ now <= LastStart /\ Wanted(want) # {}
  /\ \E gone \in Cleanable(want) :
       LET won == {e \in Wanted(want) : state[e] = "absent" \/ e \in gone}
       IN  /\ ClaimFields(gone, won, want)
           /\ item' = [item EXCEPT ![c] = [e \in EventIds |->
                         IF e \notin Wanted(want) THEN "out"
                         ELSE IF e \in won THEN "owned" ELSE ClaimReply(e, want[e])]]
           /\ phase' = [phase EXCEPT ![c] = IF won = {} THEN "done" ELSE "sending"]
  /\ ask' = [ask EXCEPT ![c] = want]
  /\ sentAt' = [sentAt EXCEPT ![c] = now]
  /\ UNCHANGED <<now, kafka, faults, crashes>>

\* The pipeline raises after some of the scripts ran: their claims stay behind.
ClaimFails(c, want) ==
  /\ phase[c] = "new" /\ now <= LastStart /\ Wanted(want) # {}
  /\ Fault
  /\ \E gone \in SUBSET {e \in EventIds : Expired(e)} :
       \E won \in SUBSET {e \in Wanted(want) : state[e] = "absent" \/ e \in gone} :
         ClaimFields(gone, won, want)
  /\ ask' = [ask EXCEPT ![c] = want]
  /\ phase' = [phase EXCEPT ![c] = "error"]
  /\ UNCHANGED <<now, item, sentAt, kafka, crashes>>

\* produce() takes the record, or the slots, the local queue or the client refuse it.
Send(c, e) ==
  /\ phase[c] = "sending" /\ item[c][e] = "owned"
  /\ \/ /\ item' = [item EXCEPT ![c][e] = "sent"]
        /\ wire' = [wire EXCEPT ![c][e] = "queued"]
     \/ /\ item' = [item EXCEPT ![c][e] = "failed"]
        /\ UNCHANGED wire
  /\ UNCHANGED <<now, registry, phase, ask, sentAt, late, log, faults, crashes>>

StartWait(c) ==
  /\ phase[c] = "sending" /\ Having(c, {"owned"}) = {}
  /\ phase' = [phase EXCEPT ![c] = "waiting"]
  /\ UNCHANGED <<now, registry, ask, item, sentAt, kafka, faults, crashes>>

\* Mutant: a timeout is taken for a definite failure.
TimeoutRefuses(c, e) ==
  /\ phase[c] = "waiting" /\ now >= sentAt[c] + AckTimeout
  /\ item[c][e] = "sent"
  /\ item' = [item EXCEPT ![c][e] = "failed"]
  /\ UNCHANGED <<now, registry, phase, ask, sentAt, kafka, faults, crashes>>

\* Mutant: a report that raced the timeout is not passed on.
TimeoutForgets(c, e) ==
  /\ phase[c] = "waiting" /\ now >= sentAt[c] + AckTimeout
  /\ item[c][e] \in {"sent", "acked", "failed"} /\ late[c][e] = "none"
  /\ item' = [item EXCEPT ![c][e] = "unsure"]
  /\ UNCHANGED <<now, registry, phase, ask, sentAt, kafka, faults, crashes>>

\* The wait loop reaches an event after the deadline: whatever was reported
\* by then is left to reconciliation, and the answer will be "uncertain".
Timeout(c, e) ==
  /\ phase[c] = "waiting" /\ now >= sentAt[c] + AckTimeout
  /\ item[c][e] \in {"sent", "acked", "failed"} /\ late[c][e] = "none"
  /\ item' = [item EXCEPT ![c][e] = "unsure"]
  /\ late' = [late EXCEPT ![c][e] = CASE item[c][e] = "sent" -> "none"
                                      [] item[c][e] = "acked" -> "ok"
                                      [] item[c][e] = "failed" -> "fail"]
  /\ UNCHANGED <<now, registry, phase, ask, sentAt, wire, log, faults, crashes>>

Classify(c) ==
  /\ phase[c] = "waiting" /\ Having(c, {"sent"}) = {}
  /\ phase' = [phase EXCEPT ![c] = "finalizing"]
  /\ UNCHANGED <<now, registry, ask, item, sentAt, kafka, faults, crashes>>

\* Acknowledged events of the call get this outcome, all of them alike.
Conclude(c, outcome) ==
  item' = [item EXCEPT ![c] = [e \in EventIds |->
             IF item[c][e] = "acked" THEN outcome ELSE item[c][e]]]

\* remember_event_identities: accepted only if every field was matched.
Finalize(c) ==
  /\ phase[c] = "finalizing"
  /\ Transition({e \in Having(c, {"acked"}) : MayAccept(c, e)}, "accepted", AcceptedTTL)
  /\ Conclude(c, IF \A e \in Having(c, {"acked"}) : Accepts(c, e) THEN "stored" ELSE "unsure")
  /\ phase' = [phase EXCEPT ![c] = "marking"]
  /\ UNCHANGED <<now, ask, sentAt, kafka, faults, crashes>>

\* Its retries are used up: it reports failure although some scripts may have run.
FinalizeFails(c) ==
  /\ phase[c] = "finalizing" /\ Having(c, {"acked"}) # {}
  /\ Fault
  /\ \E S \in SUBSET {e \in Having(c, {"acked"}) : MayAccept(c, e)} :
       Transition(S, "accepted", AcceptedTTL)
  /\ Conclude(c, "unsure")
  /\ phase' = [phase EXCEPT ![c] = "marking"]
  /\ UNCHANGED <<now, ask, sentAt, kafka, crashes>>

\* Mutant: uncertain identities keep their short pending life.
MarkSkipped(c) ==
  /\ phase[c] = "marking"
  /\ phase' = [phase EXCEPT ![c] = "releasing"]
  /\ UNCHANGED <<now, registry, ask, item, sentAt, kafka, faults, crashes>>

Mark(c) ==
  /\ phase[c] = "marking"
  /\ Transition({e \in Having(c, {"unsure"}) : MayDoubt(c, e)}, "uncertain", UncertainTTL)
  /\ phase' = [phase EXCEPT ![c] = "releasing"]
  /\ UNCHANGED <<now, ask, item, sentAt, kafka, faults, crashes>>

\* mark_event_identities_uncertain swallows the exception.
MarkFails(c) ==
  /\ phase[c] = "marking" /\ Having(c, {"unsure"}) # {}
  /\ Fault
  /\ \E S \in SUBSET {e \in Having(c, {"unsure"}) : MayDoubt(c, e)} :
       Transition(S, "uncertain", UncertainTTL)
  /\ phase' = [phase EXCEPT ![c] = "releasing"]
  /\ UNCHANGED <<now, ask, item, sentAt, kafka, crashes>>

\* Mutant: a call with nothing to release does not get to its answer.
ReleaseOrHang(c) ==
  /\ phase[c] = "releasing" /\ Having(c, {"failed"}) # {}
  /\ Drop({e \in Having(c, {"failed"}) : MayRelease(c, e)})
  /\ phase' = [phase EXCEPT ![c] = "done"]
  /\ UNCHANGED <<now, ask, item, sentAt, kafka, faults, crashes>>

Release(c) ==
  /\ phase[c] = "releasing"
  /\ Drop({e \in Having(c, {"failed"}) : MayRelease(c, e)})
  /\ phase' = [phase EXCEPT ![c] = "done"]
  /\ UNCHANGED <<now, ask, item, sentAt, kafka, faults, crashes>>

\* release_event_identities lets the exception out: the whole call is an error.
ReleaseFails(c) ==
  /\ phase[c] = "releasing" /\ Having(c, {"failed"}) # {}
  /\ Fault
  /\ \E S \in SUBSET {e \in Having(c, {"failed"}) : MayRelease(c, e)} : Drop(S)
  /\ phase' = [phase EXCEPT ![c] = "error"]
  /\ UNCHANGED <<now, ask, item, sentAt, kafka, crashes>>

(***************************************************************************)
(* Kafka and its producer: append, then report; or only report a failure.  *)
(***************************************************************************)
Append(c, e) ==
  /\ wire[c][e] = "queued"
  /\ wire' = [wire EXCEPT ![c][e] = "appended"]
  /\ log' = log \cup {Record(c, e)}
  /\ UNCHANGED <<now, registry, threads, late, faults, crashes>>

\* on_delivery: a call still waiting sees the report, a timed-out one has
\* it dispatched to the reconciliation pool.
ReportOk(c, e) ==
  /\ wire[c][e] = "appended"
  /\ wire' = [wire EXCEPT ![c][e] = "reported"]
  /\ IF item[c][e] = "sent"
     THEN item' = [item EXCEPT ![c][e] = "acked"] /\ UNCHANGED late
     ELSE late' = [late EXCEPT ![c][e] = "ok"] /\ UNCHANGED item
  /\ UNCHANGED <<now, registry, phase, ask, sentAt, log, faults, crashes>>

\* A failure is reported for a record that was not appended or, when the
\* delivery timeout runs out on a lost acknowledgement, for one that was.
Undelivered(c, e) ==
  \/ wire[c][e] = "queued"
  \/ AmbiguousFailure /\ wire[c][e] = "appended" /\ now = sentAt[c] + DeliveryTimeout

\* The report writes outcomes[index]; if the call has timed out but not yet
\* classified, that write can replace the "uncertain" already stored there.
ReportFail(c, e) ==
  /\ Undelivered(c, e)
  /\ wire' = [wire EXCEPT ![c][e] = "reported"]
  /\ IF item[c][e] = "sent"
     THEN item' = [item EXCEPT ![c][e] = "failed"] /\ UNCHANGED late
     ELSE /\ late' = [late EXCEPT ![c][e] = "fail"]
          /\ \/ UNCHANGED item
             \/ /\ OutcomeRace /\ phase[c] = "waiting"
                /\ item' = [item EXCEPT ![c][e] = "failed"]
  /\ UNCHANGED <<now, registry, phase, ask, sentAt, log, faults, crashes>>

(***************************************************************************)
(* reconcile_late_delivery, run by the reconciliation pool.                *)
(***************************************************************************)
ReconcileOk(c, e) ==
  /\ late[c][e] = "ok"
  /\ Transition(IF MayAccept(c, e) THEN {e} ELSE {}, "accepted", AcceptedTTL)
  /\ late' = [late EXCEPT ![c][e] = "done"]
  /\ UNCHANGED <<now, threads, wire, log, faults, crashes>>

ReconcileFail(c, e) ==
  /\ late[c][e] = "fail"
  /\ Drop(IF MayRelease(c, e) THEN {e} ELSE {})
  /\ late' = [late EXCEPT ![c][e] = "done"]
  /\ UNCHANGED <<now, threads, wire, log, faults, crashes>>

\* The pool's Redis call raises before it has an effect; nobody retries it.
ReconcileFails(c, e) ==
  /\ late[c][e] \in {"ok", "fail"}
  /\ Fault
  /\ late' = [late EXCEPT ![c][e] = "done"]
  /\ UNCHANGED <<now, registry, threads, wire, log, crashes>>

(***************************************************************************)
(* The process serving a call dies: its queued records, the reports it was *)
(* to receive and its reconciliation pool die with it.                     *)
(***************************************************************************)
Crash(c) ==
  /\ phase[c] \notin {"new", "crashed"} /\ crashes < MaxCrashes
  /\ crashes' = crashes + 1
  /\ phase' = [phase EXCEPT ![c] = IF @ \in Over THEN @ ELSE "crashed"]
  /\ wire' = [wire EXCEPT ![c] = [e \in EventIds |->
                IF @[e] \in {"queued", "appended"} THEN "lost" ELSE @[e]]]
  /\ late' = [late EXCEPT ![c] = [e \in EventIds |->
                IF @[e] = "none" THEN "none" ELSE "done"]]
  /\ UNCHANGED <<now, registry, ask, item, sentAt, log, faults>>

(***************************************************************************)
(* Time.  A thread that is not waiting for Kafka takes its next step, and  *)
(* the pool runs what it was given, before the clock moves; a deadline is  *)
(* not passed over.                                                        *)
(***************************************************************************)
Waiting(c) ==
  phase[c] = "waiting" /\ Having(c, {"sent"}) # {} /\ now < sentAt[c] + AckTimeout

Tick ==
  /\ now < MaxNow
  /\ \A c \in Calls : phase[c] \in Over \/ Waiting(c)
  /\ \A c \in Calls, e \in EventIds :
       /\ late[c][e] \in {"none", "done"}
       /\ wire[c][e] \in {"queued", "appended"} => now < sentAt[c] + DeliveryTimeout
  /\ now' = now + 1
  /\ UNCHANGED <<registry, threads, kafka, faults, crashes>>

ThreadStep(c) ==
  \/ \E e \in EventIds : Send(c, e) \/ Timeout(c, e)
  \/ StartWait(c) \/ Classify(c) \/ Finalize(c) \/ Mark(c) \/ Release(c)

FaultStep(c) == FinalizeFails(c) \/ MarkFails(c) \/ ReleaseFails(c)

KafkaStep(c, e) == Append(c, e) \/ ReportOk(c, e) \/ ReportFail(c, e)

PoolStep(c, e) == ReconcileOk(c, e) \/ ReconcileFail(c, e)

Next ==
  \/ \E c \in Calls :
       \/ \E want \in [EventIds -> Prints \cup {NoPrint}] : Claim(c, want) \/ ClaimFails(c, want)
       \/ ThreadStep(c) \/ FaultStep(c) \/ Crash(c)
       \/ \E e \in EventIds : KafkaStep(c, e) \/ PoolStep(c, e) \/ ReconcileFails(c, e)
  \/ Tick

Spec == Init /\ [][Next]_vars

(* Threads, the producer, the pool and the clock go on; clients need not call. *)
Fairness ==
  /\ WF_vars(Tick)
  /\ \A c \in Calls :
       /\ WF_vars(ThreadStep(c))
       /\ \A e \in EventIds : WF_vars(KafkaStep(c, e)) /\ WF_vars(PoolStep(c, e))

FairSpec == Spec /\ Fairness

(***************************************************************************)
(* Properties.                                                             *)
(***************************************************************************)
TypeOK ==
  /\ now \in Nat /\ faults \in Nat /\ crashes \in Nat
  /\ state \in [EventIds -> States]
  /\ print \in [EventIds -> Prints \cup {NoPrint}]
  /\ expiry \in [EventIds -> Nat]
  /\ phase \in [Calls -> Phases]
  /\ ask \in [Calls -> [EventIds -> Prints \cup {NoPrint}]]
  /\ item \in [Calls -> [EventIds -> Items]]
  /\ sentAt \in [Calls -> Nat]
  /\ wire \in [Calls -> [EventIds -> Wires]]
  /\ late \in [Calls -> [EventIds -> Lates]]
  /\ log \subseteq Records

(* The payload of a record, and whether Kafka holds this payload of an event. *)
InLog(e, p) == \E r \in log : r.event = e /\ ask[r.call][e] = p

(* The call answered 202 for the event (accepted, idempotent or quarantined). *)
Told(c, e) == phase[c] = "done" /\ item[c][e] \in {"same", "stored"}

(* The call answered that Kafka does not have the event (429 or 503           *)
(* kafka_unavailable).                                                        *)
Refused(c, e) == phase[c] = "done" /\ item[c][e] = "failed"

(* A 202 is never false: whatever crashed or raised, Kafka has a record of    *)
(* exactly the payload the client sent (main.py:434, ADR-024).                *)
NoFalse202 == \A c \in Calls, e \in EventIds : Told(c, e) => InLog(e, ask[c][e])

(* A definite refusal is true: the call left no record behind, so a client    *)
(* that drops the event after it is not billed for it.                        *)
RefusalIsTrue ==
  \A c \in Calls, e \in EventIds :
    Refused(c, e) => \A r \in log : r.call = c => r.event # e

(* While Redis and the API stay up, no identity is published twice: neither   *)
(* retries, nor timeouts, nor late reports let a second call through.         *)
PublishedOnce == \A r1, r2 \in log : r1.event = r2.event => r1 = r2

(* While Redis and the API stay up, a record in Kafka is always covered: its  *)
(* identity is claimed for its payload, whichever of the call, the late       *)
(* report and other calls got to the registry first.                          *)
RecordCovered ==
  \A r \in log : Holds(r.event, ask[r.call][r.event], {"pending", "uncertain", "accepted"})

(* An accepted identity stays accepted for its payload until it expires: no   *)
(* release, doubt or claim of another call gets at it.                        *)
AcceptedKept ==
  [][\A e \in EventIds : (state[e] = "accepted" /\ expiry[e] > now) =>
       state'[e] = "accepted" /\ print'[e] = print[e] /\ expiry'[e] = expiry[e]]_vars

(* Every call that was made returns.                                          *)
EveryCallReturns == \A c \in Calls : (phase[c] # "new") ~> (phase[c] \in Over)

(* A record that reached Kafka ends as an accepted identity, also when its    *)
(* call timed out and answered "uncertain": nothing stays billed but unknown. *)
RecordBecomesAccepted ==
  \A c \in Calls, e \in EventIds :
    (\E r \in log : r.call = c /\ r.event = e) ~> (state[e] = "accepted")

(***************************************************************************)
(* The promise: what a client may rely on, whatever crashes or raises.     *)
(***************************************************************************)
\* An identity is remembered from its acceptance until the field is dropped.
Remembered == [e \in EventIds |-> IF state[e] = "accepted" THEN print[e] ELSE NoPrint]
RememberedUntil == [e \in EventIds |-> IF state[e] = "accepted" THEN expiry[e] ELSE 0]
DurableEvents == {<<r.event, ask[r.call][r.event]>> : r \in log}
GrantedEvents ==
  {g \in Calls \X EventIds \X Prints :
     item[g[1]][g[2]] \in {"same", "stored"} /\ ask[g[1]][g[2]] = g[3]}

Promise == INSTANCE CustodyPromise WITH
  Retention <- AcceptedTTL, clock <- now, holder <- Remembered,
  until <- RememberedUntil, durable <- DurableEvents, granted <- GrantedEvents

(* The implementation keeps the promise of CustodyPromise.                    *)
KeepsPromise == Promise!PromiseSpec

==============================================================================
