------------------------------- MODULE Alerts --------------------------------
(***************************************************************************)
(* Budget alerts from the sink to the customer's endpoint: the crossings   *)
(* of a deduction and emitAlert of BudgetEnforcerSink.java, its outbox in  *)
(* Redis, and the webhook workers (api/webhook_worker.py,                  *)
(* webhook_deliver.py).  One customer, so the topic is one partition,      *)
(* which one worker of the group holds.  An alert goes by the identity its *)
(* marker has: its type (with warnPct) and the start of its window, which  *)
(* windows of several models share.  Every call to Redis, Kafka or the     *)
(* endpoint may raise; where the code goes on after that, the call may     *)
(* have been applied or not.                                               *)
(***************************************************************************)
EXTENDS Integers, Sequences, SequencesExt, FiniteSets

CONSTANTS
  Workers,     \* webhook worker processes
  Nothing,     \* no alert
  Initial, Balances, Costs, \* initial balance, balances found, costs of windows
  MaxRetries,  \* WEBHOOK_MAX_RETRIES: posts of one delivery
  MaxWindows, MaxAlerts, MaxFaults \* bounds: windows, alerts raised, faults of all kinds

Kinds == {"warn70", "warn90", "low", "exhausted"}

ASSUME AlertsAssumption ==
  /\ Nothing \notin Kinds \X Nat
  /\ Initial \in Nat \ {0} /\ Balances \subseteq Nat /\ Costs \subseteq Nat \ {0}
  /\ MaxRetries \in Nat \ {0} /\ MaxWindows \in Nat /\ MaxAlerts \in Nat /\ MaxFaults \in Nat

VARIABLES
  balance, windows, start, \* Redis: budget balance; windows applied; start of the last one
  emitting,    \* sink: the alerts of the applied window that are not sent yet
  pending,     \* Redis: the list budget-alerts:pending
  topic,       \* Kafka: the records of budget-alerts
  holder, position, committed,  \* the group: member with the partition, its next record, offset
  worker, alert, tries,         \* per worker: control, the alert it works on, posts that failed
  transition,  \* Redis: webhook:transition markers
  raised, accepted, unheard, lost, \* history: alerts due, those the endpoint accepted with an answer
                                \* the worker read, those accepted without, those lost
  faults

sink == <<balance, windows, start, emitting>>
group == <<holder, position, committed>>
process == <<worker, alert, tries>>
history == <<raised, accepted, unheard, lost>>
vars == <<sink, pending, topic, group, process, transition, history, faults>>

Init ==
  /\ balance \in Balances /\ windows = 0 /\ start = 0
  /\ emitting = <<>> /\ pending = <<>> /\ topic = <<>>
  /\ holder \in Workers /\ position = 1 /\ committed = 0
  /\ worker = [w \in Workers |-> "idle"] /\ alert = [w \in Workers |-> Nothing]
  /\ tries = [w \in Workers |-> 0]
  /\ transition = {} /\ raised = {} /\ accepted = {} /\ unheard = {} /\ lost = {} /\ faults = 0

Fault == faults < MaxFaults /\ faults' = faults + 1

(***************************************************************************)
(* The sink.                                                               *)
(***************************************************************************)
\* What a deduction crosses: 70 and 90 % of the initial balance spent; with the
\* default threshold a tenth left; and exhaustion, at every window that ends there.
Crossings(before, after) ==
  LET crossed(tenths) == 10 * before > tenths * Initial /\ 10 * after <= tenths * Initial
      kinds == [warn70 |-> crossed(3), warn90 |-> crossed(1),
                exhausted |-> after = 0, low |-> after > 0 /\ crossed(1)]
  IN  {k \in DOMAIN kinds : kinds[k]}

\* What is missing becomes debt.
Deducted(cost) == IF balance > cost THEN balance - cost ELSE 0

\* invoke: the script commits the deduction, the alerts are still in memory.
\* The window starts after the last one, or with it: that of another model.
Deduct(cost) ==
  /\ emitting = <<>> /\ windows < MaxWindows
  /\ start' \in IF windows = 0 THEN {0} ELSE {start, start + 1}
  /\ LET after == Deducted(cost)
         due == Crossings(balance, after) \X {start'}
     IN  /\ Cardinality(raised \cup due) <= MaxAlerts
         /\ balance' = after /\ emitting' = SetToSeq(due) /\ raised' = raised \cup due
  /\ windows' = windows + 1
  /\ UNCHANGED <<pending, topic, group, process, transition, accepted, unheard, lost, faults>>

TopUp(amount) ==
  /\ windows \in 1..(MaxWindows - 1) /\ balance < Initial
  /\ balance' = balance + amount
  /\ UNCHANGED <<windows, start, emitting, pending, topic, group, process, transition, history, faults>>

\* emitAlert: the send succeeds, ...
Emit ==
  /\ emitting # <<>> /\ emitting' = Tail(emitting)
  /\ topic' = Append(topic, Head(emitting))
  /\ UNCHANGED <<balance, windows, start, pending, group, process, transition, history, faults>>

\* ... or fails, perhaps with the record in Kafka, and the alert goes to the
\* outbox, ...
EmitLater ==
  /\ emitting # <<>> /\ emitting' = Tail(emitting) /\ Fault
  /\ topic' \in {topic, Append(topic, Head(emitting))}
  /\ pending' = Append(pending, Head(emitting))
  /\ UNCHANGED <<balance, windows, start, group, process, transition, history>>

\* ... or the outbox fails too, or the process dies: the redone window answers
\* SKIP and raises nothing.
EmitNever ==
  /\ emitting # <<>> /\ Fault
  /\ \E n \in {1, Len(emitting)} :
       /\ emitting' = SubSeq(emitting, n + 1, Len(emitting))
       /\ lost' = lost \cup ToSet(SubSeq(emitting, 1, n))
  /\ UNCHANGED <<balance, windows, start, pending, topic, group, process, transition, raised, accepted, unheard>>

(***************************************************************************)
(* The worker: main, process_alert, fire_budget_webhook, deliver_webhook.  *)
(***************************************************************************)
Goto(w, to, a) ==
  /\ worker' = [worker EXCEPT ![w] = to]
  /\ alert' = [alert EXCEPT ![w] = a]
  /\ tries' = [tries EXCEPT ![w] = 0]

\* main catches an exception of process_alert: the offset is not committed,
\* and the commit of a later alert passes it.
Give(w) ==
  /\ Goto(w, "idle", Nothing) /\ lost' = lost \cup {alert[w]}

Poll(w) ==
  /\ worker[w] = "idle" /\ holder = w /\ position <= Len(topic)
  /\ Goto(w, "processing", topic[position])
  /\ position' = position + 1
  /\ UNCHANGED <<sink, pending, topic, holder, committed, transition, history, faults>>

\* SET NX of the transition marker; an alert that has one is done with.
ClaimTransition(w) ==
  /\ worker[w] = "processing"
  /\ Goto(w, IF alert[w] \in transition THEN "processed" ELSE "delivering", alert[w])
  /\ transition' = transition \cup {alert[w]}
  /\ UNCHANGED <<sink, pending, topic, group, history, faults>>

\* SET raises, applied or not.
ClaimRaises(w) ==
  /\ worker[w] = "processing" /\ Give(w) /\ Fault
  /\ transition' \in {transition, transition \cup {alert[w]}}
  /\ UNCHANGED <<sink, pending, topic, group, raised, accepted, unheard>>

\* Redis raises where the URL and the secret are read: the marker stays.
SettingsRaise(w) ==
  /\ worker[w] = "delivering" /\ tries[w] = 0 /\ Give(w) /\ Fault
  /\ UNCHANGED <<sink, pending, topic, group, transition, raised, accepted, unheard>>

\* Mutant: a delivered alert keeps no marker.
AcceptAndForget(w) ==
  /\ worker[w] = "delivering" /\ Goto(w, "processed", alert[w])
  /\ accepted' = accepted \cup {alert[w]} /\ transition' = transition \ {alert[w]}
  /\ UNCHANGED <<sink, pending, topic, group, raised, unheard, lost, faults>>

\* A post is answered 2xx or 3xx: fire_budget_webhook returns True.
Accept(w) ==
  /\ worker[w] = "delivering" /\ Goto(w, "processed", alert[w])
  /\ accepted' = accepted \cup {alert[w]}
  /\ UNCHANGED <<sink, pending, topic, group, transition, raised, unheard, lost, faults>>

\* A post times out or is answered 5xx, which may hide an acceptance: the next
\* attempt, unless it was the last.
PostFails(w) ==
  /\ worker[w] = "delivering" /\ Fault
  /\ unheard' \in {unheard, unheard \cup {alert[w]}}
  /\ IF tries[w] + 1 < MaxRetries
     THEN tries' = [tries EXCEPT ![w] = @ + 1] /\ UNCHANGED <<worker, alert>>
     ELSE Goto(w, "failed", alert[w])
  /\ UNCHANGED <<sink, pending, topic, group, transition, raised, accepted, lost>>

\* No URL, or a 4xx.
Refused(w) ==
  /\ worker[w] = "delivering" /\ Goto(w, "failed", alert[w]) /\ Fault
  /\ UNCHANGED <<sink, pending, topic, group, transition, history>>

\* fire_budget_webhook returned False: the marker is deleted, unless INCR of
\* the metric or DEL raises before that, and the alert is given up.
Fail(w) ==
  /\ worker[w] = "failed" /\ Give(w)
  /\ \/ transition' = transition \ {alert[w]} /\ UNCHANGED faults
     \/ Fault /\ UNCHANGED transition
  /\ UNCHANGED <<sink, pending, topic, group, raised, accepted, unheard>>

\* The commit succeeds, or raises, applied or not; main catches that too.
Commit(w) ==
  /\ worker[w] = "processed" /\ Goto(w, "idle", Nothing)
  /\ \/ committed' = position - 1 /\ UNCHANGED faults
     \/ Fault /\ committed' \in {committed, position - 1}
  /\ UNCHANGED <<sink, pending, topic, holder, position, transition, history>>

\* replay_pending_alerts, when poll returned nothing: peek at the head, ...
PeekPending(w) ==
  /\ worker[w] = "idle" /\ (holder = w => position > Len(topic)) /\ pending # <<>>
  /\ Goto(w, "replaying", Head(pending))
  /\ UNCHANGED <<sink, pending, topic, group, transition, history, faults>>

\* ... produce and flush (not acknowledged in 5 s: the entry stays), ...
Produce(w) ==
  /\ worker[w] = "replaying"
  /\ \/ topic' = Append(topic, alert[w]) /\ Goto(w, "popping", alert[w]) /\ UNCHANGED faults
     \/ topic' \in {topic, Append(topic, alert[w])} /\ Goto(w, "idle", Nothing) /\ Fault
  /\ UNCHANGED <<sink, pending, group, transition, history>>

\* ... and pop the head, which another worker may have moved on.
PopPending(w) ==
  /\ worker[w] = "popping" /\ Goto(w, "idle", Nothing)
  /\ IF pending = <<>> THEN UNCHANGED <<pending, lost>>
     ELSE /\ pending' = Tail(pending)
          /\ lost' = IF Head(pending) = alert[w] THEN lost ELSE lost \cup {Head(pending)}
  /\ UNCHANGED <<sink, topic, group, transition, raised, accepted, unheard, faults>>

\* Mutant: the group goes on where its dead member had read.
ResumeBehind == position

\* With no committed offset, auto.offset.reset is "latest".
Resume == IF committed = 0 THEN Len(topic) + 1 ELSE committed + 1

\* The process dies, also of what replay_pending_alerts raises, outside the
\* try; it starts again, and the group assigns the partition anew: at once if
\* it was the member's, else when the member that has it polls.
Die(w) ==
  /\ Goto(w, "idle", Nothing) /\ Fault
  /\ \/ /\ holder = w \/ worker[holder] = "idle"
        /\ holder' \in Workers /\ position' = Resume
        /\ lost' = lost \cup (IF worker[w] \in {"delivering", "failed"} THEN {alert[w]} ELSE {})
                         \cup (IF committed = 0 THEN ToSet(topic) ELSE {})
     \/ /\ holder # w
        /\ UNCHANGED <<holder, position, lost>>
  /\ UNCHANGED <<sink, pending, topic, committed, transition, raised, accepted, unheard>>

WorkerStep(w) ==
  \/ Poll(w) \/ ClaimTransition(w) \/ ClaimRaises(w) \/ SettingsRaise(w)
  \/ Accept(w) \/ PostFails(w) \/ Refused(w) \/ Fail(w) \/ Commit(w)
  \/ PeekPending(w) \/ Produce(w) \/ PopPending(w)

Next ==
  \/ \E cost \in Costs : Deduct(cost) \/ TopUp(cost)
  \/ Emit \/ EmitLater \/ EmitNever
  \/ \E w \in Workers : WorkerStep(w) \/ Die(w)

\* The sink and the workers run; nothing makes an endpoint or Kafka work.
Fairness == WF_vars(Emit) /\ \A w \in Workers : WF_vars(WorkerStep(w))

Spec == Init /\ [][Next]_vars /\ Fairness

(***************************************************************************)
(* Properties.                                                             *)
(***************************************************************************)
TypeOK ==
  /\ balance \in Nat /\ windows <= MaxWindows /\ start \in 0..windows /\ faults <= MaxFaults
  /\ holder \in Workers /\ committed < position /\ position <= Len(topic) + 1
  /\ worker \in [Workers -> {"idle", "processing", "delivering", "failed", "processed", "replaying", "popping"}]
  /\ tries \in [Workers -> 0..MaxRetries-1]
  /\ \A w \in Workers : worker[w] = "idle" <=> alert[w] = Nothing
  /\ ToSet(emitting) \cup ToSet(pending) \cup ToSet(topic) \subseteq raised
  /\ transition \cup accepted \cup unheard \cup lost \cup {alert[w] : w \in Workers} \subseteq raised \cup {Nothing}

(* Redelivered after a crash, sent and also replayed, raised for two models,  *)
(* or in the hands of two workers at once: an alert whose acceptance a worker *)
(* has read is not posted again.  So the endpoint accepts an alert a second   *)
(* time only after a timeout or a 5xx had hidden every acceptance before.     *)
AcceptedOnce ==
  \A w \in Workers : worker[w] = "delivering" => alert[w] \notin accepted

(* An alert is accepted, with an answer that a worker reads, unless it is     *)
(* lost in one of the ways this code has: the sink dies with it or can keep   *)
(* it nowhere; Redis raises while a worker claims it or reads where to send   *)
(* it; the delivery fails; a worker dies with its marker set, or the group is *)
(* assigned anew before its first commit; another worker pops its outbox      *)
(* entry.  None is passed over or forgotten besides.  (A lost one may still   *)
(* arrive.)                                                                   *)
EveryAlertArrives ==
  \A a \in Kinds \X (0..MaxWindows-1) :
    (a \in raised) ~> (a \in accepted \cup lost)
==============================================================================
