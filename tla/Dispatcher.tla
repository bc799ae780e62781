----------------------------- MODULE Dispatcher ------------------------------
(***************************************************************************)
(* KafkaProducerDispatcher.publish_batch_and_wait (api/ingestion.py), at   *)
(* the grain of its shared reads and writes.  A message is one index of    *)
(* one batch.  Its request thread takes an in-flight slot, produces, waits *)
(* for the delivery event, and on a timeout hands the verdict to late      *)
(* reconciliation; the polling thread runs the delivery callbacks one at a *)
(* time.  Custody takes the two verdicts, delivered and timed out, as one  *)
(* step each; this module is what justifies that and where it does not.    *)
(***************************************************************************)
EXTENDS Integers, FiniteSets, Sequences

CONSTANTS
  Msgs,         \* messages handed to the dispatcher
  MaxInflight,  \* capacity of the slot semaphore
  Nobody        \* the polling thread runs no callback

ASSUME DispatcherAssumption == MaxInflight \in Nat \ {0} /\ Nobody \notin Msgs

VARIABLES
  slots,       \* free in-flight slots
  waiter,      \* per message: next statement of the request thread
  callback,    \* per message: next statement of on_delivery
  poller,      \* the message whose callback the polling thread runs
  verdict,     \* the broker's verdict, once it has one
  outcome,     \* outcomes[index]
  delivered,   \* delivered[index] event
  timedOut,    \* timed_out[index] event
  raced,       \* local delivered_in_race
  lateGuess,   \* local late_succeeded
  dispatched,  \* reconciliation_dispatched[index]
  reconciled,  \* verdicts submitted to the reconciliation pool (history)
  answer       \* what the request thread reads when it classifies

threadVars == <<waiter, raced, lateGuess, answer>>
pollVars == <<callback, poller, verdict>>
vars == <<slots, threadVars, pollVars, outcome, delivered, timedOut, dispatched, reconciled>>

Waiters == {"start", "produce", "wait", "flagged", "raceRead", "guessRead", "overwritten",
            "settled", "classified"}
Callbacks == {"idle", "inflight", "store", "signal", "slot", "check", "end"}
Outcomes == {"none", "error", "uncertain", "overloaded"}

Init ==
  /\ slots = MaxInflight
  /\ waiter = [m \in Msgs |-> "start"]
  /\ callback = [m \in Msgs |-> "idle"]
  /\ poller = Nobody
  /\ verdict = [m \in Msgs |-> "unknown"]
  /\ outcome = [m \in Msgs |-> "none"]
  /\ delivered = [m \in Msgs |-> FALSE]
  /\ timedOut = [m \in Msgs |-> FALSE]
  /\ raced = [m \in Msgs |-> FALSE]
  /\ lateGuess = [m \in Msgs |-> FALSE]
  /\ dispatched = [m \in Msgs |-> FALSE]
  /\ reconciled = [m \in Msgs |-> <<>>]
  /\ answer = [m \in Msgs |-> "unread"]

Step(pc, m, from, to) == pc[m] = from /\ pc' = [pc EXCEPT ![m] = to]

\* Mutant: dispatch_late without reconciliation_dispatched.
DispatchLateTwice(m, succeeded) ==
  /\ reconciled' = [reconciled EXCEPT ![m] = Append(@, succeeded)]
  /\ UNCHANGED dispatched

(* dispatch_late: under the lock, the first caller submits its verdict.    *)
DispatchLate(m, succeeded) ==
  /\ dispatched' = [dispatched EXCEPT ![m] = TRUE]
  /\ reconciled' = IF dispatched[m] THEN reconciled
                   ELSE [reconciled EXCEPT ![m] = Append(@, succeeded)]

(***************************************************************************)
(* The request thread.                                                     *)
(***************************************************************************)
\* The slot semaphore is not waited for: no slot, no custody.
AcquireSlot(m) ==
  /\ slots > 0
  /\ Step(waiter, m, "start", "produce")
  /\ slots' = slots - 1
  /\ UNCHANGED <<raced, lateGuess, answer, pollVars, outcome, delivered, timedOut, dispatched, reconciled>>

NoSlot(m) ==
  /\ slots = 0
  /\ Step(waiter, m, "start", "wait")
  /\ outcome' = [outcome EXCEPT ![m] = "overloaded"]
  /\ delivered' = [delivered EXCEPT ![m] = TRUE]
  /\ UNCHANGED <<slots, raced, lateGuess, answer, pollVars, timedOut, dispatched, reconciled>>

Produce(m) ==
  /\ Step(waiter, m, "produce", "wait")
  /\ callback' = [callback EXCEPT ![m] = "inflight"]
  /\ UNCHANGED <<slots, raced, lateGuess, answer, poller, verdict, outcome, delivered, timedOut, dispatched, reconciled>>

\* Mutant: the slot of a refused message is not given back.
ProduceLeaks(m) ==
  /\ Step(waiter, m, "produce", "wait")
  /\ outcome' = [outcome EXCEPT ![m] = "error"]
  /\ delivered' = [delivered EXCEPT ![m] = TRUE]
  /\ UNCHANGED <<slots, raced, lateGuess, answer, pollVars, timedOut, dispatched, reconciled>>

\* BufferError or any other exception of produce(): no callback will come.
ProduceRaises(m) ==
  /\ Step(waiter, m, "produce", "wait")
  /\ slots' = slots + 1
  /\ \E o \in {"overloaded", "error"} : outcome' = [outcome EXCEPT ![m] = o]
  /\ delivered' = [delivered EXCEPT ![m] = TRUE]
  /\ UNCHANGED <<raced, lateGuess, answer, pollVars, timedOut, dispatched, reconciled>>

InTime(m) ==
  /\ Step(waiter, m, "wait", "settled") /\ delivered[m]
  /\ UNCHANGED <<slots, raced, lateGuess, answer, pollVars, outcome, delivered, timedOut, dispatched, reconciled>>

\* The deadline has passed, or wait() returned false: delivered or not.
TimesOut(m) ==
  /\ Step(waiter, m, "wait", "flagged")
  /\ timedOut' = [timedOut EXCEPT ![m] = TRUE]
  /\ UNCHANGED <<slots, raced, lateGuess, answer, pollVars, outcome, delivered, dispatched, reconciled>>

ReadDelivered(m) ==
  /\ Step(waiter, m, "flagged", "raceRead")
  /\ raced' = [raced EXCEPT ![m] = delivered[m]]
  /\ UNCHANGED <<slots, lateGuess, answer, pollVars, outcome, delivered, timedOut, dispatched, reconciled>>

ReadOutcome(m) ==
  /\ Step(waiter, m, "raceRead", "guessRead")
  /\ lateGuess' = [lateGuess EXCEPT ![m] = outcome[m] = "none"]
  /\ UNCHANGED <<slots, raced, answer, pollVars, outcome, delivered, timedOut, dispatched, reconciled>>

StoreUncertain(m) ==
  /\ Step(waiter, m, "guessRead", "overwritten")
  /\ outcome' = [outcome EXCEPT ![m] = "uncertain"]
  /\ UNCHANGED <<slots, raced, lateGuess, answer, pollVars, delivered, timedOut, dispatched, reconciled>>

\* Mutant: only the callback dispatches, the waiter does not look again.
DispatchNever(m) ==
  /\ Step(waiter, m, "overwritten", "settled")
  /\ UNCHANGED <<slots, raced, lateGuess, answer, pollVars, outcome, delivered, timedOut, dispatched, reconciled>>

DispatchIfRaced(m) ==
  /\ Step(waiter, m, "overwritten", "settled")
  /\ IF raced[m] THEN DispatchLate(m, lateGuess[m]) ELSE UNCHANGED <<dispatched, reconciled>>
  /\ UNCHANGED <<slots, raced, lateGuess, answer, pollVars, outcome, delivered, timedOut>>

\* _accept_many_impl reads the returned list, which on_delivery still shares.
Classify(m) ==
  /\ Step(waiter, m, "settled", "classified")
  /\ answer' = [answer EXCEPT ![m] = outcome[m]]
  /\ UNCHANGED <<slots, raced, lateGuess, pollVars, outcome, delivered, timedOut, dispatched, reconciled>>

(***************************************************************************)
(* The polling thread: on_delivery, statement by statement.                *)
(***************************************************************************)
Report(m) ==
  /\ poller = Nobody /\ poller' = m
  /\ Step(callback, m, "inflight", "store")
  /\ \E v \in {"ok", "failed"} : verdict' = [verdict EXCEPT ![m] = v]
  /\ UNCHANGED <<slots, threadVars, outcome, delivered, timedOut, dispatched, reconciled>>

StoreError(m) ==
  /\ Step(callback, m, "store", "signal")
  /\ outcome' = IF verdict[m] = "failed" THEN [outcome EXCEPT ![m] = "error"] ELSE outcome
  /\ UNCHANGED <<slots, threadVars, poller, verdict, delivered, timedOut, dispatched, reconciled>>

SignalDelivered(m) ==
  /\ Step(callback, m, "signal", "slot")
  /\ delivered' = [delivered EXCEPT ![m] = TRUE]
  /\ UNCHANGED <<slots, threadVars, poller, verdict, outcome, timedOut, dispatched, reconciled>>

ReleaseSlot(m) ==
  /\ Step(callback, m, "slot", "check")
  /\ slots' = slots + 1
  /\ UNCHANGED <<threadVars, poller, verdict, outcome, delivered, timedOut, dispatched, reconciled>>

CheckTimedOut(m) ==
  /\ Step(callback, m, "check", "end")
  /\ poller' = Nobody
  /\ IF timedOut[m] THEN DispatchLate(m, verdict[m] = "ok") ELSE UNCHANGED <<dispatched, reconciled>>
  /\ UNCHANGED <<slots, threadVars, verdict, outcome, delivered, timedOut>>

RequestThread(m) ==
  \/ AcquireSlot(m) \/ NoSlot(m) \/ Produce(m) \/ ProduceRaises(m)
  \/ InTime(m) \/ TimesOut(m) \/ ReadDelivered(m) \/ ReadOutcome(m)
  \/ StoreUncertain(m) \/ DispatchIfRaced(m) \/ Classify(m)

PollThread(m) ==
  Report(m) \/ StoreError(m) \/ SignalDelivered(m) \/ ReleaseSlot(m) \/ CheckTimedOut(m)

Next == \E m \in Msgs : RequestThread(m) \/ PollThread(m)

Spec == Init /\ [][Next]_vars

(* Both threads are scheduled, and the producer reports on every record.     *)
Fairness == \A m \in Msgs : WF_vars(RequestThread(m)) /\ SF_vars(PollThread(m))

FairSpec == Spec /\ Fairness

(***************************************************************************)
(* Properties.                                                             *)
(***************************************************************************)
TypeOK ==
  /\ slots \in 0..MaxInflight
  /\ waiter \in [Msgs -> Waiters] /\ callback \in [Msgs -> Callbacks]
  /\ poller \in Msgs \cup {Nobody}
  /\ verdict \in [Msgs -> {"unknown", "ok", "failed"}]
  /\ outcome \in [Msgs -> Outcomes]
  /\ delivered \in [Msgs -> BOOLEAN] /\ timedOut \in [Msgs -> BOOLEAN]
  /\ raced \in [Msgs -> BOOLEAN] /\ lateGuess \in [Msgs -> BOOLEAN]
  /\ dispatched \in [Msgs -> BOOLEAN]
  /\ reconciled \in [Msgs -> Seq(BOOLEAN)]
  /\ answer \in [Msgs -> Outcomes \cup {"unread"}]

(* Messages between slot acquisition and release.                             *)
HoldsSlot(m) == waiter[m] = "produce" \/ callback[m] \in {"inflight", "store", "signal", "slot"}

(* The bounded semaphore never overflows nor leaks: whatever path a message   *)
(* takes, free slots and messages holding one add up to the capacity.         *)
SlotsConserved == slots + Cardinality({m \in Msgs : HoldsSlot(m)}) = MaxInflight

(* Both threads can notice that a report raced the timeout; reconciliation    *)
(* still gets at most one verdict, and the true one.                          *)
ReconciledOnce ==
  \A m \in Msgs :
    /\ Len(reconciled[m]) <= 1
    /\ \A i \in DOMAIN reconciled[m] : reconciled[m][i] = (verdict[m] = "ok")

(* An uncertain answer leaves nobody behind: once the broker has reported on  *)
(* the message, or produce() refused it, reconciliation gets its verdict.     *)
UncertainIsReconciled ==
  \A m \in Msgs : (answer[m] = "uncertain") ~> (reconciled[m] # <<>>)

=============================================================================
