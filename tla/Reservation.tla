----------------------------- MODULE Reservation -----------------------------
(***************************************************************************)
(* Holds on one customer's wallet: api/reservation.py (Lua scripts on      *)
(* Redis), the Gateway calls that open, refresh and settle them            *)
(* (api/gateway/proxy.py), the expiry workers (api/gateway/outbox.py), the *)
(* Flink sinks that tag a window with reservations and settle them when    *)
(* its cost is deducted (EventProjectionSink, BudgetEnforcerSink), the     *)
(* span sink that feeds the span cap, and SDK streams that reserve and     *)
(* reconcile an amount without a reservation id (sdk wrap.py).             *)
(*                                                                         *)
(* Amounts are small integers.  One clock unit stands for some minutes:    *)
(* 60 s refresh, 600 s window tag, 900 s lease.                            *)
(***************************************************************************)
EXTENDS Integers, FiniteSets, Functions

CONSTANTS
  Calls,         \* Gateway calls, each with a reservation id (uuid) of its own
  InSpan,        \* the calls that carry parent_span_id
  Stalled,       \* the calls whose client may stop reading the stream
  Sessions,      \* SDK streams
  Workers,       \* API processes running the expiry worker
  Amounts,       \* estimates
  Costs,         \* what a call may turn out to cost
  Funds,         \* balance set up
  Cap,           \* max_cost_usd of the span, set before its first call
  Lease,         \* a hold expires this long after open or refresh
  RefreshGap,    \* a stream that is read refreshes at least this often
  TagTTL,        \* life of window:reservations
  MaxDelay,      \* usage is projected and billed within this time
  FailOpen,      \* wrap(fail_open=...)
  MaxNow,        \* bound of the clock
  LastStart,     \* bound: no call opens after this instant
  RefreshTimes,  \* bound: the instants at which a call may refresh
  ResetTimes,    \* bound: the instants at which the wallet is configured again
  MaxResets      \* bound: how often

ASSUME ReservationAssumption ==
  /\ IsFiniteSet(Calls) /\ IsFiniteSet(Sessions)
  /\ InSpan \subseteq Calls /\ Stalled \subseteq Calls
  /\ Amounts \subseteq Nat \ {0} /\ Costs \subseteq Nat /\ Funds \in Nat /\ Cap \in Nat
  /\ Lease \in Nat /\ RefreshGap \in Nat \ {0} /\ TagTTL \in Nat /\ MaxDelay \in Nat \ {0}
  /\ RefreshGap < Lease
  /\ FailOpen \in BOOLEAN /\ MaxNow \in Nat /\ MaxResets \in Nat
  /\ LastStart \in Nat /\ RefreshTimes \subseteq Nat /\ ResetTimes \subseteq Nat

VARIABLES
  now,
  balance, held, debt,       \* budget:{customer}
  spanHeld, spanSpent,       \* span:{id}:held_usd, cost_usd
  record,                    \* reservation:{id}: reserved_usd, 0 if there is no hash
  deadline,                  \* gateway:reservations:pending: score, 0 if not a member
  tagged, tagUntil,          \* window:reservations of the open window, and its expiry
  phase, estimate, sentAt,   \* per Gateway call
  usage, cost,               \* what became of the call's usage event
  excess,                    \* history: what the call cost beyond its estimate
  session,                   \* usage of the open span session window
  lapsed,                    \* history: calls whose hold was closed before they were billed
  due,                       \* per worker: ids read from the pending set, not yet closed
  sdk, sdkHeld,              \* per SDK stream: control, amount it really has on hold
  resets

wallet == <<balance, held, debt>>
span == <<spanHeld, spanSpent>>
holds == <<record, deadline>>
tags == <<tagged, tagUntil>>
calls == <<phase, estimate, sentAt>>
events == <<usage, cost, excess, session, lapsed>>
stream == <<sdk, sdkHeld>>
vars == <<now, wallet, span, holds, tags, calls, events, due, stream, resets>>

Phases == {"new", "streaming", "refreshing", "over"}
Usages == {"none", "stored", "projected", "billed"}
Streams == {"new", "held", "unheld", "over"}

Init ==
  /\ now = 0
  /\ balance = Funds /\ held = 0 /\ debt = 0
  /\ spanHeld = 0 /\ spanSpent = 0
  /\ record = [r \in Calls |-> 0]
  /\ deadline = [r \in Calls |-> 0]
  /\ tagged = {} /\ tagUntil = 0
  /\ phase = [r \in Calls |-> "new"]
  /\ estimate = [r \in Calls |-> 0]
  /\ sentAt = [r \in Calls |-> 0]
  /\ usage = [r \in Calls |-> "none"]
  /\ cost = [r \in Calls |-> 0] /\ excess = [r \in Calls |-> 0]
  /\ session = {} /\ lapsed = {}
  /\ due = [k \in Workers |-> {}]
  /\ sdk = [s \in Sessions |-> "new"]
  /\ sdkHeld = [s \in Sessions |-> 0]
  /\ resets = 0

Least(a, b) == IF a < b THEN a ELSE b
Open == {r \in Calls : record[r] > 0}
HeldIn(S) == SumFunctionOnSet(record, S \cap Open)
CostOf(S) == SumFunctionOnSet(cost, S)

(***************************************************************************)
(* The Lua scripts.                                                        *)
(***************************************************************************)
Admits(a) == balance - held >= a
SpanAdmits(r, a) == r \in InSpan => spanSpent + spanHeld + a <= Cap

\* The span's part of what is freed, if the wallet holds less than the hashes
\* say (it was configured again), depends on the order of the ids.
SpanPart(S, freed) ==
  {part \in 0 .. Least(freed, HeldIn(S \cap InSpan)) : freed - part <= HeldIn(S \ InSpan)}

\* Mutant: the hash survives its release.
ReleaseKeeping(S) ==
  LET freed == Least(held, HeldIn(S))
  IN  /\ held' = held - freed
      /\ \E part \in SpanPart(S, freed) : spanHeld' = spanHeld - Least(spanHeld, part)
      /\ UNCHANGED record
      /\ deadline' = [r \in Calls |-> IF r \in S THEN 0 ELSE deadline[r]]

\* Mutant: an id without a hash is left in the pending set.
ReleaseSkipping(S) ==
  LET freed == Least(held, HeldIn(S))
  IN  /\ held' = held - freed
      /\ \E part \in SpanPart(S, freed) : spanHeld' = spanHeld - Least(spanHeld, part)
      /\ record' = [r \in Calls |-> IF r \in S THEN 0 ELSE record[r]]
      /\ deadline' = [r \in Calls |-> IF r \in S \cap Open THEN 0 ELSE deadline[r]]

(* CLOSE_SCRIPT on one id, and the reservation loop of SINK_LUA_SCRIPT on  *)
(* the ids of a window: an id without a hash releases nothing.             *)
Release(S) ==
  LET freed == Least(held, HeldIn(S))
  IN  /\ held' = held - freed
      /\ \E part \in SpanPart(S, freed) : spanHeld' = spanHeld - Least(spanHeld, part)
      /\ record' = [r \in Calls |-> IF r \in S THEN 0 ELSE record[r]]
      /\ deadline' = [r \in Calls |-> IF r \in S THEN 0 ELSE deadline[r]]

(***************************************************************************)
(* A Gateway call.                                                         *)
(***************************************************************************)
\* Mutant: admission looks at the balance alone.
OpenUnguarded(r, a) ==
  /\ phase[r] = "new" /\ now <= LastStart /\ balance >= a /\ SpanAdmits(r, a)
  /\ held' = held + a
  /\ spanHeld' = IF r \in InSpan THEN spanHeld + a ELSE spanHeld
  /\ record' = [record EXCEPT ![r] = a]
  /\ deadline' = [deadline EXCEPT ![r] = now + Lease]
  /\ estimate' = [estimate EXCEPT ![r] = a]
  /\ phase' = [phase EXCEPT ![r] = "streaming"]
  /\ UNCHANGED <<now, balance, debt, spanSpent, tags, sentAt, events, due, stream, resets>>

\* OPEN_SCRIPT; the id is new, so the paths for an existing hash are not taken.
OpenHold(r, a) ==
  /\ phase[r] = "new" /\ now <= LastStart /\ Admits(a) /\ SpanAdmits(r, a)
  /\ held' = held + a
  /\ spanHeld' = IF r \in InSpan THEN spanHeld + a ELSE spanHeld
  /\ record' = [record EXCEPT ![r] = a]
  /\ deadline' = [deadline EXCEPT ![r] = now + Lease]
  /\ estimate' = [estimate EXCEPT ![r] = a]
  /\ phase' = [phase EXCEPT ![r] = "streaming"]
  /\ UNCHANGED <<now, balance, debt, spanSpent, tags, sentAt, events, due, stream, resets>>

Deny(r, a) ==
  /\ phase[r] = "new" /\ now <= LastStart /\ ~(Admits(a) /\ SpanAdmits(r, a))
  /\ phase' = [phase EXCEPT ![r] = "over"]
  /\ UNCHANGED <<now, wallet, span, holds, tags, estimate, sentAt, events, due, stream, resets>>

\* refresh: EXISTS in one round trip ...
RefreshCheck(r) ==
  /\ phase[r] = "streaming" /\ now \in RefreshTimes /\ record[r] > 0
  /\ phase' = [phase EXCEPT ![r] = "refreshing"]
  /\ UNCHANGED <<now, wallet, span, holds, tags, estimate, sentAt, events, due, stream, resets>>

\* ... EXPIRE and ZADD in the next, also if the hold was closed in between.
RefreshWrite(r) ==
  /\ phase[r] = "refreshing"
  /\ phase' = [phase EXCEPT ![r] = "streaming"]
  /\ deadline' = [deadline EXCEPT ![r] = now + Lease]
  /\ UNCHANGED <<now, wallet, span, record, tags, estimate, sentAt, events, due, stream, resets>>

\* The upstream refused: settle, no usage.
UpstreamFails(r) ==
  /\ phase[r] = "streaming"
  /\ Release({r})
  /\ phase' = [phase EXCEPT ![r] = "over"]
  /\ estimate' = [estimate EXCEPT ![r] = 0]
  /\ UNCHANGED <<now, balance, debt, spanSpent, tags, sentAt, events, due, stream, resets>>

\* The same for a stream whose settle is applied, but raises: the finally
\* clause stores a usage of no tokens for the hold that is gone.
SettleRaises(r) ==
  /\ phase[r] = "streaming"
  /\ Release({r})
  /\ phase' = [phase EXCEPT ![r] = "over"]
  /\ estimate' = [estimate EXCEPT ![r] = 0]
  /\ usage' = [usage EXCEPT ![r] = "stored"]
  /\ sentAt' = [sentAt EXCEPT ![r] = now]
  /\ UNCHANGED <<now, balance, debt, spanSpent, tags, cost, excess, session, lapsed, due, stream, resets>>

\* The answer is complete, or the guard killed the stream because its quote
\* had passed the hold; custody stores the usage, whatever it costs.
Finish(r, c) ==
  /\ phase[r] = "streaming"
  /\ phase' = [phase EXCEPT ![r] = "over"]
  /\ estimate' = [estimate EXCEPT ![r] = 0]
  /\ usage' = [usage EXCEPT ![r] = "stored"]
  /\ cost' = [cost EXCEPT ![r] = c]
  /\ excess' = [excess EXCEPT ![r] = c - Least(c, estimate[r])]
  /\ sentAt' = [sentAt EXCEPT ![r] = now]
  /\ UNCHANGED <<now, wallet, span, holds, tags, session, lapsed, due, stream, resets>>

\* The process dies, the upstream client of a call that is not a stream
\* raises, or the ingest does: no usage and no settle, the hold is left to
\* the expiry worker.  (A stream that breaks off stores its usage: Finish,
\* at cost 0 if no token was counted.)
Abandon(r) ==
  /\ phase[r] \in {"streaming", "refreshing"}
  /\ phase' = [phase EXCEPT ![r] = "over"]
  /\ estimate' = [estimate EXCEPT ![r] = 0]
  /\ UNCHANGED <<now, wallet, span, holds, tags, sentAt, events, due, stream, resets>>

(***************************************************************************)
(* The engine.  Windows of the aggregation fire in order, one at a time.   *)
(***************************************************************************)
TagsNow == IF now < tagUntil THEN tagged ELSE {}

\* EventProjectionSink: SADD to the window's set, whose whole life restarts.
Project(r) ==
  /\ usage[r] = "stored"
  /\ usage' = [usage EXCEPT ![r] = "projected"]
  /\ tagged' = TagsNow \cup {r}
  /\ tagUntil' = now + TagTTL
  /\ session' = IF r \in InSpan THEN session \cup {r} ELSE session
  /\ UNCHANGED <<now, wallet, span, holds, calls, cost, excess, lapsed, due, stream, resets>>

Window == {r \in Calls : usage[r] = "projected"}

\* BudgetEnforcerSink, one script: release the tagged holds, deduct the cost.
WindowFires ==
  /\ Window # {}
  /\ Release(TagsNow)
  /\ balance' = balance - Least(balance, CostOf(Window))
  /\ debt' = debt + (CostOf(Window) - Least(balance, CostOf(Window)))
  /\ tagged' = {} /\ tagUntil' = 0
  /\ usage' = [r \in Calls |-> IF r \in Window THEN "billed" ELSE usage[r]]
  /\ sentAt' = [r \in Calls |-> IF r \in Window THEN 0 ELSE sentAt[r]]
  /\ UNCHANGED <<now, spanSpent, phase, estimate, cost, excess, session, lapsed, due, stream, resets>>

\* SpanSink: SET to the cost of the session that closed after its idle gap.
SpanFires ==
  /\ session # {}
  /\ spanSpent' = CostOf(session)
  /\ session' = {}
  /\ UNCHANGED <<now, wallet, spanHeld, holds, tags, calls, usage, cost, excess, lapsed, due, stream, resets>>

(***************************************************************************)
(* The expiry worker of each API process: expire_due.                      *)
(***************************************************************************)
\* Mutant: the cutoff looks ahead to the next pass.
ExpiredSoon == {r \in Calls : 0 < deadline[r] /\ deadline[r] <= now + 1}

Expired == {r \in Calls : 0 < deadline[r] /\ deadline[r] <= now}

ReadDue(k) ==
  /\ due[k] = {} /\ Expired # {}
  /\ due' = [due EXCEPT ![k] = Expired]
  /\ UNCHANGED <<now, wallet, span, holds, tags, calls, events, stream, resets>>

\* Calls that may still cost something.
Unbilled == {r \in Calls : \/ phase[r] \in {"streaming", "refreshing"}
                          \/ usage[r] \in {"stored", "projected"}}

CloseDue(k, r) ==
  /\ r \in due[k]
  /\ Release({r})
  /\ lapsed' = lapsed \cup ({r} \cap Open \cap Unbilled)
  /\ due' = [due EXCEPT ![k] = @ \ {r}]
  /\ UNCHANGED <<now, balance, debt, spanSpent, tags, calls, usage, cost, excess, session, stream, resets>>

(***************************************************************************)
(* SDK streams: RESERVE_SCRIPT and RECONCILE_SCRIPT, without an id.        *)
(***************************************************************************)
SdkReserve(s, a) ==
  /\ sdk[s] = "new" /\ now <= LastStart /\ Admits(a)
  /\ held' = held + a
  /\ sdkHeld' = [sdkHeld EXCEPT ![s] = a]
  /\ \/ sdk' = [sdk EXCEPT ![s] = "held"]
     \/ sdk' = [sdk EXCEPT ![s] = IF FailOpen THEN "unheld" ELSE "over"]   \* answer lost
  /\ UNCHANGED <<now, balance, debt, span, holds, tags, calls, events, due, resets>>

\* Denied, or not reached: a stream that fails open goes on without a hold.
SdkUnreserved(s) ==
  /\ sdk[s] = "new" /\ now <= LastStart
  /\ sdk' = [sdk EXCEPT ![s] = IF FailOpen THEN "unheld" ELSE "over"]
  /\ UNCHANGED <<now, wallet, span, holds, tags, calls, events, due, sdkHeld, resets>>

\* _finish reconciles "reserved or estimated_cost_usd", held or not.
SdkReconcile(s, a) ==
  /\ sdk[s] \in {"held", "unheld"} /\ (sdkHeld[s] > 0 => a = sdkHeld[s])
  /\ held' = held - Least(held, a)
  /\ sdkHeld' = [sdkHeld EXCEPT ![s] = 0]
  /\ sdk' = [sdk EXCEPT ![s] = "over"]
  /\ UNCHANGED <<now, balance, debt, span, holds, tags, calls, events, due, resets>>

\* The reconcile request fails, or the SDK process dies: the hold stays.
SdkForgets(s) ==
  /\ sdk[s] \in {"held", "unheld"}
  /\ sdk' = [sdk EXCEPT ![s] = "over"]
  /\ UNCHANGED <<now, wallet, span, holds, tags, calls, events, due, sdkHeld, resets>>

(***************************************************************************)
(* The administrator, and time.                                            *)
(***************************************************************************)
\* Budget.configure: balance anew, holds and debt back to zero.
Configure ==
  /\ resets < MaxResets /\ now \in ResetTimes
  /\ resets' = resets + 1
  /\ balance' = Funds /\ held' = 0 /\ debt' = 0
  /\ UNCHANGED <<now, span, holds, tags, calls, events, due, stream>>

\* Calls that are read refresh in time, usage is billed in time, and the two
\* round trips of a refresh are close together.
Tick ==
  /\ now < MaxNow
  /\ \A r \in Calls :
       /\ phase[r] # "refreshing"
       /\ phase[r] = "streaming" /\ r \notin Stalled => now < deadline[r] - Lease + RefreshGap
       /\ usage[r] \in {"stored", "projected"} => now < sentAt[r] + MaxDelay
  /\ now' = now + 1
  /\ UNCHANGED <<wallet, span, holds, tags, calls, events, due, stream, resets>>

CallEnds(r) ==
  \/ UpstreamFails(r) \/ SettleRaises(r) \/ Abandon(r)
  \/ \E c \in Costs : Finish(r, c)

EngineStep ==
  \/ \E r \in Calls : Project(r)
  \/ WindowFires
  \/ SpanFires

WorkerStep(k) == ReadDue(k) \/ \E r \in Calls : CloseDue(k, r)

SdkStep(s) ==
  \/ \E a \in Amounts : SdkReserve(s, a) \/ SdkReconcile(s, a)
  \/ SdkUnreserved(s) \/ SdkForgets(s)

Next ==
  \/ \E r \in Calls :
       \/ \E a \in Amounts : OpenHold(r, a) \/ Deny(r, a)
       \/ RefreshCheck(r) \/ RefreshWrite(r) \/ CallEnds(r)
  \/ EngineStep
  \/ \E k \in Workers : WorkerStep(k)
  \/ \E s \in Sessions : SdkStep(s)
  \/ Configure \/ Tick

Spec == Init /\ [][Next]_vars

(* Streams end, workers poll, the clock goes on; the engine is fair because   *)
(* MaxDelay makes the clock wait for it.                                     *)
Fairness ==
  /\ WF_vars(Tick) /\ WF_vars(EngineStep)
  /\ \A r \in Calls : WF_vars(RefreshWrite(r)) /\ WF_vars(CallEnds(r))
  /\ \A k \in Workers : WF_vars(WorkerStep(k))

FairSpec == Spec /\ Fairness

(***************************************************************************)
(* Properties.                                                             *)
(***************************************************************************)
TypeOK ==
  /\ now \in Nat /\ resets \in Nat
  /\ balance \in Nat /\ held \in Nat /\ debt \in Nat
  /\ spanHeld \in Nat /\ spanSpent \in Nat
  /\ record \in [Calls -> Nat] /\ deadline \in [Calls -> Nat]
  /\ tagged \subseteq Calls /\ tagUntil \in Nat
  /\ phase \in [Calls -> Phases] /\ estimate \in [Calls -> Nat] /\ sentAt \in [Calls -> Nat]
  /\ usage \in [Calls -> Usages] /\ cost \in [Calls -> Nat]
  /\ excess \in [Calls -> Nat] /\ session \subseteq Calls
  /\ lapsed \subseteq Calls
  /\ due \in [Workers -> SUBSET Calls]
  /\ sdk \in [Sessions -> Streams] /\ sdkHeld \in [Sessions -> Nat]

(* held_usd is the sum of what is on hold, on the wallet and on the span:     *)
(* however settle, expiry, refresh and windows meet, no hold is released      *)
(* twice and none is left over, "beyond the reserved amount"                  *)
(* (docs/contracts/reservation.md:33).  Checked for wrap(fail_open=False); a  *)
(* wallet that is configured again starts a new account.                      *)
HoldsAddUp ==
  /\ resets = 0 => held = HeldIn(Calls) + SumFunctionOnSet(sdkHeld, Sessions)
  /\ resets = 0 => spanHeld = HeldIn(InSpan)

(* Only abandoned holds expire (docs/gateway.md:83): a call that is read, and *)
(* the usage it leaves behind, are on hold until the window deducts the cost, *)
(* unless there is no cost.                                                   *)
HoldLastsUntilBilled ==
  \A r \in Unbilled \ Stalled : record[r] > 0 \/ (usage[r] # "none" /\ cost[r] = 0)

(* Concurrent calls cannot overdraw the wallet (ADR-011), but by what they    *)
(* cost beyond their own estimates: a stream is killed after it passed its    *)
(* hold, an answer in one piece is not compared with it.  A hold that a call  *)
(* without excess left never becomes debt of another's making.  Not so if a   *)
(* stalled call outlived its lease.                                           *)
NoOverdraft ==
  resets = 0 /\ lapsed = {}
  => debt <= SumFunctionOnSet(excess, {r \in Calls : usage[r] = "billed"})

(* No hold of a Gateway call stays for ever, whatever became of the call, and *)
(* the pending set is cleaned of ids that a racing refresh put back.          *)
EveryHoldEnds ==
  \A r \in Calls : (record[r] > 0 \/ deadline[r] > 0) ~> (record[r] = 0 /\ deadline[r] = 0)
==============================================================================
