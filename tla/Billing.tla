------------------------------- MODULE Billing -------------------------------
(***************************************************************************)
(* The billing export (api/billing_export.py) over the counters that       *)
(* Wallet's windows and rerates change: every API process runs its own     *)
(* loop, reads the counter and the watermark, reports the difference to    *)
(* each platform the customer is linked to, in cents or exactly, and moves *)
(* the watermark to what it had read.  In cost mode, so that one figure is *)
(* enough.                                                                 *)
(***************************************************************************)
EXTENDS Wallet

CONSTANTS
  Exporters,   \* API processes, each with a billing_export_loop
  Platforms,   \* the export targets the customer is linked to
  Idempotent,  \* those that are given an idempotency key: Metronome, Orb
  Rounded,     \* those that are billed in cents: Stripe, Orb
  Cent,        \* a cent, in units of cost
  Deployments  \* the platforms a deployment may have credentials for

ASSUME BillingAssumption ==
  /\ Idempotent \subseteq Platforms /\ Rounded \subseteq Platforms
  /\ Cent \in Nat \ {0} /\ Deployments \subseteq (SUBSET Platforms) \ {{}}

VARIABLES
  exporter,    \* per process: control and what it has read and done
  watermark,   \* Redis: billing:{id}:last_reported_cost_usd
  billed, keys, \* the platforms: amounts, idempotency keys they have seen
  ready,       \* the platforms this deployment has credentials for; {} before an export asks
  slip,        \* history: an export of a kind that this code does not get right
  exports      \* history: how often the watermark was moved

billingVars == <<exporter, watermark, billed, keys, ready, slip, exports>>
allVars == <<vars, billingVars>>

Sleeping == [at |-> "sleeping", total |-> 0, delta |-> 0, hour |-> 0,
             todo |-> {}, reported |-> {}, failed |-> FALSE, unclear |-> FALSE]

BillingInit ==
  /\ Init
  /\ exporter = [x \in Exporters |-> Sleeping] /\ watermark = 0
  /\ billed = [p \in Platforms |-> 0] /\ keys = {} /\ ready = {}
  /\ slip = FALSE /\ exports = 0

\* billing_export_loop wakes up: collect_customer_usage reads the counters, ...
\* (without any credentials there is no loop)
Collect(x) ==
  /\ exporter[x].at = "sleeping" /\ Begin
  /\ exporter' = [exporter EXCEPT ![x] = [@ EXCEPT !.at = "collecting", !.total = usage, !.hour = clock]]
  /\ slip' = (slip \/ \E y \in Exporters \ {x} : exporter[y].at # "sleeping")
  /\ ready' \in IF ready = {} THEN Deployments ELSE {ready}
  /\ UNCHANGED <<redis, process, call, admin, history, watermark, billed, keys, exports>>

\* ... then the watermark.  _has_exportable_delta: a rerate may have gone below it.
ReadWatermark(x) ==
  /\ exporter[x].at = "collecting"
  /\ exporter' = [exporter EXCEPT ![x] =
       IF @.total > watermark
       THEN [@ EXCEPT !.at = "exporting", !.delta = exporter[x].total - watermark, !.todo = Platforms]
       ELSE Sleeping]
  /\ UNCHANGED <<vars, watermark, billed, keys, ready, slip, exports>>

IdempotencyKey(x, p) == <<p, exporter[x].hour>>

\* int(round(usd * 100)), where a tie may go either way in binary; or the cost itself.
Nearest(d) == {n \in 0..d : 2 * (Cent * n) <= 2 * d + Cent /\ 2 * d <= 2 * (Cent * n) + Cent}
Sums(p, d) == IF p \in Rounded THEN Nearest(d) ELSE {d}

\* The platform books the sum, unless it has seen the key.
Book(x, p, sum) ==
  /\ billed' = [billed EXCEPT ![p] = IF IdempotencyKey(x, p) \in keys THEN @ ELSE @ + sum]
  /\ keys' = IF p \in Idempotent THEN keys \cup {IdempotencyKey(x, p)} ELSE keys
  /\ slip' = (slip \/ IdempotencyKey(x, p) \in keys)

Done(r, p) == [r EXCEPT !.todo = @ \ {p}]
Reported(r, p) == [Done(r, p) EXCEPT !.reported = @ \cup {p}]
Failed(r, p, booked) == [Done(r, p) EXCEPT !.failed = TRUE, !.unclear = @ \/ booked]

\* Nothing to the cent, or no credentials: a silent return that counts as a
\* report, but for Stripe, whose value is looked at before the call.
Skip(x, p, sum) ==
  /\ sum = 0 \/ p \notin ready
  /\ exporter' = [exporter EXCEPT ![x] =
       IF sum = 0 /\ p \notin Idempotent THEN Done(@, p) ELSE Reported(@, p)]
  /\ UNCHANGED <<billed, keys, slip>>

\* It succeeds; or _stripe_retry succeeds after an attempt that was booked and
\* failed; or it raises, and the error is logged, be the sum booked or not.
Send(x, p, sum) ==
  /\ sum # 0 /\ p \in ready
  /\ \/ /\ Book(x, p, sum)
        /\ exporter' = [exporter EXCEPT ![x] = Reported(@, p)]
     \/ /\ p \notin Idempotent
        /\ billed' = [billed EXCEPT ![p] = @ + 2 * sum] /\ slip' = TRUE
        /\ exporter' = [exporter EXCEPT ![x] = Reported(@, p)]
        /\ UNCHANGED keys
     \/ /\ Book(x, p, sum)
        /\ exporter' = [exporter EXCEPT ![x] = Failed(@, p, TRUE)]
     \/ /\ UNCHANGED <<billed, keys, slip>>
        /\ exporter' = [exporter EXCEPT ![x] = Failed(@, p, FALSE)]

\* report_to_stripe, _metronome, _orb.
Report(x, p) ==
  /\ exporter[x].at = "exporting" /\ p \in exporter[x].todo
  /\ \E sum \in Sums(p, exporter[x].delta) : Skip(x, p, sum) \/ Send(x, p, sum)
  /\ UNCHANGED <<vars, watermark, ready, exports>>

\* Mutant: the watermark is set from the counter as it is by now.
MarkCurrent(x) == usage

\* mark_customer_reported takes the totals that were collected.
Mark(x) == exporter[x].total

\* Marked for all platforms if one of them counts as reported.
FinishExport(x) ==
  /\ exporter[x].at = "exporting" /\ exporter[x].todo = {}
  /\ IF exporter[x].reported # {}
     THEN watermark' = Mark(x) /\ exports' = exports + 1
     ELSE UNCHANGED <<watermark, exports>>
  /\ slip' = (slip \/ exporter[x].unclear \/ (exporter[x].failed /\ exporter[x].reported # {}))
  /\ exporter' = [exporter EXCEPT ![x] = Sleeping]
  /\ UNCHANGED <<vars, billed, keys, ready>>

\* The process restarts, and its loop sleeps first.
ExporterDies(x) ==
  /\ exporter[x].at # "sleeping" /\ exporter' = [exporter EXCEPT ![x] = Sleeping]
  /\ slip' = (slip \/ exporter[x].unclear \/ exporter[x].reported # {})
  /\ UNCHANGED <<vars, watermark, billed, keys, ready, exports>>

BillingNext ==
  \/ Next /\ UNCHANGED billingVars
  \/ \E x \in Exporters : \/ Collect(x) \/ ReadWatermark(x) \/ FinishExport(x) \/ ExporterDies(x)
                          \/ \E p \in Platforms : Report(x, p)

BillingSpec == BillingInit /\ [][BillingNext]_allVars

\* Half a cent either way for each of n exports.
Within(cents, amount, n) ==
  2 * (Cent * cents) <= 2 * amount + Cent * n /\ 2 * amount <= 2 * (Cent * cents) + Cent * n

Billed(p, sum, amount, n) == IF p \in Rounded THEN Within(sum, amount, n) ELSE sum = amount

(* Whatever is metered or rerated while an export runs, and wherever the     *)
(* counter stands against the watermark: a platform with credentials has     *)
(* been billed what the watermark says, once, exactly or to half a cent for  *)
(* each export, those included that round to nothing and still move the      *)
(* watermark.  Not so when a platform fails and another does not, a failed   *)
(* report was booked after all (and retried), a process dies before it       *)
(* marks, or two deltas go under the key of one hour.                        *)
ExportedOnce ==
  ~slip /\ (\A x \in Exporters : exporter[x].at = "sleeping")
  => \A p \in ready : Billed(p, billed[p], watermark, exports)
==============================================================================
