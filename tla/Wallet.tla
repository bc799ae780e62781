------------------------------- MODULE Wallet --------------------------------
(***************************************************************************)
(* One customer's wallet: the check before a call (Budget.check with its   *)
(* cache and rate limit, api/budget.py; the API key, api/auth.py),         *)
(* configure, top_up with the migration of legacy keys to a tenant         *)
(* (api/tenant_keys.py), key administration, the windows that deduct       *)
(* (BudgetEnforcerSink.java) and rerate/apply (api/main.py).  Billing.tla  *)
(* adds the export.  Redis commands and MULTI blocks are atomic; the round *)
(* trips of one handler are not, and are steps of their own, but for the   *)
(* EXISTS that find the key prefix: they are one step with the read, or    *)
(* the write, that follows them.                                           *)
(***************************************************************************)
EXTENDS Integers, FiniteSets

CONSTANTS
  Callers,     \* handlers of /budget/{id}/check
  Keyed,       \* the callers that come with the customer's API key
  Admins,      \* handlers of top-up, rerate and key administration
  Limit,       \* max_rpm of the wallet
  Estimate, Capped,    \* a call's estimated cost; what its span or key may have left
  Amounts, Costs,      \* top-ups and balances; costs of windows
  Increases, Decreases, \* of the customer's cost, by rerates
  MaxOps, MaxPeriods   \* bounds: operations of all kinds, ticks of the clock

ASSUME WalletAssumption ==
  /\ IsFiniteSet(Callers) /\ Keyed \subseteq Callers /\ Limit \in Nat \ {0}
  /\ Estimate \in Nat /\ Capped \subseteq Nat
  /\ Amounts \subseteq Nat \ {0} /\ Costs \subseteq Nat \ {0} /\ Increases \cup Decreases \subseteq Nat
  /\ MaxOps \in Nat /\ MaxPeriods \in Nat

VARIABLES
  wallet,      \* Redis: per key prefix the wallet (and, history, its adjustments)
  usage,       \* Redis: customer:{id}:cost_usd, without a tenant: what the export reads
  count,       \* Redis: requests counted per minute
  clock,       \* the minute of the rate limit, the hour of the export
  cache,       \* the API process: the balance it last read
  meta,        \* Redis: apikey:meta
  call,        \* per caller: control and what it has read
  admin,       \* per admin: control and what it has read
  due, torn,   \* history: what the balance must be; whether a change missed the wallet in use
  out,         \* history: revoked with no other change of the key under way
  funded,      \* history: per minute, the admitted calls that had a wallet
  ops

history == <<due, torn, out, funded>>
redis == <<wallet, usage, count, meta>>
process == <<clock, cache>>
vars == <<redis, process, call, admin, history, ops>>

NoWallet == [exists |-> FALSE, balance |-> 0, held |-> 0, debt |-> 0,
             initial |-> 0, topups |-> 0, deducted |-> 0, adjusted |-> 0]

\* The keys that Budget.configure writes.
Fresh(amount) == [NoWallet EXCEPT !.exists = TRUE, !.balance = amount, !.initial = amount]

NoEntry == [exists |-> FALSE, seen |-> 0, cover |-> 0]

\* budget_prefix_for_read: the tenant's keys, else the legacy ones.
ReadPrefix ==
  IF ~wallet["tenant"].exists /\ wallet["legacy"].exists THEN "legacy" ELSE "tenant"

Effective(w) == w.balance - w.held
Larger(a, b) == IF a > b THEN a ELSE b

Calling == [at |-> "idle", minute |-> 0, balance |-> 0, prefix |-> "tenant",
            cover |-> 0, funded |-> FALSE]
Resting == [at |-> "idle", prefix |-> "tenant", amount |-> 0, copy |-> NoWallet,
            meta |-> [revoked |-> FALSE, budget |-> FALSE]]

Init ==
  /\ \E a \in Amounts, p \in {"tenant", "legacy", "none"} :
       wallet = [q \in {"tenant", "legacy"} |-> IF q = p THEN Fresh(a) ELSE NoWallet]
  /\ usage = 0 /\ count = [m \in 0..MaxPeriods |-> 0] /\ clock = 0 /\ cache = NoEntry
  /\ meta = [revoked |-> FALSE, budget |-> FALSE]
  /\ call = [c \in Callers |-> Calling] /\ admin = [a \in Admins |-> Resting]
  /\ due = wallet[ReadPrefix].balance /\ torn = FALSE /\ out = FALSE /\ funded = count
  /\ ops = 0

Begin == ops < MaxOps /\ ops' = ops + 1

(***************************************************************************)
(* History.  cover bounds what a check may take the funds for: the most    *)
(* that was free while it read, plus what was released meanwhile.          *)
(***************************************************************************)
Watched(freed) ==
  call' = [c \in Callers |-> IF call[c].at \notin {"rate", "balance", "held"} THEN call[c]
    ELSE [call[c] EXCEPT !.cover = Larger(@ + freed, Effective(wallet'[ReadPrefix']))]]

(***************************************************************************)
(* GET /budget/{id}/check.  An answer ends the call.                       *)
(***************************************************************************)
\* resolve_key_context, for require_customer_access.
Refused(c) == c \in Keyed /\ meta.revoked

\* The handler resolves the key once more for its budget: a key revoked since
\* then just has none.
Access(c) ==
  /\ call[c].at = "idle" /\ Begin
  /\ call' = [call EXCEPT ![c] = IF Refused(c) THEN Calling
       ELSE [@ EXCEPT !.at = "rate", !.minute = clock, !.cover = Effective(wallet[ReadPrefix])]]
  /\ UNCHANGED <<redis, process, admin, history>>

\* Mutant: one request too many.
OverLimitByOne(requests) == wallet[ReadPrefix].exists /\ requests > Limit

\* max_rpm, of the tenant or of the legacy keys.
OverLimit(requests) == wallet[ReadPrefix].exists /\ requests >= Limit

ReadRate(c) ==
  /\ call[c].at = "rate"
  /\ call' = [call EXCEPT ![c] =
       IF OverLimit(count[@.minute]) THEN Calling ELSE [@ EXCEPT !.at = "balance"]]
  /\ UNCHANGED <<redis, process, admin, history, ops>>

\* snapshot: the balance ...
ReadBalance(c) ==
  /\ call[c].at = "balance"
  /\ LET w == wallet[ReadPrefix]
     IN  call' = [call EXCEPT ![c] = [@ EXCEPT !.prefix = ReadPrefix, !.balance = w.balance,
           !.funded = w.exists, !.at = IF w.exists THEN "held" ELSE "count"]]
  /\ UNCHANGED <<redis, process, admin, history, ops>>

\* Mutant: the holds of other calls do not count.
SeenBalance(c) == call[c].balance

\* ... and in another round trip the holds.
Seen(c) == call[c].balance - wallet[call[c].prefix].held

Covers(effective) == effective > 0 /\ Estimate <= effective

\* What is left of the caps on its span and session, and of its key's budgets.
HierarchyAllows(left) == Estimate <= left
KeyAllows(c, left) == c \in Keyed /\ meta.budget => Estimate <= left

\* The cache, the balance, _hierarchy_denial and check_api_key_budget.
ReadHeld(c) ==
  /\ call[c].at = "held"
  /\ cache' = [exists |-> TRUE, seen |-> Seen(c), cover |-> call[c].cover]
  /\ \E scope, key \in Capped : call' = [call EXCEPT ![c] =
       IF Covers(Seen(c)) /\ HierarchyAllows(scope) /\ KeyAllows(c, key)
       THEN [@ EXCEPT !.at = "count"] ELSE Calling]
  /\ UNCHANGED <<redis, clock, admin, history, ops>>

\* _increment_rate_limit, for the minute the check began in, and the answer.
Allow(c) ==
  /\ call[c].at = "count"
  /\ count' = [count EXCEPT ![call[c].minute] = @ + 1]
  /\ funded' = [funded EXCEPT ![call[c].minute] = @ + IF call[c].funded THEN 1 ELSE 0]
  /\ call' = [call EXCEPT ![c] = Calling]
  /\ UNCHANGED <<wallet, usage, meta, process, admin, due, torn, out, ops>>

\* A RedisError anywhere: _check_fallback, by the cache or the policy "closed".
Fallback(c) ==
  /\ call[c].at \in {"rate", "balance", "held", "count"}
  /\ call' = [call EXCEPT ![c] = IF cache.exists /\ Covers(cache.seen)
       THEN [@ EXCEPT !.at = "trusted", !.cover = cache.cover] ELSE Calling]
  /\ UNCHANGED <<redis, process, admin, history, ops>>

\* CACHE_TTL_SECONDS after it was written.
CacheExpires ==
  /\ cache.exists /\ cache' = NoEntry
  /\ UNCHANGED <<redis, clock, call, admin, history, ops>>

Tick ==
  /\ clock < MaxPeriods /\ clock' = clock + 1
  /\ UNCHANGED <<redis, cache, call, admin, history, ops>>

Return(c) ==
  /\ call[c].at = "trusted"
  /\ call' = [call EXCEPT ![c] = Calling]
  /\ UNCHANGED <<redis, process, admin, history, ops>>

(***************************************************************************)
(* The wallet: configure, top_up, holds, windows, rerate.                  *)
(***************************************************************************)
\* One MULTI, then the cache of this process is popped.
Configure(amount) ==
  /\ Begin
  /\ wallet' = [wallet EXCEPT !["tenant"] = Fresh(amount)]
  /\ due' = amount /\ cache' = NoEntry
  /\ Watched(wallet["tenant"].held)
  /\ UNCHANGED <<usage, count, meta, clock, admin, torn, out, funded>>

Start(a, to, amount) ==
  /\ admin[a].at = "idle" /\ Begin
  /\ admin' = [admin EXCEPT ![a] = [@ EXCEPT !.at = to, !.amount = amount,
                                    !.prefix = ReadPrefix, !.meta = meta]]
  /\ UNCHANGED <<redis, process, call, history>>

\* top_up: 404 without a wallet; else the prefix read now, ...
StartTopUp(a, amount) == wallet[ReadPrefix].exists /\ Start(a, "topup", amount)

Migrates(a) == admin[a].prefix # "tenant" /\ ~wallet["tenant"].exists

\* ... the legacy values if the tenant has none (a change between these GETs
\* counts as one after them), ...
CopyLegacy(a) ==
  /\ admin[a].at = "topup"
  /\ admin' = [admin EXCEPT ![a] = [@ EXCEPT !.at = "credit",
       !.copy = IF Migrates(a) THEN wallet["legacy"] ELSE NoWallet]]
  /\ UNCHANGED <<redis, process, call, history, ops>>

\* Mutant: the copy leaves out total_deducted_usd.
CreditedShort(w, a) ==
  [IF admin[a].copy.exists THEN [admin[a].copy EXCEPT !.deducted = w.deducted] ELSE w EXCEPT
     !.exists = TRUE, !.balance = @ + admin[a].amount, !.topups = @ + admin[a].amount]

\* Mutant: the copy is not written.
CreditedAlone(w, a) ==
  [w EXCEPT !.exists = TRUE, !.balance = @ + admin[a].amount, !.topups = @ + admin[a].amount]

\* ... and one MULTI that sets the copy and adds the amount.
Credited(w, a) ==
  [IF admin[a].copy.exists THEN admin[a].copy ELSE w EXCEPT
     !.exists = TRUE, !.balance = @ + admin[a].amount, !.topups = @ + admin[a].amount]

Credit(a) ==
  /\ admin[a].at = "credit"
  /\ wallet' = [wallet EXCEPT !["tenant"] = Credited(@, a)]
  /\ due' = due + admin[a].amount
  /\ torn' = (torn \/ (admin[a].copy.exists
                       /\ (wallet["tenant"].exists \/ wallet["legacy"] # admin[a].copy)))
  /\ cache' = NoEntry /\ admin' = [admin EXCEPT ![a] = Resting]
  /\ Watched(wallet["tenant"].held)
  /\ UNCHANGED <<usage, count, meta, clock, out, funded, ops>>

\* Reservation.tla has the holds; here they only take funds away.
Hold ==
  /\ Begin
  /\ wallet[ReadPrefix].exists /\ Effective(wallet[ReadPrefix]) >= Estimate
  /\ wallet' = [wallet EXCEPT ![ReadPrefix].held = @ + Estimate]
  /\ Watched(0)
  /\ UNCHANGED <<usage, count, meta, process, admin, history>>

\* Mutant: debt takes what the balance did not need, too.
DeductedSigned(w, cost, released) ==
  [w EXCEPT !.deducted = @ + cost, !.held = @ - released,
            !.balance = Larger(w.balance - cost, 0), !.debt = @ - (w.balance - cost)]

\* SINK_LUA_SCRIPT on the wallet of the events' prefix: what is missing is debt;
\* without a balance the cost is deducted nowhere, but counted as deducted.
Deducted(w, cost, released) ==
  LET after == w.balance - cost
  IN  IF ~w.exists THEN [w EXCEPT !.deducted = @ + cost]
      ELSE [w EXCEPT !.deducted = @ + cost, !.held = @ - released,
                     !.balance = Larger(after, 0), !.debt = @ + Larger(-after, 0)]

Window(p, cost, released) ==
  /\ Begin /\ released <= wallet[p].held
  /\ wallet' = [wallet EXCEPT ![p] = Deducted(@, cost, released)]
  /\ usage' = IF p = "legacy" THEN usage + cost ELSE usage
  /\ due' = Larger(due - cost, 0)
  /\ torn' = (torn \/ p # ReadPrefix \/ ~wallet[p].exists)
  /\ Watched(released)
  /\ UNCHANGED <<count, meta, process, admin, out, funded>>

\* "balance == initial + topups - total_deducted" (jobs/reconcile_balances).
Expected(w) == w.initial + w.topups - w.deducted

\* What the job reports of a wallet if nothing changes it between its reads.
Drift(w) == w.balance - Expected(w)

\* What a rerate adds to a customer's cost.
Adjustments == Increases \cup {-d : d \in Decreases}

\* rerate/apply for the customer: the counters in one MULTI, those of a tenant
\* if the scan has found some, ...
AdjustCost(a) ==
  /\ admin[a].at = "rerate"
  /\ usage' \in {usage, usage + admin[a].amount}
  /\ admin' = [admin EXCEPT ![a] = [@ EXCEPT !.at = "rebalance", !.prefix = ReadPrefix]]
  /\ UNCHANGED <<wallet, count, meta, process, call, history, ops>>

Rebalanced(w, amount) == [w EXCEPT !.balance = @ - amount, !.adjusted = @ + amount]

\* ... then the balance, if there is one.
Rebalance(a) ==
  /\ admin[a].at = "rebalance"
  /\ LET p == admin[a].prefix
     IN  IF wallet[p].exists
         THEN /\ wallet' = [wallet EXCEPT ![p] = Rebalanced(@, admin[a].amount)]
              /\ due' = due - admin[a].amount /\ torn' = (torn \/ p # ReadPrefix)
         ELSE UNCHANGED <<wallet, due, torn>>
  /\ admin' = [admin EXCEPT ![a] = Resting]
  /\ Watched(0)
  /\ UNCHANGED <<usage, count, meta, process, out, funded, ops>>

(***************************************************************************)
(* The API key: revoke_customer_api_key and set_api_key_budget read the    *)
(* metadata and write all of it back.                                      *)
(***************************************************************************)
Overlapped(a) == \E b \in Admins \ {a} : admin[b].at \in {"revoke", "keybudget"}

Revoke(a) ==
  /\ admin[a].at = "revoke"
  /\ meta' = [admin[a].meta EXCEPT !.revoked = TRUE]
  /\ out' = (out \/ ~Overlapped(a))
  /\ admin' = [admin EXCEPT ![a] = Resting]
  /\ UNCHANGED <<wallet, usage, count, process, call, due, torn, funded, ops>>

\* Mutant: the metadata is written anew.
BudgetedAnew(old) == [revoked |-> FALSE, budget |-> TRUE]

Budgeted(old) == [old EXCEPT !.budget = TRUE]

SetKeyBudget(a) ==
  /\ admin[a].at = "keybudget"
  /\ meta' = Budgeted(admin[a].meta)
  /\ admin' = [admin EXCEPT ![a] = Resting]
  /\ UNCHANGED <<wallet, usage, count, process, call, history, ops>>

AdminStep(a) == CopyLegacy(a) \/ Credit(a) \/ AdjustCost(a) \/ Rebalance(a) \/ Revoke(a) \/ SetKeyBudget(a)

Next ==
  \/ \E c \in Callers : Access(c) \/ ReadRate(c) \/ ReadBalance(c) \/ ReadHeld(c)
                        \/ Allow(c) \/ Fallback(c) \/ Return(c)
  \/ CacheExpires \/ Tick \/ Hold
  \/ \E x \in Amounts : Configure(x) \/ \E a \in Admins : StartTopUp(a, x)
  \/ \E a \in Admins : \/ AdminStep(a)
                       \/ \E x \in Adjustments : Start(a, "rerate", x)
                       \/ \E to \in {"revoke", "keybudget"} : Start(a, to, 0)
  \/ \E p \in {"tenant", "legacy"}, x \in Costs, r \in {0, Estimate} : Window(p, x, r)

Spec == Init /\ [][Next]_vars

(***************************************************************************)
(* Properties.                                                             *)
(***************************************************************************)
TypeOK ==
  /\ \A p \in {"tenant", "legacy"} :
       wallet[p].held \in Nat /\ wallet[p].debt \in Nat /\ wallet[p].balance \in Int
  /\ count \in [0..MaxPeriods -> 0..MaxOps]
  /\ \A c \in Callers : call[c].at \in {"idle", "rate", "balance", "held", "count", "trusted"}
  /\ \A a \in Admins :
       admin[a].at \in {"idle", "topup", "credit", "rerate", "rebalance", "revoke", "keybudget"}

(* top_up reads the wallet and migrates it in round trips of its own, next   *)
(* to windows, configure, rerate and other top-ups: no amount is lost or     *)
(* counted twice, unless the wallet changed while it was copied, or a change *)
(* was made to the keys that are not read (any more, or yet).                *)
TopUpKept == ~torn => wallet[ReadPrefix].balance = due

(* reconcile_balances scans the wallets without a tenant and knows neither   *)
(* overdrafts nor rerates.  The drift it finds there is the debt less the    *)
(* rerates, to the last unit, and none without either, whatever windows,     *)
(* rerates and migrations run; that of a tenant's wallet, which it does not  *)
(* scan, would be the same, unless the migration went wrong (torn).          *)
DriftExplained ==
  \A w \in {wallet["legacy"]} \cup (IF torn THEN {} ELSE {wallet[ReadPrefix]}) :
    w.exists => Drift(w) = w.debt - w.adjusted

(* check reads the counter of the minute first and counts itself last:       *)
(* however checks interleave, a minute admits at most max_rpm calls, and one *)
(* for each other handler.                                                   *)
RateLimited == \A m \in DOMAIN funded : funded[m] <= Limit + Cardinality(Callers) - 1

(* Balance and holds are read in two round trips, next to windows, holds and *)
(* top-ups, and kept for a fallback: an admission finds its estimate in what *)
(* was free at some moment of the reading, or was released during it.        *)
AdmissionCovered ==
  \A c \in Callers :
    (call[c].at = "trusted" \/ (call[c].at = "count" /\ call[c].funded))
    => Estimate <= call[c].cover

(* A key whose revocation no other change of the key overlapped is refused   *)
(* for good, also after its budget is set.                                   *)
RevokedStaysOut ==
  [][out => \A c \in Keyed : ~(call[c].at = "idle" /\ call'[c].at = "rate")]_vars
==============================================================================
