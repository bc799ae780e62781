---------------------------- MODULE BillingProofs ----------------------------
(***************************************************************************)
(* The wallet and its export (Wallet, Billing) for any number of callers,  *)
(* admins, exporters, platforms and amounts: the balance is what the       *)
(* top-ups, windows and rerates make it, the rate limit holds, admissions  *)
(* are covered, a revoked key stays out, platforms are billed once.        *)
(***************************************************************************)
EXTENDS Billing, FiniteSetTheorems, TLAPS

Prefixes == {"tenant", "legacy"}
Minutes == 0..MaxPeriods

Wallets ==
  [exists : BOOLEAN, balance : Int, held : Nat, debt : Nat,
   initial : Int, topups : Int, deducted : Int, adjusted : Int]
Metas == [revoked : BOOLEAN, budget : BOOLEAN]
Calls ==
  [at : {"idle", "rate", "balance", "held", "count", "trusted"}, minute : Minutes,
   balance : Int, prefix : Prefixes, cover : Int, funded : BOOLEAN]
AdminStates ==
  [at : {"idle", "topup", "credit", "rerate", "rebalance", "revoke", "keybudget"},
   prefix : Prefixes, amount : Int, copy : Wallets, meta : Metas]

Types ==
  /\ wallet \in [Prefixes -> Wallets] /\ usage \in Int /\ meta \in Metas
  /\ count \in [Minutes -> Nat] /\ funded \in [Minutes -> Nat] /\ clock \in Minutes
  /\ cache \in [exists : BOOLEAN, seen : Int, cover : Int]
  /\ call \in [Callers -> Calls] /\ admin \in [Admins -> AdminStates]
  /\ due \in Int /\ torn \in BOOLEAN /\ out \in BOOLEAN /\ ops \in 0..MaxOps

AnyWallet == wallet["tenant"].exists \/ wallet["legacy"].exists

(* A top-up has found a wallet, and migrates it or credits the tenant's.       *)
TopUps ==
  \A a \in Admins :
    /\ admin[a].at = "topup" => wallet[admin[a].prefix].exists
    /\ admin[a].at = "credit" => admin[a].copy.exists \/ wallet["tenant"].exists

Balanced(w) == w.balance - w.debt = Expected(w) - w.adjusted

BooksBalance == ~torn => Balanced(wallet[ReadPrefix])

Books == TopUpKept /\ BooksBalance

\* The wallet that reconcile_balances scans.
Audited == wallet["legacy"].exists => Balanced(wallet["legacy"])

(* What a check has read is covered by what was free while it read, and so is  *)
(* what it leaves in the cache.                                                *)
Covered(c) ==
  /\ call[c].at \in {"rate", "balance", "held"} => Effective(wallet[ReadPrefix]) <= call[c].cover
  /\ call[c].at = "held" => call[c].balance - wallet[call[c].prefix].held <= call[c].cover
  /\ (call[c].at = "count" /\ call[c].funded) \/ call[c].at = "trusted"
     => Estimate <= call[c].cover

Reading == (cache.exists => cache.seen <= cache.cover) /\ \A c \in Callers : Covered(c)

(* The checks of a minute that are under way, and those among them that have   *)
(* found its counter below the limit.                                          *)
Busy(m) == {c \in Callers : call[c].at # "idle" /\ call[c].minute = m}
Passed(m) == {c \in Callers : call[c].at \in {"balance", "held", "count"} /\ call[c].minute = m}

Rates ==
  /\ ~AnyWallet => (\A m \in Minutes : funded[m] = 0) /\ (\A c \in Callers : ~call[c].funded)
  /\ \A m \in Minutes :
       /\ funded[m] <= count[m] /\ count[m] + Cardinality(Busy(m)) <= ops
       /\ funded[m] + Cardinality(Passed(m)) <= Limit + Cardinality(Callers) - 1

(* Who is about to write the metadata of the key has read the revocation.      *)
KeyOut ==
  out => meta.revoked /\ \A a \in Admins : admin[a].at \in {"revoke", "keybudget"} => admin[a].meta.revoked

WalletInv == Types /\ TopUps /\ Books /\ Audited /\ Reading /\ Rates /\ KeyOut

(***************************************************************************)
(* The export.                                                             *)
(***************************************************************************)
Exports ==
  [at : {"sleeping", "collecting", "exporting"}, total : Int, delta : Int, hour : Minutes,
   todo : SUBSET Platforms, reported : SUBSET Platforms, failed : BOOLEAN, unclear : BOOLEAN]

ExportTypes ==
  /\ exporter \in [Exporters -> Exports] /\ watermark \in Int /\ exports \in Nat
  /\ billed \in [Platforms -> Int] /\ ready \subseteq Platforms /\ slip \in BOOLEAN

Alone == \A x, y \in Exporters : exporter[x].at # "sleeping" /\ exporter[y].at # "sleeping" => x = y

\* Before the first export.
Unbilled ==
  ready = {} => /\ watermark = 0 /\ exports = 0 /\ \A p \in Platforms : billed[p] = 0
                /\ \A x \in Exporters : exporter[x].at = "sleeping"

\* The sums that platform p has been sent, while x exports.
SumIs(x, p) ==
  IF p \in exporter[x].reported
  THEN Billed(p, billed[p], watermark + exporter[x].delta, exports + 1)
  ELSE Billed(p, billed[p], watermark, exports)

\* A platform has been billed up to the watermark, and the delta if it has
\* reported it; if nothing failed, who did not report had nothing to the cent.
Exporting(x) ==
  /\ exporter[x].at \in {"sleeping", "collecting"}
     => /\ exporter[x].delta = 0 /\ exporter[x].todo = {} /\ exporter[x].reported = {}
        /\ ~exporter[x].failed /\ ~exporter[x].unclear
  /\ exporter[x].at = "exporting"
     => exporter[x].delta = exporter[x].total - watermark /\ exporter[x].delta > 0
  /\ exporter[x].todo \cap exporter[x].reported = {}
  /\ exporter[x].at # "sleeping" /\ ~exporter[x].unclear => \A p \in ready : SumIs(x, p)
  /\ exporter[x].at = "exporting" /\ ~exporter[x].failed
     => \A p \in ready \ (exporter[x].todo \cup exporter[x].reported) :
          p \in Rounded /\ 2 * exporter[x].delta <= Cent

ExportInv ==
  /\ ExportTypes /\ Unbilled
  /\ \A x \in Exporters : exporter[x].at = "sleeping" => exporter[x] = Sleeping
  /\ ~slip => Alone /\ ExportedOnce /\ \A x \in Exporters : Exporting(x)

Inv == WalletInv /\ ExportInv

(***************************************************************************)
(* What the operators on a wallet return.                                  *)
(***************************************************************************)
(* Records whose fields are changed within their types keep their type.        *)
LEMMA WalletUpdates ==
  ASSUME NEW w \in Wallets, NEW e \in BOOLEAN, NEW b \in Int, NEW h \in Nat, NEW d \in Nat, NEW i \in Int
  PROVE  /\ [w EXCEPT !.exists = e, !.balance = b, !.initial = i] \in Wallets
         /\ [w EXCEPT !.exists = e, !.balance = b, !.topups = i] \in Wallets
         /\ [w EXCEPT !.balance = b, !.adjusted = i] \in Wallets
         /\ [w EXCEPT !.held = h] \in Wallets
         /\ [w EXCEPT !.deducted = i] \in Wallets
         /\ [w EXCEPT !.deducted = i, !.held = h, !.balance = b, !.debt = d] \in Wallets
BY Zenon DEF Wallets

(* The updates the metering client and the authentication make to a call leave it a call. *)
LEMMA CallUpdates ==
  ASSUME NEW r \in Calls, NEW b \in Int, NEW m \in Minutes, NEW p \in Prefixes, NEW f \in BOOLEAN,
         NEW to \in {"idle", "rate", "balance", "held", "count", "trusted"}
  PROVE  /\ [r EXCEPT !.at = to, !.minute = m, !.cover = b] \in Calls
         /\ [r EXCEPT !.at = to, !.cover = b] \in Calls
         /\ [r EXCEPT !.prefix = p, !.balance = b, !.funded = f, !.at = to] \in Calls
         /\ [r EXCEPT !.cover = b] \in Calls
BY Zenon DEF Calls

(* Moving a call to its next step leaves it a call.                           *)
LEMMA CallAt ==
  ASSUME NEW r \in Calls, NEW to \in {"idle", "rate", "balance", "held", "count", "trusted"}
  PROVE  [r EXCEPT !.at = to] \in Calls
BY Zenon DEF Calls

(* A call at rest is a call.                                                  *)
LEMMA CallingTyped == Calling \in Calls
BY WalletAssumption DEF Calls, Calling, Minutes, Prefixes

(* The updates of the admin endpoints leave their state well typed.           *)
LEMMA AdminUpdates ==
  ASSUME NEW r \in AdminStates, NEW x \in Int, NEW w \in Wallets, NEW k \in Metas, NEW p \in Prefixes,
         NEW to \in {"idle", "topup", "credit", "rerate", "rebalance", "revoke", "keybudget"}
  PROVE  /\ [r EXCEPT !.at = to, !.amount = x, !.prefix = p, !.meta = k] \in AdminStates
         /\ [r EXCEPT !.at = to, !.copy = w] \in AdminStates
         /\ [r EXCEPT !.at = to, !.prefix = p] \in AdminStates
BY ZenonT(60) DEF AdminStates

(* A configured wallet is one, and a missing wallet is one without anything.   *)
LEMMA FreshFields ==
  ASSUME NEW amount \in Int
  PROVE  /\ NoWallet \in Wallets /\ ~NoWallet.exists /\ NoWallet.held = 0
         /\ NoWallet.balance - NoWallet.debt = Expected(NoWallet) - NoWallet.adjusted
         /\ Fresh(amount) \in Wallets /\ Fresh(amount).exists
         /\ Fresh(amount).balance = amount /\ Fresh(amount).held = 0
         /\ Fresh(amount).balance - Fresh(amount).debt = Expected(Fresh(amount)) - Fresh(amount).adjusted
<1>1. NoWallet \in Wallets
  BY DEF NoWallet, Wallets
<1>2. Fresh(amount) \in Wallets
  BY <1>1, WalletUpdates, ZenonT(60) DEF Fresh
<1>3. QED
  BY <1>1, <1>2 DEF NoWallet, Fresh, Expected

(* SINK_LUA_SCRIPT leaves a wallet whose books balance if they did.            *)
LEMMA DeductedFields ==
  ASSUME NEW w \in Wallets, NEW cost \in Nat, NEW r \in Nat, r <= w.held
  PROVE  LET d == Deducted(w, cost, r) IN
         /\ d \in Wallets /\ d.exists = w.exists /\ w.held - r <= d.held
         /\ w.exists => /\ d.balance = Larger(w.balance - cost, 0)
                        /\ w.balance - w.debt = Expected(w) - w.adjusted
                           => d.balance - d.debt = Expected(d) - d.adjusted
<1> DEFINE d == Deducted(w, cost, r)
           after == w.balance - cost
           b == Larger(after, 0)
           short == Larger(-after, 0)
<1>1. /\ after \in Int /\ b \in Int /\ short \in Nat /\ b - short = after
      /\ w.deducted + cost \in Int /\ w.held - r \in Nat /\ w.debt + short \in Nat
      /\ w.exists \in BOOLEAN
  BY DEF Larger, Wallets
<1>2. CASE ~w.exists
  <2>1. d = [w EXCEPT !.deducted = @ + cost]
    BY <1>2, SMTT(30) DEF Deducted
  <2>2. d \in Wallets
    BY <1>1, <2>1, WalletUpdates, ZenonT(60)
  <2>3. QED
    BY <1>2, <2>1, <2>2 DEF Wallets
<1>3. CASE w.exists
  <2>1. d = [w EXCEPT !.deducted = @ + cost, !.held = @ - r, !.balance = b, !.debt = @ + short]
    BY <1>3 DEF Deducted
  <2> HIDE DEF d, b, short
  <2>2. d \in Wallets
    BY <1>1, <2>1, WalletUpdates, ZenonT(60)
  <2>3. /\ d.exists = w.exists /\ d.held = w.held - r /\ d.balance = b /\ d.debt = w.debt + short
        /\ d.deducted = w.deducted + cost /\ d.initial = w.initial /\ d.topups = w.topups
        /\ d.adjusted = w.adjusted
    BY <2>1 DEF Wallets
  <2>4. w.balance - w.debt = Expected(w) - w.adjusted => d.balance - d.debt = Expected(d) - d.adjusted
    BY <1>1, <2>3 DEF Expected, Wallets
  <2>5. QED
    BY <1>1, <2>2, <2>3, <2>4 DEF d, b
<1>4. QED
  BY <1>1, <1>2, <1>3

(* A rerate moves the balance and its own part of the books alike.             *)
LEMMA RebalancedFields ==
  ASSUME NEW w \in Wallets, NEW x \in Int
  PROVE  LET d == Rebalanced(w, x) IN
         /\ d \in Wallets /\ d.exists = w.exists /\ d.held = w.held /\ d.balance = w.balance - x
         /\ w.balance - w.debt = Expected(w) - w.adjusted
            => d.balance - d.debt = Expected(d) - d.adjusted
<1> DEFINE d == Rebalanced(w, x)
<1>1. w.balance - x \in Int /\ w.adjusted + x \in Int
  BY DEF Wallets
<1>2. d \in Wallets
  BY <1>1, WalletUpdates, ZenonT(60) DEF Rebalanced
<1>3. /\ d.exists = w.exists /\ d.held = w.held /\ d.balance = w.balance - x /\ d.adjusted = w.adjusted + x
      /\ d.debt = w.debt /\ d.initial = w.initial /\ d.topups = w.topups /\ d.deducted = w.deducted
  BY DEF Rebalanced, Wallets
<1> HIDE DEF d
<1>4. w.balance - w.debt = Expected(w) - w.adjusted => d.balance - d.debt = Expected(d) - d.adjusted
  BY <1>3 DEF Expected, Wallets
<1>5. QED
  BY <1>2, <1>3, <1>4 DEF d

(* A top-up adds its amount to the copy it carries, or to the tenant's wallet. *)
LEMMA CreditedFields ==
  ASSUME NEW w \in Wallets, NEW a \in Admins, admin[a].copy \in Wallets, admin[a].amount \in Int
  PROVE  LET d == Credited(w, a)
             from == IF admin[a].copy.exists THEN admin[a].copy ELSE w IN
         /\ d \in Wallets /\ d.exists
         /\ d.balance = from.balance + admin[a].amount
         /\ from.balance - from.debt = Expected(from) - from.adjusted
            => d.balance - d.debt = Expected(d) - d.adjusted
<1> DEFINE from == IF admin[a].copy.exists THEN admin[a].copy ELSE w
           x == admin[a].amount
           d == Credited(w, a)
<1>1. d = [from EXCEPT !.exists = TRUE, !.balance = @ + x, !.topups = @ + x]
  BY DEF Credited
<1>2. from \in Wallets /\ x \in Int
  OBVIOUS
<1> HIDE DEF from, x, d
<1>3. from.balance + x \in Int /\ from.topups + x \in Int
  BY <1>2, SMTT(30) DEF Wallets
<1>4. d \in Wallets
  BY <1>1, <1>2, <1>3, WalletUpdates, ZenonT(60)
<1>5. /\ d.exists /\ d.balance = from.balance + x /\ d.topups = from.topups + x /\ d.debt = from.debt
      /\ d.initial = from.initial /\ d.deducted = from.deducted /\ d.adjusted = from.adjusted
  BY <1>1, <1>2 DEF Wallets
<1>6. from.balance - from.debt = Expected(from) - from.adjusted
      => d.balance - d.debt = Expected(d) - d.adjusted
  BY <1>2, <1>5 DEF Expected, Wallets
<1>7. QED
  BY <1>4, <1>5, <1>6 DEF from, x, d

(* The fields of a wallet.                                                     *)
LEMMA WalletFields ==
  ASSUME NEW w \in Wallets
  PROVE  /\ Effective(w) \in Int /\ w.exists \in BOOLEAN /\ w.balance \in Int /\ w.held \in Nat
         /\ w.debt \in Nat /\ w.adjusted \in Int /\ Expected(w) \in Int
BY DEF Wallets, Effective, Expected

(* budget_prefix_for_read finds a wallet if there is one.                      *)
LEMMA ReadPrefixFinds ==
  ReadPrefix \in Prefixes /\ (wallet[ReadPrefix].exists <=> AnyWallet)
BY DEF ReadPrefix, Prefixes, AnyWallet

(***************************************************************************)
(* Types.                                                                  *)
(***************************************************************************)
\* Steps of Billing in which the wallet's part only spends an operation.
Idles == ops' \in {ops, ops + 1} /\ ops' <= MaxOps /\ UNCHANGED <<redis, process, call, admin, history>>

(* The export aside, every command leaves its keys what they are.              *)
LEMMA TypesStep == Types /\ (Next \/ Idles) => Types'
<1> SUFFICES ASSUME Types, Next \/ Idles PROVE Types'
  OBVIOUS
<1> USE WalletAssumption DEF Types, Prefixes, Minutes, redis, process, history, Begin
<1>1. ASSUME NEW c \in Callers, Access(c) PROVE Types'
  <2>1. Effective(wallet[ReadPrefix]) \in Int
    BY ReadPrefixFinds, WalletFields
  <2>2. call' \in [Callers -> Calls]
    BY <1>1, <2>1, CallUpdates, CallAt, CallingTyped, ZenonT(60) DEF Access
  <2>3. QED
    BY <1>1, <2>2, SMTT(30) DEF Access
<1>2. ASSUME NEW c \in Callers, ReadRate(c) PROVE Types'
  BY <1>2, CallUpdates, CallAt, CallingTyped, ZenonT(60) DEF ReadRate
<1>3. ASSUME NEW c \in Callers, ReadBalance(c) PROVE Types'
  <2>1. wallet[ReadPrefix] \in Wallets /\ ReadPrefix \in Prefixes
    BY ReadPrefixFinds
  <2>2. wallet[ReadPrefix].exists \in BOOLEAN /\ wallet[ReadPrefix].balance \in Int
    BY <2>1, ZenonT(60) DEF Wallets
  <2>3. \A r \in Calls, to \in {"held", "count"} :
          [r EXCEPT !.prefix = ReadPrefix, !.balance = wallet[ReadPrefix].balance,
                    !.funded = wallet[ReadPrefix].exists, !.at = to] \in Calls
    BY <2>1, <2>2, CallUpdates, ZenonT(60)
  <2>4. call' \in [Callers -> Calls]
    BY <1>3, <2>3, ZenonT(60) DEF ReadBalance
  <2>5. QED
    BY <1>3, <2>4 DEF ReadBalance
<1>4. ASSUME NEW c \in Callers, ReadHeld(c) PROVE Types'
  <2>1. Seen(c) \in Int
    <3>1. call[c].balance \in Int /\ call[c].prefix \in Prefixes
      BY DEF Calls
    <3>2. wallet[call[c].prefix] \in Wallets
      BY <3>1
    <3>3. QED
      BY <3>1, <3>2, WalletFields, SMTT(30) DEF Seen
  <2>2. cache' \in [exists : BOOLEAN, seen : Int, cover : Int]
    BY <1>4, <2>1 DEF ReadHeld, Calls
  <2>3. call' \in [Callers -> Calls]
    <3>1. \/ call' = [call EXCEPT ![c] = [@ EXCEPT !.at = "count"]]
          \/ call' = [call EXCEPT ![c] = Calling]
      BY <1>4, Zenon DEF ReadHeld
    <3>2. [call[c] EXCEPT !.at = "count"] \in Calls
      BY CallAt
    <3>3. QED
      BY <3>1, <3>2, CallingTyped
  <2>4. QED
    BY <1>4, <2>2, <2>3 DEF ReadHeld
<1>5. ASSUME NEW c \in Callers, Allow(c) PROVE Types'
  <2>1. call' \in [Callers -> Calls]
    BY <1>5, CallUpdates, CallAt, CallingTyped, ZenonT(60) DEF Allow
  <2>2. call[c].minute \in Minutes
    BY DEF Calls
  <2>3. count' \in [Minutes -> Nat]
    BY <1>5, <2>2 DEF Allow
  <2>4. funded' \in [Minutes -> Nat]
    BY <1>5, <2>2 DEF Allow
  <2>5. QED
    BY <1>5, <2>1, <2>3, <2>4, SMTT(30) DEF Allow
<1>6. ASSUME NEW c \in Callers, Fallback(c) PROVE Types'
  BY <1>6, CallUpdates, CallAt, CallingTyped, ZenonT(60) DEF Fallback
<1>7. ASSUME NEW c \in Callers, Return(c) PROVE Types'
  BY <1>7, CallUpdates, CallAt, CallingTyped, ZenonT(60) DEF Return
<1>8. CASE CacheExpires
  BY <1>8 DEF CacheExpires, NoEntry
<1>9. CASE Tick
  BY <1>9 DEF Tick
<1>10. ASSUME NEW freed \in Nat, wallet' \in [Prefixes -> Wallets], Watched(freed)
       PROVE  call' \in [Callers -> Calls]
  <2>1. Effective(wallet'[ReadPrefix']) \in Int
    <3>1. wallet'[ReadPrefix'] \in Wallets
      BY <1>10 DEF ReadPrefix
    <3>2. QED
      BY <3>1, WalletFields
  <2>2. \A c \in Callers : Larger(call[c].cover + freed, Effective(wallet'[ReadPrefix'])) \in Int
    BY <2>1 DEF Larger, Calls
  <2>3. QED
    BY <1>10, <2>2, CallUpdates, CallAt, CallingTyped, ZenonT(60) DEF Watched
<1>11. CASE Hold
  <2>1. ReadPrefix \in Prefixes
    BY ReadPrefixFinds
  <2>2. wallet[ReadPrefix].held + Estimate \in Nat /\ wallet[ReadPrefix] \in Wallets
    BY <2>1, WalletFields, SMTT(30)
  <2>3. [wallet[ReadPrefix] EXCEPT !.held = @ + Estimate] \in Wallets
    BY <2>2, WalletUpdates, ZenonT(60)
  <2>4. wallet' \in [Prefixes -> Wallets]
    BY <1>11, <2>1, <2>3 DEF Hold
  <2>5. call' \in [Callers -> Calls]
    BY <1>10, <1>11, <2>4 DEF Hold
  <2>6. QED
    BY <1>11, <2>4, <2>5, SMTT(30) DEF Hold
<1>12. ASSUME NEW x \in Amounts, Configure(x) PROVE Types'
  <2>1. wallet' \in [Prefixes -> Wallets] /\ wallet["tenant"].held \in Nat /\ x \in Int
    BY <1>12, FreshFields, SMTT(30) DEF Configure, Wallets
  <2>2. QED
    BY <1>10, <1>12, <2>1 DEF Configure, NoEntry
<1>13. ASSUME NEW a \in Admins, NEW to \in {"topup", "rerate", "revoke", "keybudget"}, NEW x \in Int,
              Start(a, to, x)
       PROVE  Types'
  <2>1. ReadPrefix \in Prefixes
    BY ReadPrefixFinds, SMTT(30)
  <2>2. admin' \in [Admins -> AdminStates]
    BY <1>13, <2>1, AdminUpdates, ZenonT(60) DEF Start
  <2>3. QED
    BY <1>13, <2>2, SMTT(30) DEF Start
<1>14. ASSUME NEW a \in Admins PROVE Resting \in AdminStates
  BY FreshFields DEF Resting, AdminStates, Metas
<1>15. ASSUME NEW a \in Admins, CopyLegacy(a) PROVE Types'
  <2>1. NoWallet \in Wallets
    BY FreshFields
  <2>2. admin' \in [Admins -> AdminStates]
    BY <1>15, <2>1, AdminUpdates, ZenonT(60) DEF CopyLegacy
  <2>3. QED
    BY <1>15, <2>2 DEF CopyLegacy
<1>16. ASSUME NEW a \in Admins, Credit(a) PROVE Types'
  <2>1. admin[a].copy \in Wallets /\ admin[a].amount \in Int
    BY DEF AdminStates
  <2>2. Credited(wallet["tenant"], a) \in Wallets
    BY <2>1, CreditedFields
  <2>3. wallet' \in [Prefixes -> Wallets] /\ wallet["tenant"].held \in Nat
    BY <1>16, <2>2 DEF Credit, Wallets
  <2>4. call' \in [Callers -> Calls]
    BY <1>10, <1>16, <2>3 DEF Credit
  <2>5. torn' \in BOOLEAN
    BY <1>16 DEF Credit
  <2>6. admin' \in [Admins -> AdminStates]
    BY <1>14, <1>16 DEF Credit
  <2>7. due' \in Int /\ cache' \in [exists : BOOLEAN, seen : Int, cover : Int]
    BY <1>16, <2>1 DEF Credit, NoEntry
  <2>8. QED
    BY <1>16, <2>3, <2>4, <2>5, <2>6, <2>7 DEF Credit
<1>17. ASSUME NEW a \in Admins, AdjustCost(a) PROVE Types'
  <2>1. ReadPrefix \in Prefixes
    BY ReadPrefixFinds
  <2>2. admin' \in [Admins -> AdminStates]
    BY <1>17, <2>1, AdminUpdates, ZenonT(60) DEF AdjustCost
  <2>3. usage' \in Int
    BY <1>17 DEF AdjustCost, AdminStates
  <2>4. QED
    BY <1>17, <2>2, <2>3, SMTT(30) DEF AdjustCost
<1>18. ASSUME NEW a \in Admins, Rebalance(a) PROVE Types'
  <2>1. admin[a].prefix \in Prefixes /\ admin[a].amount \in Int
    BY DEF AdminStates
  <2>2. wallet' \in [Prefixes -> Wallets]
    <3>1. wallet[admin[a].prefix] \in Wallets
      BY <2>1
    <3>2. Rebalanced(wallet[admin[a].prefix], admin[a].amount) \in Wallets
      BY <2>1, <3>1, RebalancedFields
    <3>3. QED
      BY <1>18, <2>1, <3>2 DEF Rebalance
  <2>4. due' \in Int
    BY <1>18, <2>1 DEF Rebalance
  <2>5. torn' \in BOOLEAN
    BY <1>18 DEF Rebalance
  <2>3. admin' \in [Admins -> AdminStates]
    BY <1>14, <1>18 DEF Rebalance
  <2>6. QED
    BY <1>10, <1>18, <2>2, <2>3, <2>4, <2>5 DEF Rebalance
<1>19. ASSUME NEW a \in Admins, Revoke(a) PROVE Types'
  <2>1. meta' \in Metas /\ out' \in BOOLEAN
    BY <1>19 DEF Revoke, AdminStates, Metas
  <2>2. admin' \in [Admins -> AdminStates]
    BY <1>14, <1>19 DEF Revoke
  <2>3. QED
    BY <1>19, <2>1, <2>2 DEF Revoke
<1>20. ASSUME NEW a \in Admins, SetKeyBudget(a) PROVE Types'
  <2>1. meta' \in Metas
    BY <1>20 DEF SetKeyBudget, Budgeted, AdminStates, Metas
  <2>2. admin' \in [Admins -> AdminStates]
    BY <1>14, <1>20 DEF SetKeyBudget
  <2>3. QED
    BY <1>20, <2>1, <2>2 DEF SetKeyBudget
<1>21. ASSUME NEW p \in Prefixes, NEW x \in Costs, NEW r \in {0, Estimate}, Window(p, x, r) PROVE Types'
  <2>1. Deducted(wallet[p], x, r) \in Wallets
    BY <1>21, DeductedFields DEF Window
  <2>2. wallet' \in [Prefixes -> Wallets]
    BY <1>21, <2>1 DEF Window
  <2>3. call' \in [Callers -> Calls]
    BY <1>10, <1>21, <2>2 DEF Window
  <2>4. due' \in Int /\ torn' \in BOOLEAN
    BY <1>21 DEF Window, Larger
  <2>5. QED
    BY <1>21, <2>2, <2>3, <2>4 DEF Window
<1>22. CASE Idles
  BY <1>22 DEF Idles
<1>23. ASSUME NEW x \in Amounts PROVE x \in Int
  OBVIOUS
<1>24. ASSUME NEW x \in Adjustments PROVE x \in Int
  BY <1>24 DEF Adjustments
<1>25. ASSUME NEW a \in Admins, AdminStep(a) PROVE Types'
  BY <1>15, <1>16, <1>17, <1>18, <1>19, <1>20, <1>25 DEF AdminStep
<1>26. ASSUME NEW c \in Callers,
              Access(c) \/ ReadRate(c) \/ ReadBalance(c) \/ ReadHeld(c) \/ Allow(c) \/ Fallback(c) \/ Return(c)
       PROVE  Types'
  BY <1>1, <1>2, <1>3, <1>4, <1>5, <1>6, <1>7, <1>26
<1> HIDE DEF Types, Begin
<1>27. CASE Next
  BY <1>8, <1>9, <1>11, <1>12, <1>13, <1>21, <1>23, <1>24, <1>25, <1>26, <1>27 DEF Next, StartTopUp
<1>28. QED
  BY <1>22, <1>27

(***************************************************************************)
(* What steps do to the wallet.                                            *)
(***************************************************************************)
\* Configure, top-ups, holds, windows and rerates move funds; at most freed
\* of them come back from holds.
Moves(freed) ==
  /\ wallet' \in [Prefixes -> Wallets] /\ Watched(freed) /\ UNCHANGED <<count, funded>>
  /\ \A p \in Prefixes : /\ wallet[p].exists => wallet'[p].exists
                         /\ wallet[p].held - freed <= wallet'[p].held
  /\ cache' \in {cache, NoEntry} /\ ops' \in {ops, ops + 1}

\* The other steps of the administrators, the clock and the export.
Leaves ==
  /\ UNCHANGED <<wallet, call, count, funded>> /\ cache' \in {cache, NoEntry} /\ ops' \in {ops, ops + 1}

\* The steps of a check.
Checks(c) ==
  Access(c) \/ ReadRate(c) \/ ReadBalance(c) \/ ReadHeld(c) \/ Allow(c) \/ Fallback(c) \/ Return(c)

(* What a hold, window, top-up or rerate leaves of the other funds.            *)
LEMMA MoveFacts ==
  ASSUME Types
  PROVE  /\ Hold => Moves(0)
         /\ \A x \in Amounts : Configure(x) => Moves(wallet["tenant"].held)
         /\ \A a \in Admins : Credit(a) => Moves(wallet["tenant"].held)
         /\ \A a \in Admins : Rebalance(a) => Moves(0)
         /\ \A p \in Prefixes, x \in Costs, r \in {0, Estimate} : Window(p, x, r) => Moves(r)
<1> USE WalletAssumption DEF Begin
<1>w. ASSUME NEW p \in Prefixes
      PROVE  wallet[p] \in Wallets /\ wallet[p].held \in Nat /\ wallet[p].exists \in BOOLEAN
  <2>1. wallet[p] \in Wallets
    BY DEF Types
  <2>2. QED
    BY <2>1, WalletFields
<1>t. ops \in Nat
  BY DEF Types
<1>1. ASSUME Hold PROVE Moves(0)
  <2>1. ReadPrefix \in Prefixes
    BY ReadPrefixFinds
  <2>2. /\ wallet'[ReadPrefix].exists = wallet[ReadPrefix].exists
        /\ wallet'[ReadPrefix].held = wallet[ReadPrefix].held + Estimate
        /\ \A p \in Prefixes : p # ReadPrefix => wallet'[p] = wallet[p]
    BY <1>1, <1>w, <2>1 DEF Hold, Types, Wallets
  <2>3. wallet' \in [Prefixes -> Wallets]
    BY <1>1, TypesStep DEF Next, Types
  <2>4. QED
    BY <1>1, <1>w, <1>t, <2>2, <2>3 DEF Hold, Moves, process, history
<1>2. ASSUME NEW x \in Amounts, Configure(x) PROVE Moves(wallet["tenant"].held)
  <2>1. Fresh(x).exists /\ Fresh(x).held = 0
    BY FreshFields
  <2>2. wallet'["tenant"] = Fresh(x) /\ \A p \in Prefixes : p # "tenant" => wallet'[p] = wallet[p]
    BY <1>2 DEF Configure, Types, Prefixes
  <2>3. wallet' \in [Prefixes -> Wallets]
    BY <1>2, TypesStep DEF Next, Types
  <2>4. "tenant" \in Prefixes
    BY DEF Prefixes
  <2>5. QED
    BY <1>2, <1>w, <1>t, <2>1, <2>2, <2>3, <2>4 DEF Configure, Moves
<1>3. ASSUME NEW a \in Admins, Credit(a) PROVE Moves(wallet["tenant"].held)
  <2>1. "tenant" \in Prefixes
    BY DEF Prefixes
  <2>2. admin[a].copy \in Wallets /\ admin[a].amount \in Int
    BY DEF Types, AdminStates
  <2>3. Credited(wallet["tenant"], a) \in Wallets /\ Credited(wallet["tenant"], a).exists
    BY <1>w, <2>1, <2>2, CreditedFields
  <2>4. wallet'["tenant"] = Credited(wallet["tenant"], a)
        /\ \A p \in Prefixes : p # "tenant" => wallet'[p] = wallet[p]
    BY <1>3 DEF Credit, Types, Prefixes
  <2>5. wallet' \in [Prefixes -> Wallets]
    BY <1>3, TypesStep DEF Next, AdminStep, Types
  <2>6. wallet'["tenant"].held \in Nat
    BY <2>3, <2>4, WalletFields
  <2>7. QED
    BY <1>3, <1>w, <2>1, <2>3, <2>4, <2>5, <2>6 DEF Credit, Moves
<1>4. ASSUME NEW a \in Admins, Rebalance(a) PROVE Moves(0)
  <2>1. admin[a].prefix \in Prefixes /\ admin[a].amount \in Int
    BY DEF Types, AdminStates
  <2>2. \A p \in Prefixes : wallet'[p] = wallet[p] \/ wallet'[p] = Rebalanced(wallet[p], admin[a].amount)
    BY <1>4, <2>1 DEF Rebalance, Types
  <2>3. wallet' \in [Prefixes -> Wallets]
    BY <1>4, TypesStep DEF Next, AdminStep, Types
  <2>4. \A p \in Prefixes : wallet'[p].exists = wallet[p].exists /\ wallet'[p].held = wallet[p].held
    BY <1>w, <2>1, <2>2, RebalancedFields
  <2>5. QED
    BY <1>4, <1>w, <2>3, <2>4 DEF Rebalance, Moves, process
<1>5. ASSUME NEW p \in Prefixes, NEW x \in Costs, NEW r \in {0, Estimate}, Window(p, x, r) PROVE Moves(r)
  <2>1. x \in Nat /\ r \in Nat /\ r <= wallet[p].held
    BY <1>5 DEF Window
  <2>2. wallet'[p] = Deducted(wallet[p], x, r) /\ \A q \in Prefixes : q # p => wallet'[q] = wallet[q]
    BY <1>5 DEF Window, Types
  <2>3. wallet'[p].exists = wallet[p].exists /\ wallet[p].held - r <= wallet'[p].held
    BY <1>w, <2>1, <2>2, DeductedFields
  <2>4. wallet' \in [Prefixes -> Wallets]
    BY <1>5, TypesStep DEF Next, Types, Prefixes
  <2>5. QED
    BY <1>5, <1>w, <1>t, <2>1, <2>2, <2>3, <2>4 DEF Window, Moves, process
<1>6. QED
  BY <1>1, <1>2, <1>3, <1>4, <1>5

(* Every step is one of a check, moves funds, or leaves both alone.            *)
LEMMA Kinds ==
  ASSUME Types, Next \/ Idles
  PROVE  \/ \E c \in Callers : Checks(c)
         \/ \E freed \in Nat : Moves(freed)
         \/ Leaves
<1> USE DEF redis, process, history, Begin, Leaves
<1>1. ASSUME Moves(wallet["tenant"].held) PROVE \E freed \in Nat : Moves(freed)
  <2>1. wallet["tenant"].held \in Nat
    BY WalletFields DEF Types, Prefixes
  <2>2. QED
    BY <1>1, <2>1
<1>2. CASE Hold \/ CacheExpires \/ Tick
  BY <1>2, MoveFacts DEF CacheExpires, Tick
<1>3. ASSUME NEW x \in Amounts, Configure(x) PROVE \E freed \in Nat : Moves(freed)
  BY <1>1, <1>3, MoveFacts
<1>4. ASSUME NEW a \in Admins, NEW to, NEW x, Start(a, to, x) PROVE Leaves
  BY <1>4 DEF Start
<1>5. ASSUME NEW a \in Admins, AdminStep(a) PROVE Leaves \/ \E freed \in Nat : Moves(freed)
  <2>1. CASE Credit(a) \/ Rebalance(a)
    BY <1>1, <2>1, MoveFacts
  <2>2. CASE CopyLegacy(a) \/ AdjustCost(a) \/ Revoke(a) \/ SetKeyBudget(a)
    BY <2>2 DEF CopyLegacy, AdjustCost, Revoke, SetKeyBudget
  <2>3. QED
    BY <1>5, <2>1, <2>2 DEF AdminStep
<1>6. ASSUME NEW p \in Prefixes, NEW x \in Costs, NEW r \in {0, Estimate}, Window(p, x, r)
      PROVE  \E freed \in Nat : Moves(freed)
  BY <1>6, MoveFacts, WalletAssumption
<1>7. CASE Idles
  BY <1>7 DEF Idles
<1>8. CASE Next
  BY <1>2, <1>3, <1>4, <1>5, <1>6, <1>8 DEF Next, StartTopUp, Prefixes, Checks
<1>9. QED
  BY <1>7, <1>8

(* A wallet, once there, stays.                                                *)
LEMMA WalletsStay ==
  ASSUME Types, Next \/ Idles, NEW p \in Prefixes, wallet[p].exists
  PROVE  wallet'[p].exists
<1>1. ASSUME NEW c \in Callers, Checks(c) PROVE wallet' = wallet
  BY <1>1 DEF Checks, Access, ReadRate, ReadBalance, ReadHeld, Allow, Fallback, Return, redis
<1>2. QED
  BY <1>1, Kinds DEF Moves, Leaves

(***************************************************************************)
(* The balance and its books.                                              *)
(***************************************************************************)
(* The wallet top_up has found is still there when it copies and credits.      *)
LEMMA TopUpsStep == Types /\ TopUps /\ (Next \/ Idles) => TopUps'
<1> SUFFICES ASSUME Types, TopUps, Next \/ Idles, NEW a \in Admins
             PROVE  /\ admin'[a].at = "topup" => wallet'[admin'[a].prefix].exists
                    /\ admin'[a].at = "credit" => admin'[a].copy.exists \/ wallet'["tenant"].exists
  BY DEF TopUps
<1>1. /\ admin[a] \in AdminStates /\ admin[a].prefix \in Prefixes /\ admin[a].copy \in Wallets
      /\ "tenant" \in Prefixes /\ admin \in [Admins -> AdminStates]
  BY DEF Types, AdminStates, Prefixes
<1>2. CASE admin'[a] = admin[a]
  BY <1>1, <1>2, WalletsStay DEF TopUps
<1>3. ASSUME NEW b \in Admins, NEW to, NEW x, Start(b, to, x), to = "topup" => wallet[ReadPrefix].exists,
             to # "credit", admin'[a] # admin[a]
      PROVE  /\ admin'[a].at = "topup" => wallet'[admin'[a].prefix].exists
             /\ admin'[a].at = "credit" => admin'[a].copy.exists \/ wallet'["tenant"].exists
  BY <1>1, <1>3 DEF Start, AdminStates, redis
<1>4. ASSUME NEW b \in Admins, CopyLegacy(b), admin'[a] # admin[a]
      PROVE  /\ admin'[a].at = "topup" => wallet'[admin'[a].prefix].exists
             /\ admin'[a].at = "credit" => admin'[a].copy.exists \/ wallet'["tenant"].exists
  <2>1. a = b /\ admin[a].at = "topup" /\ wallet' = wallet
    BY <1>1, <1>4 DEF CopyLegacy, redis
  <2>2. admin'[a].at = "credit" /\ admin'[a].copy = IF Migrates(a) THEN wallet["legacy"] ELSE NoWallet
    BY <1>1, <1>4, <2>1 DEF CopyLegacy, AdminStates
  <2>3. wallet[admin[a].prefix].exists
    BY <2>1 DEF TopUps
  <2>4. QED
    BY <1>1, <2>1, <2>2, <2>3 DEF Migrates, Prefixes
<1>5. ASSUME NEW b \in Admins, Credit(b) \/ AdjustCost(b) \/ Rebalance(b) \/ Revoke(b) \/ SetKeyBudget(b),
             admin'[a] # admin[a]
      PROVE  admin'[a].at \in {"idle", "rebalance"}
  <2>1. CASE AdjustCost(b)
    BY <1>1, <1>5, <2>1 DEF AdjustCost, AdminStates
  <2>2. CASE Credit(b) \/ Rebalance(b) \/ Revoke(b) \/ SetKeyBudget(b)
    <3>1. admin' = [admin EXCEPT ![b] = Resting]
      BY <2>2 DEF Credit, Rebalance, Revoke, SetKeyBudget
    <3>2. admin'[a] = Resting
      BY <1>1, <1>5, <3>1
    <3>3. QED
      BY <3>2 DEF Resting
  <2>3. QED
    BY <1>5, <2>1, <2>2
<1>6. ASSUME NEW b \in Admins, AdminStep(b), admin'[a] # admin[a]
      PROVE  /\ admin'[a].at = "topup" => wallet'[admin'[a].prefix].exists
             /\ admin'[a].at = "credit" => admin'[a].copy.exists \/ wallet'["tenant"].exists
  BY <1>4, <1>5, <1>6 DEF AdminStep
<1>7. ASSUME NEW c \in Callers, Checks(c) PROVE admin' = admin
  BY <1>7 DEF Checks, Access, ReadRate, ReadBalance, ReadHeld, Allow, Fallback, Return
<1>8. CacheExpires \/ Tick \/ Hold \/ Idles => admin' = admin
  BY DEF CacheExpires, Tick, Hold, Idles
<1>9. ASSUME NEW x, Configure(x) PROVE admin' = admin
  BY <1>9 DEF Configure
<1>10. ASSUME NEW p, NEW x, NEW r, Window(p, x, r) PROVE admin' = admin
  BY <1>10 DEF Window
<1>11. CASE Idles
  BY <1>2, <1>8, <1>11
<1>12. CASE Next
  BY <1>2, <1>3, <1>6, <1>7, <1>8, <1>9, <1>10, <1>12 DEF Next, StartTopUp, Checks
<1>13. QED
  BY <1>11, <1>12

(* The balance is what was paid in and taken out, whichever keys it is under.  *)
LEMMA BooksStep == Types /\ TopUps /\ Books /\ (Next \/ Idles) => Books'
<1> SUFFICES ASSUME Types, TopUps, Books, Next \/ Idles, ~torn' PROVE Books'
  BY DEF Books, TopUpKept, BooksBalance
<1> USE DEF Balanced
<1> DEFINE w0 == wallet[ReadPrefix]
           w1 == wallet'[ReadPrefix']
<1>0. /\ ReadPrefix \in Prefixes /\ w0 \in Wallets /\ (~torn => w0.balance = due /\ Balanced(w0))
      /\ \A p \in Prefixes : wallet[p] \in Wallets /\ wallet[p].exists \in BOOLEAN
      /\ "tenant" \in Prefixes
  <2>1. \A p \in Prefixes : wallet[p] \in Wallets
    BY DEF Types
  <2>2. QED
    BY <2>1, ReadPrefixFinds, WalletFields DEF Books, TopUpKept, BooksBalance, Prefixes
<1>1. ASSUME ~torn, w1.balance = due', Balanced(w1) PROVE Books'
  BY <1>1 DEF Books, TopUpKept, BooksBalance, Expected
<1>2. CASE UNCHANGED <<wallet, due, torn>>
  BY <1>2 DEF Books, TopUpKept, BooksBalance, ReadPrefix, Expected
<1>3. CASE Hold
  <2>1. wallet' = [wallet EXCEPT ![ReadPrefix].held = @ + Estimate] /\ due' = due /\ torn' = torn
    BY <1>3 DEF Hold, history
  <2>2. \A p \in Prefixes : /\ wallet'[p].balance = wallet[p].balance /\ wallet'[p].debt = wallet[p].debt
                            /\ wallet'[p].initial = wallet[p].initial /\ wallet'[p].topups = wallet[p].topups
                            /\ wallet'[p].deducted = wallet[p].deducted
                            /\ wallet'[p].adjusted = wallet[p].adjusted /\ wallet'[p].exists = wallet[p].exists
    BY <1>0, <2>1 DEF Types, Wallets
  <2>3. ReadPrefix' = ReadPrefix
    BY <1>0, <2>2 DEF ReadPrefix, Prefixes
  <2>4. QED
    BY <1>0, <1>1, <2>1, <2>2, <2>3 DEF Expected
<1>4. ASSUME NEW x \in Amounts, Configure(x) PROVE Books'
  <2>1. wallet'["tenant"] = Fresh(x) /\ due' = x /\ ~torn
    BY <1>0, <1>4 DEF Configure, Types
  <2>2. Fresh(x).exists /\ Fresh(x).balance = x /\ Balanced(Fresh(x))
    BY FreshFields, WalletAssumption
  <2>3. ReadPrefix' = "tenant"
    BY <2>1, <2>2 DEF ReadPrefix
  <2>4. QED
    BY <1>1, <2>1, <2>2, <2>3
<1>5. ASSUME NEW a \in Admins, Credit(a) PROVE Books'
  <2> DEFINE from == IF admin[a].copy.exists THEN admin[a].copy ELSE wallet["tenant"]
             d == Credited(wallet["tenant"], a)
  <2>1. /\ ~torn /\ admin[a].at = "credit" /\ wallet'["tenant"] = d /\ due' = due + admin[a].amount
        /\ admin[a].copy.exists => ~wallet["tenant"].exists /\ wallet["legacy"] = admin[a].copy
    BY <1>0, <1>5 DEF Credit, Types
  <2>2. admin[a].copy \in Wallets /\ admin[a].amount \in Int
    BY DEF Types, AdminStates
  <2>3. from = w0
    BY <2>1 DEF ReadPrefix, TopUps
  <2>4. d.exists /\ d.balance = from.balance + admin[a].amount /\ (Balanced(from) => Balanced(d))
    BY <1>0, <2>2, CreditedFields
  <2>5. ReadPrefix' = "tenant"
    BY <2>1, <2>4 DEF ReadPrefix
  <2> HIDE DEF from, d
  <2>6. QED
    BY <1>0, <1>1, <2>1, <2>3, <2>4, <2>5
<1>6. ASSUME NEW a \in Admins, Rebalance(a), ~UNCHANGED <<wallet, due, torn>> PROVE Books'
  <2> DEFINE d == Rebalanced(w0, admin[a].amount)
  <2>1. /\ ~torn /\ wallet' = [wallet EXCEPT ![ReadPrefix] = d] /\ due' = due - admin[a].amount
    BY <1>6 DEF Rebalance
  <2>2. admin[a].amount \in Int
    BY DEF Types, AdminStates
  <2>3. d.exists = w0.exists /\ d.balance = w0.balance - admin[a].amount /\ (Balanced(w0) => Balanced(d))
    BY <1>0, <2>2, RebalancedFields
  <2> HIDE DEF d
  <2>4. wallet'[ReadPrefix] = d /\ \A p \in Prefixes : wallet'[p].exists = wallet[p].exists
    BY <1>0, <2>1, <2>3 DEF Types
  <2>5. ReadPrefix' = ReadPrefix
    BY <1>0, <2>4 DEF ReadPrefix, Prefixes
  <2>6. QED
    BY <1>0, <1>1, <2>1, <2>3, <2>4, <2>5
<1>7. ASSUME NEW p \in Prefixes, NEW x \in Costs, NEW r \in {0, Estimate}, Window(p, x, r) PROVE Books'
  <2> DEFINE d == Deducted(w0, x, r)
  <2>1. /\ ~torn /\ p = ReadPrefix /\ w0.exists /\ r <= w0.held
        /\ wallet' = [wallet EXCEPT ![ReadPrefix] = d] /\ due' = Larger(due - x, 0)
    BY <1>7 DEF Window
  <2>2. x \in Nat /\ r \in Nat
    BY WalletAssumption
  <2>3. d.exists = w0.exists /\ d.balance = Larger(w0.balance - x, 0) /\ (Balanced(w0) => Balanced(d))
    <3> HIDE DEF w0
    <3>1. d.exists = w0.exists
      BY <1>0, <2>1, <2>2, DeductedFields
    <3>2. d.balance = Larger(w0.balance - x, 0)
      BY <1>0, <2>1, <2>2, DeductedFields
    <3>3. Balanced(w0) => Balanced(d)
      BY <1>0, <2>1, <2>2, DeductedFields
    <3>4. QED
      BY <3>1, <3>2, <3>3
  <2> HIDE DEF d
  <2>4. wallet'[ReadPrefix] = d /\ \A q \in Prefixes : wallet'[q].exists = wallet[q].exists
    BY <1>0, <2>1, <2>3 DEF Types
  <2>5. ReadPrefix' = ReadPrefix
    BY <1>0, <2>4 DEF ReadPrefix, Prefixes
  <2>6. QED
    BY <1>0, <1>1, <2>1, <2>3, <2>4, <2>5
<1>8. ASSUME NEW c \in Callers, Checks(c) PROVE UNCHANGED <<wallet, due, torn>>
  BY <1>8 DEF Checks, Access, ReadRate, ReadBalance, ReadHeld, Allow, Fallback, Return, redis, history
<1>9. CacheExpires \/ Tick \/ Idles => UNCHANGED <<wallet, due, torn>>
  BY DEF CacheExpires, Tick, Idles, redis, history
<1>10. ASSUME NEW a \in Admins, NEW to, NEW x, Start(a, to, x) PROVE UNCHANGED <<wallet, due, torn>>
  BY <1>10 DEF Start, redis, history
<1>11. ASSUME NEW a \in Admins, AdminStep(a) PROVE Books'
  <2>1. CopyLegacy(a) \/ AdjustCost(a) \/ Revoke(a) \/ SetKeyBudget(a) => UNCHANGED <<wallet, due, torn>>
    BY DEF CopyLegacy, AdjustCost, Revoke, SetKeyBudget, redis, history
  <2>2. QED
    BY <1>2, <1>5, <1>6, <1>11, <2>1 DEF AdminStep
<1>12. CASE Idles
  BY <1>2, <1>9, <1>12
<1>13. CASE Next
  BY <1>2, <1>3, <1>4, <1>7, <1>8, <1>9, <1>10, <1>11, <1>13 DEF Next, StartTopUp, Checks, Prefixes
<1>14. QED
  BY <1>12, <1>13

(* Nobody creates the legacy wallet or sets its balance: windows, rerates and  *)
(* holds are all that happens to it.                                           *)
LEMMA AuditedStep == Types /\ Audited /\ (Next \/ Idles) => Audited'
<1> SUFFICES ASSUME Types, Audited, Next \/ Idles PROVE Audited'
  OBVIOUS
<1> DEFINE w == wallet["legacy"]
<1> USE DEF Audited, Balanced
<1>0. w \in Wallets /\ "legacy" \in Prefixes /\ "tenant" \in Prefixes
  BY DEF Types, Prefixes
<1>1. CASE wallet'["legacy"] = w
  BY <1>1 DEF Expected
<1>2. CASE Hold
  <2>1. wallet' = [wallet EXCEPT ![ReadPrefix].held = @ + Estimate]
    BY <1>2 DEF Hold
  <2>2. LET v == wallet'["legacy"] IN
        /\ v.balance = w.balance /\ v.debt = w.debt /\ v.initial = w.initial /\ v.topups = w.topups
        /\ v.deducted = w.deducted /\ v.adjusted = w.adjusted /\ v.exists = w.exists
    BY <1>0, <2>1 DEF Types, Wallets
  <2>3. QED
    BY <2>2 DEF Expected
<1>3. ASSUME NEW x \in Amounts, Configure(x) PROVE Audited'
  <2>1. wallet'["legacy"] = w
    BY <1>0, <1>3 DEF Configure, Types
  <2>2. QED
    BY <1>1, <2>1
<1>4. ASSUME NEW a \in Admins, AdminStep(a) PROVE Audited'
  <2>1. CASE CopyLegacy(a) \/ AdjustCost(a) \/ Revoke(a) \/ SetKeyBudget(a)
    BY <1>1, <2>1 DEF CopyLegacy, AdjustCost, Revoke, SetKeyBudget, redis
  <2>2. CASE Credit(a)
    <3>1. wallet'["legacy"] = w
      BY <1>0, <2>2 DEF Credit, Types
    <3>2. QED
      BY <1>1, <3>1
  <2>3. CASE Rebalance(a)
    <3>1. PICK p \in Prefixes : wallet' = wallet \/ wallet' = [wallet EXCEPT ![p] = Rebalanced(@, admin[a].amount)]
      BY <2>3 DEF Rebalance, Types, AdminStates
    <3>2. CASE wallet' = [wallet EXCEPT !["legacy"] = Rebalanced(w, admin[a].amount)]
      <4> DEFINE d == Rebalanced(w, admin[a].amount)
      <4>1. admin[a].amount \in Int
        BY DEF Types, AdminStates
      <4>2. d.exists = w.exists /\ (Balanced(w) => Balanced(d))
        BY <1>0, <4>1, RebalancedFields
      <4>3. wallet'["legacy"] = d
        BY <1>0, <3>2 DEF Types
      <4> HIDE DEF d
      <4>4. QED
        BY <4>2, <4>3 DEF Expected
    <3>3. QED
      BY <1>0, <1>1, <3>1, <3>2 DEF Types, Prefixes
  <2>4. QED
    BY <1>4, <2>1, <2>2, <2>3 DEF AdminStep
<1>5. ASSUME NEW p \in Prefixes, NEW x \in Costs, NEW r \in {0, Estimate}, Window(p, x, r) PROVE Audited'
  <2> DEFINE d == Deducted(w, x, r)
  <2>1. x \in Nat /\ r \in Nat /\ r <= wallet[p].held /\ wallet' = [wallet EXCEPT ![p] = Deducted(@, x, r)]
    BY <1>5, WalletAssumption DEF Window
  <2>2. CASE p = "legacy"
    <3>1. d.exists = w.exists
      BY <1>0, <2>1, <2>2, DeductedFields
    <3>2. w.exists => (Balanced(w) => Balanced(d))
      BY <1>0, <2>1, <2>2, DeductedFields
    <3>3. wallet'["legacy"] = d
      BY <1>0, <2>1, <2>2 DEF Types
    <3> HIDE DEF d
    <3>4. QED
      BY <3>1, <3>2, <3>3 DEF Expected
  <2>3. QED
    BY <1>0, <1>1, <2>1, <2>2 DEF Types, Prefixes
<1>6. ASSUME NEW c \in Callers, Checks(c) PROVE wallet' = wallet
  BY <1>6 DEF Checks, Access, ReadRate, ReadBalance, ReadHeld, Allow, Fallback, Return, redis
<1>7. CacheExpires \/ Tick \/ Idles => wallet' = wallet
  BY DEF CacheExpires, Tick, Idles, redis
<1>8. ASSUME NEW a \in Admins, NEW to, NEW x, Start(a, to, x) PROVE wallet' = wallet
  BY <1>8 DEF Start, redis
<1>9. QED
  BY <1>1, <1>2, <1>3, <1>4, <1>5, <1>6, <1>7, <1>8 DEF Next, StartTopUp, Checks, Prefixes

(***************************************************************************)
(* What checks have read.                                                  *)
(***************************************************************************)
\* The record of a caller after funds have moved.
Watching(c, freed) ==
  IF call[c].at \notin {"rate", "balance", "held"} THEN call[c]
  ELSE [call[c] EXCEPT !.cover = Larger(@ + freed, Effective(wallet'[ReadPrefix']))]

(* Moving funds changes nothing of what callers have read, and keeps them      *)
(* covered: what is free now, and what a hold gave back.                       *)
LEMMA WatchingFields ==
  ASSUME Types, NEW freed \in Nat, Moves(freed), NEW c \in Callers
  PROVE  /\ call'[c].at = call[c].at /\ call'[c].minute = call[c].minute
         /\ call'[c].balance = call[c].balance /\ call'[c].prefix = call[c].prefix
         /\ call'[c].funded = call[c].funded
         /\ call[c].at \notin {"rate", "balance", "held"} => call'[c].cover = call[c].cover
         /\ call[c].at \in {"rate", "balance", "held"}
            => /\ call[c].cover + freed <= call'[c].cover
               /\ Effective(wallet'[ReadPrefix']) <= call'[c].cover
<1>1. call'[c] = Watching(c, freed)
  BY DEF Moves, Watched, Watching
<1>2. wallet'[ReadPrefix'] \in Wallets /\ call[c] \in Calls
  BY DEF Types, Moves, ReadPrefix, Prefixes
<1>3. Effective(wallet'[ReadPrefix']) \in Int /\ call[c].cover \in Int
  BY <1>2, WalletFields DEF Calls
<1>4. QED
  BY <1>1, <1>2, <1>3 DEF Watching, Larger, Calls

(* A check, its balance, its holds and its fallback stay covered.              *)
LEMMA ReadingStep == Types /\ Reading /\ (Next \/ Idles) => Reading'
<1> SUFFICES ASSUME Types, Reading, Next \/ Idles PROVE Reading'
  OBVIOUS
<1>0. /\ \A c \in Callers : /\ call[c] \in Calls /\ call[c].balance \in Int /\ call[c].prefix \in Prefixes
                            /\ call[c].cover \in Int /\ call[c].funded \in BOOLEAN
      /\ \A p \in Prefixes : wallet[p] \in Wallets /\ wallet[p].balance \in Int /\ wallet[p].held \in Nat
      /\ ReadPrefix \in Prefixes /\ Effective(wallet[ReadPrefix]) \in Int
      /\ call \in [Callers -> Calls] /\ cache.seen \in Int /\ cache.cover \in Int /\ Estimate \in Nat
  <2>1. \A p \in Prefixes : wallet[p] \in Wallets
    BY DEF Types
  <2>2. ReadPrefix \in Prefixes
    BY DEF ReadPrefix, Prefixes
  <2>3. \A p \in Prefixes : wallet[p].balance \in Int /\ wallet[p].held \in Nat /\ Effective(wallet[p]) \in Int
    BY <2>1, WalletFields
  <2>4. \A c \in Callers : call[c] \in Calls
    BY DEF Types
  <2>5. \A c \in Callers : /\ call[c].balance \in Int /\ call[c].prefix \in Prefixes
                           /\ call[c].cover \in Int /\ call[c].funded \in BOOLEAN
    BY <2>4 DEF Calls
  <2>6. call \in [Callers -> Calls] /\ cache.seen \in Int /\ cache.cover \in Int /\ Estimate \in Nat
    BY WalletAssumption DEF Types
  <2>7. QED
    BY <2>1, <2>2, <2>3, <2>4, <2>5, <2>6
<1>1. ASSUME NEW freed \in Nat, Moves(freed) PROVE Reading'
  <2>1. ASSUME NEW c \in Callers PROVE Covered(c)'
    <3>1. Covered(c)
      BY DEF Reading
    <3>2. wallet[call[c].prefix].held - freed <= wallet'[call[c].prefix].held
      BY <1>0, <1>1 DEF Moves
    <3>3. wallet'[call[c].prefix].held \in Nat
      BY <1>0, <1>1, WalletFields DEF Moves
    <3>4. call'[c].cover \in Int
      BY <1>1, TypesStep DEF Types, Calls
    <3>5. QED
      BY <1>0, <1>1, <3>1, <3>2, <3>3, <3>4, WatchingFields DEF Covered
  <2>2. QED
    BY <1>1, <2>1 DEF Moves, Reading, NoEntry
<1>2. CASE Leaves
  <2>1. ReadPrefix' = ReadPrefix
    BY <1>2 DEF Leaves, ReadPrefix
  <2>2. QED
    BY <1>2, <2>1 DEF Leaves, Reading, Covered, Effective, NoEntry
<1>3. ASSUME NEW c \in Callers, wallet' = wallet, \A d \in Callers \ {c} : call'[d] = call[d], Covered(c)',
             cache'.exists => cache'.seen <= cache'.cover
      PROVE  Reading'
  <2>1. ReadPrefix' = ReadPrefix
    BY <1>3 DEF ReadPrefix
  <2>2. ASSUME NEW d \in Callers \ {c} PROVE Covered(d)'
    BY <1>3, <2>1, <2>2 DEF Reading, Covered, Effective
  <2>3. QED
    BY <1>3, <2>2 DEF Reading
<1> DEFINE Kept(c) == wallet' = wallet /\ cache' = cache /\ \A d \in Callers \ {c} : call'[d] = call[d]
<1>4. ASSUME NEW c \in Callers, Access(c) PROVE Reading'
  <2>1. Kept(c) /\ ReadPrefix' = ReadPrefix
    BY <1>0, <1>4 DEF Access, redis, process, ReadPrefix
  <2>2. \/ call'[c].at = "idle"
        \/ call'[c].at = "rate" /\ call'[c].cover = Effective(wallet[ReadPrefix])
    BY <1>0, <1>4 DEF Access, Calling, Calls
  <2>3. QED
    BY <1>0, <1>3, <2>1, <2>2 DEF Covered, Effective, Reading
<1>5. ASSUME NEW c \in Callers, ReadRate(c) PROVE Reading'
  <2>1. Kept(c) /\ ReadPrefix' = ReadPrefix
    BY <1>0, <1>5 DEF ReadRate, redis, process, ReadPrefix
  <2>2. \/ call'[c].at = "idle"
        \/ call[c].at = "rate" /\ call'[c].at = "balance" /\ call'[c].cover = call[c].cover
    BY <1>0, <1>5 DEF ReadRate, Calling, Calls
  <2>3. QED
    BY <1>0, <1>3, <2>1, <2>2 DEF Covered, Effective, Reading
<1>6. ASSUME NEW c \in Callers, ReadBalance(c) PROVE Reading'
  <2>1. Kept(c) /\ ReadPrefix' = ReadPrefix
    BY <1>0, <1>6 DEF ReadBalance, redis, process, ReadPrefix
  <2>2. /\ call[c].at = "balance" /\ call'[c].cover = call[c].cover
        /\ \/ call'[c].at = "count" /\ ~call'[c].funded
           \/ /\ call'[c].at = "held" /\ call'[c].prefix = ReadPrefix
              /\ call'[c].balance = wallet[ReadPrefix].balance
    BY <1>0, <1>6 DEF ReadBalance, Calls
  <2>3. QED
    BY <1>0, <1>3, <2>1, <2>2 DEF Covered, Effective, Reading
<1>7. ASSUME NEW c \in Callers, ReadHeld(c) PROVE Reading'
  <2>1. /\ wallet' = wallet /\ ReadPrefix' = ReadPrefix /\ \A d \in Callers \ {c} : call'[d] = call[d]
        /\ call[c].at = "held" /\ cache' = [exists |-> TRUE, seen |-> Seen(c), cover |-> call[c].cover]
    BY <1>0, <1>7 DEF ReadHeld, redis, ReadPrefix
  <2>2. Seen(c) <= call[c].cover
    BY <1>0, <2>1 DEF Seen, Reading, Covered
  <2>3. \/ call' = [call EXCEPT ![c] = Calling]
        \/ call' = [call EXCEPT ![c] = [@ EXCEPT !.at = "count"]] /\ Covers(Seen(c))
    BY <1>7, Zenon DEF ReadHeld
  <2>4. \/ call'[c].at = "idle"
        \/ call'[c].at = "count" /\ call'[c].cover = call[c].cover /\ Estimate <= Seen(c)
    BY <1>0, <2>3 DEF Calling, Calls, Covers
  <2>5. Seen(c) \in Int
    BY <1>0 DEF Seen
  <2>6. QED
    BY <1>0, <1>3, <2>1, <2>2, <2>4, <2>5 DEF Covered
<1>8. ASSUME NEW c \in Callers, Allow(c) \/ Return(c) PROVE Reading'
  <2>1. Kept(c) /\ call'[c].at = "idle"
    BY <1>0, <1>8 DEF Allow, Return, Calling, redis, process
  <2>2. QED
    BY <1>3, <2>1 DEF Covered, Reading
<1>9. ASSUME NEW c \in Callers, Fallback(c) PROVE Reading'
  <2>1. Kept(c)
    BY <1>0, <1>9 DEF Fallback, redis, process
  <2>2. \/ call'[c].at = "idle"
        \/ call'[c].at = "trusted" /\ call'[c].cover = cache.cover /\ cache.exists /\ Estimate <= cache.seen
    BY <1>0, <1>9 DEF Fallback, Calling, Calls, Covers
  <2>3. QED
    BY <1>0, <1>3, <2>1, <2>2 DEF Covered, Reading
<1>10. QED
  BY <1>1, <1>2, <1>4, <1>5, <1>6, <1>7, <1>8, <1>9, Kinds DEF Checks

(***************************************************************************)
(* The rate limit.                                                         *)
(***************************************************************************)
(* The checks of a minute are finitely many, at most one for each handler.     *)
LEMMA Countable ==
  ASSUME NEW m
  PROVE  /\ IsFiniteSet(Busy(m)) /\ Cardinality(Busy(m)) \in Nat
         /\ IsFiniteSet(Passed(m)) /\ Cardinality(Passed(m)) \in Nat
         /\ Cardinality(Passed(m)) <= Cardinality(Callers) /\ Cardinality(Callers) \in Nat
<1>1. Busy(m) \subseteq Callers /\ Passed(m) \subseteq Callers /\ IsFiniteSet(Callers)
  BY WalletAssumption DEF Busy, Passed
<1>2. QED
  BY <1>1, FS_Subset, FS_CardinalityType

(* Less is counted of fewer checks.                                            *)
LEMMA CountsSubset ==
  ASSUME NEW S, NEW T, IsFiniteSet(T), S \subseteq T
  PROVE  Cardinality(S) <= Cardinality(T) /\ Cardinality(S) \in Nat
BY FS_Subset, FS_CardinalityType

(* A check enters the count of its minute as it leaves the checks under way.   *)
LEMMA RatesStep == Types /\ Rates /\ (Next \/ Idles) => Rates'
<1> SUFFICES ASSUME Types, Rates, Next \/ Idles PROVE Rates'
  OBVIOUS
<1> DEFINE Spare == Limit + Cardinality(Callers) - 1
           Never == ~AnyWallet' => (\A m \in Minutes : funded'[m] = 0) /\ \A c \in Callers : ~call'[c].funded
           Fits(m) == /\ funded'[m] <= count'[m] /\ count'[m] + Cardinality(Busy(m)') <= ops'
                      /\ funded'[m] + Cardinality(Passed(m)') <= Spare
<1>0. /\ ops \in Nat /\ Limit \in Nat \ {0} /\ Spare \in Nat
      /\ \A m \in Minutes : /\ count[m] \in Nat /\ funded[m] \in Nat /\ funded[m] <= count[m]
                            /\ count[m] + Cardinality(Busy(m)) <= ops
                            /\ funded[m] + Cardinality(Passed(m)) <= Spare
      /\ call \in [Callers -> Calls] /\ \A c \in Callers : call[c] \in Calls /\ call[c].minute \in Minutes
  BY Countable, WalletAssumption DEF Types, Rates, Calls
<1>1. ASSUME Never, \A m \in Minutes : Fits(m) PROVE Rates'
  BY <1>1 DEF Rates, AnyWallet, Busy, Passed
<1>2. AnyWallet => AnyWallet'
  BY WalletsStay DEF AnyWallet, Prefixes
<1>3. ASSUME UNCHANGED <<count, funded>>, ops' \in {ops, ops + 1},
             \A c \in Callers : /\ call'[c].at = call[c].at /\ call'[c].minute = call[c].minute
                                /\ call'[c].funded = call[c].funded
      PROVE  Rates'
  <2>1. \A m : Busy(m)' = Busy(m) /\ Passed(m)' = Passed(m)
    BY <1>3 DEF Busy, Passed
  <2>2. \A m \in Minutes : Fits(m)
    BY <1>0, <1>3, <2>1, Countable
  <2>3. Never
    BY <1>2, <1>3 DEF Rates
  <2>4. QED
    BY <1>1, <2>2, <2>3
<1>4. ASSUME NEW freed \in Nat, Moves(freed) PROVE Rates'
  BY <1>3, <1>4, WatchingFields DEF Moves
<1>5. CASE Leaves
  BY <1>3, <1>5 DEF Leaves
<1>6. ASSUME NEW c \in Callers, Access(c) PROVE Rates'
  <2>1. /\ UNCHANGED <<count, funded>> /\ ops' = ops + 1 /\ call[c].at = "idle"
        /\ \/ call'[c].at = "idle" /\ ~call'[c].funded
           \/ call'[c].at = "rate" /\ call'[c].minute = clock /\ call'[c].funded = call[c].funded
        /\ \A d \in Callers \ {c} : call'[d] = call[d]
    <3>1. /\ UNCHANGED <<count, funded>> /\ ops' = ops + 1 /\ call[c].at = "idle"
          /\ \A d \in Callers \ {c} : call'[d] = call[d]
      BY <1>0, <1>6 DEF Access, Begin, history, redis
    <3>2. CASE Refused(c)
      <4>1. call'[c] = Calling
        BY <1>0, <1>6, <3>2 DEF Access
      <4>2. call'[c].at = "idle" /\ ~call'[c].funded
        BY <4>1 DEF Calling
      <4>3. QED
        BY <3>1, <4>2
    <3>3. CASE ~Refused(c)
      <4>1. call'[c].at = "rate" /\ call'[c].minute = clock /\ call'[c].funded = call[c].funded
        BY <1>0, <1>6, <3>3 DEF Access, Calls
      <4>2. QED
        BY <3>1, <4>1
    <3>4. QED
      BY <3>2, <3>3
  <2>2. ASSUME NEW m \in Minutes PROVE Fits(m)
    <3>1. Busy(m)' \subseteq Busy(m) \cup {c} /\ Passed(m)' \subseteq Passed(m)
      BY <2>1 DEF Busy, Passed
    <3>2. c \notin Busy(m)
      BY <2>1 DEF Busy
    <3>3. IsFiniteSet(Busy(m) \cup {c}) /\ Cardinality(Busy(m) \cup {c}) = Cardinality(Busy(m)) + 1
      BY <3>2, Countable, FS_AddElement
    <3>4. /\ Cardinality(Busy(m)') <= Cardinality(Busy(m)) + 1 /\ Cardinality(Busy(m)') \in Nat
          /\ Cardinality(Passed(m)') <= Cardinality(Passed(m)) /\ Cardinality(Passed(m)') \in Nat
      BY <3>1, <3>3, Countable, CountsSubset
    <3>5. QED
      BY <1>0, <2>1, <3>4, Countable
  <2>3. Never
    BY <1>2, <2>1 DEF Rates
  <2>4. QED
    BY <1>1, <2>2, <2>3
<1>7. ASSUME NEW c \in Callers, UNCHANGED <<count, funded, ops>>, \A d \in Callers \ {c} : call'[d] = call[d],
             call[c].at # "idle", call'[c].at # "idle" => call'[c].minute = call[c].minute,
             AnyWallet' \/ ~call'[c].funded
      PROVE  /\ Never /\ \A m \in Minutes : count'[m] + Cardinality(Busy(m)') <= ops'
             /\ \A m \in Minutes : Passed(m)' \subseteq Passed(m) => Fits(m)
  <2>1. \A m : Busy(m)' \subseteq Busy(m)
    BY <1>7 DEF Busy
  <2>2. \A m \in Minutes : Cardinality(Busy(m)') <= Cardinality(Busy(m)) /\ Cardinality(Busy(m)') \in Nat
    BY <2>1, Countable, CountsSubset
  <2>3. \A m \in Minutes : Passed(m)' \subseteq Passed(m)
          => Cardinality(Passed(m)') <= Cardinality(Passed(m)) /\ Cardinality(Passed(m)') \in Nat
    BY Countable, CountsSubset
  <2>4. Never
    BY <1>2, <1>7 DEF Rates
  <2>5. QED
    BY <1>0, <1>7, <2>2, <2>3, <2>4, Countable
<1>8. ASSUME NEW c \in Callers, ReadRate(c) PROVE Rates'
  <2>1. /\ UNCHANGED <<count, funded, ops>> /\ \A d \in Callers \ {c} : call'[d] = call[d]
        /\ call[c].at = "rate"
        /\ \/ call'[c].at = "idle" /\ ~call'[c].funded
           \/ /\ call'[c].at = "balance" /\ call'[c].minute = call[c].minute
              /\ call'[c].funded = call[c].funded /\ ~OverLimit(count[call[c].minute])
    BY <1>0, <1>8 DEF ReadRate, redis, history, Calling, Calls
  <2>2. AnyWallet' \/ ~call'[c].funded
    BY <1>2, <2>1 DEF Rates
  <2>3. ASSUME NEW m \in Minutes PROVE Fits(m)
    <3>1. CASE Passed(m)' \subseteq Passed(m)
      BY <1>7, <2>1, <2>2, <3>1
    <3>2. CASE ~(Passed(m)' \subseteq Passed(m))
      <4>1. m = call[c].minute /\ ~OverLimit(count[m])
        BY <2>1, <3>2 DEF Passed
      <4>2. funded[m] <= Limit - 1
        BY <1>0, <4>1, ReadPrefixFinds DEF OverLimit, Rates
      <4>3. Passed(m)' \subseteq Callers
        BY DEF Passed
      <4>4. Cardinality(Passed(m)') <= Cardinality(Callers) /\ Cardinality(Passed(m)') \in Nat
        BY <4>3, CountsSubset, WalletAssumption
      <4>5. count'[m] + Cardinality(Busy(m)') <= ops'
        BY <1>7, <2>1, <2>2
      <4>6. QED
        BY <1>0, <2>1, <4>2, <4>4, <4>5, Countable
    <3>3. QED
      BY <3>1, <3>2
  <2>4. QED
    BY <1>1, <1>7, <2>1, <2>2, <2>3
<1>9. ASSUME NEW c \in Callers, ReadBalance(c) \/ ReadHeld(c) \/ Fallback(c) \/ Return(c) PROVE Rates'
  <2>1. UNCHANGED <<count, funded, ops>> /\ \A d \in Callers \ {c} : call'[d] = call[d]
    BY <1>0, <1>9 DEF ReadBalance, ReadHeld, Fallback, Return, redis, history
  <2>2. CASE ReadBalance(c)
    <3>1. /\ call[c].at = "balance" /\ call'[c].at \in {"held", "count"} /\ call'[c].minute = call[c].minute
          /\ call'[c].funded = wallet[ReadPrefix].exists
      BY <1>0, <2>2 DEF ReadBalance, Calls
    <3>2. AnyWallet' \/ ~call'[c].funded
      BY <1>2, <3>1, ReadPrefixFinds
    <3>3. \A m : Passed(m)' \subseteq Passed(m)
      BY <2>1, <3>1 DEF Passed
    <3>4. QED
      BY <1>1, <1>7, <2>1, <3>1, <3>2, <3>3
  <2>3. CASE ReadHeld(c) \/ Fallback(c) \/ Return(c)
    <3>2. /\ call[c].at \in {"held", "rate", "balance", "count", "trusted"}
          /\ \/ call'[c].at = "idle" /\ ~call'[c].funded
             \/ /\ call'[c].minute = call[c].minute /\ call'[c].funded = call[c].funded
                /\ call'[c].at = "trusted" \/ (call'[c].at = "count" /\ call[c].at = "held")
      <4>1. CASE ReadHeld(c)
        <5>1. \/ call' = [call EXCEPT ![c] = Calling]
              \/ call' = [call EXCEPT ![c] = [@ EXCEPT !.at = "count"]]
          BY <4>1, Zenon DEF ReadHeld
        <5>2. QED
          <6>1. CASE call' = [call EXCEPT ![c] = Calling]
            BY <1>0, <4>1, <6>1 DEF ReadHeld, Calling
          <6>2. CASE call' = [call EXCEPT ![c] = [@ EXCEPT !.at = "count"]]
            BY <1>0, <4>1, <6>2 DEF ReadHeld, Calls
          <6>3. QED
            BY <5>1, <6>1, <6>2
      <4>2. CASE Fallback(c) \/ Return(c)
        <5>1. CASE call' = [call EXCEPT ![c] = Calling]
          BY <1>0, <4>2, <5>1 DEF Fallback, Return, Calling
        <5>2. CASE call' = [call EXCEPT ![c] = [@ EXCEPT !.at = "trusted", !.cover = cache.cover]]
          <6>1. call'[c] = [call[c] EXCEPT !.at = "trusted", !.cover = cache.cover]
            BY <1>0, <5>2
          <6>2. /\ call'[c].at = "trusted" /\ call'[c].minute = call[c].minute
                /\ call'[c].funded = call[c].funded
            BY <1>0, <6>1 DEF Calls
          <6>3. call[c].at \in {"held", "rate", "balance", "count", "trusted"}
            BY <4>2 DEF Fallback, Return
          <6>4. QED
            BY <6>2, <6>3
        <5>3. QED
          BY <4>2, <5>1, <5>2 DEF Fallback, Return
      <4>3. QED
        BY <2>3, <4>1, <4>2
    <3>3. AnyWallet' \/ ~call'[c].funded
      BY <1>2, <3>2 DEF Rates
    <3>4. \A m : Passed(m)' \subseteq Passed(m)
      BY <2>1, <3>2 DEF Passed
    <3>5. QED
      BY <1>1, <1>7, <2>1, <3>2, <3>3, <3>4
  <2>4. QED
    BY <1>9, <2>2, <2>3
<1>10. ASSUME NEW c \in Callers, Allow(c) PROVE Rates'
  <2>0. PICK n \in Minutes : n = call[c].minute
    BY <1>0
  <2>1. /\ ops' = ops /\ wallet' = wallet /\ call[c].at = "count"
        /\ call'[c].at = "idle" /\ ~call'[c].funded /\ \A d \in Callers \ {c} : call'[d] = call[d]
    BY <1>0, <1>10 DEF Allow, Calling
  <2>2. /\ count'[n] = count[n] + 1 /\ \A m \in Minutes : m # n => count'[m] = count[m] /\ funded'[m] = funded[m]
    BY <1>0, <1>10, <2>0, <2>1 DEF Allow, Types
  <2>3. funded'[n] = funded[n] + IF call[c].funded THEN 1 ELSE 0
    BY <1>0, <1>10, <2>0, <2>1 DEF Allow, Types
  <2>4. ASSUME NEW m \in Minutes, m # n PROVE Fits(m)
    <3>1. Busy(m)' \subseteq Busy(m) /\ Passed(m)' \subseteq Passed(m)
      BY <2>0, <2>1, <2>4 DEF Busy, Passed
    <3>2. /\ Cardinality(Busy(m)') <= Cardinality(Busy(m)) /\ Cardinality(Busy(m)') \in Nat
          /\ Cardinality(Passed(m)') <= Cardinality(Passed(m)) /\ Cardinality(Passed(m)') \in Nat
      BY <3>1, Countable, CountsSubset
    <3>3. QED
      BY <1>0, <2>1, <2>2, <2>4, <3>2, Countable
  <2>5. Fits(n)
    <3>1. /\ Busy(n)' = Busy(n) \ {c} /\ Passed(n)' = Passed(n) \ {c} /\ c \in Busy(n) /\ c \in Passed(n)
      BY <2>0, <2>1 DEF Busy, Passed
    <3>2. /\ Cardinality(Busy(n)') = Cardinality(Busy(n)) - 1
          /\ Cardinality(Passed(n)') = Cardinality(Passed(n)) - 1
      BY <3>1, Countable, FS_RemoveElement, ZenonT(60)
    <3>3. QED
      BY <1>0, <2>1, <2>2, <2>3, <3>2, Countable
  <2>6. Never
    BY <1>2, <2>1, <2>2, <2>3 DEF Rates
  <2>7. QED
    BY <1>1, <2>4, <2>5, <2>6
<1>11. QED
  BY <1>4, <1>5, <1>6, <1>8, <1>9, <1>10, Kinds DEF Checks

(***************************************************************************)
(* The key.                                                                *)
(***************************************************************************)
(* A revocation is not written over by a change that read the key before it.   *)
LEMMA KeyOutStep == Types /\ KeyOut /\ (Next \/ Idles) => KeyOut'
<1> SUFFICES ASSUME Types, KeyOut, Next \/ Idles, out' PROVE KeyOut'
  BY DEF KeyOut
<1>0. /\ admin \in [Admins -> AdminStates] /\ \A a \in Admins : admin[a] \in AdminStates /\ admin[a].meta \in Metas
      /\ meta.revoked \in BOOLEAN
  BY DEF Types, AdminStates, Metas
<1>1. CASE UNCHANGED <<meta, admin, out>>
  BY <1>1 DEF KeyOut
<1>2. ASSUME NEW a \in Admins, NEW to, NEW x, Start(a, to, x) PROVE KeyOut'
  <2>1. /\ UNCHANGED <<meta, out>> /\ out /\ meta.revoked
        /\ admin' = [admin EXCEPT ![a] = [@ EXCEPT !.at = to, !.amount = x, !.prefix = ReadPrefix, !.meta = meta]]
    BY <1>2 DEF Start, redis, history, KeyOut
  <2>2. admin'[a].meta = meta /\ \A b \in Admins \ {a} : admin'[b] = admin[b]
    BY <1>0, <2>1 DEF AdminStates
  <2>3. QED
    BY <2>1, <2>2 DEF KeyOut
<1>3. ASSUME NEW a \in Admins, UNCHANGED <<meta, out>>, \A b \in Admins \ {a} : admin'[b] = admin[b],
             admin'[a].at \notin {"revoke", "keybudget"}
      PROVE  KeyOut'
  BY <1>3 DEF KeyOut
<1>4. ASSUME NEW a \in Admins, CopyLegacy(a) \/ AdjustCost(a) PROVE KeyOut'
  <2>1. UNCHANGED <<meta, out>> /\ \A b \in Admins \ {a} : admin'[b] = admin[b]
    BY <1>0, <1>4 DEF CopyLegacy, AdjustCost, redis, history
  <2>2. admin'[a].at \in {"credit", "rebalance"}
    <3>1. CASE CopyLegacy(a)
      BY <1>0, <3>1 DEF CopyLegacy, AdminStates
    <3>2. CASE AdjustCost(a)
      BY <1>0, <3>2 DEF AdjustCost, AdminStates
    <3>3. QED
      BY <1>4, <3>1, <3>2
  <2>3. QED
    BY <1>3, <2>1, <2>2
<1>5. ASSUME NEW a \in Admins, Credit(a) \/ Rebalance(a) PROVE KeyOut'
  <2>1. UNCHANGED <<meta, out>> /\ admin' = [admin EXCEPT ![a] = Resting]
    BY <1>5 DEF Credit, Rebalance
  <2>2. admin'[a].at = "idle" /\ \A b \in Admins \ {a} : admin'[b] = admin[b]
    BY <1>0, <2>1 DEF Resting
  <2>3. QED
    BY <1>3, <2>1, <2>2
<1>6. ASSUME NEW a \in Admins, Revoke(a) PROVE KeyOut'
  <2>1. admin'[a].at = "idle" /\ \A b \in Admins \ {a} : admin'[b] = admin[b]
    BY <1>0, <1>6 DEF Revoke, Resting
  <2>2. meta'.revoked
    BY <1>0, <1>6 DEF Revoke, Metas
  <2>3. out \/ \A b \in Admins \ {a} : admin[b].at \notin {"revoke", "keybudget"}
    BY <1>6 DEF Revoke, Overlapped
  <2>4. QED
    BY <2>1, <2>2, <2>3 DEF KeyOut
<1>7. ASSUME NEW a \in Admins, SetKeyBudget(a) PROVE KeyOut'
  <2>1. admin'[a].at = "idle" /\ \A b \in Admins \ {a} : admin'[b] = admin[b]
    BY <1>0, <1>7 DEF SetKeyBudget, Resting
  <2>2. out /\ admin[a].meta.revoked
    BY <1>7 DEF SetKeyBudget, KeyOut, history
  <2>3. meta'.revoked
    BY <1>0, <1>7, <2>2 DEF SetKeyBudget, Budgeted, Metas
  <2>4. QED
    BY <2>1, <2>2, <2>3 DEF KeyOut
<1>8. ASSUME NEW c \in Callers, Checks(c) PROVE UNCHANGED <<meta, admin, out>>
  BY <1>8 DEF Checks, Access, ReadRate, ReadBalance, ReadHeld, Allow, Fallback, Return, redis, history
<1>9. CacheExpires \/ Tick \/ Hold \/ Idles => UNCHANGED <<meta, admin, out>>
  BY DEF CacheExpires, Tick, Hold, Idles, redis, history
<1>10. ASSUME NEW x, Configure(x) PROVE UNCHANGED <<meta, admin, out>>
  BY <1>10 DEF Configure
<1>11. ASSUME NEW p, NEW x, NEW r, Window(p, x, r) PROVE UNCHANGED <<meta, admin, out>>
  BY <1>11 DEF Window
<1>12. CASE Idles
  BY <1>1, <1>9, <1>12
<1>13. CASE Next
  BY <1>1, <1>2, <1>4, <1>5, <1>6, <1>7, <1>8, <1>9, <1>10, <1>11, <1>13
  DEF Next, StartTopUp, AdminStep, Checks
<1>14. QED
  BY <1>12, <1>13

(***************************************************************************)
(* The wallet's invariant.                                                 *)
(***************************************************************************)
(* At first there is at most one wallet, and nobody is under way.              *)
LEMMA WalletInvInit == Init => WalletInv
<1> SUFFICES ASSUME Init PROVE WalletInv
  OBVIOUS
<1>1. PICK x \in Amounts, p \in {"tenant", "legacy", "none"} :
        wallet = [q \in {"tenant", "legacy"} |-> IF q = p THEN Fresh(x) ELSE NoWallet]
  BY DEF Init
<1>2. \A q \in Prefixes : wallet[q] = Fresh(x) \/ wallet[q] = NoWallet
  BY <1>1 DEF Prefixes
<1>3. x \in Int
  BY WalletAssumption
<1>4. Types
  <2>1. wallet \in [Prefixes -> Wallets]
    BY <1>1, <1>3, FreshFields DEF Prefixes
  <2>2. due \in Int
    BY <2>1, ReadPrefixFinds, WalletFields DEF Init
  <2>3. Resting \in AdminStates
    BY FreshFields DEF Resting, AdminStates, Metas, Prefixes
  <2>4. call \in [Callers -> Calls] /\ admin \in [Admins -> AdminStates]
    BY <2>3, CallingTyped DEF Init
  <2>5. count \in [Minutes -> Nat] /\ funded \in [Minutes -> Nat] /\ clock \in Minutes /\ ops \in 0..MaxOps
    BY WalletAssumption DEF Init, Minutes
  <2>6. /\ usage \in Int /\ meta \in Metas /\ torn \in BOOLEAN /\ out \in BOOLEAN
        /\ cache \in [exists : BOOLEAN, seen : Int, cover : Int]
    <3>1. meta \in Metas
      BY DEF Init, Metas
    <3>2. cache \in [exists : BOOLEAN, seen : Int, cover : Int]
      BY DEF Init, NoEntry
    <3>3. usage \in Int
      BY DEF Init
    <3>4. torn \in BOOLEAN /\ out \in BOOLEAN
      BY Zenon DEF Init
    <3>5. QED
      BY <3>1, <3>2, <3>3, <3>4
  <2>7. QED
    BY <2>1, <2>2, <2>4, <2>5, <2>6 DEF Types
<1>5. TopUps
  BY DEF TopUps, Init, Resting
<1>6. Books
  <2>1. ReadPrefix \in Prefixes
    BY ReadPrefixFinds
  <2>2. QED
    BY <1>2, <1>3, <2>1, FreshFields DEF Init, Books, TopUpKept, BooksBalance, Balanced
<1>a. Audited
  BY <1>2, <1>3, FreshFields DEF Audited, Balanced, Prefixes
<1>7. Reading
  BY DEF Reading, Covered, Init, Calling, NoEntry
<1>8. Rates
  <2>1. ASSUME NEW m \in Minutes
        PROVE  /\ funded[m] <= count[m] /\ count[m] + Cardinality(Busy(m)) <= ops
               /\ funded[m] + Cardinality(Passed(m)) <= Limit + Cardinality(Callers) - 1
    <3>1. Busy(m) = {} /\ Passed(m) = {}
      BY DEF Busy, Passed, Init, Calling
    <3>2. count[m] = 0 /\ funded[m] = 0 /\ ops = 0
      BY DEF Init, Minutes
    <3>3. QED
      BY <3>1, <3>2, FS_EmptySet, Countable, WalletAssumption
  <2>2. QED
    BY <2>1 DEF Rates, Init, Minutes, Calling
<1>9. KeyOut
  BY DEF KeyOut, Init
<1>10. QED
  BY <1>4, <1>5, <1>6, <1>a, <1>7, <1>8, <1>9 DEF WalletInv

(* Its steps, and the steps of the export that only spend an operation.        *)
LEMMA WalletInvStep == WalletInv /\ (Next \/ Idles \/ UNCHANGED vars) => WalletInv'
<1>1. CASE UNCHANGED vars
  BY <1>1 DEF vars, redis, process, history, WalletInv, Types, TopUps, Books, TopUpKept, BooksBalance, Audited, Balanced, Expected,
     ReadPrefix, Reading, Covered, Effective, Rates, AnyWallet, Busy, Passed, KeyOut
<1>2. QED
  BY <1>1, TypesStep, TopUpsStep, BooksStep, AuditedStep, ReadingStep, RatesStep, KeyOutStep DEF WalletInv

(***************************************************************************)
(* The export.                                                             *)
(***************************************************************************)
(* A sum is the delta, or the delta to the nearest cent.                       *)
LEMMA SumFacts ==
  ASSUME NEW p, NEW d \in Nat, NEW sum \in Sums(p, d)
  PROVE  /\ sum \in Nat /\ (p \notin Rounded => sum = d)
         /\ p \in Rounded => 2 * (Cent * sum) <= 2 * d + Cent /\ 2 * d <= 2 * (Cent * sum) + Cent
BY DEF Sums, Nearest

(* To start with nothing is billed to the cent.                                *)
LEMMA WithinZero == \A p : Billed(p, 0, 0, 0)
<1>1. Cent * 0 = 0
  BY BillingAssumption
<1>2. QED
  BY <1>1 DEF Billed, Within

(* Another sum adds at most half a cent, ...                                   *)
LEMMA WithinNext ==
  ASSUME NEW p, NEW d \in Nat, NEW sum \in Sums(p, d), NEW b \in Int, NEW w \in Int, NEW n \in Nat,
         Billed(p, b, w, n)
  PROVE  Billed(p, b + sum, w + d, n + 1)
<1>1. /\ sum \in Nat /\ (p \notin Rounded => sum = d)
      /\ p \in Rounded => 2 * (Cent * sum) <= 2 * d + Cent /\ 2 * d <= 2 * (Cent * sum) + Cent
  BY SumFacts
<1>2. CASE p \in Rounded
  <2>1. PICK x \in Int, y \in Int, z \in Int, c \in Int : x = Cent * b /\ y = Cent * sum /\ z = Cent * n /\ c = Cent
    BY <1>1, BillingAssumption
  <2>2. Cent * (b + sum) = x + y /\ Cent * (n + 1) = z + c
    BY <1>1, <2>1, BillingAssumption
  <2>3. 2 * x <= 2 * w + z /\ 2 * w <= 2 * x + z
    BY <1>2, <2>1 DEF Billed, Within
  <2>4. 2 * y <= 2 * d + c /\ 2 * d <= 2 * y + c
    BY <1>1, <1>2, <2>1
  <2>5. 2 * (x + y) <= 2 * (w + d) + (z + c) /\ 2 * (w + d) <= 2 * (x + y) + (z + c)
    BY <2>1, <2>3, <2>4
  <2>6. QED
    BY <1>2, <2>2, <2>5 DEF Billed, Within
<1>3. CASE p \notin Rounded
  BY <1>1, <1>3 DEF Billed
<1>4. QED
  BY <1>2, <1>3

(* ... and so does a delta that is nothing to the cent.                        *)
LEMMA WithinSkip ==
  ASSUME NEW p \in Rounded, NEW d \in Nat, 2 * d <= Cent, NEW b \in Int, NEW w \in Int, NEW n \in Nat,
         Billed(p, b, w, n)
  PROVE  Billed(p, b, w + d, n + 1)
<1>1. PICK x \in Int, z \in Int, c \in Nat : x = Cent * b /\ z = Cent * n /\ c = Cent
  BY BillingAssumption
<1>2. Cent * (n + 1) = z + c
  BY <1>1, BillingAssumption
<1>3. 2 * x <= 2 * w + z /\ 2 * w <= 2 * x + z
  BY <1>1 DEF Billed, Within
<1>4. 2 * x <= 2 * (w + d) + (z + c) /\ 2 * (w + d) <= 2 * x + (z + c)
  BY <1>1, <1>3
<1>5. QED
  BY <1>1, <1>2, <1>4 DEF Billed, Within

(* The record of a loop is changed within its type.                            *)
LEMMA CollectTyped ==
  ASSUME NEW r \in Exports, NEW i \in Int, NEW h \in Minutes, NEW t \in SUBSET Platforms,
         NEW to \in {"sleeping", "collecting", "exporting"}
  PROVE  /\ [r EXCEPT !.at = to, !.total = i, !.hour = h] \in Exports
         /\ [r EXCEPT !.at = to, !.delta = i, !.todo = t] \in Exports
BY Zenon DEF Exports

(* ... as a platform is done with.                                             *)
LEMMA ReportTyped ==
  ASSUME NEW r \in Exports, NEW p \in Platforms, NEW booked \in BOOLEAN
  PROVE  Done(r, p) \in Exports /\ Reported(r, p) \in Exports /\ Failed(r, p, booked) \in Exports
<1>1. r.todo \ {p} \in SUBSET Platforms /\ r.reported \cup {p} \in SUBSET Platforms
  BY DEF Exports
<1>2. ASSUME NEW t \in SUBSET Platforms, NEW s \in Exports
      PROVE  [s EXCEPT !.todo = t] \in Exports /\ [s EXCEPT !.reported = t] \in Exports
  BY Zenon DEF Exports
<1>3. ASSUME NEW s \in Exports, NEW u \in BOOLEAN
      PROVE  [s EXCEPT !.failed = TRUE, !.unclear = u] \in Exports
  BY Zenon DEF Exports
<1>4. Done(r, p) \in Exports
  BY <1>1, <1>2 DEF Done
<1>5. Done(r, p).reported = r.reported /\ Done(r, p).unclear = r.unclear
  BY DEF Done, Exports
<1>6. Reported(r, p) \in Exports
  BY <1>1, <1>2, <1>4, <1>5 DEF Reported
<1>7. (Done(r, p).unclear \/ booked) \in BOOLEAN
  OBVIOUS
<1>8. Failed(r, p, booked) \in Exports
  BY <1>3, <1>4, <1>7, Zenon DEF Failed
<1>9. QED
  BY <1>4, <1>6, <1>8

(* What a report leaves of the loop.                                           *)
LEMMA ReportFields ==
  ASSUME NEW r \in Exports, NEW p
  PROVE  /\ Done(r, p).at = r.at /\ Done(r, p).total = r.total /\ Done(r, p).delta = r.delta
         /\ Done(r, p).todo = r.todo \ {p} /\ Done(r, p).reported = r.reported
         /\ Done(r, p).failed = r.failed /\ Done(r, p).unclear = r.unclear
         /\ Reported(r, p).at = r.at /\ Reported(r, p).total = r.total /\ Reported(r, p).delta = r.delta
         /\ Reported(r, p).todo = r.todo \ {p} /\ Reported(r, p).reported = r.reported \cup {p}
         /\ Reported(r, p).failed = r.failed /\ Reported(r, p).unclear = r.unclear
<1>1. /\ Done(r, p).at = r.at /\ Done(r, p).total = r.total /\ Done(r, p).delta = r.delta
      /\ Done(r, p).todo = r.todo \ {p} /\ Done(r, p).reported = r.reported
      /\ Done(r, p).failed = r.failed /\ Done(r, p).unclear = r.unclear
  BY DEF Done, Exports
<1>2. /\ Reported(r, p).at = r.at /\ Reported(r, p).total = r.total /\ Reported(r, p).delta = r.delta
      /\ Reported(r, p).todo = r.todo \ {p} /\ Reported(r, p).reported = r.reported \cup {p}
      /\ Reported(r, p).failed = r.failed /\ Reported(r, p).unclear = r.unclear
  BY DEF Reported, Done, Exports
<1>3. QED
  BY <1>1, <1>2

(* What a failed one leaves.                                                   *)
LEMMA FailedFields ==
  ASSUME NEW r \in Exports, NEW p, NEW booked \in BOOLEAN
  PROVE  /\ Failed(r, p, booked).at = r.at /\ Failed(r, p, booked).total = r.total
         /\ Failed(r, p, booked).delta = r.delta /\ Failed(r, p, booked).todo = r.todo \ {p}
         /\ Failed(r, p, booked).reported = r.reported /\ Failed(r, p, booked).failed
BY DEF Failed, Done, Exports

(* A failure leaves a doubt if the sum was booked, and none of its own if not. *)
LEMMA FailedDoubts ==
  ASSUME NEW r \in Exports, NEW p
  PROVE  Failed(r, p, TRUE).unclear /\ (Failed(r, p, FALSE).unclear <=> r.unclear)
BY DEF Failed, Done, Exports

(* An exporter at rest is an exporter.                                        *)
LEMMA SleepingTyped == Sleeping \in Exports /\ Sleeping.at = "sleeping"
BY WalletAssumption DEF Sleeping, Exports, Minutes

(* Before the first export nothing is billed, and the watermark is at zero.    *)
LEMMA ExportInvInit == BillingInit => ExportInv
<1> SUFFICES ASSUME BillingInit PROVE ExportInv
  OBVIOUS
<1>1. ExportTypes
  <2>1. exporter \in [Exporters -> Exports]
    BY SleepingTyped DEF BillingInit
  <2>2. watermark = 0 /\ exports = 0 /\ ready = {} /\ billed = [p \in Platforms |-> 0]
    BY DEF BillingInit
  <2>3. slip \in BOOLEAN
    BY Zenon DEF BillingInit
  <2>4. QED
    BY <2>1, <2>2, <2>3 DEF ExportTypes
<1>2. \A x \in Exporters : exporter[x] = Sleeping
  BY DEF BillingInit
<1>3. Alone /\ ExportedOnce /\ Unbilled
  BY <1>2, SleepingTyped DEF BillingInit, Alone, ExportedOnce, Unbilled
<1>4. \A x \in Exporters : Exporting(x)
  BY <1>2 DEF BillingInit, Exporting, Sleeping
<1>5. QED
  BY <1>1, <1>2, <1>3, <1>4 DEF ExportInv

(* A loop alone at work bills each platform the delta it has read, once, and   *)
(* moves the watermark by it; or it notes what went wrong.                     *)
LEMMA ExportInvStep ==
  ASSUME Types, ExportInv, BillingNext
  PROVE  ExportInv'
<1>0. /\ exporter \in [Exporters -> Exports] /\ watermark \in Int /\ billed \in [Platforms -> Int]
      /\ slip \in BOOLEAN /\ exports \in Nat /\ ready \subseteq Platforms
      /\ \A x \in Exporters : /\ exporter[x] \in Exports /\ exporter[x].total \in Int /\ exporter[x].delta \in Int
                              /\ exporter[x].hour \in Minutes /\ exporter[x].unclear \in BOOLEAN
                              /\ exporter[x].failed \in BOOLEAN
                              /\ exporter[x].todo \subseteq Platforms /\ exporter[x].reported \subseteq Platforms
      /\ \A x \in Exporters : exporter[x].at = "sleeping" => exporter[x] = Sleeping
      /\ usage \in Int /\ clock \in Minutes
  <2>1. /\ exporter \in [Exporters -> Exports] /\ watermark \in Int /\ billed \in [Platforms -> Int]
        /\ slip \in BOOLEAN /\ exports \in Nat /\ ready \subseteq Platforms
    BY DEF ExportInv, ExportTypes
  <2>2. \A x \in Exporters : /\ exporter[x] \in Exports /\ exporter[x].total \in Int /\ exporter[x].delta \in Int
                              /\ exporter[x].hour \in Minutes /\ exporter[x].unclear \in BOOLEAN
                              /\ exporter[x].failed \in BOOLEAN
                              /\ exporter[x].todo \subseteq Platforms /\ exporter[x].reported \subseteq Platforms
    BY <2>1 DEF Exports
  <2>3. QED
    BY <2>1, <2>2 DEF ExportInv, Types
<1>r. \A x \in Exporters : exporter[x].at # "sleeping" => ready # {}
  BY DEF ExportInv, Unbilled
<1>1. CASE UNCHANGED billingVars
  BY <1>1 DEF billingVars, ExportInv, ExportTypes, Unbilled, Alone, ExportedOnce, Exporting, SumIs
<1>s. /\ Sleeping \in Exports /\ Sleeping.at = "sleeping" /\ Sleeping.delta = 0 /\ Sleeping.reported = {}
      /\ Sleeping.todo = {} /\ ~Sleeping.unclear /\ ~Sleeping.failed
  BY SleepingTyped DEF Sleeping
<1>2. ASSUME NEW x \in Exporters, NEW r \in Exports, exporter' = [exporter EXCEPT ![x] = r],
             watermark' \in Int, billed' \in [Platforms -> Int], slip' \in BOOLEAN, exports' \in Nat,
             ready' \subseteq Platforms, ready' # {},
             ~slip' => \A y \in Exporters \ {x} : exporter[y].at = "sleeping",
             r.at = "sleeping" => r = Sleeping,
             ~slip' /\ r.at = "sleeping" => \A p \in ready' : Billed(p, billed'[p], watermark', exports'),
             ~slip' /\ r.at # "sleeping" => Exporting(x)'
      PROVE  ExportInv'
  <2>1. exporter'[x] = r /\ \A y \in Exporters \ {x} : exporter'[y] = exporter[y]
    BY <1>0, <1>2
  <2>2. exporter' \in [Exporters -> Exports] /\ \A y \in Exporters : exporter'[y].at = "sleeping" => exporter'[y] = Sleeping
    BY <1>0, <1>2, <2>1
  <2>3. \A y \in Exporters : exporter'[y] = Sleeping => Exporting(y)'
    BY <1>s DEF Exporting
  <2>4. ASSUME ~slip' PROVE Alone' /\ ExportedOnce' /\ \A y \in Exporters : Exporting(y)'
    <3>1. Alone'
      BY <1>2, <2>1, <2>4 DEF Alone
    <3>2. ExportedOnce'
      BY <1>2, <2>1, <2>4 DEF ExportedOnce
    <3>3. QED
      BY <1>0, <1>2, <2>1, <2>2, <2>3, <2>4, <3>1, <3>2
  <2>5. QED
    BY <1>2, <2>2, <2>4 DEF ExportInv, ExportTypes, Unbilled
<1>3. ASSUME NEW x \in Exporters, Collect(x) PROVE ExportInv'
  <2> DEFINE r == [exporter[x] EXCEPT !.at = "collecting", !.total = usage, !.hour = clock]
  <2>1. r \in Exports
    <3>1. {} \in SUBSET Platforms
      OBVIOUS
    <3>2. QED
      BY <1>0, <3>1, CollectTyped, ZenonT(60)
  <2>2. /\ exporter[x] = Sleeping /\ exporter' = [exporter EXCEPT ![x] = r]
        /\ UNCHANGED <<watermark, billed, exports>>
    BY <1>0, <1>3 DEF Collect
  <2>r. ready' \subseteq Platforms /\ ready' # {} /\ (ready # {} => ready' = ready)
    BY <1>0, <1>3, BillingAssumption DEF Collect
  <2>3. slip' \in BOOLEAN /\ (~slip' => ~slip /\ \A y \in Exporters \ {x} : exporter[y].at = "sleeping")
    BY <1>0, <1>3 DEF Collect
  <2>4. r.at = "collecting" /\ r.delta = 0 /\ r.reported = {} /\ ~r.failed /\ ~r.unclear /\ r.todo = {}
    BY <1>0, <1>s, <2>2 DEF Exports
  <2> HIDE DEF r
  <2>5. ~slip' => Exporting(x)'
    <3>1. ~slip' => \A p \in ready' : Billed(p, billed'[p], watermark', exports')
      <4>1. CASE ready = {}
        BY <1>0, <2>2, <2>r, <4>1, WithinZero DEF ExportInv, Unbilled
      <4>2. CASE ready # {}
        BY <1>s, <2>2, <2>r, <2>3, <4>2 DEF ExportInv, ExportedOnce
      <4>3. QED
        BY <4>1, <4>2
    <3>2. exporter'[x] = r
      BY <1>0, <2>2
    <3>3. QED
      BY <1>0, <2>2, <2>4, <3>1, <3>2 DEF Exporting, SumIs
  <2>6. QED
    BY <1>0, <1>2, <2>1, <2>2, <2>r, <2>3, <2>4, <2>5, ZenonT(60)
<1>4. ASSUME NEW x \in Exporters, exporter[x].at # "sleeping", ~slip
      PROVE  (\A y \in Exporters \ {x} : exporter[y].at = "sleeping") /\ Exporting(x)
  BY <1>4 DEF ExportInv, Alone
<1>5. ASSUME NEW x \in Exporters, ReadWatermark(x) PROVE ExportInv'
  <2> DEFINE r == [exporter[x] EXCEPT !.at = "exporting", !.delta = exporter[x].total - watermark, !.todo = Platforms]
  <2>1. exporter[x].at = "collecting" /\ UNCHANGED <<watermark, billed, ready, slip, exports>>
    BY <1>5 DEF ReadWatermark
  <2>2. CASE exporter[x].total > watermark
    <3>1. r \in Exports
      <4>1. exporter[x].total - watermark \in Int /\ Platforms \in SUBSET Platforms
        BY <1>0
      <4>2. QED
        BY <1>0, <4>1, CollectTyped, ZenonT(60)
    <3>2. exporter' = [exporter EXCEPT ![x] = r]
      BY <1>5, <2>2 DEF ReadWatermark
    <3>3. /\ r.at = "exporting" /\ r.total = exporter[x].total /\ r.delta = exporter[x].total - watermark
          /\ r.reported = exporter[x].reported /\ r.unclear = exporter[x].unclear /\ r.todo = Platforms
      BY <1>0 DEF Exports
    <3> HIDE DEF r
    <3>5. exporter[x].total - watermark > 0
      BY <1>0, <2>2
    <3>4. ~slip => Exporting(x)'
      <4> SUFFICES ASSUME ~slip PROVE Exporting(x)'
        OBVIOUS
      <4>1. exporter'[x] = r
        BY <1>0, <3>2
      <4>2. exporter[x].reported = {} /\ ~exporter[x].unclear /\ \A p \in ready : SumIs(x, p)
        BY <1>4, <2>1 DEF Exporting
      <4>3. \A p \in ready : SumIs(x, p)'
        BY <2>1, <3>3, <4>1, <4>2 DEF SumIs
      <4>4. ready' \ (r.todo \cup r.reported) = {}
        BY <1>0, <2>1, <3>3
      <4>5. r.todo \cap r.reported = {}
        BY <3>3, <4>2
      <4>6. QED
        BY <2>1, <3>3, <3>5, <4>1, <4>3, <4>4, <4>5 DEF Exporting
    <3>6. QED
      BY <1>0, <1>r, <1>2, <1>4, <2>1, <3>1, <3>2, <3>3, <3>4, ZenonT(60)
  <2>3. CASE ~(exporter[x].total > watermark)
    <3>1. exporter' = [exporter EXCEPT ![x] = Sleeping]
      BY <1>5, <2>3 DEF ReadWatermark
    <3>2. ~slip => \A p \in ready : Billed(p, billed[p], watermark, exports)
      BY <1>0, <1>4, <2>1 DEF Exporting, SumIs
    <3>3. QED
      BY <1>0, <1>s, <1>r, <1>2, <1>4, <2>1, <3>1, <3>2
  <2>4. QED
    BY <2>2, <2>3
<1>6. ASSUME NEW x \in Exporters, NEW p \in Platforms, Report(x, p) PROVE ExportInv'
  <2>1. /\ exporter[x].at = "exporting" /\ p \in exporter[x].todo
        /\ watermark' = watermark /\ ready' = ready /\ exports' = exports
    BY <1>6 DEF Report
  <2> DEFINE e == exporter[x]
  <2>0. PICK sum \in Sums(p, e.delta) : Skip(x, p, sum) \/ Send(x, p, sum)
    BY <1>6 DEF Report
  <2>2. ASSUME NEW r \in Exports, exporter' = [exporter EXCEPT ![x] = r],
               r.at = e.at, r.total = e.total, r.delta = e.delta, r.todo = e.todo \ {p},
               r.reported \in {e.reported, e.reported \cup {p}}, slip' \in BOOLEAN, slip => slip',
               billed' \in [Platforms -> Int],
               ~slip' => \/ r.unclear /\ r.failed
                         \/ /\ ~e.unclear /\ (\A q \in Platforms \ {p} : billed'[q] = billed[q])
                            /\ r.reported = e.reported \cup {p} /\ r.failed = e.failed
                            /\ p \in ready => billed'[p] = billed[p] + sum
                         \/ /\ ~e.unclear /\ r.reported = e.reported /\ billed' = billed
                            /\ r.failed \/ (sum = 0 /\ r.failed = e.failed)
                         \/ e.unclear /\ r.unclear /\ (r.failed \/ r.failed = e.failed)
                            /\ (r.reported = e.reported \cup {p} \/ r.failed \/ sum = 0)
        PROVE  ExportInv'
    <3>1. exporter'[x] = r
      BY <1>0, <2>2
    <3>2. ~slip' => Exporting(x) /\ \A y \in Exporters \ {x} : exporter[y].at = "sleeping"
      BY <1>4, <2>1, <2>2, <1>0
    <3>3. ~slip' => Exporting(x)'
      <4> SUFFICES ASSUME ~slip' PROVE Exporting(x)'
        OBVIOUS
      <4>1. r.delta = r.total - watermark' /\ r.delta > 0 /\ r.todo \cap r.reported = {} /\ r.at = "exporting"
        BY <2>1, <2>2, <3>2 DEF Exporting
      <4>d. e.delta \in Nat /\ e.delta > 0 /\ p \notin e.reported
        BY <1>0, <2>1, <3>2 DEF Exporting
      <4>2. ASSUME ~r.unclear, NEW q \in ready
            PROVE  SumIs(x, q)'
        <5>1. ~e.unclear /\ SumIs(x, q)
          BY <2>1, <2>2, <3>2, <4>2 DEF Exporting
        <5>2. CASE q # p
          <6>1. billed'[q] = billed[q] /\ (q \in r.reported <=> q \in e.reported)
            BY <1>0, <2>2, <4>2, <5>1, <5>2
          <6>2. QED
            BY <2>1, <2>2, <3>1, <5>1, <6>1 DEF SumIs
        <5>3. CASE q = p
          <6>1. Billed(p, billed[p], watermark, exports)
            BY <4>d, <5>1, <5>3 DEF SumIs
          <6>2. CASE r.reported = e.reported /\ billed' = billed
            BY <2>1, <3>1, <4>d, <5>3, <6>1, <6>2 DEF SumIs
          <6>3. CASE r.reported = e.reported \cup {p} /\ billed'[p] = billed[p] + sum
            <7>1. billed[p] \in Int
              BY <1>0
            <7>2. Billed(p, billed[p] + sum, watermark + e.delta, exports + 1)
              BY <1>0, <2>0, <4>d, <6>1, <7>1, WithinNext
            <7>3. QED
              BY <2>1, <2>2, <3>1, <5>3, <6>3, <7>2 DEF SumIs
          <6>4. QED
            BY <2>2, <4>2, <5>1, <5>3, <6>2, <6>3
        <5>4. QED
          BY <5>2, <5>3
      <4>3. ASSUME ~r.failed, NEW q \in ready, q \notin r.todo, q \notin r.reported
            PROVE  q \in Rounded /\ 2 * r.delta <= Cent
        <5>1. CASE q # p
          <6>1. q \notin e.todo
            BY <2>2, <4>3, <5>1
          <6>2. q \notin e.reported /\ ~e.failed
            BY <1>0, <2>2, <4>3, <5>1
          <6>3. QED
            BY <2>1, <2>2, <3>2, <6>1, <6>2 DEF Exporting
        <5>2. CASE q = p
          <6>1. sum = 0
            BY <1>0, <2>2, <4>3, <5>2
          <6>2. Cent * 0 = 0 /\ Cent \in Nat
            BY BillingAssumption
          <6> HIDE DEF e
          <6>3. p \in Rounded /\ 2 * e.delta <= 2 * (Cent * 0) + Cent
            BY <2>0, <4>d, <6>1, SumFacts
          <6>4. QED
            BY <2>2, <4>d, <5>2, <6>2, <6>3
        <5>3. QED
          BY <5>1, <5>2
      <4>4. QED
        BY <2>1, <3>1, <4>1, <4>2, <4>3 DEF Exporting
    <3>4. QED
      BY <1>0, <1>r, <1>2, <2>1, <2>2, <3>2, <3>3
  <2>3. /\ e \in Exports /\ Done(e, p) \in Exports /\ Reported(e, p) \in Exports
        /\ Failed(e, p, TRUE) \in Exports /\ Failed(e, p, FALSE) \in Exports
    BY <1>0, ReportTyped
  <2>d. e.unclear \in BOOLEAN /\ e.failed \in BOOLEAN
    BY <1>0
  <2>n. sum \in Int
    BY <2>0, <1>0 DEF Sums, Nearest
  <2>4. ASSUME Book(x, p, sum)
        PROVE  /\ slip' \in BOOLEAN /\ (slip => slip') /\ billed' \in [Platforms -> Int]
               /\ ~slip' => billed'[p] = billed[p] + sum /\ \A q \in Platforms \ {p} : billed'[q] = billed[q]
    <3>1. slip' = (slip \/ IdempotencyKey(x, p) \in keys)
      BY <2>4 DEF Book
    <3>2. billed' = [billed EXCEPT ![p] = IF IdempotencyKey(x, p) \in keys THEN @ ELSE @ + sum]
      BY <2>4 DEF Book
    <3>3. slip' \in BOOLEAN /\ (slip => slip')
      BY <1>0, <3>1
    <3>4. billed' \in [Platforms -> Int]
      BY <1>0, <2>n, <3>2
    <3>5. ~slip' => billed'[p] = billed[p] + sum /\ \A q \in Platforms \ {p} : billed'[q] = billed[q]
      BY <1>0, <3>1, <3>2
    <3>6. QED
      BY <3>3, <3>4, <3>5
  <2>f. /\ Done(e, p).at = e.at /\ Done(e, p).total = e.total /\ Done(e, p).delta = e.delta
        /\ Done(e, p).todo = e.todo \ {p} /\ Done(e, p).reported = e.reported
        /\ Done(e, p).failed = e.failed /\ Done(e, p).unclear = e.unclear
        /\ Reported(e, p).at = e.at /\ Reported(e, p).total = e.total /\ Reported(e, p).delta = e.delta
        /\ Reported(e, p).todo = e.todo \ {p} /\ Reported(e, p).reported = e.reported \cup {p}
        /\ Reported(e, p).failed = e.failed /\ Reported(e, p).unclear = e.unclear
    BY <2>3, ReportFields
  <2>g. ASSUME NEW booked \in BOOLEAN
        PROVE  /\ Failed(e, p, booked).at = e.at /\ Failed(e, p, booked).total = e.total
               /\ Failed(e, p, booked).delta = e.delta /\ Failed(e, p, booked).todo = e.todo \ {p}
               /\ Failed(e, p, booked).reported = e.reported /\ Failed(e, p, booked).failed
    BY <2>3, FailedFields
  <2>u. Failed(e, p, TRUE).unclear /\ (Failed(e, p, FALSE).unclear <=> e.unclear)
    BY <2>3, FailedDoubts
  <2>k. CASE Skip(x, p, sum)
    <3>1. UNCHANGED <<billed, keys, slip>> /\ (sum = 0 \/ p \notin ready)
      BY <2>k DEF Skip
    <3>2. p \in ready => billed[p] = billed[p] + sum
      BY <1>0, <3>1
    <3>3. CASE sum = 0 /\ exporter' = [exporter EXCEPT ![x] = Done(e, p)]
      <4> HIDE DEF e
      <4>1. QED
        BY <1>0, <2>2, <2>3, <2>d, <2>f, <3>1, <3>3
    <3>4. CASE exporter' = [exporter EXCEPT ![x] = Reported(e, p)]
      <4> HIDE DEF e
      <4>1. QED
        BY <1>0, <2>2, <2>3, <2>d, <2>f, <3>1, <3>2, <3>4
    <3>5. QED
      BY <2>k, <3>3, <3>4 DEF Skip
  <2>5. CASE Book(x, p, sum) /\ exporter' = [exporter EXCEPT ![x] = Reported(@, p)]
    <3>1. exporter' = [exporter EXCEPT ![x] = Reported(e, p)]
      BY <2>5
    <3> HIDE DEF e
    <3>2. QED
      BY <2>2, <2>3, <2>4, <2>5, <2>d, <2>f, <3>1
  <2>6. CASE slip' = TRUE /\ billed' = [billed EXCEPT ![p] = @ + 2 * sum]
             /\ exporter' = [exporter EXCEPT ![x] = Reported(@, p)]
    <3>1. exporter' = [exporter EXCEPT ![x] = Reported(e, p)] /\ billed' \in [Platforms -> Int]
      BY <1>0, <2>n, <2>6
    <3> HIDE DEF e
    <3>2. QED
      BY <1>0, <1>r, <1>2, <2>1, <2>3, <2>6, <2>f, <3>1 DEF e
  <2>7. CASE Book(x, p, sum) /\ exporter' = [exporter EXCEPT ![x] = Failed(@, p, TRUE)]
    <3>1. exporter' = [exporter EXCEPT ![x] = Failed(e, p, TRUE)]
      BY <2>7
    <3> HIDE DEF e
    <3>2. QED
      BY <2>2, <2>3, <2>4, <2>7, <2>g, <2>u, <3>1
  <2>8. CASE UNCHANGED <<billed, keys, slip>> /\ exporter' = [exporter EXCEPT ![x] = Failed(@, p, FALSE)]
    <3>1. exporter' = [exporter EXCEPT ![x] = Failed(e, p, FALSE)]
      BY <2>8
    <3> HIDE DEF e
    <3>2. QED
      BY <1>0, <2>2, <2>3, <2>8, <2>d, <2>g, <2>u, <3>1
  <2>9. Send(x, p, sum)
        => \/ Book(x, p, sum) /\ exporter' = [exporter EXCEPT ![x] = Reported(@, p)]
           \/ slip' = TRUE /\ billed' = [billed EXCEPT ![p] = @ + 2 * sum]
              /\ exporter' = [exporter EXCEPT ![x] = Reported(@, p)]
           \/ Book(x, p, sum) /\ exporter' = [exporter EXCEPT ![x] = Failed(@, p, TRUE)]
           \/ UNCHANGED <<billed, keys, slip>> /\ exporter' = [exporter EXCEPT ![x] = Failed(@, p, FALSE)]
    BY DEF Send
  <2>10. QED
    BY <2>0, <2>k, <2>5, <2>6, <2>7, <2>8, <2>9
<1>7. ASSUME NEW x \in Exporters, FinishExport(x) PROVE ExportInv'
  <2>1. /\ exporter[x].at = "exporting" /\ exporter[x].todo = {} /\ exporter' = [exporter EXCEPT ![x] = Sleeping]
        /\ slip' = (slip \/ exporter[x].unclear \/ (exporter[x].failed /\ exporter[x].reported # {}))
        /\ watermark' = IF exporter[x].reported # {} THEN exporter[x].total ELSE watermark
        /\ exports' = IF exporter[x].reported # {} THEN exports + 1 ELSE exports
        /\ billed' = billed /\ ready' = ready
    BY <1>7 DEF FinishExport, Mark
  <2>2. ~slip' => \A p \in ready : Billed(p, billed[p], watermark', exports')
    <3> SUFFICES ASSUME ~slip', NEW p \in ready PROVE Billed(p, billed[p], watermark', exports')
      OBVIOUS
    <3>1. ~slip /\ ~exporter[x].unclear /\ (exporter[x].reported # {} => ~exporter[x].failed)
      BY <1>0, <2>1
    <3>2. Exporting(x) /\ SumIs(x, p) /\ exporter[x].delta \in Nat
          /\ exporter[x].total = watermark + exporter[x].delta
      BY <1>0, <1>4, <2>1, <3>1 DEF Exporting
    <3>3. CASE exporter[x].reported = {}
      BY <2>1, <3>2, <3>3 DEF SumIs
    <3>4. CASE p \in exporter[x].reported
      BY <2>1, <3>2, <3>4 DEF SumIs
    <3>5. CASE exporter[x].reported # {} /\ p \notin exporter[x].reported
      <4>1. p \in Rounded /\ 2 * exporter[x].delta <= Cent
        BY <2>1, <3>1, <3>2, <3>5 DEF Exporting
      <4>2. Billed(p, billed[p], watermark, exports)
        BY <3>2, <3>5 DEF SumIs
      <4>3. billed[p] \in Int
        BY <1>0
      <4>4. Billed(p, billed[p], watermark + exporter[x].delta, exports + 1)
        BY <1>0, <3>2, <4>1, <4>2, <4>3, WithinSkip
      <4>5. QED
        BY <2>1, <3>2, <3>5, <4>4
    <3>6. QED
      BY <3>3, <3>4, <3>5
  <2>3. slip' \in BOOLEAN /\ watermark' \in Int /\ exports' \in Nat
    BY <1>0, <2>1
  <2>4. QED
    BY <1>0, <1>s, <1>r, <1>2, <1>4, <2>1, <2>2, <2>3
<1>8. ASSUME NEW x \in Exporters, ExporterDies(x) PROVE ExportInv'
  <2>1. /\ exporter[x].at # "sleeping" /\ exporter' = [exporter EXCEPT ![x] = Sleeping]
        /\ slip' = (slip \/ exporter[x].unclear \/ exporter[x].reported # {})
        /\ UNCHANGED <<watermark, billed, ready, exports>>
    BY <1>8 DEF ExporterDies
  <2>2. ~slip' => \A p \in ready : Billed(p, billed[p], watermark, exports)
    <3> SUFFICES ASSUME ~slip', NEW p \in ready PROVE Billed(p, billed[p], watermark, exports)
      OBVIOUS
    <3>1. ~slip /\ ~exporter[x].unclear /\ exporter[x].reported = {}
      BY <1>0, <2>1
    <3>2. SumIs(x, p)
      BY <1>4, <2>1, <3>1 DEF Exporting
    <3>3. QED
      BY <3>1, <3>2 DEF SumIs
  <2>3. slip' \in BOOLEAN
    BY <1>0, <2>1
  <2>4. QED
    BY <1>0, <1>s, <1>r, <1>2, <1>4, <2>1, <2>2, <2>3
<1>9. QED
  BY <1>1, <1>3, <1>5, <1>6, <1>7, <1>8 DEF BillingNext

(***************************************************************************)
(* The whole.                                                              *)
(***************************************************************************)
(* The export reads the counters of the wallet and changes none of them.       *)
LEMMA WalletSteps == Types /\ BillingNext => Next \/ Idles \/ UNCHANGED vars
<1> SUFFICES ASSUME Types, BillingNext PROVE Next \/ Idles \/ UNCHANGED vars
  OBVIOUS
<1>1. ASSUME NEW x \in Exporters, Collect(x) PROVE Idles
  BY <1>1, WalletAssumption DEF Collect, Begin, Idles, Types, redis, process, history
<1>2. ASSUME NEW x \in Exporters,
             ReadWatermark(x) \/ FinishExport(x) \/ ExporterDies(x) \/ \E p \in Platforms : Report(x, p)
      PROVE  UNCHANGED vars
  BY <1>2 DEF ReadWatermark, FinishExport, ExporterDies, Report
<1>3. QED
  BY <1>1, <1>2 DEF BillingNext

(* The invariant of the wallet and that of the export hold at the start.      *)
LEMMA InvInit == BillingInit => Inv
BY WalletInvInit, ExportInvInit DEF BillingInit, Inv

(* Every step of the wallet and of the export keeps both.                     *)
LEMMA InvStep == Inv /\ [BillingNext]_allVars => Inv'
<1> SUFFICES ASSUME Inv, [BillingNext]_allVars PROVE Inv'
  OBVIOUS
<1>1. CASE UNCHANGED allVars
  <2>1. WalletInv'
    BY <1>1, WalletInvStep DEF Inv, allVars
  <2>2. ExportInv'
    BY <1>1 DEF Inv, allVars, billingVars, ExportInv, ExportTypes, Unbilled, Alone, ExportedOnce,
       Exporting, SumIs
  <2>3. QED
    BY <2>1, <2>2 DEF Inv
<1>2. CASE BillingNext
  BY <1>2, WalletSteps, WalletInvStep, ExportInvStep DEF Inv, WalletInv
<1>3. QED
  BY <1>1, <1>2

(* Every reachable state satisfies the inductive invariant.                   *)
LEMMA InvariantHolds == BillingSpec => []Inv
<1>1. QED
  BY InvInit, InvStep, PTL DEF BillingSpec

(* Held and missing funds never turn negative, no minute counts more requests *)
(* than there were operations, and no handler leaves its control.             *)
THEOREM Typed == BillingSpec => []TypeOK
<1>1. ASSUME Inv PROVE TypeOK
  <2>1. \A p \in {"tenant", "legacy"} :
          wallet[p].held \in Nat /\ wallet[p].debt \in Nat /\ wallet[p].balance \in Int
    <3>1. \A p \in Prefixes : wallet[p] \in Wallets
      BY <1>1 DEF Inv, WalletInv, Types
    <3>2. QED
      BY <3>1, WalletFields DEF Prefixes
  <2>2. count \in [0..MaxPeriods -> 0..MaxOps]
    <3>1. count \in [Minutes -> Nat] /\ ops \in 0..MaxOps /\ MaxOps \in Nat
      BY <1>1, WalletAssumption DEF Inv, WalletInv, Types
    <3>2. \A m \in Minutes : count[m] \in 0..MaxOps
      BY <1>1, <3>1, Countable DEF Inv, WalletInv, Rates
    <3>3. QED
      BY <3>1, <3>2 DEF Minutes
  <2>3. \A c \in Callers : call[c].at \in {"idle", "rate", "balance", "held", "count", "trusted"}
    BY <1>1 DEF Inv, WalletInv, Types, Calls
  <2>4. \A a \in Admins :
          admin[a].at \in {"idle", "topup", "credit", "rerate", "rebalance", "revoke", "keybudget"}
    BY <1>1 DEF Inv, WalletInv, Types, AdminStates
  <2>5. QED
    BY <2>1, <2>2, <2>3, <2>4 DEF TypeOK
<1>2. QED
  BY <1>1, InvariantHolds, PTL

(* top_up reads, copies and credits in round trips of their own: no amount is *)
(* lost or counted twice, however many top-ups, windows, rerates and          *)
(* configurations run between them, unless the copied wallet has changed or a *)
(* change was made to keys that are not read.                                 *)
THEOREM TopUpsAreKept == BillingSpec => []TopUpKept
<1>1. Inv => TopUpKept
  BY DEF Inv, WalletInv, Books
<1>2. QED
  BY <1>1, InvariantHolds, PTL

(* What jobs/reconcile_balances calls a drift is, in the wallets that it      *)
(* scans, the debt less the rerates, and nothing else; so it would be in      *)
(* those of tenants, on either side of their migration.                       *)
THEOREM DriftsAreExplained == BillingSpec => []DriftExplained
<1>1. ASSUME Inv, NEW p \in Prefixes, wallet[p].exists, Balanced(wallet[p])
      PROVE  Drift(wallet[p]) = wallet[p].debt - wallet[p].adjusted
  <2>1. wallet[p] \in Wallets
    BY <1>1 DEF Inv, WalletInv, Types
  <2>2. QED
    BY <1>1, <2>1, WalletFields DEF Drift, Balanced
<1>2. Inv => DriftExplained
  BY <1>1, ReadPrefixFinds DEF Inv, WalletInv, Books, BooksBalance, Audited, DriftExplained, Prefixes
<1>3. QED
  BY <1>2, InvariantHolds, PTL

(* _increment_rate_limit comes after the answer was found, a round trip or    *)
(* more behind the check of the counter: a minute admits max_rpm requests and *)
(* at most one for each other handler that was then on its way.               *)
THEOREM MinutesAreLimited == BillingSpec => []RateLimited
<1>1. ASSUME Inv, NEW m \in Minutes PROVE funded[m] <= Limit + Cardinality(Callers) - 1
  <2>1. funded[m] \in Nat /\ Limit \in Nat /\ Cardinality(Passed(m)) \in Nat /\ Cardinality(Callers) \in Nat
    BY <1>1, Countable, WalletAssumption DEF Inv, WalletInv, Types
  <2>2. funded[m] + Cardinality(Passed(m)) <= Limit + Cardinality(Callers) - 1
    BY <1>1 DEF Inv, WalletInv, Rates
  <2>3. QED
    BY <2>1, <2>2
<1>2. Inv => DOMAIN funded = Minutes
  BY DEF Inv, WalletInv, Types
<1>3. Inv => RateLimited
  BY <1>1, <1>2 DEF RateLimited
<1>4. QED
  BY <1>3, InvariantHolds, PTL

(* Budget.check reads balance and holds in two round trips, and falls back to *)
(* what another check has cached: it admits no call whose estimate was never  *)
(* free while those were read.                                                *)
THEOREM AdmissionsAreCovered == BillingSpec => []AdmissionCovered
<1>1. Inv => AdmissionCovered
  BY DEF Inv, WalletInv, Reading, Covered, AdmissionCovered
<1>2. QED
  BY <1>1, InvariantHolds, PTL

(* revoke_customer_api_key and set_api_key_budget write back all of the       *)
(* metadata they have read: a revocation that overlapped with neither another *)
(* revocation nor a budget keeps the key out of require_customer_access.      *)
THEOREM RevokedKeysStayOut == BillingSpec => RevokedStaysOut
<1>1. ASSUME Inv, BillingNext, out, NEW c \in Keyed, call[c].at = "idle", call'[c].at = "rate"
      PROVE  FALSE
  <2>1. Types /\ c \in Callers /\ meta.revoked /\ call \in [Callers -> Calls] /\ call[c] \in Calls
    BY <1>1, WalletAssumption DEF Inv, WalletInv, KeyOut, Types
  <2>2. ASSUME NEW d \in Callers, Access(d) PROVE FALSE
    <3>1. \A b \in Callers \ {d} : call'[b] = call[b]
      BY <2>1, <2>2 DEF Access
    <3>2. c = d /\ Refused(d)
      BY <1>1, <2>1, <3>1 DEF Refused
    <3>3. call'[c] = Calling
      BY <2>1, <2>2, <3>2 DEF Access
    <3>4. QED
      BY <1>1, <3>3 DEF Calling
  <2>3. ASSUME NEW d \in Callers, ReadRate(d) \/ ReadBalance(d) \/ ReadHeld(d) \/ Allow(d) \/ Fallback(d) \/ Return(d)
        PROVE  FALSE
    <3>1. call[d].at # "idle" /\ \A b \in Callers \ {d} : call'[b] = call[b]
      BY <2>1, <2>3 DEF ReadRate, ReadBalance, ReadHeld, Allow, Fallback, Return
    <3>2. QED
      BY <1>1, <2>1, <3>1
  <2>4. ASSUME NEW freed \in Nat, Moves(freed) PROVE FALSE
    BY <1>1, <2>1, <2>4, WatchingFields
  <2>5. ~Leaves
    BY <1>1 DEF Leaves
  <2>6. Next \/ Idles
    BY <1>1, <2>1, WalletSteps DEF vars
  <2>7. QED
    BY <2>1, <2>2, <2>3, <2>4, <2>5, <2>6, Kinds DEF Checks
<1>2. Inv /\ [BillingNext]_allVars
      => [out => \A c \in Keyed : ~(call[c].at = "idle" /\ call'[c].at = "rate")]_vars
  BY <1>1 DEF allVars
<1>3. QED
  BY <1>2, InvariantHolds, PTL DEF BillingSpec, RevokedStaysOut

(* export_customer_to_targets and mark_customer_reported move the watermark to *)
(* what was collected, not to what the counter says by then: what is metered   *)
(* or rerated during an export is billed by the next one, once, and rounding   *)
(* costs or gains a platform at most half a cent each time.                    *)
THEOREM PlatformsBilledOnce == BillingSpec => []ExportedOnce
<1>1. Inv => ExportedOnce
  BY DEF Inv, ExportInv, ExportedOnce
<1>2. QED
  BY <1>1, InvariantHolds, PTL
==============================================================================
