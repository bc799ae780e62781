------------------------------- MODULE Pricing -------------------------------
(***************************************************************************)
(* What usage costs.  PricingCatalog exists twice: in Java, where the      *)
(* Flink job prices every event, and in Python, where the Gateway quotes   *)
(* holds and an upload is validated.  Both walk the tiers alike; they      *)
(* differ in how they round and in what they refuse to load.               *)
(*                                                                         *)
(* A rate, in micro-dollars per token, is a multiple of 1/Scale, and so is *)
(* the multiplier of cached input: exact amounts are counted in 1/Unit of  *)
(* a micro-dollar.  The error of binary fractions is left out; rounding    *)
(* is not.                                                                 *)
(***************************************************************************)
EXTENDS Integers, Sequences, FiniteSetsExt

CONSTANTS
  Million,         \* tokens to one step of up_to_tokens_m
  Scale,           \* rates are multiples of 1/Scale
  DefaultInput,    \* GATEWAY_DEFAULT_INPUT_TOKENS
  DefaultOutput,   \* output tokens of a call that names no max_tokens
  StartsWith(_, _) \* a model's name starts with a prefix

ASSUME PricingAssumption ==
  /\ Million \in Nat \ {0} /\ Scale \in Nat \ {0}
  /\ DefaultInput \in Nat /\ DefaultOutput \in Nat

Unit == Scale * Scale

Modes == {"flat", "volume", "graduated"}
Rates == [input : Nat, output : Nat, embedding : Nat]

\* The last tier of a model has no end.
OpenEnded == -1

(* The categories of an event, in the order in which they take tokens from   *)
(* the tiers.                                                                *)
Categories == <<"input", "output", "cacheRead", "reasoning", "cacheWrite", "embedding">>

(***************************************************************************)
(* Catalogs.                                                               *)
(***************************************************************************)
ModeOf(node) ==
  IF node.mode # "" THEN node.mode ELSE IF node.tiers # <<>> THEN "volume" ELSE "flat"

\* What both loaders refuse.
ModeFits(node) ==
  /\ ModeOf(node) \in Modes
  /\ ModeOf(node) = "flat" <=> node.tiers = <<>>

\* What the Python loader refuses besides; the Java one takes tiers as they come.
Increasing(tiers) ==
  /\ tiers \in Seq([upTo : Int, input : Nat, output : Nat, embedding : Nat])
  /\ \A i \in DOMAIN tiers : tiers[i].upTo = OpenEnded <=> i = Len(tiers)
  /\ \A i, j \in DOMAIN tiers :
       i < j /\ j < Len(tiers) => tiers[i].upTo < tiers[j].upTo
  /\ \A i \in DOMAIN tiers : i < Len(tiers) => 0 <= tiers[i].upTo

Accepts(node) == ModeFits(node) /\ Increasing(node.tiers) /\ node.base \in Rates

AcceptsCatalog(c) ==
  /\ c.cacheRead \in Nat
  /\ Accepts(c.defaults)
  /\ \A m \in DOMAIN c.models : Accepts(c.models[m])

Prefixes(c, m) == {i \in DOMAIN c.prefixes : StartsWith(m, c.prefixes[i])}

NormalizeModelId(c, m) ==
  IF m \notin DOMAIN c.models /\ Prefixes(c, m) # {} THEN c.prefixes[Min(Prefixes(c, m))] ELSE m

ModelPricing(c, m) ==
  LET name == NormalizeModelId(c, m)
  IN  IF name \in DOMAIN c.models THEN c.models[name] ELSE c.defaults

(***************************************************************************)
(* Tiers.                                                                  *)
(***************************************************************************)
FlatTier(node) ==
  [upTo |-> OpenEnded, input |-> node.base.input, output |-> node.base.output,
   embedding |-> node.base.embedding]

TiersOf(node) == IF node.tiers = <<>> THEN <<FlatTier(node)>> ELSE node.tiers

Reaches(tier, index) == tier.upTo = OpenEnded \/ index \div Million < tier.upTo

\* The first tier that reaches the token, or the last one.
TierIndex(tiers, index) ==
  CHOOSE i \in DOMAIN tiers :
    /\ Reaches(tiers[i], index) \/ i = Len(tiers)
    /\ \A j \in DOMAIN tiers : j < i => ~Reaches(tiers[j], index)

TierAtToken(tiers, index) == tiers[TierIndex(tiers, index)]

TierEnd(tier) == tier.upTo * Million

\* Tokens that fit the tier from the cursor on.
Room(tier, cursor, remaining) ==
  IF tier.upTo = OpenEnded \/ remaining <= TierEnd(tier) - cursor
  THEN remaining ELSE TierEnd(tier) - cursor

\* In 1/Unit of a micro-dollar per token.
RateFor(tier, category, cacheRead) ==
  CASE category \in {"input", "cacheWrite"}     -> tier.input * Scale
    [] category \in {"output", "reasoning"}     -> tier.output * Scale
    [] category = "cacheRead"                   -> tier.input * cacheRead
    [] category = "embedding"                   -> tier.embedding * Scale

(***************************************************************************)
(* Costs, in micro-dollars.                                                *)
(***************************************************************************)
\* Math.round
HalfUp(n) == (2 * n + Unit) \div (2 * Unit)

\* round() of Python
HalfEven(n) ==
  LET q == n \div Unit
      r == 2 * (n % Unit)
  IN  IF r > Unit \/ (r = Unit /\ q % 2 = 1) THEN q + 1 ELSE q

Rounded(impl, n) == IF impl = "java" THEN HalfUp(n) ELSE HalfEven(n)

\* One category of an event, chunk by chunk.
CostCategory(tiers, category, tokens, start, cacheRead, impl) ==
  LET cost[remaining \in 0 .. tokens] ==
        IF remaining = 0 THEN 0
        ELSE LET cursor == start + tokens - remaining
                 tier == TierAtToken(tiers, cursor)
                 room == Room(tier, cursor, remaining)
             IN  IF room <= 0
                 THEN Rounded(impl, remaining * RateFor(tiers[Len(tiers)], category, cacheRead))
                 ELSE Rounded(impl, room * RateFor(tier, category, cacheRead)) + cost[remaining - room]
  IN  cost[tokens]

Order == DOMAIN Categories

Before(event, i) == SumFunction([j \in 1 .. (i - 1) |-> event[Categories[j]]])

TotalTokens(event) == Before(event, Len(Categories) + 1)

CostGraduated(tiers, event, before, cacheRead, impl) ==
  SumFunction(
    [i \in Order |-> CostCategory(tiers, Categories[i], event[Categories[i]],
                                  before + Before(event, i), cacheRead, impl)])

CostAtTier(tier, event, cacheRead, impl) ==
  SumFunction(
    [i \in Order |-> Rounded(impl, event[Categories[i]] * RateFor(tier, Categories[i], cacheRead))])

CostMicro(c, m, event, before, impl) ==
  LET node == ModelPricing(c, m)
  IN  IF ModeOf(node) = "graduated"
      THEN CostGraduated(TiersOf(node), event, before, c.cacheRead, impl)
      ELSE CostAtTier(TierAtToken(TiersOf(node), before), event, c.cacheRead, impl)

\* The job.
EventCost(c, m, event, before) == CostMicro(c, m, event, before, "java")

\* The API and the Gateway; a quote knows nothing of the month.
Quote(c, m, event) ==
  LET counted == [k \in DOMAIN event |-> IF event[k] < 0 THEN 0 ELSE event[k]]
  IN  CostMicro(c, m, counted, 0, "python")

Completion(in, out) ==
  [k \in {Categories[i] : i \in Order} |-> CASE k = "input" -> in [] k = "output" -> out [] OTHER -> 0]

\* maxOutput is max_tokens, 0 where the call names none.
Estimate(c, m, maxOutput) ==
  LET out == IF maxOutput > 0 THEN maxOutput ELSE DefaultOutput
      quoted == Quote(c, m, Completion(DefaultInput, out))
  IN  IF quoted = 0 THEN 1 ELSE quoted

(***************************************************************************)
(* The reference: every token has the price of its own place in the month. *)
(***************************************************************************)
CategoryOf(event, k) ==
  Categories[CHOOSE i \in Order : Before(event, i) <= k /\ k < Before(event, i + 1)]

\* In 1/Unit of a micro-dollar.
ExactCost(c, m, event, before) ==
  SumFunction(
    [k \in 0 .. (TotalTokens(event) - 1) |->
       RateFor(TierAtToken(TiersOf(ModelPricing(c, m)), before + k),
               CategoryOf(event, k), c.cacheRead)])

\* Amounts that are rounded on their own: one per category, and one more per
\* tier that ends within the event.
Chunks(c, m, event) ==
  Cardinality({i \in Order : event[Categories[i]] > 0}) + Len(TiersOf(ModelPricing(c, m))) - 1

==============================================================================
