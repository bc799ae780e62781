----------------------------- MODULE MCMetering -----------------------------
(* Two events of a dated model, priced by the graduated tiers of its prefix; *)
(* and the prices of single events on small catalogs.                        *)
EXTENDS MeteringJob, TLC

CONSTANTS e1, e2

MCIds == {e1, e2}

Tokens(in, out, cached, thought, written, embedded) ==
  [k \in {Categories[i] : i \in Order} |->
     CASE k = "input" -> in [] k = "output" -> out [] k = "cacheRead" -> cached
       [] k = "reasoning" -> thought [] k = "cacheWrite" -> written [] OTHER -> embedded]

MCUsage == (e1 :> Tokens(3, 2, 0, 0, 0, 0)) @@ (e2 :> Tokens(1, 1, 2, 0, 1, 0))

Price(in, out, embedded) == [input |-> in, output |-> out, embedding |-> embedded]

Tier(upTo, price) ==
  [upTo |-> upTo, input |-> price.input, output |-> price.output, embedding |-> price.embedding]

Node(mode, price, tiers) == [mode |-> mode, base |-> price, tiers |-> tiers]

Falling == <<Tier(1, Price(25, 37, 5)), Tier(3, Price(13, 21, 3)), Tier(OpenEnded, Price(5, 9, 1))>>
Edged   == <<Tier(0, Price(77, 77, 77)), Tier(2, Price(23, 34, 1)), Tier(OpenEnded, Price(11, 11, 1))>>
Rising  == <<Tier(1, Price(11, 22, 1)), Tier(OpenEnded, Price(34, 46, 2))>>

Flat == Node("", Price(3, 5, 1), <<>>)

CatalogOf(node) ==
  [models |-> ("mini" :> node), defaults |-> Flat, prefixes |-> <<"mini">>, cacheRead |-> 1]

MCCatalog == CatalogOf(Node("graduated", Price(25, 37, 5), Falling))
MCStartsWith(m, prefix) == m = "mini-2026" /\ prefix = "mini"

(***************************************************************************)
(* Prices of single events.                                                *)
(***************************************************************************)
Samples ==
  {Tokens(in, out, cached, 1, 0, embedded) :
     in \in 0 .. 3, out \in 0 .. 2, cached \in 0 .. 3, embedded \in 0 .. 1}

Tiered == {Node(mode, Price(3, 5, 1), tiers) : mode \in {"volume", "graduated"},
                                               tiers \in {Falling, Edged, Rising}}

Nodes == Tiered \cup {Flat}

\* Java and Python price alike, but for the rounding of halves.
ASSUME PricesAgree ==
  \A node \in Nodes, event \in Samples :
    LET c == CatalogOf(node)
    IN  OffBy(EventCost(c, "mini", event, 0) - Quote(c, "mini", event))
          <= Chunks(c, "mini", event)

\* Graduated prices, wherever in the month an event begins.
ASSUME GraduatedByToken ==
  \A tiers \in {Falling, Edged, Rising}, event \in Samples, before \in 0 .. 7 :
    LET c == CatalogOf(Node("graduated", Price(3, 5, 1), tiers))
    IN  2 * OffBy(Unit * EventCost(c, "mini-2026", event, before) - ExactCost(c, "mini-2026", event, before))
          <= Unit * Chunks(c, "mini-2026", event)

\* A hold covers a call within its max_tokens, wherever in the month, where
\* prices do not rise with the volume.
ASSUME EstimateCovers ==
  \A node \in Nodes \ {n \in Tiered : n.tiers = Rising}, before \in 0 .. 7, out \in 1 .. 3 :
    LET c == CatalogOf(node)
    IN  \A in \in 0 .. DefaultInput, used \in 0 .. out :
          EventCost(c, "mini", Completion(in, used), before)
            <= Estimate(c, "mini", out) + Chunks(c, "mini", Completion(in, used))

\* What the Python loader refuses.
ASSUME LoaderRefuses ==
  /\ \A node \in Nodes : Accepts(node)
  /\ ~Accepts(Node("flat", Price(1, 1, 1), Rising))
  /\ ~Accepts(Node("graduated", Price(1, 1, 1), <<>>))
  /\ ~Accepts(Node("", Price(1, 1, 1), <<Rising[2], Rising[1]>>))
  /\ ~Accepts(Node("", Price(1, 1, 1), <<Rising[1]>>))
  /\ ~Accepts(Node("", Price(1, 1, 1), <<Rising[1], Rising[1], Rising[2]>>))

==============================================================================
