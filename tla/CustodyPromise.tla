--------------------------- MODULE CustodyPromise ----------------------------
(***************************************************************************)
(* What custody promises its clients (docs/api-reference.md, POST /ingest; *)
(* ADR-024): a 202 is granted only for an event that is durable in Kafka   *)
(* with the payload of that request, at a moment its identity is remembered*)
(* for that payload; a remembered identity is kept, unchanged, for the     *)
(* retention.  How identities are claimed, doubted and released on the way *)
(* is not visible here.                                                    *)
(***************************************************************************)
EXTENDS Integers

CONSTANTS Calls, EventIds, Prints, NoPrint, Retention

VARIABLES
  clock,
  holder,   \* the payload an identity is remembered for, or NoPrint
  until,    \* until when it is
  durable,  \* <<event, payload>> pairs in Kafka
  granted      \* <<call, event, payload>> the code decided to answer with 202

promiseVars == <<clock, holder, until, durable, granted>>

PromiseInit ==
  /\ clock = 0
  /\ holder = [e \in EventIds |-> NoPrint]
  /\ until = [e \in EventIds |-> 0]
  /\ durable = {}
  /\ granted = {}

Keep(e) == holder'[e] = holder[e] /\ until'[e] = until[e]

\* Only a payload that is already durable is remembered.
Remember(e) ==
  /\ holder[e] = NoPrint
  /\ <<e, holder'[e]>> \in durable
  /\ until'[e] = clock + Retention

Forget(e) == until[e] <= clock /\ holder'[e] = NoPrint /\ until'[e] = 0

Serve ==
  /\ clock' = clock
  /\ durable \subseteq durable'
  /\ \A e \in EventIds : Keep(e) \/ Remember(e) \/ Forget(e)
  /\ granted \subseteq granted'
  /\ \A g \in granted' \ granted : holder'[g[2]] = g[3] /\ <<g[2], g[3]>> \in durable

Advance == clock' = clock + 1 /\ UNCHANGED <<holder, until, durable, granted>>

PromiseNext == Serve \/ Advance

PromiseSpec == PromiseInit /\ [][PromiseNext]_promiseVars
==============================================================================
