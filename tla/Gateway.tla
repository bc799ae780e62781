------------------------------- MODULE Gateway -------------------------------
(***************************************************************************)
(* Completions through the Gateway (api/gateway): upstream, stream guard,  *)
(* and the way of the usage through the registry and the outbox in Redis   *)
(* to Kafka, next to the outbox worker of every process.  What becomes of  *)
(* the hold is the subject of Reservation; here it is an amount, and       *)
(* whether it was released without usage.  A completion has an identity of *)
(* its own, res:<reservation>, so its claim finds no other.                *)
(***************************************************************************)
EXTENDS Integers, FiniteSets

CONSTANTS
  Calls, Workers,    \* completions; outbox workers, one in each process
  Foreign,           \* outbox entries that nobody can parse
  Nobody,            \* no entry
  Holds,             \* amounts on hold
  Sizes, Reports,    \* tokens of a chunk's content; token counts a provider reports
  Times,             \* scores: the clocks of the processes when they store
  MaxTokens, MaxFaults \* bounds: tokens of a call; failures, timeouts and deaths

Entries == Calls \cup Foreign
Publishers == Calls \cup Workers

ASSUME GatewayAssumption ==
  /\ Calls \cap Workers = {} /\ Calls \cap Foreign = {} /\ Nobody \notin Entries
  /\ Holds \subseteq Nat /\ Sizes \subseteq Nat \ {0} /\ Reports \subseteq Nat
  /\ Times \subseteq Nat \ {0} /\ MaxTokens \in Nat /\ MaxFaults \in Nat

VARIABLES
  at,              \* control of calls and workers
  stream, hold,    \* per call: does it stream; the amount on hold
  usage, passed,   \* per call: tokens counted; their quote when the last chunk passed
  killed, settled, \* per call: killed by the guard; hold released without usage
  identity,        \* Redis: custody's registry
  raw, score,      \* Redis: envelope of an entry; its place in the pending set, 0 for none
  dead,            \* Redis: the list of entries given up
  entry,           \* per worker: the entry it works on
  sent,            \* per publisher: the fate of the record it waits for
  stray,           \* producers: records nobody waits for any more
  log,             \* Kafka: the calls with a record in the topic
  stored, acked,   \* history: calls that stored their usage; (publisher, entry) without a doubt
  lost, unsure,    \* history: calls that failed before they stored; whose settlement raised
  faults

calls == <<stream, hold, usage, passed, killed, settled>>
outbox == <<raw, score, dead>>
kafka == <<sent, stray, log>>
history == <<stored, acked, lost, unsure>>
vars == <<at, calls, identity, outbox, entry, kafka, history, faults>>

NoTokens == [input |-> 0, output |-> 0]

Init ==
  /\ at = [x \in Publishers |-> IF x \in Calls THEN "new" ELSE "asleep"]
  /\ stream = [c \in Calls |-> FALSE] /\ hold = [c \in Calls |-> 0]
  /\ usage = [c \in Calls |-> NoTokens] /\ passed = [c \in Calls |-> 0]
  /\ killed = [c \in Calls |-> FALSE] /\ settled = [c \in Calls |-> FALSE]
  /\ identity = [c \in Calls |-> "absent"]
  /\ raw = [e \in Entries |-> IF e \in Calls THEN "none" ELSE "malformed"]
  /\ score = [e \in Entries |-> IF e \in Calls THEN 0 ELSE 1]
  /\ dead = {} /\ entry = [w \in Workers |-> Nobody]
  /\ sent = [x \in Publishers |-> "none"] /\ stray = {} /\ log = {}
  /\ stored = {} /\ acked = {} /\ lost = {} /\ unsure = {} /\ faults = 0

Goto(x, to) == at' = [at EXCEPT ![x] = to]
Fault == faults < MaxFaults /\ faults' = faults + 1

(***************************************************************************)
(* The call: routes, ProxiedCompletion, StreamGuard.                       *)
(***************************************************************************)
\* No customer, no access, no JSON body.
Reject(c) ==
  /\ at[c] = "new" /\ Goto(c, "over")
  /\ UNCHANGED <<calls, identity, outbox, entry, kafka, history, faults>>

\* Denied by the budget check, for want of a provider key, or by the hold;
\* or the hold is granted.
Run(c) ==
  /\ at[c] = "new"
  /\ \/ Goto(c, "over") /\ UNCHANGED calls
     \/ /\ Goto(c, "calling")
        /\ \E streams \in BOOLEAN, amount \in Holds :
             stream' = [stream EXCEPT ![c] = streams] /\ hold' = [hold EXCEPT ![c] = amount]
        /\ UNCHANGED <<usage, passed, killed, settled>>
  /\ UNCHANGED <<identity, outbox, entry, kafka, history, faults>>

\* Mutant: the finally of _stream ingests after an error status, too.
UpstreamErrorIngests(c) ==
  /\ at[c] = "calling" /\ Goto(c, IF stream[c] THEN "ingesting" ELSE "over")
  /\ settled' = [settled EXCEPT ![c] = TRUE]
  /\ UNCHANGED <<stream, hold, usage, passed, killed, identity, outbox, entry, kafka, history, faults>>

\* A status of 400 or more: the hold is settled, and nothing ingested.
UpstreamError(c) ==
  /\ at[c] = "calling" /\ Goto(c, "over")
  /\ settled' = [settled EXCEPT ![c] = TRUE]
  /\ UNCHANGED <<stream, hold, usage, passed, killed, identity, outbox, entry, kafka, history, faults>>

\* The settlement raises, and Redis may have released the hold: a stream that
\* had one goes on to ingest, without tokens; without a stream it is a 500.
SettleRaises(c) ==
  /\ at[c] = "calling" /\ Fault
  /\ Goto(c, IF stream[c] /\ hold[c] > 0 THEN "ingesting" ELSE "over")
  /\ settled' \in {settled, [settled EXCEPT ![c] = TRUE]} /\ unsure' = unsure \cup {c}
  /\ UNCHANGED <<stream, hold, usage, passed, killed, identity, outbox, entry, kafka,
                 stored, acked, lost>>

\* An exception without a stream, a body that is not JSON, a stream that
\* nobody starts to read: the hold is left to expire.
NoAnswer(c) ==
  /\ at[c] = "calling" /\ Goto(c, "over")
  /\ UNCHANGED <<calls, identity, outbox, entry, kafka, history, faults>>

\* The usage of the answer, perhaps none, goes to custody before the answer goes out.
Answer(c) ==
  /\ at[c] = "calling" /\ ~stream[c] /\ Goto(c, "ingesting")
  /\ \E i, o \in Reports \cup {0} : usage' = [usage EXCEPT ![c] = [input |-> i, output |-> o]]
  /\ UNCHANGED <<stream, hold, passed, killed, settled, identity, outbox, entry, kafka, history, faults>>

StreamStarts(c) ==
  /\ at[c] = "calling" /\ stream[c] /\ Goto(c, "streaming")
  /\ UNCHANGED <<calls, identity, outbox, entry, kafka, history, faults>>

\* _note_chunk: content adds to the output, a report replaces what it names.
Counted(u) ==
  [input : {u.input} \cup Reports,
   output : {u.output} \cup {u.output + n : n \in Sizes} \cup Reports]

\* One unit a token, whatever the model.
Quote(u) == u.input + u.output

OverHold(c, u) == hold[c] > 0 /\ Quote(u) > hold[c]

\* transform, _process_block: the chunk passes, or the stream is killed in its place.
Chunk(c) ==
  /\ at[c] = "streaming" /\ ~killed[c]
  /\ \E u \in Counted(usage[c]) :
       /\ Quote(u) <= MaxTokens
       /\ usage' = [usage EXCEPT ![c] = u]
       /\ IF OverHold(c, u)
          THEN killed' = [killed EXCEPT ![c] = TRUE] /\ UNCHANGED passed
          ELSE passed' = [passed EXCEPT ![c] = Quote(u)] /\ UNCHANGED killed
  /\ UNCHANGED <<at, stream, hold, settled, identity, outbox, entry, kafka, history, faults>>

\* The finally of _stream: after the last chunk, the kill, an exception or a
\* client that went away, ingest what was counted.
StreamEnds(c) ==
  /\ at[c] \in {"calling", "streaming"} /\ stream[c]
  /\ Goto(c, IF usage[c] # NoTokens \/ hold[c] > 0 THEN "ingesting" ELSE "over")
  /\ UNCHANGED <<calls, identity, outbox, entry, kafka, history, faults>>

(***************************************************************************)
(* Ingestion: ingest_usage, and the buffer branch of _accept_impl.         *)
(***************************************************************************)
Claim(c) ==
  /\ at[c] = "ingesting" /\ Goto(c, "storing")
  /\ identity' = [identity EXCEPT ![c] = "pending"]
  /\ UNCHANGED <<calls, outbox, entry, kafka, history, faults>>

\* store: envelope and place in one MULTI.
Put(c) ==
  /\ raw' = [raw EXCEPT ![c] = "valid"]
  /\ \E t \in Times : score' = [score EXCEPT ![c] = t]
  /\ stored' = stored \cup {c}

Store(c) ==
  /\ at[c] = "storing" /\ Goto(c, "publishing") /\ Put(c)
  /\ UNCHANGED <<calls, identity, dead, entry, kafka, acked, lost, unsure, faults>>

\* Redis raises, before or after the script or the MULTI took effect. _stream
\* swallows the exception, an answer becomes a 500.
IngestFails(c) ==
  /\ at[c] \in {"ingesting", "storing"} /\ Goto(c, "over") /\ Fault
  /\ \/ at[c] = "storing" /\ Put(c) /\ UNCHANGED <<identity, lost>>
     \/ /\ lost' = lost \cup {c}
        /\ identity' \in {identity, [identity EXCEPT ![c] = "pending"]}
        /\ UNCHANGED <<raw, score, stored>>
  /\ UNCHANGED <<calls, dead, entry, kafka, acked, unsure>>

\* Published or not, the stored envelope makes the identity accepted.
Remember(c) ==
  /\ at[c] = "remembering" /\ Goto(c, "over")
  /\ identity' = [identity EXCEPT ![c] = "accepted"]
  /\ UNCHANGED <<calls, outbox, entry, kafka, history, faults>>

\* The transition fails or its reply is lost, the mark may fail, too.
RememberFails(c) ==
  /\ at[c] = "remembering" /\ Goto(c, "over") /\ Fault
  /\ \E state \in {"pending", "uncertain", "accepted"} :
       identity' = [identity EXCEPT ![c] = state]
  /\ UNCHANGED <<calls, outbox, entry, kafka, history>>

(***************************************************************************)
(* Publication: publish_with_ack and remove, by a call or by a worker.     *)
(***************************************************************************)
Target(x) == IF x \in Calls THEN x ELSE entry[x]

Leave(x) == IF x \in Calls THEN "over" ELSE "asleep"

Produce(x) ==
  /\ at[x] = "publishing" /\ sent[x] = "none"
  /\ sent' = [sent EXCEPT ![x] = "queued"]
  /\ UNCHANGED <<at, calls, identity, outbox, entry, stray, log, history, faults>>

\* A full queue is CustodyOverloadedError, which nobody here expects.
ProduceRaises(x) ==
  /\ at[x] = "publishing" /\ sent[x] = "none" /\ Fault
  /\ Goto(x, Leave(x))
  /\ UNCHANGED <<calls, identity, outbox, entry, kafka, history>>

Append(x) ==
  /\ sent[x] = "queued"
  /\ sent' = [sent EXCEPT ![x] = "appended"] /\ log' = log \cup {Target(x)}
  /\ UNCHANGED <<at, calls, identity, outbox, entry, stray, history, faults>>

Acknowledge(x) ==
  /\ sent[x] = "appended" /\ Goto(x, "removing")
  /\ sent' = [sent EXCEPT ![x] = "none"] /\ acked' = acked \cup {<<x, Target(x)>>}
  /\ UNCHANGED <<calls, identity, outbox, entry, stray, log, stored, lost, unsure, faults>>

\* Mutant: the worker takes a timeout for an acknowledgement.
UnavailableRemoves(x) ==
  /\ at[x] = "publishing" /\ Fault
  /\ Goto(x, IF x \in Calls THEN "remembering" ELSE "removing")
  /\ sent' = [sent EXCEPT ![x] = "none"]
  /\ stray' \in {stray, IF sent[x] = "queued" THEN stray \cup {Target(x)} ELSE stray}
  /\ UNCHANGED <<calls, identity, outbox, entry, log, history>>

\* KafkaUnavailableError: produce raised, the report is an error, or there was
\* none in time and the record may still arrive. The entry stays.
Unavailable(x) ==
  /\ at[x] = "publishing" /\ Fault
  /\ Goto(x, IF x \in Calls THEN "remembering" ELSE "asleep")
  /\ sent' = [sent EXCEPT ![x] = "none"]
  /\ stray' \in {stray, IF sent[x] = "queued" THEN stray \cup {Target(x)} ELSE stray}
  /\ UNCHANGED <<calls, identity, outbox, entry, log, history>>

Straggle(c) ==
  /\ c \in stray /\ stray' = stray \ {c} /\ log' = log \cup {c}
  /\ UNCHANGED <<at, calls, identity, outbox, entry, sent, history, faults>>

Taken(e) ==
  /\ raw' = [raw EXCEPT ![e] = "none"] /\ score' = [score EXCEPT ![e] = 0]

\* Mutant: the worker goes on to the next entry without removing this one.
RemoveSkipped(x) ==
  /\ at[x] = "removing"
  /\ IF x \in Calls THEN Taken(x) ELSE UNCHANGED <<raw, score>>
  /\ Goto(x, IF x \in Calls THEN "remembering" ELSE "flushing")
  /\ UNCHANGED <<calls, identity, dead, entry, kafka, history, faults>>

Remove(x) ==
  /\ at[x] = "removing" /\ Taken(Target(x))
  /\ Goto(x, IF x \in Calls THEN "remembering" ELSE "flushing")
  /\ UNCHANGED <<calls, identity, dead, entry, kafka, history, faults>>

\* The MULTI fails, or its reply is lost.
RemoveFails(x) ==
  /\ at[x] = "removing" /\ Goto(x, Leave(x)) /\ Fault
  /\ Taken(Target(x)) \/ UNCHANGED <<raw, score>>
  /\ acked' = acked \ {<<x, Target(x)>>}
  /\ UNCHANGED <<calls, identity, dead, entry, kafka, stored, lost, unsure>>

(***************************************************************************)
(* The worker: start_worker, flush_once.                                   *)
(***************************************************************************)
Wake(w) ==
  /\ at[w] = "asleep" /\ Goto(w, "flushing")
  /\ UNCHANGED <<calls, identity, outbox, entry, kafka, history, faults>>

Pending == {e \in Entries : score[e] # 0}
Heads == {e \in Pending : \A f \in Pending : score[e] <= score[f]}

\* zrange; with nothing pending the worker turns to expiry (Reservation) and sleeps.
Peek(w) ==
  /\ at[w] = "flushing"
  /\ \/ Pending = {} /\ Goto(w, "asleep") /\ UNCHANGED entry
     \/ \E e \in Heads : Goto(w, "reading") /\ entry' = [entry EXCEPT ![w] = e]
  /\ UNCHANGED <<calls, identity, outbox, kafka, history, faults>>

\* get, json.loads: gone meanwhile, fit to publish, or not.
Read(w) ==
  /\ at[w] = "reading"
  /\ Goto(w, CASE raw[entry[w]] = "none" -> "dropping"
               [] raw[entry[w]] = "valid" -> "publishing"
               [] raw[entry[w]] = "malformed" -> "burying")
  /\ UNCHANGED <<calls, identity, outbox, entry, kafka, history, faults>>

\* zrem of an id without an envelope.
DropId(w) ==
  /\ at[w] = "dropping" /\ Goto(w, "flushing")
  /\ score' = [score EXCEPT ![entry[w]] = 0]
  /\ UNCHANGED <<calls, identity, raw, dead, entry, kafka, history, faults>>

\* Mutant: a malformed entry stays at the head.
BuryInPlace(w) ==
  /\ at[w] = "burying" /\ Goto(w, "flushing")
  /\ dead' = dead \cup {entry[w]}
  /\ UNCHANGED <<calls, identity, raw, score, entry, kafka, history, faults>>

Bury(w) ==
  /\ at[w] = "burying" /\ Goto(w, "removing")
  /\ dead' = dead \cup {entry[w]}
  /\ UNCHANGED <<calls, identity, raw, score, entry, kafka, history, faults>>

(***************************************************************************)
(* A process dies, and its records may have left it; its worker starts     *)
(* again.  A worker whose read of Redis raises also goes to sleep.         *)
(***************************************************************************)
Die(x) ==
  /\ at[x] \notin {"new", "over", "asleep"} /\ Goto(x, Leave(x)) /\ Fault
  /\ sent' = [sent EXCEPT ![x] = "none"]
  /\ stray' \in {stray, IF sent[x] = "queued" THEN stray \cup {Target(x)} ELSE stray}
  /\ acked' = IF at[x] = "removing" THEN acked \ {<<x, Target(x)>>} ELSE acked
  /\ lost' = IF x \in Calls \ stored THEN lost \cup {x} ELSE lost
  /\ UNCHANGED <<calls, identity, outbox, entry, log, stored, unsure>>

CallStep(c) ==
  \/ UpstreamError(c) \/ NoAnswer(c) \/ Answer(c) \/ StreamStarts(c) \/ StreamEnds(c)
  \/ Claim(c) \/ Store(c) \/ Remember(c)

WorkerStep(w) == Wake(w) \/ Peek(w) \/ Read(w) \/ DropId(w) \/ Bury(w)

PublishStep(x) == Produce(x) \/ Append(x) \/ Acknowledge(x) \/ Remove(x)

Failure(x) == ProduceRaises(x) \/ Unavailable(x) \/ RemoveFails(x) \/ Die(x)

Next ==
  \/ \E c \in Calls : \/ Reject(c) \/ Run(c) \/ Chunk(c) \/ CallStep(c) \/ Straggle(c)
                      \/ SettleRaises(c) \/ IngestFails(c) \/ RememberFails(c)
  \/ \E w \in Workers : WorkerStep(w)
  \/ \E x \in Publishers : PublishStep(x) \/ Failure(x)

\* Upstreams end (a timeout sees to it), workers loop, Kafka takes records when it
\* does not fail.
Fairness ==
  /\ \A c \in Calls : WF_vars(CallStep(c))
  /\ \A w \in Workers : WF_vars(WorkerStep(w))
  /\ \A x \in Publishers : WF_vars(PublishStep(x))

Spec == Init /\ [][Next]_vars /\ Fairness

(***************************************************************************)
(* Properties.                                                             *)
(***************************************************************************)
Controls ==
  {"new", "calling", "streaming", "ingesting", "storing", "publishing", "removing",
   "remembering", "over", "asleep", "flushing", "reading", "dropping", "burying"}

(* The variables keep their types; only what is being published has a record *)
(* on the way, and only stored usage can be accepted, straggle or arrive.    *)
TypeOK ==
  /\ at \in [Publishers -> Controls] /\ entry \in [Workers -> Entries \cup {Nobody}]
  /\ stream \in [Calls -> BOOLEAN] /\ hold \in [Calls -> Nat] /\ passed \in [Calls -> Nat]
  /\ usage \in [Calls -> [input : Nat, output : Nat]]
  /\ killed \in [Calls -> BOOLEAN] /\ settled \in [Calls -> BOOLEAN]
  /\ identity \in [Calls -> {"absent", "pending", "accepted", "uncertain"}]
  /\ raw \in [Entries -> {"none", "valid", "malformed"}] /\ score \in [Entries -> Nat]
  /\ sent \in [Publishers -> {"none", "queued", "appended"}]
  /\ \A x \in Publishers : sent[x] # "none" => at[x] = "publishing"
  /\ dead \subseteq Foreign /\ stray \subseteq stored /\ log \subseteq stored
  /\ stored \subseteq Calls /\ acked \subseteq Publishers \X stored /\ lost \subseteq Calls \ stored
  /\ unsure \subseteq Calls
  /\ faults \in 0..MaxFaults

(* Usage that was stored, and with it an identity that custody accepted, is  *)
(* in Kafka or in the outbox where a worker finds it, whoever publishes,     *)
(* fails or dies: nobody removes an entry on the word of somebody else's     *)
(* report, or takes a timeout for an acknowledgement.                        *)
UsageKept ==
  \A c \in Calls :
    c \in stored \/ identity[c] = "accepted"
    => c \in log \/ (raw[c] = "valid" /\ score[c] # 0)

(* What is stored is a true receipt of the call: a hold was released for     *)
(* want of usage only if none is billed, and only if the settlement raised   *)
(* after Redis had applied it; a stream with a hold is marked as killed if   *)
(* and only if its tokens quote above the hold; and what passed the guard is *)
(* within the hold and within what is billed.                                *)
ReceiptIsTrue ==
  \A c \in stored :
    /\ settled[c] => c \in unsure /\ usage[c] = NoTokens
    /\ passed[c] <= Quote(usage[c])
    /\ stream[c] /\ hold[c] > 0
       => /\ killed[c] <=> Quote(usage[c]) > hold[c]
          /\ passed[c] <= hold[c]

(* Call and workers may each publish an entry once, since all of them may    *)
(* have read it.  None does so again after an acknowledgement, unless it     *)
(* died or could not remove the entry: only then must the deduplicator of    *)
(* the job look further back than a few seconds.                             *)
NotPublishedAgain ==
  [][\A x \in Publishers : sent[x] = "none" /\ sent'[x] = "queued"
                           => <<x, Target(x)>> \notin acked]_vars

(* Whatever an upstream reported or a stream counted reaches Kafka, past     *)
(* malformed entries at the head of the outbox, failures and deaths, unless  *)
(* the call failed before it stored its usage.                               *)
UsageArrives ==
  \A c \in Calls : (usage[c] # NoTokens \/ at[c] = "ingesting") ~> (c \in log \cup lost)
==============================================================================
