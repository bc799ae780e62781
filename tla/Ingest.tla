------------------------------- MODULE Ingest --------------------------------
(***************************************************************************)
(* The way of an event from an SDK to custody: FluxMeter.track and its     *)
(* retries (sdk client.py), the handlers of POST /ingest and               *)
(* POST /ingest/batch (api/main.py), and the batcher that coalesces        *)
(* concurrent requests (TokenEventCustodyBatcher, api/ingestion.py).       *)
(* Custody itself is one step here, within what Custody.tla shows of it.   *)
(* A client tracks one event, under an eventId of its own for every        *)
(* attempt, so client and event go by one name.                            *)
(***************************************************************************)
EXTENDS Integers, Sequences, SequencesExt, FiniteSets, TLC

CONSTANTS
  Clients,     \* SDK calls of track(), each with its event
  SameKey,     \* the clients that share an API key, hence a CustodyContext
  Retrying,    \* the clients whose max_retries is not 0
  MaxTries,    \* their max_retries + 1
  BatchSize,   \* max_batch_size
  QueueSize    \* max_queue_size

ASSUME IngestAssumption ==
  /\ SameKey \subseteq Clients /\ Retrying \subseteq Clients /\ MaxTries \in Nat \ {0}
  /\ BatchSize \in Nat \ {0} /\ QueueSize \in Nat /\ BatchSize <= QueueSize

VARIABLES
  client, tries,   \* per track() call: control, attempts begun
  request,         \* per attempt: its future, then its HTTP status
  queue, worker,   \* batcher: queue, control of _run
  batch, flushed,  \* the requests _run has taken from the queue, the contexts done
  closing,         \* control of close()
  identity, log,   \* custody: registry, records in Kafka
  posted, granted  \* events in calls of POST /ingest/batch, those answered 202 (history)

sdk == <<client, tries>>
taken == <<batch, flushed>>
batcher == <<queue, worker, taken>>
custody == <<identity, log>>
bulk == <<posted, granted>>
vars == <<sdk, request, batcher, closing, custody, bulk>>

Stop == <<>>   \* the sentinel is no request
Limit(c) == IF c \in Retrying THEN MaxTries ELSE 1
Requests == {r \in Clients \X (1..MaxTries) : r[2] <= Limit(r[1])}

\* What a client can tell apart: 202; 429 or 503 kafka_unavailable; 503
\* custody_uncertain, event_pending or any other failure; 4xx.
Answers == {"accepted", "unavailable", "uncertain", "refused"}

Init ==
  /\ client = [c \in Clients |-> "idle"] /\ tries = [c \in Clients |-> 0]
  /\ request = [r \in Requests |-> "none"]
  /\ queue = <<>> /\ worker = "none" /\ batch = <<>> /\ flushed = {}
  /\ closing = "open"
  /\ identity = [c \in Clients |-> "absent"] /\ log = [c \in Clients |-> 0]
  /\ posted = {} /\ granted = {}

(***************************************************************************)
(* The client: _send.                                                      *)
(***************************************************************************)
\* Refused by its key or its fields, or TokenEventCustodyBatcher.accept: full, queued.
Handle(r) ==
  \/ /\ request' = [request EXCEPT ![r] = "refused"]
     /\ UNCHANGED batcher
  \/ /\ Len(queue) >= QueueSize
     /\ request' = [request EXCEPT ![r] = "unavailable"]
     /\ UNCHANGED batcher
  \/ /\ Len(queue) < QueueSize
     /\ request' = [request EXCEPT ![r] = "queued"]
     /\ queue' = Append(queue, r)
     /\ worker' = IF worker = "none" THEN "waiting" ELSE worker
     /\ UNCHANGED taken

Post(c) ==
  /\ client[c] \in {"idle", "backoff"} /\ closing = "open"
  /\ tries' = [tries EXCEPT ![c] = @ + 1]
  /\ client' = [client EXCEPT ![c] = "waiting"]
  /\ Handle(<<c, tries[c] + 1>>)
  /\ UNCHANGED <<closing, custody, bulk>>

\* A server that shuts down takes no connection.
Unreachable(c) ==
  /\ client[c] \in {"idle", "backoff"} /\ closing # "open"
  /\ tries' = [tries EXCEPT ![c] = Limit(c)]
  /\ client' = [client EXCEPT ![c] = "failed"]
  /\ UNCHANGED <<request, batcher, closing, custody, bulk>>

AfterError(c) == IF tries[c] < Limit(c) THEN "backoff" ELSE "failed"

\* 202 ends the call, 4xx but 429 breaks the loop, the rest is tried again.
Receive(c) ==
  /\ client[c] = "waiting"
  /\ LET answer == request[<<c, tries[c]>>]
     IN  /\ answer \in Answers
         /\ client' = [client EXCEPT ![c] =
              CASE answer = "accepted" -> "sent"
                [] answer = "refused"  -> "failed"
                [] OTHER               -> AfterError(c)]
  /\ UNCHANGED <<tries, request, batcher, closing, custody, bulk>>

\* urlopen times out or loses the connection; the handler goes on.
GiveUp(c) ==
  /\ client[c] = "waiting"
  /\ client' = [client EXCEPT ![c] = AfterError(c)]
  /\ UNCHANGED <<tries, request, batcher, closing, custody, bulk>>

(***************************************************************************)
(* The batcher's worker: _run and _flush.                                  *)
(***************************************************************************)
TakeFirst ==
  /\ worker = "waiting" /\ queue # <<>>
  /\ queue' = Tail(queue)
  /\ IF Head(queue) = Stop
     THEN worker' = "ended" /\ UNCHANGED batch
     ELSE worker' = "collecting" /\ batch' = <<Head(queue)>>
  /\ UNCHANGED <<sdk, request, flushed, closing, custody, bulk>>

\* The window of max_wait_seconds may end whenever.
TakeMore ==
  /\ worker = "collecting" /\ Len(batch) < BatchSize /\ queue # <<>>
  /\ queue' = Tail(queue)
  /\ IF Head(queue) = Stop
     THEN worker' = "flushing" /\ UNCHANGED batch
     ELSE batch' = Append(batch, Head(queue)) /\ UNCHANGED worker
  /\ UNCHANGED <<sdk, request, flushed, closing, custody, bulk>>

StopCollecting ==
  /\ worker = "collecting"
  /\ worker' = "flushing"
  /\ UNCHANGED <<sdk, request, queue, taken, closing, custody, bulk>>

Context(r) == IF r[1] \in SameKey THEN "shared" ELSE r[1]

\* The requests of the batch that go to custody together.
Group(context) == {r \in ToSet(batch) : Context(r) = context}

\* What accept_many may do with an event: answer, new identity, new records.
Fate(c) ==
  CASE identity[c] = "accepted"  -> {<<"accepted", "accepted", 0>>}
    [] identity[c] = "uncertain" -> {<<"uncertain", "uncertain", 0>>}
    [] OTHER -> {<<"accepted", "accepted", 1>>, <<"unavailable", "absent", 0>>,
                 <<"uncertain", "uncertain", 0>>, <<"uncertain", "uncertain", 1>>}

\* Redis cannot be reached, and the whole call raises.  (Custody.tla has the
\* failures halfway, and what they leave in the registry.)
Broken(c) == {<<"error", identity[c], 0>>}

Fates(events) ==
  {f \in [events -> UNION {Fate(c) \cup Broken(c) : c \in events}] :
     (\A c \in events : f[c] \in Fate(c)) \/ (\A c \in events : f[c] \in Broken(c))}

\* Mutant: every copy of an event in the call is published.
AcceptManyCopies(group, fates) ==
  /\ identity' = [c \in Clients |-> IF c \in DOMAIN fates THEN fates[c][2] ELSE identity[c]]
  /\ log' = [c \in Clients |-> IF c \notin DOMAIN fates THEN log[c]
       ELSE log[c] + fates[c][3] * Cardinality({r \in group : r[1] = c})]

\* The copies of an event in one call are aliases of the first.
AcceptMany(group, fates) ==
  /\ identity' = [c \in Clients |-> IF c \in DOMAIN fates THEN fates[c][2] ELSE identity[c]]
  /\ log' = [c \in Clients |-> IF c \in DOMAIN fates THEN log[c] + fates[c][3] ELSE log[c]]

\* Mutant: uncertainty is told as kafka_unavailable.
StatusUnsure(result) == IF result = "accepted" THEN "accepted" ELSE "unavailable"

\* ingest_event maps the result to an HTTP status and a code.
Status(result) ==
  IF result = "error" THEN "uncertain" ELSE result

\* Mutant: an exception of custody is not handed to the futures.
DeliverResults(group, fates) ==
  request' = [r \in Requests |->
    IF request[r] = "queued" /\ r \in group /\ fates[r[1]][1] # "error"
    THEN Status(fates[r[1]][1]) ELSE request[r]]

\* set_result or set_exception, unless the future is done.
Deliver(group, fates) ==
  request' = [r \in Requests |->
    IF request[r] = "queued" /\ r \in group THEN Status(fates[r[1]][1]) ELSE request[r]]

\* Mutant: a sentinel taken with a batch is forgotten.
AfterFlushWaits == "waiting"

AfterFlush == IF closing = "open" THEN "waiting" ELSE "ended"

\* The groups go one by one, in the order in which their contexts came first.
FlushGroup ==
  /\ worker = "flushing"
  /\ \E i \in DOMAIN batch :
       LET context == Context(batch[i])
           done == flushed \cup {context}
       IN  /\ context \notin flushed
           /\ \A j \in 1..(i - 1) : Context(batch[j]) \in flushed
           /\ \E fates \in Fates({r[1] : r \in Group(context)}) :
                AcceptMany(Group(context), fates) /\ Deliver(Group(context), fates)
           /\ IF \A j \in DOMAIN batch : Context(batch[j]) \in done
              THEN batch' = <<>> /\ flushed' = {} /\ worker' = AfterFlush
              ELSE flushed' = done /\ UNCHANGED <<batch, worker>>
  /\ UNCHANGED <<sdk, queue, closing, bulk>>

\* Custody's late reconciliation gets the broker's verdict.
Reconcile(c) ==
  /\ identity[c] = "uncertain"
  /\ identity' = [identity EXCEPT ![c] = IF log[c] > 0 THEN "accepted" ELSE "absent"]
  /\ UNCHANGED <<sdk, request, batcher, closing, log, bulk>>

(***************************************************************************)
(* POST /ingest/batch goes to custody without the batcher.                 *)
(***************************************************************************)
\* Mutant: an uncertain item counts as accepted.
BulkStatusHopeful(results) ==
  IF \A c \in DOMAIN results : results[c] \in {"accepted", "uncertain"} THEN "202" ELSE "mixed"

\* 202 if none failed.  The others, 207, 409, 429 and 503, tell the mixtures
\* and the common causes apart; their bodies hold the results item by item.
BulkStatus(results) ==
  IF \A c \in DOMAIN results : results[c] = "accepted" THEN "202" ELSE "mixed"

\* Items may fail validation, or reuse an eventId for another payload.  One
\* such call is enough: two of them share nothing but the registry.
PostBatch(rejected, changed, prepared) ==
  /\ posted = {} /\ rejected \cup changed \cup prepared # {}
  /\ changed \cap prepared = {} /\ rejected \cap (changed \cup prepared) = {}
  /\ \A c \in changed : identity[c] # "absent"
  /\ posted' = rejected \cup changed \cup prepared
  /\ \E fates \in Fates(prepared) :
       LET answer(c) == IF c \in rejected THEN "rejected"
                        ELSE IF c \in changed THEN "conflict" ELSE fates[c][1]
       IN  /\ AcceptMany({}, fates)
           /\ granted' = IF BulkStatus([c \in posted' |-> answer(c)]) = "202" THEN posted' ELSE {}
  /\ UNCHANGED <<sdk, request, batcher, closing>>

(***************************************************************************)
(* Shutdown: the server has waited for its handlers, or cancels those that *)
(* are left, then close() puts the sentinel and awaits the worker.         *)
(***************************************************************************)
Close ==
  /\ closing = "open"
  /\ request' = [r \in Requests |-> IF request[r] = "queued" THEN "cancelled" ELSE request[r]]
  /\ closing' = IF worker = "none" THEN "closed" ELSE "putting"
  /\ UNCHANGED <<sdk, batcher, custody, bulk>>

PutStop ==
  /\ closing = "putting" /\ Len(queue) < QueueSize
  /\ closing' = "awaiting"
  /\ queue' = Append(queue, Stop)
  /\ UNCHANGED <<sdk, request, worker, taken, custody, bulk>>

WorkerAwaited ==
  /\ closing = "awaiting" /\ worker = "ended"
  /\ closing' = "closed"
  /\ UNCHANGED <<sdk, request, batcher, custody, bulk>>

WorkerStep == TakeFirst \/ TakeMore \/ StopCollecting \/ FlushGroup
CloseStep == PutStop \/ WorkerAwaited

Next ==
  \/ \E c \in Clients : Post(c) \/ Unreachable(c) \/ Receive(c) \/ GiveUp(c) \/ Reconcile(c)
  \/ WorkerStep
  \/ \E rejected, changed, prepared \in SUBSET Clients : PostBatch(rejected, changed, prepared)
  \/ Close \/ CloseStep

Spec == Init /\ [][Next]_vars

(* The event loop runs the worker and close(); urlopen has a timeout and     *)
(* the backoff of _send ends, so the client goes on.                         *)
Fairness ==
  /\ WF_vars(WorkerStep) /\ WF_vars(CloseStep)
  /\ \A c \in Clients : WF_vars(Post(c) \/ Unreachable(c) \/ Receive(c) \/ GiveUp(c))

FairSpec == Spec /\ Fairness

(***************************************************************************)
(* Properties.                                                             *)
(***************************************************************************)
TypeOK ==
  /\ client \in [Clients -> {"idle", "waiting", "backoff", "sent", "failed"}]
  /\ tries \in [Clients -> 0..MaxTries]
  /\ request \in [Requests -> {"none", "queued", "cancelled"} \cup Answers]
  /\ queue \in Seq(Requests \cup {Stop}) /\ Len(queue) <= QueueSize
  /\ batch \in Seq(Requests) /\ Len(batch) <= BatchSize
  /\ flushed \subseteq {Context(r) : r \in Requests}
  /\ worker \in {"none", "waiting", "collecting", "flushing", "ended"}
  /\ closing \in {"open", "putting", "awaiting", "closed"}
  /\ posted \subseteq Clients /\ granted \subseteq posted
  /\ identity \in [Clients -> {"absent", "uncertain", "accepted"}]
  /\ log \in [Clients -> Nat]

(* However requests of different callers are queued, batched, grouped by     *)
(* context and answered, a caller that was told 202 (events_sent, or the     *)
(* status of a whole batch) has its own event in Kafka.                      *)
AckedIsDurable ==
  /\ \A c \in Clients : client[c] = "sent" => log[c] > 0
  /\ \A c \in granted : log[c] > 0

(* "Bounded, identity-safe retries" (sdk client.py): whatever attempts of a  *)
(* client pile up in the batcher, custody publishes its event once.          *)
PublishedOnce == \A c \in Clients : log[c] <= 1

(* A client whose attempts were all refused for certain (429,                *)
(* kafka_unavailable, 4xx) may bill the event some other way: nothing of     *)
(* these attempts is, or will be, in custody.                                *)
RefusalIsCertain ==
  \A c \in Clients :
    /\ client[c] = "failed" /\ c \notin posted
    /\ \A n \in 1..Limit(c) : request[<<c, n>>] \in {"none", "unavailable", "refused"}
    => log[c] = 0

(* No handler waits for ever on its future, whoever fails in the batch.      *)
EveryRequestAnswered ==
  \A r \in Requests : (request[r] = "queued") ~> (request[r] # "queued")

(* Once its sentinel is queued close() returns, be the sentinel taken first, *)
(* taken with a batch, or left behind by a worker that saw _closed.          *)
CloseReturns == (closing = "awaiting") ~> (closing = "closed")
==============================================================================
