----------------------------- MODULE IngestProofs -----------------------------
(***************************************************************************)
(* For any number of callers and retries, whatever requests share a batch: *)
(* who is told 202 has the event in Kafka, once, and who is refused for    *)
(* certain has not.  A request is in one place, the queue or the batch,    *)
(* until its group has gone to custody, and then it is told what became of *)
(* its own event.                                                          *)
(***************************************************************************)
EXTENDS Ingest, SequenceTheorems, TLAPS

(***************************************************************************)
(* The inductive invariant.                                                *)
(***************************************************************************)
\* The attempts of one call.
Attempts(c) ==
  /\ tries[c] <= Limit(c)
  /\ client[c] = "idle" => tries[c] = 0
  /\ client[c] = "backoff" => tries[c] < Limit(c)
  /\ client[c] = "waiting" => 1 <= tries[c]
  /\ \A n \in 1..Limit(c) : request[<<c, n>>] # "none" => n <= tries[c]

\* The registry knows what is in Kafka, but for the uncertain.
Registry(c) ==
  /\ identity[c] = "absent" => log[c] = 0
  /\ identity[c] = "accepted" => log[c] = 1
  /\ log[c] <= 1

\* Not answered yet, but perhaps cancelled.
Open == {"queued", "cancelled"}

Queued ==
  /\ \A i \in DOMAIN queue : queue[i] # Stop => request[queue[i]] \in Open
  /\ \A i, j \in DOMAIN queue : queue[i] = queue[j] /\ queue[i] # Stop => i = j
  /\ \A i \in DOMAIN queue, j \in DOMAIN batch : queue[i] # batch[j]
  /\ \A j \in DOMAIN batch :
       /\ request[batch[j]] # "none"
       /\ Context(batch[j]) \notin flushed => request[batch[j]] \in Open
  /\ worker # "flushing" => flushed = {}

\* What an attempt that may have published leaves behind.
Traces == {"accepted", "uncertain", "cancelled"}

Told(c) ==
  /\ \A n \in 1..Limit(c) : request[<<c, n>>] = "accepted" => log[c] > 0
  /\ client[c] = "sent" \/ c \in granted => log[c] > 0
  /\ log[c] > 0 => c \in posted \/ \E n \in 1..Limit(c) : request[<<c, n>>] \in Traces

Inv ==
  /\ TypeOK /\ Queued
  /\ \A c \in Clients : Attempts(c) /\ Registry(c) /\ Told(c)

(***************************************************************************)
(* Lemmas.                                                                 *)
(***************************************************************************)
LEMMA Limits ==
  ASSUME NEW c \in Clients
  PROVE  Limit(c) \in Nat /\ 1 <= Limit(c) /\ Limit(c) <= MaxTries
BY IngestAssumption DEF Limit

(* A request is an attempt of a client, and not the sentinel.                 *)
LEMMA RequestOf ==
  ASSUME NEW r \in Requests
  PROVE  /\ r[1] \in Clients /\ r[2] \in 1..Limit(r[1]) /\ r = <<r[1], r[2]>> /\ r # Stop
<1>1. r \in Clients \X (1..MaxTries) /\ r[2] <= Limit(r[1])
  BY DEF Requests
<1>2. r[1] \in Clients /\ r[2] \in 1..MaxTries /\ r = <<r[1], r[2]>>
  BY <1>1
<1>3. r # Stop
  BY <1>2 DEF Stop
<1> QED
  BY <1>1, <1>2, <1>3, Limits, IngestAssumption

(* The numbered tries of a client are requests.                               *)
LEMMA RequestIs ==
  ASSUME NEW c \in Clients, NEW n \in 1..Limit(c)
  PROVE  <<c, n>> \in Requests
<1>1. n \in 1..MaxTries /\ n <= Limit(c)
  BY Limits, IngestAssumption
<1> QED
  BY <1>1 DEF Requests

(* What custody may do with an event, by what it knows of it.                 *)
LEMMA FateOf ==
  ASSUME NEW E \in SUBSET Clients, NEW fates \in Fates(E), NEW c \in E
  PROVE  /\ DOMAIN fates = E
         /\ \/ fates[c] \in Fate(c)
            \/ fates[c] \in Broken(c)
BY DEF Fates

(* What acceptance makes of an event, by the identity the registry holds.     *)
LEMMA FateKinds ==
  ASSUME NEW E \in SUBSET Clients, NEW fates \in Fates(E), NEW c \in E,
         identity[c] \in {"absent", "uncertain", "accepted"}
  PROVE  \/ fates[c] = <<"error", identity[c], 0>>
         \/ identity[c] = "accepted" /\ fates[c] = <<"accepted", "accepted", 0>>
         \/ identity[c] = "uncertain" /\ fates[c] = <<"uncertain", "uncertain", 0>>
         \/ identity[c] = "absent" /\ fates[c] = <<"accepted", "accepted", 1>>
         \/ identity[c] = "absent" /\ fates[c] = <<"unavailable", "absent", 0>>
         \/ identity[c] = "absent" /\ fates[c] = <<"uncertain", "uncertain", 0>>
         \/ identity[c] = "absent" /\ fates[c] = <<"uncertain", "uncertain", 1>>
<1>1. fates[c] \in Fate(c) \/ fates[c] = <<"error", identity[c], 0>>
  BY FateOf DEF Broken
<1>2. CASE identity[c] = "accepted"
  BY <1>1, <1>2 DEF Fate
<1>3. CASE identity[c] = "uncertain"
  BY <1>1, <1>3 DEF Fate
<1>4. CASE identity[c] = "absent"
  BY <1>1, <1>4 DEF Fate
<1> QED
  BY <1>2, <1>3, <1>4

(* One call of accept_many: the registry stays true, records only come, and   *)
(* who is told "accepted" is in Kafka.                                        *)
LEMMA Accepting ==
  ASSUME TypeOK, \A c \in Clients : Registry(c),
         NEW E \in SUBSET Clients, NEW fates \in Fates(E), NEW g, AcceptMany(g, fates)
  PROVE  /\ identity' \in [Clients -> {"absent", "uncertain", "accepted"}]
         /\ log' \in [Clients -> Nat]
         /\ \A c \in Clients :
              /\ Registry(c)' /\ log[c] <= log'[c]
              /\ c \notin E => log'[c] = log[c]
              /\ c \in E =>
                   /\ fates[c][1] \in {"accepted", "unavailable", "uncertain", "error"}
                   /\ fates[c][1] = "accepted" => log'[c] > 0
                   /\ fates[c][1] \in {"unavailable", "error"} => log'[c] = log[c]
<1>1. /\ identity' = [c \in Clients |-> IF c \in DOMAIN fates THEN fates[c][2] ELSE identity[c]]
      /\ log' = [c \in Clients |-> IF c \in DOMAIN fates THEN log[c] + fates[c][3] ELSE log[c]]
  BY DEF AcceptMany
<1>2. DOMAIN fates = E
  BY DEF Fates
<1>3. \A c \in Clients : log[c] \in Nat /\ identity[c] \in {"absent", "uncertain", "accepted"}
  BY DEF TypeOK
<1>4. ASSUME NEW c \in Clients
      PROVE  /\ identity'[c] \in {"absent", "uncertain", "accepted"} /\ log'[c] \in Nat
             /\ Registry(c)' /\ log[c] <= log'[c]
             /\ c \notin E => log'[c] = log[c]
             /\ c \in E =>
                  /\ fates[c][1] \in {"accepted", "unavailable", "uncertain", "error"}
                  /\ fates[c][1] = "accepted" => log'[c] > 0
                  /\ fates[c][1] \in {"unavailable", "error"} => log'[c] = log[c]
  <2>1. CASE c \notin E
    BY <1>1, <1>2, <1>3, <2>1 DEF Registry
  <2>2. CASE c \in E
    <3>1. identity'[c] = fates[c][2] /\ log'[c] = log[c] + fates[c][3]
      BY <1>1, <1>2, <2>2
    <3>2. \/ fates[c] = <<"error", identity[c], 0>>
          \/ identity[c] = "accepted" /\ fates[c] = <<"accepted", "accepted", 0>>
          \/ identity[c] = "uncertain" /\ fates[c] = <<"uncertain", "uncertain", 0>>
          \/ identity[c] = "absent" /\ fates[c] = <<"accepted", "accepted", 1>>
          \/ identity[c] = "absent" /\ fates[c] = <<"unavailable", "absent", 0>>
          \/ identity[c] = "absent" /\ fates[c] = <<"uncertain", "uncertain", 0>>
          \/ identity[c] = "absent" /\ fates[c] = <<"uncertain", "uncertain", 1>>
      BY <1>3, <2>2, FateKinds
    <3> QED
      BY <1>3, <2>2, <3>1, <3>2 DEF Registry
  <2> QED
    BY <2>1, <2>2
<1>5. identity' \in [Clients -> {"absent", "uncertain", "accepted"}] /\ log' \in [Clients -> Nat]
  BY <1>1, <1>4
<1> QED
  BY <1>4, <1>5

\* The sequences of the batcher.
LEMMA Batcher ==
  ASSUME TypeOK
  PROVE  /\ Len(queue) \in Nat /\ DOMAIN queue = 1..Len(queue)
         /\ \A i \in DOMAIN queue : queue[i] \in Requests \/ queue[i] = Stop
         /\ Len(batch) \in Nat /\ DOMAIN batch = 1..Len(batch)
         /\ \A i \in DOMAIN batch : batch[i] \in Requests
<1>1. queue \in Seq(Requests \cup {Stop}) /\ batch \in Seq(Requests)
  BY DEF TypeOK
<1> QED
  BY <1>1

(* A group is the requests of the batch under one context; its futures get    *)
(* the status of their own event.                                             *)
LEMMA GroupOf ==
  ASSUME TypeOK, NEW k, NEW r
  PROVE  /\ r \in Group(k) <=> \E j \in DOMAIN batch : r = batch[j] /\ Context(r) = k
         /\ r \in Group(k) => r \in Requests /\ r[1] \in Clients
<1>1. r \in ToSet(batch) <=> \E j \in DOMAIN batch : r = batch[j]
  BY DEF ToSet
<1>2. r \in Group(k) <=> \E j \in DOMAIN batch : r = batch[j] /\ Context(r) = k
  BY <1>1 DEF Group
<1> QED
  BY <1>2, Batcher, RequestOf

(* A flush takes one context of the batch that was not yet flushed, with the  *)
(* fates of its events.                                                       *)
LEMMA Flushing ==
  ASSUME TypeOK, FlushGroup
  PROVE  \E i \in DOMAIN batch, E \in SUBSET Clients :
           LET k == Context(batch[i])
           IN  /\ E = {r[1] : r \in Group(k)}
               /\ k \notin flushed
               /\ \E fates \in Fates(E) : AcceptMany(Group(k), fates) /\ Deliver(Group(k), fates)
               /\ \/ batch' = <<>> /\ flushed' = {} /\ worker' \in {"waiting", "ended"}
                  \/ flushed' = flushed \cup {k} /\ batch' = batch /\ worker' = "flushing"
<1>1. PICK i \in DOMAIN batch :
        LET k == Context(batch[i])
        IN  /\ k \notin flushed
            /\ \E fates \in Fates({r[1] : r \in Group(k)}) :
                 AcceptMany(Group(k), fates) /\ Deliver(Group(k), fates)
            /\ \/ batch' = <<>> /\ flushed' = {} /\ worker' \in {"waiting", "ended"}
               \/ flushed' = flushed \cup {k} /\ batch' = batch /\ worker' = "flushing"
  BY DEF FlushGroup, AfterFlush
<1> DEFINE E == {r[1] : r \in Group(Context(batch[i]))}
<1>2. E \in SUBSET Clients
  BY GroupOf
<1> QED
  BY <1>1, <1>2

(* What a future is told.                                                     *)
LEMMA Answering ==
  ASSUME TypeOK, \A c \in Clients : Registry(c), NEW k, NEW E \in SUBSET Clients,
         E = {r[1] : r \in Group(k)}, NEW fates \in Fates(E),
         AcceptMany(Group(k), fates), Deliver(Group(k), fates)
  PROVE  /\ request' \in [Requests -> {"none", "queued", "cancelled"} \cup Answers]
         /\ \A r \in Requests :
              \/ request'[r] = request[r] /\ ~(request[r] = "queued" /\ r \in Group(k))
              \/ /\ request[r] = "queued" /\ r \in Group(k) /\ r[1] \in E
                 /\ request'[r] \in {"accepted", "unavailable", "uncertain"}
                 /\ request'[r] = "accepted" => log'[r[1]] > 0
                 /\ request'[r] = "unavailable" => log'[r[1]] = log[r[1]]
<1>1. request' = [r \in Requests |->
        IF request[r] = "queued" /\ r \in Group(k) THEN Status(fates[r[1]][1]) ELSE request[r]]
  BY DEF Deliver
<1>2. ASSUME NEW r \in Requests, request[r] = "queued", r \in Group(k)
      PROVE  /\ r[1] \in E
             /\ Status(fates[r[1]][1]) \in {"accepted", "unavailable", "uncertain"}
             /\ Status(fates[r[1]][1]) = "accepted" => log'[r[1]] > 0
             /\ Status(fates[r[1]][1]) = "unavailable" => log'[r[1]] = log[r[1]]
  <2>1. r[1] \in E /\ r[1] \in Clients
    BY <1>2, RequestOf
  <2>2. /\ fates[r[1]][1] \in {"accepted", "unavailable", "uncertain", "error"}
        /\ fates[r[1]][1] = "accepted" => log'[r[1]] > 0
        /\ fates[r[1]][1] \in {"unavailable", "error"} => log'[r[1]] = log[r[1]]
    BY <2>1, Accepting
  <2> QED
    BY <2>1, <2>2 DEF Status
<1>3. request' \in [Requests -> {"none", "queued", "cancelled"} \cup Answers]
  <2>1. \A r \in Requests : request'[r] \in {"none", "queued", "cancelled"} \cup Answers
    BY <1>1, <1>2 DEF TypeOK, Answers
  <2> QED
    BY <1>1, <2>1
<1> QED
  BY <1>1, <1>2, <1>3

(* The state, step by step, as TypeOK has it.                                 *)
LEMMA PostTyped ==
  ASSUME Inv, NEW c \in Clients, Post(c)
  PROVE  /\ tries[c] + 1 \in 1..Limit(c) /\ tries[c] \in Nat
         /\ <<c, tries[c] + 1>> \in Requests /\ request[<<c, tries[c] + 1>>] = "none"
<1>1. tries[c] \in Nat /\ client[c] \in {"idle", "backoff"}
  BY DEF Inv, TypeOK, Post
<1>2. tries[c] + 1 \in 1..Limit(c)
  BY <1>1, Limits DEF Inv, Attempts
<1>3. <<c, tries[c] + 1>> \in Requests
  BY <1>2, RequestIs
<1>4. request[<<c, tries[c] + 1>>] = "none"
  BY <1>1, <1>2 DEF Inv, Attempts
<1> QED
  BY <1>1, <1>2, <1>3, <1>4

\* The queue after one more request.
LEMMA Enqueued ==
  ASSUME TypeOK, NEW q \in Requests \cup {Stop}, queue' = Append(queue, q), Len(queue) < QueueSize
  PROVE  /\ queue' \in Seq(Requests \cup {Stop}) /\ Len(queue') <= QueueSize
         /\ DOMAIN queue' = DOMAIN queue \cup {Len(queue) + 1}
         /\ Len(queue) + 1 \notin DOMAIN queue
         /\ queue'[Len(queue) + 1] = q
         /\ \A i \in DOMAIN queue : queue'[i] = queue[i]
<1>1. PICK R : R = Requests \cup {Stop}
  OBVIOUS
<1>2. queue \in Seq(R) /\ q \in R
  BY <1>1 DEF TypeOK
<1>3. queue' \in Seq(R) /\ Len(queue') = Len(queue) + 1 /\ Len(queue) \in Nat
  BY <1>2
<1>4. QueueSize \in Nat
  BY IngestAssumption
<1> QED
  BY <1>1, <1>2, <1>3, <1>4

\* The queue after _run has taken its head.
LEMMA Dequeued ==
  ASSUME TypeOK, queue # <<>>, queue' = Tail(queue)
  PROVE  /\ queue' \in Seq(Requests \cup {Stop}) /\ Len(queue') <= QueueSize
         /\ 1 \in DOMAIN queue /\ Head(queue) = queue[1]
         /\ \A i \in DOMAIN queue' : i + 1 \in DOMAIN queue /\ i + 1 # 1 /\ queue'[i] = queue[i + 1]
<1>1. PICK R : R = Requests \cup {Stop}
  OBVIOUS
<1>2. queue \in Seq(R) /\ Len(queue) <= QueueSize
  BY <1>1 DEF TypeOK
<1>3. queue' \in Seq(R) /\ Len(queue') = Len(queue) - 1 /\ Len(queue) \in Nat /\ 0 < Len(queue)
  BY <1>2
<1>4. QueueSize \in Nat
  BY IngestAssumption
<1>5. \A i \in DOMAIN queue' : queue'[i] = queue[i + 1]
  BY <1>2, <1>3
<1>6. Head(queue) = queue[1]
  BY <1>2, <1>3
<1> QED
  BY <1>1, <1>2, <1>3, <1>4, <1>5, <1>6

\* What a handler does with the attempt it gets.
LEMMA Handling ==
  ASSUME Inv, NEW c \in Clients, Post(c)
  PROVE  \E r \in Requests :
           /\ r = <<c, tries[c] + 1>> /\ request[r] = "none"
           /\ tries' = [tries EXCEPT ![c] = @ + 1] /\ client' = [client EXCEPT ![c] = "waiting"]
           /\ UNCHANGED <<batch, flushed, closing, identity, log, posted, granted>>
           /\ \/ /\ request' = [request EXCEPT ![r] = "refused"] \/ request' = [request EXCEPT ![r] = "unavailable"]
                 /\ UNCHANGED <<queue, worker>>
              \/ /\ request' = [request EXCEPT ![r] = "queued"]
                 /\ Len(queue) < QueueSize /\ queue' = Append(queue, r)
                 /\ worker' = IF worker = "none" THEN "waiting" ELSE worker
BY PostTyped DEF Post, Handle, batcher, taken, custody, bulk

(* Everything keeps its type.                                                 *)
LEMMA TypeStep ==
  ASSUME Inv, Next
  PROVE  TypeOK'
<1> DEFINE Status0 == {"none", "queued", "cancelled"} \cup Answers
           Workers0 == {"none", "waiting", "collecting", "flushing", "ended"}
<1>0. TypeOK /\ \A c \in Clients : Registry(c)
  BY DEF Inv
<1>1. ASSUME NEW c \in Clients, Post(c) PROVE TypeOK'
  <2>1. PICK r \in Requests :
           /\ r = <<c, tries[c] + 1>>
           /\ tries' = [tries EXCEPT ![c] = @ + 1] /\ client' = [client EXCEPT ![c] = "waiting"]
           /\ UNCHANGED <<batch, flushed, closing, identity, log, posted, granted>>
           /\ \/ /\ request' = [request EXCEPT ![r] = "refused"] \/ request' = [request EXCEPT ![r] = "unavailable"]
                 /\ UNCHANGED <<queue, worker>>
              \/ /\ request' = [request EXCEPT ![r] = "queued"]
                 /\ Len(queue) < QueueSize /\ queue' = Append(queue, r)
                 /\ worker' = IF worker = "none" THEN "waiting" ELSE worker
    BY <1>1, Handling
  <2>2. tries' \in [Clients -> 0..MaxTries]
    <3>1. tries[c] + 1 \in 0..MaxTries
      <4>1. tries[c] + 1 \in 1..Limit(c) /\ tries[c] \in Nat
        BY <1>1, PostTyped
      <4>2. Limit(c) \in Nat /\ Limit(c) <= MaxTries /\ MaxTries \in Nat
        BY Limits, IngestAssumption
      <4> QED
        BY <4>1, <4>2
    <3> QED
      BY <1>0, <2>1, <3>1 DEF TypeOK
  <2>3. request' \in [Requests -> Status0]
    BY <1>0, <2>1 DEF TypeOK, Answers
  <2>4. /\ client' \in [Clients -> {"idle", "waiting", "backoff", "sent", "failed"}]
        /\ worker' \in Workers0
    BY <1>0, <2>1 DEF TypeOK
  <2>5. queue' \in Seq(Requests \cup {Stop}) /\ Len(queue') <= QueueSize
    <3>1. CASE queue' = queue
      BY <1>0, <3>1 DEF TypeOK
    <3>2. CASE Len(queue) < QueueSize /\ queue' = Append(queue, r)
      BY <1>0, <3>2, Enqueued
    <3> QED
      BY <2>1, <3>1, <3>2
  <2> QED
    BY <1>0, <2>1, <2>2, <2>3, <2>4, <2>5 DEF TypeOK
<1>2. ASSUME NEW c \in Clients, Unreachable(c) PROVE TypeOK'
  <2>1. Limit(c) \in 0..MaxTries
    BY Limits, IngestAssumption
  <2> QED
    BY <1>0, <1>2, <2>1 DEF Unreachable, TypeOK, batcher, taken, custody, bulk
<1>3. ASSUME NEW c \in Clients, Receive(c) \/ GiveUp(c) PROVE TypeOK'
  <2>1. /\ client' \in [Clients -> {"idle", "waiting", "backoff", "sent", "failed"}]
        /\ UNCHANGED <<tries, request, batcher, closing, custody, bulk>>
    BY <1>0, <1>3 DEF Receive, GiveUp, AfterError, TypeOK
  <2> QED
    BY <1>0, <2>1 DEF TypeOK, batcher, taken, custody, bulk
<1>4. ASSUME NEW c \in Clients, Reconcile(c) PROVE TypeOK'
  BY <1>0, <1>4 DEF Reconcile, TypeOK, sdk, batcher, taken, bulk
<1>5. CASE TakeFirst
  <2>1. queue' \in Seq(Requests \cup {Stop}) /\ Len(queue') <= QueueSize /\ Head(queue) \in Requests \cup {Stop}
    BY <1>0, <1>5, Dequeued, Batcher DEF TakeFirst
  <2>2. CASE Head(queue) = Stop
    BY <1>0, <1>5, <2>1, <2>2 DEF TakeFirst, TypeOK, sdk, custody, bulk
  <2>3. CASE Head(queue) \in Requests /\ Head(queue) # Stop
    <3>1. batch' = <<Head(queue)>> /\ worker' = "collecting"
      BY <1>5, <2>3 DEF TakeFirst
    <3>2. batch' \in Seq(Requests) /\ Len(batch') = 1
      BY <2>3, <3>1
    <3>3. Len(batch') <= BatchSize
      BY <3>2, IngestAssumption
    <3> QED
      BY <1>0, <1>5, <2>1, <3>1, <3>2, <3>3 DEF TakeFirst, TypeOK, sdk, custody, bulk
  <2> QED
    BY <2>1, <2>2, <2>3
<1>6. CASE TakeMore
  <2>1. queue' \in Seq(Requests \cup {Stop}) /\ Len(queue') <= QueueSize /\ Head(queue) \in Requests \cup {Stop}
    BY <1>0, <1>6, Dequeued, Batcher DEF TakeMore
  <2>2. CASE Head(queue) = Stop
    BY <1>0, <1>6, <2>1, <2>2 DEF TakeMore, TypeOK, sdk, custody, bulk
  <2>3. CASE Head(queue) \in Requests /\ Head(queue) # Stop
    <3>1. batch' = Append(batch, Head(queue)) /\ worker' = worker /\ Len(batch) < BatchSize
      BY <1>6, <2>3 DEF TakeMore
    <3>2. batch' \in Seq(Requests) /\ Len(batch') = Len(batch) + 1 /\ Len(batch) \in Nat
      BY <1>0, <2>3, <3>1 DEF TypeOK
    <3>3. Len(batch') <= BatchSize
      BY <3>1, <3>2, IngestAssumption
    <3> QED
      BY <1>0, <1>6, <2>1, <3>1, <3>2, <3>3 DEF TakeMore, TypeOK, sdk, custody, bulk
  <2> QED
    BY <2>1, <2>2, <2>3
<1>7. CASE StopCollecting
  BY <1>0, <1>7 DEF StopCollecting, TypeOK, sdk, taken, custody, bulk
<1>8. CASE FlushGroup
  <2>1. PICK i \in DOMAIN batch, E \in SUBSET Clients :
          LET k == Context(batch[i])
          IN  /\ E = {r[1] : r \in Group(k)}
              /\ \E fates \in Fates(E) : AcceptMany(Group(k), fates) /\ Deliver(Group(k), fates)
              /\ \/ batch' = <<>> /\ flushed' = {} /\ worker' \in {"waiting", "ended"}
                 \/ flushed' = flushed \cup {k} /\ batch' = batch /\ worker' = "flushing"
    BY <1>0, <1>8, Flushing
  <2>2. PICK fates \in Fates(E) :
          AcceptMany(Group(Context(batch[i])), fates) /\ Deliver(Group(Context(batch[i])), fates)
    BY <2>1
  <2>3. /\ identity' \in [Clients -> {"absent", "uncertain", "accepted"}] /\ log' \in [Clients -> Nat]
        /\ request' \in [Requests -> Status0]
    BY <1>0, <2>1, <2>2, Accepting, Answering
  <2>4. UNCHANGED <<client, tries, queue, closing, posted, granted>>
    BY <1>8 DEF FlushGroup, sdk, bulk
  <2>5. Context(batch[i]) \in {Context(r) : r \in Requests}
    BY <1>0, Batcher
  <2>6. /\ batch' \in Seq(Requests) /\ Len(batch') <= BatchSize
        /\ flushed' \subseteq {Context(r) : r \in Requests} /\ worker' \in Workers0
    <3>1. CASE batch' = <<>> /\ flushed' = {} /\ worker' \in {"waiting", "ended"}
      BY <3>1, IngestAssumption
    <3>2. CASE flushed' = flushed \cup {Context(batch[i])} /\ batch' = batch /\ worker' = "flushing"
      BY <1>0, <2>5, <3>2 DEF TypeOK
    <3> QED
      BY <2>1, <3>1, <3>2
  <2>7. {Context(r) : r \in Requests}' = {Context(r) : r \in Requests}
    BY DEF Context
  <2> QED
    BY <1>0, <2>3, <2>4, <2>6, <2>7 DEF TypeOK
<1>9. ASSUME NEW rejected \in SUBSET Clients, NEW changed \in SUBSET Clients,
             NEW prepared \in SUBSET Clients, PostBatch(rejected, changed, prepared)
      PROVE  TypeOK'
  <2>1. PICK fates \in Fates(prepared) : AcceptMany({}, fates)
    BY <1>9 DEF PostBatch
  <2>2. identity' \in [Clients -> {"absent", "uncertain", "accepted"}] /\ log' \in [Clients -> Nat]
    BY <1>0, <2>1, Accepting
  <2>3. posted' \subseteq Clients /\ granted' \subseteq posted'
    BY <1>9 DEF PostBatch
  <2>4. UNCHANGED <<client, tries, request, queue, worker, batch, flushed, closing>>
    BY <1>9 DEF PostBatch, sdk, batcher, taken
  <2> QED
    BY <1>0, <2>2, <2>3, <2>4 DEF TypeOK
<1>10. CASE Close
  <2>1. request' \in [Requests -> Status0]
    BY <1>0, <1>10 DEF Close, TypeOK
  <2> QED
    BY <1>0, <1>10, <2>1 DEF Close, TypeOK, sdk, batcher, taken, custody, bulk
<1>11. CASE PutStop
  <2>1. queue' \in Seq(Requests \cup {Stop}) /\ Len(queue') <= QueueSize
    BY <1>0, <1>11, Enqueued DEF PutStop
  <2> QED
    BY <1>0, <1>11, <2>1 DEF PutStop, TypeOK, sdk, taken, custody, bulk
<1>12. CASE WorkerAwaited
  BY <1>0, <1>12 DEF WorkerAwaited, TypeOK, sdk, batcher, taken, custody, bulk
<1> QED
  BY <1>1, <1>2, <1>3, <1>4, <1>5, <1>6, <1>7, <1>8, <1>9, <1>10, <1>11, <1>12
     DEF Next, WorkerStep, CloseStep

(***************************************************************************)
(* A request is in one place until its group has gone to custody.          *)
(***************************************************************************)
LEMMA QueuedStep ==
  ASSUME Inv, Next
  PROVE  Queued'
<1>0. TypeOK /\ Queued /\ \A c \in Clients : Registry(c)
  BY DEF Inv
<1>c. \A r : Context(r)' = Context(r)
  BY DEF Context
<1>1. ASSUME UNCHANGED <<request, queue, batch, flushed>>, worker' # "flushing" => worker # "flushing"
      PROVE  Queued'
  BY <1>0, <1>1, <1>c DEF Queued
<1>2. ASSUME NEW c \in Clients, Post(c) PROVE Queued'
  <2>1. PICK r \in Requests :
          /\ request[r] = "none"
          /\ UNCHANGED <<batch, flushed>>
          /\ \/ /\ request' = [request EXCEPT ![r] = "refused"] \/ request' = [request EXCEPT ![r] = "unavailable"]
                /\ UNCHANGED <<queue, worker>>
             \/ /\ request' = [request EXCEPT ![r] = "queued"]
                /\ Len(queue) < QueueSize /\ queue' = Append(queue, r)
                /\ worker' = IF worker = "none" THEN "waiting" ELSE worker
    BY <1>2, Handling
  <2>2. /\ \A i \in DOMAIN queue : queue[i] # Stop => queue[i] # r
        /\ \A j \in DOMAIN batch : batch[j] # r
    BY <1>0, <2>1 DEF Queued, Open
  <2>3. /\ \A q \in Requests : q # r => request'[q] = request[q]
        /\ request'[r] # "none"
    BY <1>0, <2>1 DEF TypeOK
  <2>4. /\ \A i \in DOMAIN queue : queue[i] # Stop => request'[queue[i]] = request[queue[i]]
        /\ \A j \in DOMAIN batch : request'[batch[j]] = request[batch[j]]
    BY <1>0, <2>2, <2>3, Batcher
  <2>5. CASE UNCHANGED <<queue, worker>>
    BY <1>0, <1>c, <2>1, <2>4, <2>5 DEF Queued
  <2>6. CASE /\ request' = [request EXCEPT ![r] = "queued"]
             /\ Len(queue) < QueueSize /\ queue' = Append(queue, r)
             /\ worker' = IF worker = "none" THEN "waiting" ELSE worker
    <3>1. /\ DOMAIN queue' = DOMAIN queue \cup {Len(queue) + 1}
          /\ Len(queue) + 1 \notin DOMAIN queue
          /\ queue'[Len(queue) + 1] = r
          /\ \A i \in DOMAIN queue : queue'[i] = queue[i]
      BY <1>0, <2>6, Enqueued
    <3>2. request'[r] \in Open /\ r # Stop
      BY <1>0, <2>6, RequestOf DEF Open, TypeOK
    <3>3. \A i \in DOMAIN queue' : queue'[i] # Stop => request'[queue'[i]] \in Open
      BY <1>0, <2>4, <3>1, <3>2 DEF Queued
    <3>4. \A i, j \in DOMAIN queue' : queue'[i] = queue'[j] /\ queue'[i] # Stop => i = j
      BY <1>0, <2>2, <3>1, <3>2 DEF Queued
    <3>5. \A i \in DOMAIN queue', j \in DOMAIN batch : queue'[i] # batch[j]
      BY <1>0, <2>2, <3>1 DEF Queued
    <3>6. worker' # "flushing" => flushed = {}
      BY <1>0, <2>6 DEF Queued
    <3> QED
      BY <1>0, <1>c, <2>1, <2>4, <3>3, <3>4, <3>5, <3>6 DEF Queued
  <2> QED
    BY <2>1, <2>5, <2>6
<1>3. ASSUME queue # <<>>, queue' = Tail(queue), UNCHANGED <<request, flushed>>,
             worker # "flushing",
             \/ batch' = batch
             \/ batch' = <<Head(queue)>> /\ Head(queue) # Stop
             \/ batch' = Append(batch, Head(queue)) /\ Head(queue) # Stop
      PROVE  Queued'
  <2>1. /\ 1 \in DOMAIN queue /\ Head(queue) = queue[1]
        /\ \A i \in DOMAIN queue' : i + 1 \in DOMAIN queue /\ i + 1 # 1 /\ queue'[i] = queue[i + 1]
    BY <1>0, <1>3, Dequeued
  <2>2. \A i \in DOMAIN queue' : queue'[i] # Stop => request'[queue'[i]] \in Open
    BY <1>0, <1>3, <2>1 DEF Queued
  <2>3. \A i, j \in DOMAIN queue' : queue'[i] = queue'[j] /\ queue'[i] # Stop => i = j
    <3>1. DOMAIN queue' \subseteq Int
      <4>1. queue' \in Seq(Requests \cup {Stop})
        BY <1>0, <1>3, Dequeued
      <4> QED
        BY <4>1
    <3> TAKE i, j \in DOMAIN queue'
    <3> HAVE queue'[i] = queue'[j] /\ queue'[i] # Stop
    <3>2. i + 1 = j + 1
      BY <1>0, <2>1 DEF Queued
    <3> QED
      BY <3>1, <3>2
  <2>4. \A j \in DOMAIN batch' :
          \/ j \in DOMAIN batch /\ batch'[j] = batch[j]
          \/ batch'[j] = queue[1] /\ queue[1] # Stop
    <3>1. CASE batch' = batch
      BY <3>1
    <3>2. CASE batch' = <<Head(queue)>> /\ Head(queue) # Stop
      BY <2>1, <3>2
    <3>3. CASE batch' = Append(batch, Head(queue)) /\ Head(queue) # Stop
      <4>1. batch \in Seq(Requests)
        BY <1>0 DEF TypeOK
      <4> QED
        BY <2>1, <3>3, <4>1
    <3> QED
      BY <1>3, <3>1, <3>2, <3>3
  <2>5. \A i \in DOMAIN queue', j \in DOMAIN batch' : queue'[i] # batch'[j]
    <3> SUFFICES ASSUME NEW i \in DOMAIN queue', NEW j \in DOMAIN batch' PROVE queue'[i] # batch'[j]
      OBVIOUS
    <3>1. CASE j \in DOMAIN batch /\ batch'[j] = batch[j]
      BY <1>0, <2>1, <3>1 DEF Queued
    <3>2. CASE batch'[j] = queue[1] /\ queue[1] # Stop
      BY <1>0, <2>1, <3>2 DEF Queued
    <3> QED
      BY <2>4, <3>1, <3>2
  <2>6. \A j \in DOMAIN batch' :
          /\ request[batch'[j]] # "none"
          /\ Context(batch'[j]) \notin flushed => request[batch'[j]] \in Open
    <3> TAKE j \in DOMAIN batch'
    <3>1. CASE j \in DOMAIN batch /\ batch'[j] = batch[j]
      BY <1>0, <3>1 DEF Queued
    <3>2. CASE batch'[j] = queue[1] /\ queue[1] # Stop
      BY <1>0, <2>1, <3>2 DEF Queued, Open
    <3> QED
      BY <2>4, <3>1, <3>2
  <2>7. flushed = {}
    BY <1>0, <1>3 DEF Queued
  <2> QED
    BY <1>3, <1>c, <2>2, <2>3, <2>5, <2>6, <2>7 DEF Queued
<1>4. CASE TakeFirst
  BY <1>3, <1>4 DEF TakeFirst
<1>5. CASE TakeMore
  BY <1>3, <1>5 DEF TakeMore
<1>6. CASE FlushGroup
  <2>1. PICK i \in DOMAIN batch, E \in SUBSET Clients :
          LET k == Context(batch[i])
          IN  /\ E = {r[1] : r \in Group(k)}
              /\ \E fates \in Fates(E) : AcceptMany(Group(k), fates) /\ Deliver(Group(k), fates)
              /\ \/ batch' = <<>> /\ flushed' = {} /\ worker' \in {"waiting", "ended"}
                 \/ flushed' = flushed \cup {k} /\ batch' = batch /\ worker' = "flushing"
    BY <1>0, <1>6, Flushing
  <2>2. PICK fates \in Fates(E) :
          AcceptMany(Group(Context(batch[i])), fates) /\ Deliver(Group(Context(batch[i])), fates)
    BY <2>1
  <2> DEFINE k == Context(batch[i])
  <2>3. \A r \in Requests :
          \/ request'[r] = request[r]
          \/ r \in Group(k) /\ request'[r] \in {"accepted", "unavailable", "uncertain"}
    BY <1>0, <2>1, <2>2, Answering
  <2>4. queue' = queue
    BY <1>6 DEF FlushGroup
  <2>5. \A n \in DOMAIN queue : queue[n] # Stop => request'[queue[n]] = request[queue[n]]
    <3> TAKE n \in DOMAIN queue
    <3> HAVE queue[n] # Stop
    <3>1. queue[n] \in Requests
      BY <1>0, Batcher
    <3>2. queue[n] \notin Group(k)
      BY <1>0, GroupOf DEF Queued
    <3> QED
      BY <2>3, <3>1, <3>2
  <2>6. CASE batch' = <<>> /\ flushed' = {} /\ worker' \in {"waiting", "ended"}
    BY <1>0, <1>c, <2>4, <2>5, <2>6 DEF Queued
  <2>7. CASE flushed' = flushed \cup {k} /\ batch' = batch /\ worker' = "flushing"
    <3>1. \A j \in DOMAIN batch :
            /\ request'[batch[j]] # "none"
            /\ Context(batch[j]) \notin flushed' => request'[batch[j]] \in Open
      <4> TAKE j \in DOMAIN batch
      <4>1. batch[j] \in Requests
        BY <1>0, Batcher
      <4>2. CASE request'[batch[j]] = request[batch[j]]
        BY <1>0, <2>7, <4>2 DEF Queued
      <4>3. CASE /\ batch[j] \in Group(k)
                 /\ request'[batch[j]] \in {"accepted", "unavailable", "uncertain"}
        BY <1>0, <2>7, <4>3, GroupOf
      <4> QED
        BY <2>3, <4>1, <4>2, <4>3
    <3> QED
      BY <1>0, <1>c, <2>4, <2>5, <2>7, <3>1 DEF Queued
  <2> QED
    BY <2>1, <2>6, <2>7
<1>7. CASE Close
  <2>1. \A r \in Requests : /\ request[r] \in Open => request'[r] \in Open
                            /\ request[r] # "none" => request'[r] # "none"
    BY <1>7 DEF Close, Open
  <2>2. UNCHANGED <<queue, batch, flushed, worker>>
    BY <1>7 DEF Close, batcher, taken
  <2> QED
    BY <1>0, <1>c, <2>1, <2>2, Batcher DEF Queued
<1>8. CASE PutStop
  <2>1. /\ DOMAIN queue' = DOMAIN queue \cup {Len(queue) + 1}
        /\ Len(queue) + 1 \notin DOMAIN queue
        /\ queue'[Len(queue) + 1] = Stop
        /\ \A i \in DOMAIN queue : queue'[i] = queue[i]
    BY <1>0, <1>8, Enqueued DEF PutStop
  <2>2. UNCHANGED <<request, batch, flushed, worker>>
    BY <1>8 DEF PutStop, taken
  <2>3. \A j \in DOMAIN batch : batch[j] # Stop
    BY <1>0, Batcher, RequestOf
  <2> QED
    BY <1>0, <1>c, <2>1, <2>2, <2>3 DEF Queued
<1>9. ASSUME NEW c \in Clients, Unreachable(c) \/ Receive(c) \/ GiveUp(c) \/ Reconcile(c) PROVE Queued'
  BY <1>1, <1>9 DEF Unreachable, Receive, GiveUp, Reconcile, batcher, taken
<1>10. CASE StopCollecting \/ WorkerAwaited
  BY <1>1, <1>10 DEF StopCollecting, WorkerAwaited, batcher, taken
<1>11. ASSUME NEW rejected \in SUBSET Clients, NEW changed \in SUBSET Clients,
              NEW prepared \in SUBSET Clients, PostBatch(rejected, changed, prepared)
       PROVE  Queued'
  BY <1>1, <1>11 DEF PostBatch, batcher, taken
<1> QED
  BY <1>2, <1>4, <1>5, <1>6, <1>7, <1>8, <1>9, <1>10, <1>11 DEF Next, WorkerStep, CloseStep

(***************************************************************************)
(* What a client is told.                                                  *)
(***************************************************************************)
\* The attempts of one client keep their numbers.
LEMMA AttemptOf ==
  ASSUME NEW c \in Clients, NEW d \in Clients, NEW m, NEW n, <<c, m>> = <<d, n>>
  PROVE  c = d /\ m = n
OBVIOUS

(* One attempt more; the others, and those of the other clients, stay.        *)
LEMMA PostStep ==
  ASSUME Inv, NEW c \in Clients, Post(c), NEW d \in Clients
  PROVE  Attempts(d)' /\ Registry(d)' /\ Told(d)'
<1>0. TypeOK /\ Attempts(d) /\ Registry(d) /\ Told(d)
  BY DEF Inv
<1>1. PICK r \in Requests :
        /\ r = <<c, tries[c] + 1>> /\ request[r] = "none"
        /\ tries' = [tries EXCEPT ![c] = @ + 1] /\ client' = [client EXCEPT ![c] = "waiting"]
        /\ UNCHANGED <<identity, log, posted, granted>>
        /\ \/ request' = [request EXCEPT ![r] = "refused"]
           \/ request' = [request EXCEPT ![r] = "unavailable"]
           \/ request' = [request EXCEPT ![r] = "queued"]
  BY Handling
<1>2. tries[c] + 1 \in 1..Limit(c) /\ tries[c] \in Nat /\ Limit(d) \in Nat /\ tries[d] \in Nat
  <2>1. Limit(d) \in Nat /\ tries[d] \in Nat
    BY <1>0, Limits DEF TypeOK
  <2> QED
    BY <2>1, PostTyped
<1>3. /\ \A n \in 1..Limit(d) : <<d, n>> # r => request'[<<d, n>>] = request[<<d, n>>]
      /\ request'[r] \in {"refused", "unavailable", "queued"}
  <2>1. \A n \in 1..Limit(d) : <<d, n>> \in Requests
    BY RequestIs
  <2> QED
    BY <1>0, <1>1, <2>1 DEF TypeOK
<1>4. \A n \in 1..Limit(d) : <<d, n>> = r <=> d = c /\ n = tries[c] + 1
  BY <1>1
<1>5. /\ d # c => tries'[d] = tries[d] /\ client'[d] = client[d]
      /\ tries'[c] = tries[c] + 1 /\ client'[c] = "waiting"
  BY <1>0, <1>1 DEF TypeOK
<1>6. Attempts(d)'
  <2>1. CASE d # c
    <3>1. \A n \in 1..Limit(d) : request'[<<d, n>>] = request[<<d, n>>]
      BY <1>3, <1>4, <2>1
    <3>2. Limit(d)' = Limit(d)
      BY DEF Limit
    <3> QED
      BY <1>0, <1>5, <2>1, <3>1, <3>2 DEF Attempts
  <2>2. CASE d = c
    <3>1. \A n \in 1..Limit(c) : request'[<<c, n>>] # "none" => n <= tries[c] + 1
      <4> TAKE n \in 1..Limit(c)
      <4>1. CASE <<c, n>> = r
        BY <1>2, <1>4, <2>2, <4>1
      <4>2. CASE <<c, n>> # r
        <5>1. request'[<<c, n>>] # "none" => n <= tries[c]
          BY <1>0, <1>3, <2>2, <4>2 DEF Attempts
        <5> QED
          BY <1>2, <5>1
      <4> QED
        BY <4>1, <4>2
    <3>2. Limit(c)' = Limit(c)
      BY DEF Limit
    <3>3. tries[c] + 1 <= Limit(c) /\ 1 <= tries[c] + 1
      BY <1>2
    <3> QED
      BY <1>5, <2>2, <3>1, <3>2, <3>3 DEF Attempts
  <2> QED
    BY <2>1, <2>2
<1>7. Registry(d)'
  BY <1>0, <1>1 DEF Registry
<1>8. Told(d)'
  <2>1. \A n \in 1..Limit(d) : /\ request'[<<d, n>>] = "accepted" => request[<<d, n>>] = "accepted"
                               /\ request[<<d, n>>] \in Traces => request'[<<d, n>>] \in Traces
    BY <1>1, <1>3 DEF Traces
  <2>2. Limit(d)' = Limit(d)
    BY DEF Limit
  <2>3. client'[d] = "sent" => client[d] = "sent"
    BY <1>5
  <2> QED
    BY <1>0, <1>1, <2>1, <2>2, <2>3 DEF Told
<1> QED
  BY <1>6, <1>7, <1>8

(* Told as an operator of what it depends on: requests only get answers, the  *)
(* topic only grows, and who is told so is there.                             *)
LEMMA ToldKept ==
  ASSUME TypeOK, NEW d \in Clients, Told(d),
         \A n \in 1..Limit(d) :
           /\ request'[<<d, n>>] = "accepted" => request[<<d, n>>] = "accepted" \/ log'[d] > 0
           /\ request[<<d, n>>] \in Traces => request'[<<d, n>>] \in Traces,
         log'[d] \in Nat, log[d] <= log'[d],
         client'[d] = "sent" => client[d] = "sent" \/ log'[d] > 0,
         d \in granted' => d \in granted \/ log'[d] > 0,
         d \in posted => d \in posted',
         log'[d] # log[d] => d \in posted' \/ \E n \in 1..Limit(d) : request'[<<d, n>>] \in Traces
  PROVE  Told(d)'
<1>1. Limit(d)' = Limit(d)
  BY DEF Limit
<1>2. log[d] \in Nat
  BY DEF TypeOK
<1>3. \A n \in 1..Limit(d) : request'[<<d, n>>] = "accepted" => log'[d] > 0
  BY <1>2 DEF Told
<1>4. client'[d] = "sent" \/ d \in granted' => log'[d] > 0
  BY <1>2 DEF Told
<1>5. log'[d] > 0 => d \in posted' \/ \E n \in 1..Limit(d) : request'[<<d, n>>] \in Traces
  BY <1>2 DEF Told
<1> QED
  BY <1>1, <1>3, <1>4, <1>5 DEF Told

\* A step of the client alone.
LEMMA SdkStep ==
  ASSUME Inv, NEW c \in Clients, Unreachable(c) \/ Receive(c) \/ GiveUp(c), NEW d \in Clients
  PROVE  Attempts(d)' /\ Registry(d)' /\ Told(d)'
<1>0. TypeOK /\ Attempts(d) /\ Registry(d) /\ Told(d) /\ Attempts(c) /\ Told(c)
  BY DEF Inv
<1>1. UNCHANGED <<request, identity, log, posted, granted>>
  BY DEF Unreachable, Receive, GiveUp, custody, bulk
<1>2. Limit(d)' = Limit(d) /\ Limit(c) \in Nat /\ 1 <= Limit(c) /\ tries[c] \in Nat /\ log[c] \in Nat
  BY <1>0, Limits DEF Limit, TypeOK
<1>3. /\ d # c => client'[d] = client[d] /\ tries'[d] = tries[d]
      /\ \/ tries'[c] = tries[c]
            /\ \/ client'[c] = "sent" /\ request[<<c, tries[c]>>] = "accepted" /\ client[c] = "waiting"
               \/ client'[c] = "failed"
               \/ client'[c] = "backoff" /\ tries[c] < Limit(c)
         \/ tries'[c] = Limit(c) /\ client'[c] = "failed"
  BY <1>0 DEF Unreachable, Receive, GiveUp, AfterError, TypeOK
<1>4. Attempts(d)'
  <2>1. CASE d # c
    BY <1>0, <1>1, <1>2, <1>3, <2>1 DEF Attempts
  <2>2. CASE d = c
    <3>1. /\ tries[c] <= tries'[c] /\ tries'[c] \in Nat /\ tries'[c] <= Limit(c)
          /\ client'[c] \in {"sent", "failed", "backoff"}
          /\ client'[c] = "backoff" => tries'[c] < Limit(c)
      BY <1>0, <1>2, <1>3 DEF Attempts
    <3>2. \A n \in 1..Limit(c) : request[<<c, n>>] # "none" => n <= tries'[c]
      BY <1>0, <1>2, <3>1 DEF Attempts
    <3> QED
      BY <1>1, <1>2, <2>2, <3>1, <3>2 DEF Attempts
  <2> QED
    BY <2>1, <2>2
<1>5. Registry(d)'
  BY <1>0, <1>1 DEF Registry
<1>6. client'[d] = "sent" => client[d] = "sent" \/ log[d] > 0
  <2>1. CASE d # c
    BY <1>3, <2>1
  <2>2. CASE d = c
    <3>1. client[c] = "waiting" => tries[c] \in 1..Limit(c)
      BY <1>0, <1>2 DEF Attempts
    <3> QED
      BY <1>0, <1>3, <2>2, <3>1 DEF Told
  <2> QED
    BY <2>1, <2>2
<1>7. Told(d)'
  <2>1. log[d] \in Nat
    BY <1>0 DEF TypeOK
  <2> QED
    BY <1>0, <1>1, <1>2, <1>6, <2>1 DEF Told
<1> QED
  BY <1>4, <1>5, <1>7

\* A step that the attempts do not notice.
LEMMA AttemptsKept ==
  ASSUME NEW d \in Clients, Attempts(d), client'[d] = client[d], tries'[d] = tries[d],
         \A n \in 1..Limit(d) : request'[<<d, n>>] # "none" => request[<<d, n>>] # "none"
  PROVE  Attempts(d)'
<1>1. Limit(d)' = Limit(d)
  BY DEF Limit
<1> QED
  BY <1>1 DEF Attempts

(* A group at custody: the futures that are open get the status of their own  *)
(* event, and those that were cancelled stay so; either way the attempt does  *)
(* not look refused.                                                          *)
LEMMA FlushStep ==
  ASSUME Inv, FlushGroup, NEW d \in Clients
  PROVE  Attempts(d)' /\ Registry(d)' /\ Told(d)'
<1>0. TypeOK /\ Queued /\ (\A c \in Clients : Registry(c)) /\ Attempts(d) /\ Told(d)
  BY DEF Inv
<1>1. PICK i \in DOMAIN batch, E \in SUBSET Clients :
        /\ E = {r[1] : r \in Group(Context(batch[i]))} /\ Context(batch[i]) \notin flushed
        /\ \E fates \in Fates(E) :
             AcceptMany(Group(Context(batch[i])), fates) /\ Deliver(Group(Context(batch[i])), fates)
  BY <1>0, Flushing
<1>2. PICK k : k = Context(batch[i])
  OBVIOUS
<1>3. PICK fates \in Fates(E) : AcceptMany(Group(k), fates) /\ Deliver(Group(k), fates)
  BY <1>1, <1>2
<1>4. UNCHANGED <<client, tries, posted, granted>>
  BY DEF FlushGroup, sdk, bulk
<1>5. /\ Registry(d)' /\ log'[d] \in Nat /\ log[d] <= log'[d]
      /\ d \notin E => log'[d] = log[d]
  BY <1>0, <1>3, Accepting
<1>6. \A r \in Requests :
        \/ request'[r] = request[r] /\ ~(request[r] = "queued" /\ r \in Group(k))
        \/ /\ request[r] = "queued"
           /\ request'[r] \in {"accepted", "unavailable", "uncertain"}
           /\ request'[r] = "accepted" => log'[r[1]] > 0
           /\ request'[r] = "unavailable" => log'[r[1]] = log[r[1]]
  BY <1>0, <1>1, <1>2, <1>3, Answering
<1>7. \A n \in 1..Limit(d) : <<d, n>> \in Requests /\ <<d, n>>[1] = d
  BY RequestIs
<1>8. \A n \in 1..Limit(d) :
        /\ request'[<<d, n>>] # "none" => request[<<d, n>>] # "none"
        /\ request'[<<d, n>>] = "accepted" => request[<<d, n>>] = "accepted" \/ log'[d] > 0
        /\ request[<<d, n>>] \in Traces => request'[<<d, n>>] \in Traces
  BY <1>6, <1>7 DEF Traces
<1>9. ASSUME log'[d] # log[d] PROVE \E n \in 1..Limit(d) : request'[<<d, n>>] \in Traces
  <2>1. PICK r \in Group(k) : r[1] = d
    BY <1>1, <1>2, <1>5, <1>9
  <2>2. r \in Requests /\ r[2] \in 1..Limit(d) /\ r = <<d, r[2]>>
    BY <1>0, <2>1, GroupOf, RequestOf
  <2>3. request[r] \in Open
    <3>1. PICK j \in DOMAIN batch : r = batch[j] /\ Context(r) = k
      BY <1>0, <2>1, GroupOf
    <3> QED
      BY <1>0, <1>1, <1>2, <3>1 DEF Queued
  <2>4. request'[r] \in Traces
    BY <1>6, <1>9, <2>1, <2>2, <2>3 DEF Open, Traces
  <2> QED
    BY <2>2, <2>4
<1>10. Attempts(d)'
  BY <1>0, <1>4, <1>8, AttemptsKept
<1>11. Told(d)'
  BY <1>0, <1>4, <1>5, <1>8, <1>9, ToldKept
<1> QED
  BY <1>5, <1>10, <1>11

(* A batch call goes to custody itself: it answers 202 where every event is   *)
(* accepted, and what it publishes is its own.                                *)
LEMMA BulkStep ==
  ASSUME Inv, NEW rejected \in SUBSET Clients, NEW changed \in SUBSET Clients,
         NEW prepared \in SUBSET Clients, PostBatch(rejected, changed, prepared),
         NEW d \in Clients
  PROVE  Attempts(d)' /\ Registry(d)' /\ Told(d)'
<1>0. TypeOK /\ (\A c \in Clients : Registry(c)) /\ Attempts(d) /\ Told(d)
  BY DEF Inv
<1>1. /\ posted = {} /\ posted' = rejected \cup changed \cup prepared
      /\ UNCHANGED <<client, tries, request>>
  BY DEF PostBatch, sdk
<1>2. PICK fates \in Fates(prepared) :
        LET answer(c) == IF c \in rejected THEN "rejected"
                         ELSE IF c \in changed THEN "conflict" ELSE fates[c][1]
        IN  /\ AcceptMany({}, fates)
            /\ granted' = IF BulkStatus([c \in posted' |-> answer(c)]) = "202" THEN posted' ELSE {}
  BY DEF PostBatch
<1>3. /\ Registry(d)' /\ log'[d] \in Nat /\ log[d] <= log'[d]
      /\ d \notin prepared => log'[d] = log[d]
      /\ d \in prepared => (fates[d][1] = "accepted" => log'[d] > 0)
  BY <1>0, <1>2, Accepting
<1>4. d \in granted' => log'[d] > 0
  <2> SUFFICES ASSUME d \in granted' PROVE log'[d] > 0
    OBVIOUS
  <2> DEFINE answer(c) == IF c \in rejected THEN "rejected"
                          ELSE IF c \in changed THEN "conflict" ELSE fates[c][1]
  <2>1. d \in posted' /\ BulkStatus([c \in posted' |-> answer(c)]) = "202"
    BY <1>2
  <2>2. answer(d) = "accepted"
    BY <2>1 DEF BulkStatus
  <2>3. d \in prepared /\ fates[d][1] = "accepted"
    BY <1>1, <2>1, <2>2
  <2> QED
    BY <1>3, <2>3
<1>5. Attempts(d)'
  BY <1>0, <1>1, AttemptsKept
<1>6. \A n \in 1..Limit(d) :
        /\ request'[<<d, n>>] = "accepted" => request[<<d, n>>] = "accepted" \/ log'[d] > 0
        /\ request[<<d, n>>] \in Traces => request'[<<d, n>>] \in Traces
  BY <1>1
<1>7. d \in posted => d \in posted'
  BY <1>1
<1>8. log'[d] # log[d] => d \in posted'
  BY <1>1, <1>3
<1>9. Told(d)'
  BY <1>0, <1>1, <1>3, <1>4, <1>6, <1>7, <1>8, ToldKept
<1> QED
  BY <1>3, <1>5, <1>9

(* Every other step.                                                          *)
LEMMA ClientStep ==
  ASSUME Inv, Next, NEW d \in Clients
  PROVE  Attempts(d)' /\ Registry(d)' /\ Told(d)'
<1>0. TypeOK /\ Attempts(d) /\ Registry(d) /\ Told(d)
  BY DEF Inv
<1>1. ASSUME UNCHANGED <<client, tries, request, identity, log, posted, granted>>
      PROVE  Attempts(d)' /\ Registry(d)' /\ Told(d)'
  <2>1. Limit(d)' = Limit(d)
    BY DEF Limit
  <2> QED
    BY <1>0, <1>1, <2>1 DEF Attempts, Registry, Told
<1>2. ASSUME NEW c \in Clients, Reconcile(c) PROVE Attempts(d)' /\ Registry(d)' /\ Told(d)'
  <2>1. UNCHANGED <<client, tries, request, log, posted, granted>>
    BY <1>2 DEF Reconcile, sdk, bulk
  <2>2. Registry(d)'
    <3>1. log[d] \in Nat
      BY <1>0 DEF TypeOK
    <3>2. identity'[d] = identity[d] \/ (d = c /\ identity'[d] = IF log[d] > 0 THEN "accepted" ELSE "absent")
      BY <1>0, <1>2 DEF Reconcile, TypeOK
    <3> QED
      BY <1>0, <2>1, <3>1, <3>2 DEF Registry
  <2>3. Limit(d)' = Limit(d)
    BY DEF Limit
  <2> QED
    BY <1>0, <2>1, <2>2, <2>3 DEF Attempts, Told
<1>3. CASE Close
  <2>1. UNCHANGED <<client, tries, identity, log, posted, granted>>
    BY <1>3 DEF Close, sdk, custody, bulk
  <2>2. \A r \in Requests : request'[r] = IF request[r] = "queued" THEN "cancelled" ELSE request[r]
    BY <1>3 DEF Close
  <2>3. \A n \in 1..Limit(d) :
          /\ request'[<<d, n>>] # "none" => request[<<d, n>>] # "none"
          /\ request'[<<d, n>>] = "accepted" => request[<<d, n>>] = "accepted"
          /\ request[<<d, n>>] \in Traces => request'[<<d, n>>] \in Traces
    BY <2>2, RequestIs DEF Traces
  <2>4. Attempts(d)'
    BY <1>0, <2>1, <2>3, AttemptsKept
  <2>5. Registry(d)'
    BY <1>0, <2>1 DEF Registry
  <2>6. log'[d] \in Nat /\ log[d] <= log'[d]
    BY <1>0, <2>1 DEF TypeOK
  <2>7. Told(d)'
    BY <1>0, <2>1, <2>3, <2>6, ToldKept
  <2> QED
    BY <2>4, <2>5, <2>7
<1>4. CASE TakeFirst \/ TakeMore \/ StopCollecting \/ PutStop \/ WorkerAwaited
  BY <1>1, <1>4 DEF TakeFirst, TakeMore, StopCollecting, PutStop, WorkerAwaited, sdk, custody, bulk
<1> QED
  BY <1>2, <1>3, <1>4, PostStep, SdkStep, FlushStep, BulkStep DEF Next, WorkerStep, CloseStep

(***************************************************************************)
(* The theorems.                                                           *)
(***************************************************************************)
\* Nothing was tracked, nothing is running.
LEMMA InvInit == Init => Inv
<1> SUFFICES ASSUME Init PROVE Inv
  OBVIOUS
<1>1. TypeOK
  BY IngestAssumption DEF Init, TypeOK
<1>2. Queued
  BY DEF Init, Queued
<1>3. \A c \in Clients : Attempts(c) /\ Registry(c) /\ Told(c)
  <2> SUFFICES ASSUME NEW c \in Clients PROVE Attempts(c) /\ Registry(c) /\ Told(c)
    OBVIOUS
  <2>1. \A n \in 1..Limit(c) : request[<<c, n>>] = "none"
    BY RequestIs DEF Init
  <2>2. 1 <= Limit(c) /\ Limit(c) \in Nat
    BY Limits
  <2> QED
    BY <2>1, <2>2 DEF Init, Attempts, Registry, Told
<1> QED
  BY <1>1, <1>2, <1>3 DEF Inv

\* Every step keeps the invariant.
LEMMA InvStep == Inv /\ [Next]_vars => Inv'
<1> SUFFICES ASSUME Inv, [Next]_vars PROVE Inv'
  OBVIOUS
<1>1. CASE Next
  BY <1>1, TypeStep, QueuedStep, ClientStep DEF Inv
<1>2. CASE UNCHANGED vars
  <2> USE <1>2 DEF vars, sdk, batcher, taken, custody, bulk
  <2>1. (TypeOK' <=> TypeOK) /\ (Queued' <=> Queued)
    BY DEF TypeOK, Queued, Context
  <2>2. \A c \in Clients : Limit(c)' = Limit(c)
    BY DEF Limit
  <2>3. \A c \in Clients : Attempts(c) /\ Registry(c) /\ Told(c) => (Attempts(c) /\ Registry(c) /\ Told(c))'
    BY <2>2 DEF Attempts, Registry, Told
  <2> QED
    BY <2>1, <2>3 DEF Inv
<1> QED
  BY <1>1, <1>2

(* Every reachable state satisfies the inductive invariant.                   *)
LEMMA InvariantHolds == Spec => []Inv
<1>1. Init => Inv
  BY InvInit
<1>2. Inv /\ [Next]_vars => Inv'
  BY InvStep
<1> QED
  BY <1>1, <1>2, PTL DEF Spec

(* The queue, the batch and the attempts stay within their bounds.            *)
THEOREM Typed == Spec => []TypeOK
<1>1. Inv => TypeOK
  BY DEF Inv
<1> QED
  BY <1>1, InvariantHolds, PTL

(* Whoever was told 202, by a call of its own or for a whole batch, has its   *)
(* event in Kafka, whatever requests it shared the batch with.                *)
THEOREM AcknowledgedIsDurable == Spec => []AckedIsDurable
<1>1. Inv => AckedIsDurable
  <2> SUFFICES ASSUME Inv
               PROVE  /\ \A c \in Clients : client[c] = "sent" => log[c] > 0
                      /\ \A c \in granted : log[c] > 0
    BY DEF AckedIsDurable
  <2>1. granted \subseteq Clients
    BY DEF Inv, TypeOK
  <2> QED
    BY <2>1 DEF Inv, Told
<1> QED
  BY <1>1, InvariantHolds, PTL

(* However many attempts of a client pile up, with a batch call besides,      *)
(* custody publishes its event once.                                          *)
THEOREM EventsPublishedOnce == Spec => []PublishedOnce
<1>1. Inv => PublishedOnce
  BY DEF Inv, Registry, PublishedOnce
<1> QED
  BY <1>1, InvariantHolds, PTL

(* An attempt that looks refused has published nothing: the answers that are  *)
(* not refusals, and the cancelled attempts, are the only traces of records.  *)
THEOREM RefusalsAreCertain == Spec => []RefusalIsCertain
<1>1. Inv => RefusalIsCertain
  <2> SUFFICES ASSUME Inv, NEW c \in Clients, c \notin posted,
                      \A n \in 1..Limit(c) : request[<<c, n>>] \in {"none", "unavailable", "refused"}
               PROVE  log[c] = 0
    BY DEF RefusalIsCertain
  <2>1. ~(\E n \in 1..Limit(c) : request[<<c, n>>] \in Traces)
    BY DEF Traces
  <2>2. ~(log[c] > 0) /\ log[c] \in Nat
    BY <2>1 DEF Inv, Told, TypeOK
  <2> QED
    BY <2>2
<1> QED
  BY <1>1, InvariantHolds, PTL

==============================================================================
