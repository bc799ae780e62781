--------------------------- MODULE MeteringProofs ---------------------------
(***************************************************************************)
(* For every number of events, copies, windows and restarts, whatever the  *)
(* watermark does: an event is charged once and projected once, none is    *)
(* lost on the way, and a month costs what its tokens cost one by one.     *)
(*                                                                         *)
(* Three arguments carry the first part.  Time: a record is read within    *)
(* MaxLag, and each restart puts it off by Period + MaxLag at most, so a   *)
(* copy still finds its event in the deduplicator and its marker in Redis. *)
(* Copies: hence what enters a window is the first record of its event,    *)
(* the same one after every restart, and the marker of its window guards   *)
(* the counters.  Replays: without restarts an event is in one place only. *)
(*                                                                         *)
(* Three more carry the second.  Prices: the walk through the tiers takes  *)
(* every token at its own place, and rounds once per category and tier;    *)
(* hence also what a quote and a charge may differ by.                     *)
(* Volumes: the meter shows what was stamped of its month, in whatever     *)
(* order.  The sum: what was spent is the price of each first record at    *)
(* the place it was projected with, and without restarts that is where it  *)
(* was stamped.                                                            *)
(***************************************************************************)
EXTENDS MeteringJob, FiniteSetTheorems, WellFoundedInduction, TLAPS

(***************************************************************************)
(* The inductive invariant.                                                *)
(***************************************************************************)
Records == [id : Ids, stamp : Nat \ {0}, at : Nat, replay : BOOLEAN]
LateOnes == [pos : DOMAIN log, at : Nat \ {0}]

\* The types of the meter, the stamps and the costs are part of Fits below.
Types ==
  /\ now \in Nat \ {0} /\ wm \in Nat
  /\ log \in Seq(Records) /\ read \subseteq DOMAIN log
  /\ seen \in [Ids -> Nat] /\ marker \in [Ids -> Nat]
  /\ projected \in [Ids -> Nat] /\ billed \in [Ids -> Nat]
  /\ collected \subseteq read /\ unsent \subseteq Ids
  /\ buffer \subseteq LateOnes /\ dlq \subseteq LateOnes
  /\ saved.offset \in 0 .. Len(log) /\ saved.at \in Nat
  /\ saved.seen \in [Ids -> Nat] /\ saved.collected \subseteq 1 .. saved.offset
  /\ restarted \in Nat /\ crashes \in 0 .. MaxCrashes /\ replays \in Nat

\* Custody publishes in the order of the clock, and copies soon.
Topic ==
  /\ \A p \in DOMAIN log : log[p].at <= now
  /\ \A p, q \in DOMAIN log : p <= q => log[p].at <= log[q].at
  /\ \A p, q \in DOMAIN log :
       log[p].id = log[q].id /\ ~log[q].replay => log[q].at <= log[p].at + CopiesWithin
  /\ replays = 0 => \A p \in DOMAIN log : ~log[p].replay

\* What restarts may have put off so far.
Delay == crashes * (Period + MaxLag)

InTime ==
  /\ saved.at <= now /\ restarted <= now
  /\ MayCrash => now <= saved.at + Period
  /\ \A p \in DOMAIN log \ read :
       now <= log[p].at + MaxLag + Delay /\ restarted <= log[p].at + Delay
  /\ \A p \in DOMAIN log \ (1 .. saved.offset) : saved.at <= log[p].at + MaxLag + Delay

\* The deduplicator knows what was read, for the whole TTL.
Knows(s, of) ==
  /\ \A p \in of : s[log[p].id] # 0
  /\ \A e \in Ids : s[e] # 0 =>
       \E p \in of : log[p].id = e /\ log[p].at + DedupTTL <= s[e]

Known == Knows(seen, read) /\ Knows(saved.seen, 1 .. saved.offset)

Marked ==
  \A e \in Ids : projected[e] # 0 =>
    /\ replays = 0 => projected[e] = 1
    /\ \E p \in DOMAIN log : log[p].id = e /\ log[p].at + MarkerTTL <= marker[e]

\* The first record of its event.
First(p) == \A q \in 1 .. (p - 1) : log[q].id # log[p].id

FirstOnly ==
  replays = 0 =>
    /\ \A p \in collected \cup saved.collected : First(p)
    /\ \A e \in Ids : billed[e] # 0 =>
         /\ billed[e] = 1
         /\ \E p \in DOMAIN log : log[p].id = e /\ First(p) /\ WindowOf(p) \in applied

\* Where an event is on its way.
Whereabouts(e) ==
  {<<"window", p>> : p \in {q \in collected : log[q].id = e}}
  \cup {<<"sink", m>> : m \in {n \in buffer : log[n.pos].id = e}}
  \cup {<<"queue", m>> : m \in {n \in dlq : log[n.pos].id = e}}
  \cup {<<"topic", p>> : p \in {q \in DOMAIN log \ read : log[q].replay /\ log[q].id = e}}

OnePlace(e) ==
  /\ \A x, y \in Whereabouts(e) : x = y
  /\ Whereabouts(e) # {} => seen[e] # 0 /\ billed[e] = 0
  /\ billed[e] # 0 => seen[e] # 0 /\ billed[e] = 1

InOnePlace == crashes = 0 => \A e \in Ids : OnePlace(e)

\* A window that was applied is over, and stays so.
OverIsOver ==
  crashes = 0 =>
    /\ \A w \in applied : w \in Nat /\ wm # 0 /\ End(w) - 1 <= wm
    /\ \A p \in collected : WindowOf(p) \notin applied

Held(e) ==
  \/ billed[e] # 0
  \/ \E p \in collected : log[p].id = e
  \/ \E m \in buffer \cup dlq : log[m.pos].id = e

Kept == crashes = 0 /\ replays = 0 => \A e \in Ids \ unsent : seen[e] # 0 => Held(e)

Inv ==
  /\ Types /\ Topic /\ InTime /\ Known /\ Marked
  /\ FirstOnly /\ InOnePlace /\ OverIsOver /\ Kept

(***************************************************************************)
(* Lemmas.                                                                 *)
(***************************************************************************)
(* The next state, as its disjuncts with the choices named.                   *)
LEMMA Actions ==
  ASSUME Next
  PROVE  \/ \E e \in Ids, t \in Nat \ {0} : Publish(e, t)
         \/ \E n \in DOMAIN log : Drop(n) \/ RouteLate(n) \/ Collect(n)
         \/ \E t \in Nat \ {0} : Advance(t)
         \/ \E w \in Nat : Fire(w)
         \/ \E m \in buffer : Deliver(m) \/ LoseLate(m)
         \/ \E m \in dlq : Replay(m)
         \/ Save \/ Crash \/ Tick
<1>1. \A t : t \in 1 .. (MaxNow + MaxAhead) \/ t \in 1 .. MaxNow => t \in Nat \ {0}
  BY MeteringAssumption
<1>2. Windows \subseteq Nat
  BY MeteringAssumption DEF Windows
<1> QED
  BY <1>1, <1>2 DEF Next, Consume

(* The records in Kafka.                                                      *)
LEMMA RecordTyped ==
  ASSUME Types, NEW p \in DOMAIN log
  PROVE  /\ log[p] \in Records
         /\ log[p].id \in Ids /\ log[p].stamp \in Nat \ {0}
         /\ log[p].at \in Nat /\ log[p].replay \in BOOLEAN
<1>1. log[p] \in Records
  <2> HIDE DEF Records
  <2> QED
    BY DEF Types
<1> QED
  BY <1>1 DEF Records

(* The topic is a sequence with a length.                                     *)
LEMMA Length ==
  ASSUME Types
  PROVE  Len(log) \in Nat /\ DOMAIN log = 1 .. Len(log)
<1> HIDE DEF Records
<1> QED
  BY DEF Types

(* A record that is published is the last one; the others stay in place.      *)
LEMMA Appended ==
  ASSUME Types, NEW r \in Records, log' = Append(log, r)
  PROVE  /\ log' \in Seq(Records)
         /\ Len(log') = Len(log) + 1 /\ log'[Len(log) + 1] = r
         /\ DOMAIN log' = DOMAIN log \cup {Len(log) + 1}
         /\ \A p \in DOMAIN log : log'[p] = log[p]
<1> HIDE DEF Records
<1> QED
  BY DEF Types

(* What is published is a record of its own time.                             *)
LEMMA Publishing ==
  ASSUME Types, NEW e \in Ids, NEW t \in Nat \ {0}, Publish(e, t)
  PROVE  \E r \in Records :
           log' = Append(log, r) /\ r.id = e /\ r.stamp = t /\ r.at = now /\ ~r.replay
<1> DEFINE r == [id |-> e, stamp |-> t, at |-> now, replay |-> FALSE]
<1>1. r \in Records /\ r.id = e /\ r.stamp = t /\ r.at = now /\ ~r.replay
  BY DEF Records, Types
<1>2. log' = Append(log, r)
  BY DEF Publish
<1> QED
  BY <1>1, <1>2

(* A late message points at a record of the topic, with its event time.       *)
LEMMA LateTyped ==
  ASSUME Types, NEW m \in buffer \cup dlq
  PROVE  m.pos \in DOMAIN log /\ m.at \in Nat \ {0} /\ log[m.pos].id \in Ids
<1>1. m \in LateOnes
  BY DEF Types
<1>2. m.pos \in DOMAIN log /\ m.at \in Nat \ {0}
  BY <1>1 DEF LateOnes
<1> QED
  BY <1>2, RecordTyped

(* A replayed message is one more record of the same event.                   *)
LEMMA Replaying ==
  ASSUME Types, NEW m \in dlq, Replay(m)
  PROVE  \E r \in Records :
           log' = Append(log, r) /\ r.id = log[m.pos].id /\ r.stamp = m.at /\ r.at = now /\ r.replay
<1> DEFINE r == [id |-> log[m.pos].id, stamp |-> m.at, at |-> now, replay |-> TRUE]
<1>1. log[m.pos].id \in Ids /\ m.at \in Nat \ {0}
  BY LateTyped
<1>2. r \in Records /\ r.id = log[m.pos].id /\ r.stamp = m.at /\ r.at = now /\ r.replay
  BY <1>1 DEF Records, Types
<1>3. log' = Append(log, r)
  BY DEF Replay
<1> QED
  BY <1>2, <1>3

(* The settings that matter here.                                             *)
LEMMA Settings ==
  /\ DedupTTL \in Nat /\ MarkerTTL \in Nat /\ CopiesWithin \in Nat
  /\ MaxLag \in Nat /\ 0 < MaxLag /\ Period \in Nat /\ 0 < Period
  /\ Width \in Nat /\ 0 < Width
  /\ MaxCrashes \in Nat /\ MaxTroubles \in Nat
BY MeteringAssumption

(* Restarts add up.                                                           *)
LEMMA Delays ==
  ASSUME NEW c \in 0 .. MaxCrashes
  PROVE  /\ c * (Period + MaxLag) \in Nat
         /\ (c + 1) * (Period + MaxLag) = c * (Period + MaxLag) + Period + MaxLag
         /\ c * (Period + MaxLag) <= MaxCrashes * (Period + MaxLag)
<1>1. PICK k \in Nat : k = Period + MaxLag
  BY MeteringAssumption
<1>2. MaxCrashes \in Nat /\ c \in Nat /\ MaxCrashes - c \in Nat
  BY MeteringAssumption
<1>3. c * k \in Nat /\ (c + 1) * k = c * k + k
  BY <1>1, <1>2
<1>4. (MaxCrashes - c) * k \in Nat /\ MaxCrashes * k = c * k + (MaxCrashes - c) * k
  BY <1>1, <1>2
<1>5. c * k <= MaxCrashes * k
  BY <1>3, <1>4
<1> QED
  BY <1>1, <1>3, <1>5, MeteringAssumption

(***************************************************************************)
(* Types.                                                                  *)
(***************************************************************************)
(* The sets of late events follow the topic.                                  *)
LEMMA LateOnesGrow ==
  ASSUME Types, DOMAIN log \subseteq DOMAIN log'
  PROVE  LateOnes \subseteq LateOnes'
BY DEF LateOnes

(* What reading the next record does to the record's event.                   *)
LEMMA NextTyped ==
  ASSUME Types, NEW n, Readable(n)
  PROVE  /\ n \in DOMAIN log /\ n \in 1 .. Len(log) /\ n \notin read
         /\ log[n].id \in Ids
         /\ \A q \in 1 .. (n - 1) : log[q].id = log[n].id => q \in read
<1>1. n \in DOMAIN log /\ n \in 1 .. Len(log) /\ n \notin read
  BY Length DEF Readable
<1> QED
  BY <1>1, RecordTyped DEF Readable

(* Drop, RouteLate and Collect read one record, and what they put anywhere is *)
(* that record.                                                               *)
LEMMA Reading ==
  ASSUME Types, NEW n, RouteLate(n) \/ Collect(n)
  PROVE  /\ Readable(n) /\ n \in DOMAIN log /\ n \notin read
         /\ log[n].id \in Ids /\ ~Duplicate(log[n].id)
         /\ read' = read \cup {n}
         /\ seen' = [seen EXCEPT ![log[n].id] = now + DedupTTL]
         /\ UNCHANGED <<now, log, wm, applied, billed, dlq, unsent, saved, restarted, crashes, replays>>
         /\ \/ buffer' = buffer \cup {[pos |-> n, at |-> now]} /\ UNCHANGED collected
            \/ UNCHANGED buffer /\ collected' = collected \cup {n}
<1>1. CASE RouteLate(n)
  BY <1>1, NextTyped DEF RouteLate, Remember, ToDlq, redis
<1>2. CASE Collect(n)
  BY <1>2, NextTyped DEF Collect, Remember, ToDlq
<1> QED
  BY <1>1, <1>2

(* What the projection of one event writes.                                   *)
LEMMA Projecting ==
  ASSUME Types, NEW n, Collect(n), NEW e \in Ids, e = log[n].id
  PROVE  \/ now < marker[e] /\ UNCHANGED <<marker, projected>>
         \/ /\ ~(now < marker[e])
            /\ projected' = [projected EXCEPT ![e] = @ + 1]
            /\ marker' = [marker EXCEPT ![e] = now + MarkerTTL]
BY DEF Collect, Project

\* What the counters of an event are after a window.
LEMMA Firing ==
  ASSUME Types, NEW w \in Nat, Fire(w)
  PROVE  /\ collected' = {p \in collected : WindowOf(p) # w}
         /\ applied' = applied \cup {w}
         /\ billed' \in [Ids -> Nat]
         /\ \A e \in Ids :
              \/ billed'[e] = billed[e] /\ (w \in applied \/ In(w, e) = {})
              \/ billed'[e] = billed[e] + 1 /\ w \notin applied /\ In(w, e) # {}
         /\ UNCHANGED <<now, log, read, wm, seen, marker, projected, buffer, dlq, unsent, saved,
                        restarted, crashes, replays>>
<1>1. CASE w \in applied
  BY <1>1 DEF Fire, Types
<1>2. CASE w \notin applied
  <2>1. \A e \in Ids : Usages(w)[e] = IF In(w, e) = {} THEN 0 ELSE 1
    BY DEF Usages
  <2>2. billed' = [e \in Ids |-> billed[e] + Usages(w)[e]]
    BY <1>2 DEF Fire
  <2>3. \A e \in Ids : billed'[e] = billed[e] + (IF In(w, e) = {} THEN 0 ELSE 1)
    BY <2>1, <2>2
  <2>4. billed' \in [Ids -> Nat]
    <3>0. billed \in [Ids -> Nat]
      BY DEF Types
    <3>1. \A e \in Ids : billed[e] + Usages(w)[e] \in Nat
      BY <2>1, <3>0
    <3> QED
      BY <2>2, <3>1
  <2> QED
    BY <1>2, <2>3, <2>4 DEF Fire, Types
<1> QED
  BY <1>1, <1>2

(* A restart brings the checkpoint back.                                      *)
LEMMA Restarting ==
  ASSUME Crash
  PROVE  /\ read' = 1 .. saved.offset /\ seen' = saved.seen /\ collected' = saved.collected
         /\ wm' = 0 /\ buffer' = {} /\ restarted' = now /\ crashes' = crashes + 1
         /\ crashes < MaxCrashes /\ MayCrash
         /\ UNCHANGED <<now, log, applied, marker, projected, billed, dlq, unsent, saved, replays>>
BY DEF Crash, MayCrash, redis

(* A checkpoint is what the operators hold.                                   *)
LEMMA Saving ==
  ASSUME Types, Save
  PROVE  /\ saved'.offset \in 0 .. Len(log) /\ read = 1 .. saved'.offset
         /\ saved'.seen = seen /\ saved'.collected = collected
         /\ saved'.at = now /\ MayCrash
         /\ UNCHANGED <<now, log, read, wm, seen, collected, applied, marker, projected,
                        billed, buffer, dlq, unsent, restarted, crashes, replays>>
<1>1. PICK n \in 0 .. Len(log) :
        /\ read = 1 .. n
        /\ saved' = [offset |-> n, seen |-> seen, meter |-> meter, stamped |-> stamped,
                     collected |-> collected, at |-> now]
  BY DEF Save
<1>2. MayCrash /\ UNCHANGED <<now, log, read, wm, seen, collected, applied, marker, projected,
                              billed, buffer, dlq, unsent, restarted, crashes, replays>>
  BY DEF Save, job, redis
<1> QED
  BY <1>1, <1>2

(* The late events, while the topic only grows.                               *)
LEMMA LateStep ==
  ASSUME Types, DOMAIN log \subseteq DOMAIN log',
         buffer' \cup dlq' \subseteq buffer \cup dlq
  PROVE  buffer' \subseteq LateOnes' /\ dlq' \subseteq LateOnes'
<1>1. LateOnes \subseteq LateOnes'
  BY LateOnesGrow
<1>2. buffer \cup dlq \subseteq LateOnes
  BY DEF Types
<1> QED
  BY <1>1, <1>2

\* A record is published, nothing is read.
LEMMA AppendTyped ==
  ASSUME Types, NEW r \in Records, log' = Append(log, r),
         UNCHANGED <<now, read, wm, seen, collected, marker, projected, billed, saved,
                     restarted, crashes>>,
         unsent' = unsent, replays' \in Nat, buffer' \cup dlq' \subseteq buffer \cup dlq
  PROVE  Types'
<1>1. buffer' \subseteq LateOnes' /\ dlq' \subseteq LateOnes'
  BY Appended, LateStep
<1>2. log' \in Seq(Records') /\ Len(log') = Len(log) + 1 /\ Len(log) \in Nat
  <2>1. log' \in Seq(Records) /\ Len(log') = Len(log) + 1 /\ Len(log) \in Nat
    BY Appended, Length
  <2> QED
    BY <2>1 DEF Records
<1>3. /\ now' \in Nat \ {0} /\ wm' \in Nat /\ read' \subseteq DOMAIN log'
      /\ saved'.offset \in 0 .. Len(log')
  BY <1>2, Appended DEF Types
<1>4. /\ seen' \in [Ids -> Nat] /\ marker' \in [Ids -> Nat]
      /\ projected' \in [Ids -> Nat] /\ billed' \in [Ids -> Nat]
      /\ saved'.seen \in [Ids -> Nat]
  BY DEF Types
<1>5. /\ collected' \subseteq read' /\ saved'.collected \subseteq 1 .. saved'.offset
      /\ saved'.at \in Nat /\ restarted' \in Nat /\ crashes' \in 0 .. MaxCrashes
  BY DEF Types
<1> HIDE DEF LateOnes, Records
<1> QED
  BY <1>1, <1>2, <1>3, <1>4, <1>5 DEF Types

(* Everything but the volumes has its type.                                   *)
LEMMA TypesStep ==
  ASSUME Types, Next
  PROVE  Types'
<1> HIDE DEF Records
<1>1. ASSUME NEW e \in Ids, NEW t \in Nat \ {0}, Publish(e, t) PROVE Types'
  <2>1. PICK r \in Records : log' = Append(log, r)
    BY <1>1, Publishing
  <2>2. UNCHANGED <<now, read, wm, seen, collected, marker, projected, billed, buffer, dlq,
                    unsent, saved, restarted, crashes, replays>>
    BY <1>1 DEF Publish, job, redis
  <2>3. replays \in Nat
    BY DEF Types
  <2> QED
    BY <2>1, <2>2, <2>3, AppendTyped
<1>2. ASSUME NEW n \in DOMAIN log, Drop(n) PROVE Types'
  <2>1. read' \subseteq DOMAIN log' /\ collected' \subseteq read'
    BY <1>2 DEF Drop, Types
  <2>2. UNCHANGED <<now, log, wm, seen, marker, projected, billed, buffer, dlq,
                    unsent, saved, restarted, crashes, replays>>
    BY <1>2 DEF Drop, redis
  <2>3. buffer' \subseteq LateOnes' /\ dlq' \subseteq LateOnes'
    BY <2>2, LateStep
  <2> HIDE DEF LateOnes
  <2> QED
    BY <2>1, <2>2, <2>3 DEF Types, Records
<1>3. ASSUME NEW n \in DOMAIN log, RouteLate(n) \/ Collect(n) PROVE Types'
  <2>1. marker' \in [Ids -> Nat] /\ projected' \in [Ids -> Nat]
    <3>1. CASE RouteLate(n)
      BY <3>1 DEF RouteLate, Types, redis
    <3>2. CASE Collect(n)
      <4> DEFINE e == log[n].id
      <4>1. e \in Ids
        BY <3>2, Reading
      <4>2. \/ UNCHANGED <<marker, projected>>
            \/ /\ projected' = [projected EXCEPT ![e] = @ + 1]
               /\ marker' = [marker EXCEPT ![e] = now + MarkerTTL]
        BY <3>2, <4>1, Projecting
      <4> HIDE DEF e
      <4>3. /\ now \in Nat /\ projected \in [Ids -> Nat] /\ marker \in [Ids -> Nat]
            /\ MarkerTTL \in Nat
        BY Settings DEF Types
      <4> QED
        BY <4>1, <4>2, <4>3
    <3> QED
      BY <1>3, <3>1, <3>2
  <2>2. seen' \in [Ids -> Nat]
    <3>1. log[n].id \in Ids /\ seen' = [seen EXCEPT ![log[n].id] = now + DedupTTL]
      BY <1>3, Reading
    <3>2. now + DedupTTL \in Nat
      BY Settings DEF Types
    <3> QED
      BY <3>1, <3>2 DEF Types
  <2>3. [pos |-> n, at |-> now] \in LateOnes
    BY <1>3, Reading DEF LateOnes, Types
  <2>4. LateOnes' = LateOnes
    BY <1>3, Reading DEF LateOnes
  <2>5. buffer' \subseteq LateOnes' /\ dlq' \subseteq LateOnes'
    <3>1. buffer \subseteq LateOnes /\ dlq \subseteq LateOnes
      BY DEF Types
    <3>2. dlq' = dlq /\ buffer' \subseteq buffer \cup {[pos |-> n, at |-> now]}
      BY <1>3, Reading
    <3> HIDE DEF LateOnes
    <3> QED
      BY <2>3, <2>4, <3>1, <3>2
  <2>6. read' \subseteq DOMAIN log' /\ collected' \subseteq read'
    <3>1. /\ read' = read \cup {n} /\ n \in DOMAIN log /\ log' = log
          /\ collected' \subseteq collected \cup {n}
      BY <1>3, Reading
    <3> QED
      BY <3>1 DEF Types
  <2>7. billed' \in [Ids -> Nat] /\ log' \in Seq(Records')
    BY <1>3, Reading DEF Types, Records
  <2>8. saved.offset \in 0 .. Len(log) /\ saved.at \in Nat /\ saved.seen \in [Ids -> Nat]
        /\ saved.collected \subseteq 1 .. saved.offset
    BY DEF Types
  <2>9. UNCHANGED <<now, log, wm, unsent, saved, restarted, crashes, replays>>
    BY <1>3, Reading
  <2>10. /\ now \in Nat \ {0} /\ wm \in Nat /\ unsent \subseteq Ids
         /\ restarted \in Nat /\ crashes \in 0 .. MaxCrashes /\ replays \in Nat
    BY DEF Types
  <2> HIDE DEF LateOnes
  <2> QED
    BY <2>1, <2>2, <2>5, <2>6, <2>7, <2>8, <2>9, <2>10 DEF Types
<1>4. ASSUME NEW t \in Nat \ {0}, Advance(t) PROVE Types'
  BY <1>4, LateOnesGrow DEF Advance, Types, redis, Records
<1>5. ASSUME NEW w \in Nat, Fire(w) PROVE Types'
  <2>1. collected' \subseteq collected /\ billed' \in [Ids -> Nat]
    BY <1>5, Firing
  <2> QED
    BY <1>5, Firing, <2>1, LateOnesGrow DEF Types, Records
<1>6. ASSUME NEW m \in buffer, Deliver(m) \/ LoseLate(m) PROVE Types'
  <2>1. unsent' \subseteq Ids
    <3>1. unsent \subseteq Ids /\ log[m.pos].id \in Ids
      BY LateTyped DEF Types
    <3>2. unsent' = unsent \/ unsent' = unsent \cup {log[m.pos].id}
      BY <1>6 DEF Deliver, LoseLate
    <3> QED
      BY <3>1, <3>2
  <2> QED
    BY <1>6, <2>1, LateOnesGrow DEF Deliver, LoseLate, Types, redis, job, Records
<1>7. ASSUME NEW m \in dlq, Replay(m) PROVE Types'
  <2>1. PICK r \in Records : log' = Append(log, r)
    BY <1>7, Replaying
  <2>2. /\ UNCHANGED <<now, read, wm, seen, collected, marker, projected, billed, buffer,
                        unsent, saved, restarted, crashes>>
        /\ dlq' \subseteq dlq /\ replays' = replays + 1
    BY <1>7 DEF Replay, job, redis
  <2>3. replays' \in Nat
    BY <2>2 DEF Types
  <2> QED
    BY <2>1, <2>2, <2>3, AppendTyped
<1>8. CASE Save
  <2>1. saved'.seen \in [Ids -> Nat] /\ saved'.at \in Nat
    BY <1>8, Saving DEF Types
  <2>2. saved'.collected \subseteq 1 .. saved'.offset /\ saved'.offset \in 0 .. Len(log')
    BY <1>8, Saving DEF Types
  <2>3. buffer' \subseteq LateOnes' /\ dlq' \subseteq LateOnes'
    BY <1>8, Saving, LateStep
  <2>4. UNCHANGED <<now, log, read, wm, seen, collected, marker, projected, billed, buffer, dlq,
                    unsent, restarted, crashes, replays>>
    BY <1>8, Saving
  <2> HIDE DEF LateOnes
  <2> QED
    BY <2>1, <2>2, <2>3, <2>4 DEF Types, Records
<1>9. CASE Crash
  <2>1. crashes' \in 0 .. MaxCrashes
    BY <1>9, Restarting, Settings DEF Types
  <2>2. /\ read' \subseteq DOMAIN log' /\ seen' \in [Ids -> Nat] /\ collected' \subseteq read'
        /\ wm' \in Nat /\ restarted' \in Nat
    BY <1>9, Restarting, Length DEF Types
  <2>3. buffer' \subseteq LateOnes' /\ dlq' \subseteq LateOnes'
    BY <1>9, Restarting, LateStep
  <2>4. UNCHANGED <<now, log, marker, projected, billed, unsent, saved, replays>>
    BY <1>9, Restarting
  <2> HIDE DEF LateOnes
  <2> QED
    BY <2>1, <2>2, <2>3, <2>4 DEF Types, Records
<1>10. CASE Tick
  <2>1. /\ now' = now + 1
        /\ UNCHANGED <<log, read, wm, seen, collected, marker, projected, billed, buffer, dlq,
                       unsent, saved, restarted, crashes, replays>>
    BY <1>10 DEF Tick, job, redis
  <2>2. now' \in Nat \ {0}
    BY <2>1 DEF Types
  <2>3. buffer' \subseteq LateOnes' /\ dlq' \subseteq LateOnes'
    BY <2>1, LateStep
  <2> HIDE DEF LateOnes
  <2> QED
    BY <2>1, <2>2, <2>3 DEF Types, Records
<1> QED
  BY <1>1, <1>2, <1>3, <1>4, <1>5, <1>6, <1>7, <1>8, <1>9, <1>10, Actions

(***************************************************************************)
(* Time.                                                                   *)
(***************************************************************************)
(* A step publishes one record and reads none, or leaves the topic alone.     *)
LEMMA TopicSteps ==
  ASSUME Types, Next
  PROVE  \/ \E r \in Records :
              /\ log' = Append(log, r) /\ r.at = now
              /\ ~r.replay => replays' = replays /\ CopyMayFollow(r.id)
              /\ r.replay => replays' = replays + 1
              /\ UNCHANGED <<now, read, seen, collected, applied, marker, projected, billed,
                             unsent, saved, restarted, crashes>>
         \/ log' = log /\ replays' = replays /\ now' \in {now, now + 1}
<1>1. ASSUME NEW e \in Ids, NEW t \in Nat \ {0}, Publish(e, t)
      PROVE  \E r \in Records :
               /\ log' = Append(log, r) /\ r.at = now
               /\ ~r.replay => replays' = replays /\ CopyMayFollow(r.id)
               /\ r.replay => replays' = replays + 1
               /\ UNCHANGED <<now, read, seen, collected, applied, marker, projected, billed,
                              unsent, saved, restarted, crashes>>
  <2>1. PICK r \in Records : log' = Append(log, r) /\ r.id = e /\ r.at = now /\ ~r.replay
    BY <1>1, Publishing
  <2>2. CopyMayFollow(e) /\ replays' = replays
        /\ UNCHANGED <<now, read, seen, collected, applied, marker, projected, billed,
                       unsent, saved, restarted, crashes>>
    BY <1>1 DEF Publish, job, redis
  <2>3. CopyMayFollow(r.id)
    BY <2>1, <2>2
  <2> HIDE DEF Records, CopyMayFollow
  <2> QED
    BY <2>1, <2>2, <2>3
<1>2. ASSUME NEW m \in dlq, Replay(m)
      PROVE  \E r \in Records :
               /\ log' = Append(log, r) /\ r.at = now
               /\ ~r.replay => replays' = replays /\ CopyMayFollow(r.id)
               /\ r.replay => replays' = replays + 1
               /\ UNCHANGED <<now, read, seen, collected, applied, marker, projected, billed,
                              unsent, saved, restarted, crashes>>
  <2>1. PICK r \in Records : log' = Append(log, r) /\ r.at = now /\ r.replay
    BY <1>2, Replaying
  <2>2. replays' = replays + 1
        /\ UNCHANGED <<now, read, seen, collected, applied, marker, projected, billed,
                       unsent, saved, restarted, crashes>>
    BY <1>2 DEF Replay, job, redis
  <2> HIDE DEF Records, CopyMayFollow
  <2> QED
    BY <2>1, <2>2
<1>3. ASSUME NEW n \in DOMAIN log, Drop(n) PROVE log' = log /\ replays' = replays /\ now' \in {now, now + 1}
  BY <1>3 DEF Drop
<1>4. ASSUME NEW n \in DOMAIN log, RouteLate(n) \/ Collect(n) PROVE log' = log /\ replays' = replays /\ now' \in {now, now + 1}
  BY <1>4, Reading
<1>5. ASSUME NEW t \in Nat \ {0}, Advance(t) PROVE log' = log /\ replays' = replays /\ now' = now
  BY <1>5 DEF Advance
<1>6. ASSUME NEW w \in Nat, Fire(w) PROVE log' = log /\ replays' = replays /\ now' = now
  BY <1>6 DEF Fire
<1>7. ASSUME NEW m \in buffer, Deliver(m) \/ LoseLate(m) PROVE log' = log /\ replays' = replays /\ now' = now
  BY <1>7 DEF Deliver, LoseLate
<1>8. CASE Save \/ Crash \/ Tick
  BY <1>8 DEF Save, Crash, Tick
<1> HIDE DEF Records
<1> QED
  BY <1>1, <1>2, <1>3, <1>4, <1>5, <1>6, <1>7, <1>8, Actions

(* The topic stays in the order of the clock, and copies close together.      *)
LEMMA TopicStep ==
  ASSUME Types, Topic, Next
  PROVE  Topic'
<1>0. now \in Nat /\ replays \in Nat /\ Len(log) \in Nat /\ DOMAIN log = 1 .. Len(log)
  BY Length DEF Types
<1>1. CASE log' = log /\ replays' = replays /\ now' \in {now, now + 1}
  <2>1. \A p \in DOMAIN log : log[p].at \in Nat
    BY RecordTyped
  <2> QED
    BY <1>0, <1>1, <2>1 DEF Topic
<1>2. ASSUME NEW r \in Records,
             log' = Append(log, r), r.at = now, now' = now,
             ~r.replay => replays' = replays /\ CopyMayFollow(r.id),
             r.replay => replays' = replays + 1
      PROVE  Topic'
  <2>1. /\ Len(log') = Len(log) + 1 /\ log'[Len(log) + 1] = r
        /\ DOMAIN log' = DOMAIN log \cup {Len(log) + 1}
        /\ \A p \in DOMAIN log : log'[p] = log[p]
    BY <1>2, Appended
  <2>2. \A p \in DOMAIN log : log[p].at \in Nat /\ p < Len(log) + 1
    BY <1>0, RecordTyped
  <2>3. \A p \in DOMAIN log' : log'[p].at <= now'
    BY <1>0, <1>2, <2>1, <2>2 DEF Topic
  <2>4. \A p, q \in DOMAIN log' : p <= q => log'[p].at <= log'[q].at
    BY <1>0, <1>2, <2>1, <2>2 DEF Topic
  <2>5. \A p, q \in DOMAIN log' :
          log'[p].id = log'[q].id /\ ~log'[q].replay => log'[q].at <= log'[p].at + CopiesWithin
    <3> TAKE p, q \in DOMAIN log'
    <3> HAVE log'[p].id = log'[q].id /\ ~log'[q].replay
    <3>1. CASE q \in DOMAIN log /\ p \in DOMAIN log
      BY <3>1, <2>1 DEF Topic
    <3>2. CASE q = Len(log) + 1 /\ p \in DOMAIN log
      BY <3>2, <1>2, <2>1 DEF CopyMayFollow
    <3>3. CASE p = Len(log) + 1
      BY <3>3, <1>0, <1>2, <2>1, <2>2, Settings DEF Topic
    <3> QED
      BY <2>1, <3>1, <3>2, <3>3
  <2>6. replays' = 0 => \A p \in DOMAIN log' : ~log'[p].replay
    BY <1>0, <1>2, <2>1 DEF Topic
  <2> QED
    BY <2>3, <2>4, <2>5, <2>6 DEF Topic
<1> HIDE DEF Records
<1> QED
  BY <1>1, <1>2, TopicSteps

(* Restarts are bounded together with lost messages, of which none comes back. *)
LEMMA LossesStay ==
  ASSUME Types, unsent \subseteq unsent', unsent' \subseteq Ids,
         crashes' = crashes, replays' \in Nat, replays <= replays', MayCrash'
  PROVE  MayCrash
<1>1. Cardinality(unsent) \in Nat /\ Cardinality(unsent') \in Nat
      /\ Cardinality(unsent) <= Cardinality(unsent')
  <2>1. IsFiniteSet(unsent')
    BY FS_Subset, MeteringAssumption
  <2> QED
    BY <2>1, FS_Subset, FS_CardinalityType
<1>2. crashes \in Nat /\ replays \in Nat /\ MaxTroubles \in Nat
  BY Settings DEF Types
<1>3. crashes < MaxCrashes /\ crashes + replays' + Cardinality(unsent') < MaxTroubles
  BY DEF MayCrash, Troubles
<1>4. crashes + replays + Cardinality(unsent) < MaxTroubles
  BY <1>1, <1>2, <1>3
<1> QED
  BY <1>3, <1>4 DEF MayCrash, Troubles

(* A record is read within MaxLag, and Period + MaxLag later per restart: a   *)
(* restart goes back behind what was read, but not behind what was unread at  *)
(* the checkpoint, and no checkpoint is older than Period.                    *)
LEMMA InTimeStep ==
  ASSUME Types, Topic, InTime, Next
  PROVE  InTime'
<1>0. /\ now \in Nat /\ saved.at \in Nat /\ restarted \in Nat /\ crashes \in 0 .. MaxCrashes
      /\ read \subseteq DOMAIN log /\ saved.offset \in Nat /\ Len(log) \in Nat /\ DOMAIN log = 1 .. Len(log)
      /\ crashes \in Nat /\ replays \in Nat
      /\ \A p \in DOMAIN log : log[p].at \in Nat
  <2>1. \A p \in DOMAIN log : log[p].at \in Nat
    BY RecordTyped
  <2>2. Len(log) \in Nat /\ DOMAIN log = 1 .. Len(log)
    BY Length
  <2> HIDE DEF Records, LateOnes
  <2>3. crashes \in 0 .. MaxCrashes /\ crashes \in Nat
    BY Settings DEF Types
  <2> QED
    BY <2>1, <2>2, <2>3 DEF Types
<1>d. Delay \in Nat
  BY <1>0, Delays DEF Delay
<1>1. ASSUME NEW r \in Records,
             log' = Append(log, r), r.at = now,
             UNCHANGED <<now, read, unsent, saved, restarted, crashes>>,
             replays' \in Nat, replays <= replays'
      PROVE  InTime'
  <2>1. /\ log'[Len(log) + 1] = r /\ DOMAIN log' = DOMAIN log \cup {Len(log) + 1}
        /\ \A p \in DOMAIN log : log'[p] = log[p]
    BY <1>1, Appended
  <2>2. Delay' = Delay
    BY <1>1 DEF Delay
  <2>3. MayCrash' => MayCrash
    BY <1>1, LossesStay DEF Types
  <2>4. \A p \in DOMAIN log' \ read :
          now <= log'[p].at + MaxLag + Delay /\ restarted <= log'[p].at + Delay
    <3> TAKE p \in DOMAIN log' \ read
    <3>1. CASE p = Len(log) + 1
      <4>1. log'[p].at = now
        BY <3>1, <1>1, <2>1
      <4>2. now \in Nat /\ restarted \in Nat /\ MaxLag \in Nat /\ Delay \in Nat /\ restarted <= now
        BY <1>0, <1>d, Settings DEF InTime
      <4> QED
        BY <4>1, <4>2
    <3>2. CASE p # Len(log) + 1
      <4>1. p \in DOMAIN log /\ p \in DOMAIN log \ read
        BY <3>2, <2>1
      <4> QED
        BY <4>1, <2>1 DEF InTime
    <3> QED
      BY <3>1, <3>2
  <2>5. \A p \in DOMAIN log' \ (1 .. saved.offset) : saved.at <= log'[p].at + MaxLag + Delay
    <3> TAKE p \in DOMAIN log' \ (1 .. saved.offset)
    <3>1. CASE p = Len(log) + 1
      BY <3>1, <1>0, <1>1, <1>d, <2>1, Settings DEF InTime
    <3>2. CASE p # Len(log) + 1
      <4>1. p \in DOMAIN log /\ p \in DOMAIN log \ (1 .. saved.offset)
        BY <3>2, <1>0, <2>1
      <4> QED
        BY <4>1, <2>1 DEF InTime
    <3> QED
      BY <3>1, <3>2
  <2> QED
    BY <1>1, <2>2, <2>3, <2>4, <2>5 DEF InTime
<1>2. ASSUME UNCHANGED <<now, log, saved, restarted, crashes>>,
             read \subseteq read', MayCrash' => MayCrash
      PROVE  InTime'
  <2>1. Delay' = Delay
    BY <1>2 DEF Delay
  <2>2. DOMAIN log \ read' \subseteq DOMAIN log \ read
    BY <1>2
  <2> QED
    BY <1>2, <2>1, <2>2 DEF InTime
<1>3. CASE Save
  <2>1. Delay' = Delay /\ (MayCrash' <=> MayCrash)
    BY <1>3, Saving DEF Delay, MayCrash, Troubles
  <2>2. saved'.at = now /\ read = 1 .. saved'.offset
        /\ UNCHANGED <<now, log, read, restarted, crashes, replays>>
    BY <1>3, Saving
  <2>3. now <= now + Period
    BY <1>0, Settings
  <2> QED
    BY <1>0, <2>1, <2>2, <2>3 DEF InTime
<1>4. CASE Crash
  <2>1. Delay' = Delay + Period + MaxLag
    BY <1>4, <1>0, Restarting, Delays DEF Delay
  <2>2. /\ MayCrash /\ read' = 1 .. saved.offset /\ restarted' = now
        /\ crashes' = crashes + 1 /\ UNCHANGED <<now, log, saved, replays>>
    BY <1>4, Restarting
  <2>3. MayCrash' => MayCrash
    BY <2>2
  <2>4. now <= saved.at + Period /\ saved.at <= now
    BY <2>2 DEF InTime
  <2>5. ASSUME NEW p \in DOMAIN log \ (1 .. saved.offset)
        PROVE  /\ now <= log[p].at + MaxLag + Delay'
               /\ now <= log[p].at + Delay'
               /\ saved.at <= log[p].at + MaxLag + Delay'
    <3>1. p \in DOMAIN log /\ saved.at <= log[p].at + MaxLag + Delay
      BY <1>0 DEF InTime
    <3>2. log[p].at \in Nat
      BY <1>0, <3>1
    <3>3. /\ now \in Nat /\ saved.at \in Nat /\ Delay \in Nat /\ Period \in Nat
          /\ MaxLag \in Nat
      BY <1>0, <1>d, Settings
    <3>4. now <= log[p].at + MaxLag + Delay + Period
      BY <2>4, <3>1, <3>2, <3>3
    <3>5. PICK d \in Nat : d = Delay' /\ d = Delay + Period + MaxLag
      BY <2>1, <3>3
    <3>6. now <= log[p].at + d
      BY <3>2, <3>3, <3>4, <3>5
    <3>7. now <= log[p].at + MaxLag + d /\ saved.at <= log[p].at + MaxLag + d
      BY <2>4, <3>2, <3>3, <3>5, <3>6
    <3> QED
      BY <3>5, <3>6, <3>7
  <2> QED
    BY <2>2, <2>3, <2>4, <2>5, <1>0 DEF InTime
<1>5. CASE Tick
  <2>1. /\ now' = now + 1 /\ MayCrash' = MayCrash /\ Delay' = Delay
        /\ UNCHANGED <<log, read, saved, restarted, crashes, replays>>
    BY <1>5 DEF Tick, job, MayCrash, Troubles, Delay
  <2>2. MayCrash => now + 1 <= saved.at + Period
    BY <1>0, <1>5, Settings DEF Tick
  <2>3. ASSUME NEW p \in DOMAIN log \ read
        PROVE  now + 1 <= log[p].at + MaxLag + Delay
    <3>1. restarted <= log[p].at + Delay
      BY DEF InTime
    <3>2. now < log[p].at + MaxLag \/ now < restarted + MaxLag
      BY <1>5 DEF Tick
    <3>3. log[p].at \in Nat
      BY <1>0
    <3>4. now \in Nat /\ restarted \in Nat /\ MaxLag \in Nat /\ Delay \in Nat
      BY <1>0, <1>d, Settings
    <3> QED
      BY <3>1, <3>2, <3>3, <3>4
  <2> QED
    BY <1>0, <2>1, <2>2, <2>3 DEF InTime
<1>6. ASSUME NEW n \in DOMAIN log, Drop(n) PROVE InTime'
  BY <1>6, <1>2 DEF Drop, MayCrash, Troubles
<1>7. ASSUME NEW n \in DOMAIN log, RouteLate(n) \/ Collect(n) PROVE InTime'
  BY <1>7, <1>2, Reading DEF MayCrash, Troubles
<1>8. ASSUME NEW t \in Nat \ {0}, Advance(t) PROVE InTime'
  BY <1>8, <1>2 DEF Advance, MayCrash, Troubles
<1>9. ASSUME NEW w \in Nat, Fire(w) PROVE InTime'
  BY <1>9, <1>2 DEF Fire, MayCrash, Troubles
<1>10. ASSUME NEW m \in buffer, Deliver(m) \/ LoseLate(m) PROVE InTime'
  <2>1. UNCHANGED <<now, log, read, saved, restarted, crashes, replays>>
    BY <1>10 DEF Deliver, LoseLate, job
  <2>2. unsent \subseteq unsent' /\ unsent' \subseteq Ids
    BY <1>10, LateTyped DEF Deliver, LoseLate, Types
  <2>3. MayCrash' => MayCrash
    BY <1>0, <2>1, <2>2, LossesStay
  <2> QED
    BY <1>2, <2>1, <2>3
<1>11. ASSUME NEW e \in Ids, NEW t \in Nat \ {0}, Publish(e, t) PROVE InTime'
  <2>1. PICK r \in Records : log' = Append(log, r) /\ r.at = now
    BY <1>11, Publishing
  <2>2. UNCHANGED <<now, read, unsent, saved, restarted, crashes, replays>>
    BY <1>11 DEF Publish, job
  <2> HIDE DEF Records
  <2> QED
    BY <1>0, <1>1, <2>1, <2>2
<1>12. ASSUME NEW m \in dlq, Replay(m) PROVE InTime'
  <2>1. PICK r \in Records : log' = Append(log, r) /\ r.at = now
    BY <1>12, Replaying
  <2>2. UNCHANGED <<now, read, unsent, saved, restarted, crashes>> /\ replays' = replays + 1
    BY <1>12 DEF Replay, job
  <2> HIDE DEF Records
  <2> QED
    BY <1>0, <1>1, <2>1, <2>2
<1> HIDE DEF Records
<1> QED
  BY <1>3, <1>4, <1>5, <1>6, <1>7, <1>8, <1>9, <1>10, <1>11, <1>12, Actions

(***************************************************************************)
(* Copies.                                                                 *)
(***************************************************************************)
(* The condition on the settings, for the restarts there were.                *)
LEMMA DelayBound ==
  ASSUME Types
  PROVE  /\ Delay \in Nat
         /\ CopiesWithin + MaxLag + Delay < DedupTTL
         /\ CopiesWithin + MaxLag + Delay < MarkerTTL
<1>1. crashes \in 0 .. MaxCrashes
  BY DEF Types
<1>2. PICK m \in Nat : m = MaxCrashes * (Period + MaxLag)
  <2>1. MaxCrashes \in 0 .. MaxCrashes
    BY Settings
  <2> QED
    BY <2>1, Delays
<1>3. Delay \in Nat /\ Delay <= m
  BY <1>1, <1>2, Delays DEF Delay
<1>4. CopiesWithin + MaxLag + m < DedupTTL /\ CopiesWithin + MaxLag + m < MarkerTTL
  BY <1>2, MeteringAssumption
<1> QED
  BY <1>3, <1>4, Settings

(* A copy is read while its event is known, in the deduplicator and in Redis. *)
LEMMA CopyIsSoon ==
  ASSUME Types, Topic, InTime, NEW p \in DOMAIN log, NEW q \in DOMAIN log \ read,
         log[p].id = log[q].id, ~log[q].replay
  PROVE  now < log[p].at + DedupTTL /\ now < log[p].at + MarkerTTL
<1>1. q \in DOMAIN log /\ log[p].at \in Nat /\ log[q].at \in Nat
  BY RecordTyped
<1>2. log[q].at <= log[p].at + CopiesWithin
  BY <1>1 DEF Topic
<1>3. now <= log[q].at + MaxLag + Delay
  BY DEF InTime
<1>4. now \in Nat
  BY DEF Types
<1>5. PICK d \in Nat : d = Delay
  BY DelayBound
<1>6. now <= log[p].at + (CopiesWithin + MaxLag + d)
  BY <1>1, <1>2, <1>3, <1>4, <1>5, Settings
<1>7. CopiesWithin + MaxLag + d < DedupTTL /\ CopiesWithin + MaxLag + d < MarkerTTL
  BY <1>5, DelayBound
<1> QED
  BY <1>1, <1>4, <1>5, <1>6, <1>7, Settings

(* What is known stays known, for the topic only grows.                       *)
LEMMA KnowsKept ==
  ASSUME Types, Next, NEW s, NEW R \in SUBSET DOMAIN log, Knows(s, R)
  PROVE  /\ \A p \in R : s[log'[p].id] # 0
         /\ \A e \in Ids : s[e] # 0 =>
              \E p \in R : log'[p].id = e /\ log'[p].at + DedupTTL <= s[e]
<1>1. \A p \in R : log'[p] = log[p]
  <2>1. \A p \in R : p \in DOMAIN log
    OBVIOUS
  <2>2. ASSUME NEW r \in Records, log' = Append(log, r) PROVE \A p \in DOMAIN log : log'[p] = log[p]
    BY <2>2, Appended
  <2> HIDE DEF Records
  <2> QED
    BY <2>1, <2>2, TopicSteps
<1> QED
  BY <1>1 DEF Knows

(* What was read is known for the TTL, in the operator and in the checkpoint. *)
LEMMA KnownStep ==
  ASSUME Types, Topic, Known, Next
  PROVE  Known'
<1>0. read \subseteq DOMAIN log /\ 1 .. saved.offset \subseteq DOMAIN log
  BY Length DEF Types
<1>1. CASE UNCHANGED <<seen, read, saved>>
  <2>1. /\ \A p \in read : seen[log'[p].id] # 0
        /\ \A e \in Ids : seen[e] # 0 =>
             \E p \in read : log'[p].id = e /\ log'[p].at + DedupTTL <= seen[e]
    BY <1>0, KnowsKept DEF Known
  <2>2. /\ \A p \in 1 .. saved.offset : saved.seen[log'[p].id] # 0
        /\ \A e \in Ids : saved.seen[e] # 0 =>
             \E p \in 1 .. saved.offset : log'[p].id = e /\ log'[p].at + DedupTTL <= saved.seen[e]
    BY <1>0, KnowsKept DEF Known
  <2> QED
    BY <1>1, <2>1, <2>2 DEF Known, Knows
<1>2. ASSUME NEW n \in DOMAIN log, Drop(n) PROVE Known'
  <2>1. log[n].id \in Ids /\ seen[log[n].id] # 0
    <3>1. log[n].id \in Ids /\ now < seen[log[n].id]
      BY <1>2, NextTyped DEF Drop, Duplicate
    <3>2. now \in Nat
      BY DEF Types
    <3> QED
      BY <3>1, <3>2
  <2>2. UNCHANGED <<log, seen, saved>> /\ read' = read \cup {n}
    BY <1>2 DEF Drop
  <2>3. Knows(seen, read \cup {n})
    BY <2>1 DEF Known, Knows
  <2> QED
    BY <2>2, <2>3 DEF Known, Knows
<1>3. ASSUME NEW n \in DOMAIN log, RouteLate(n) \/ Collect(n) PROVE Known'
  <2>1. PICK e \in Ids : e = log[n].id
    BY <1>3, Reading
  <2>2. /\ read' = read \cup {n} /\ seen' = [seen EXCEPT ![e] = now + DedupTTL]
        /\ UNCHANGED <<log, saved>>
    BY <1>3, <2>1, Reading
  <2>3. seen'[e] = now + DedupTTL /\ \A f \in Ids : f # e => seen'[f] = seen[f]
    BY <2>1, <2>2 DEF Types
  <2>4. log[n].at <= now /\ log[n].at \in Nat /\ now \in Nat \ {0}
    BY RecordTyped DEF Topic, Types
  <2>5. now + DedupTTL # 0 /\ log[n].at + DedupTTL <= now + DedupTTL
    BY <2>4, Settings
  <2>6. \A p \in read : log[p].id \in Ids /\ seen[log[p].id] # 0
    BY <1>0, RecordTyped DEF Known, Knows
  <2>7. \A p \in read \cup {n} : seen'[log[p].id] # 0
    BY <2>1, <2>3, <2>5, <2>6
  <2>8. \A f \in Ids : seen'[f] # 0 =>
          \E p \in read \cup {n} : log[p].id = f /\ log[p].at + DedupTTL <= seen'[f]
    BY <2>1, <2>3, <2>5 DEF Known, Knows
  <2> QED
    BY <2>2, <2>7, <2>8 DEF Known, Knows
<1>4. CASE Crash
  BY <1>4, Restarting DEF Known, Knows
<1>5. CASE Save
  BY <1>5, Saving DEF Known, Knows
<1>6. ASSUME NEW e \in Ids, NEW t \in Nat \ {0}, Publish(e, t) PROVE Known'
  BY <1>6, <1>1 DEF Publish, job
<1>7. ASSUME NEW t \in Nat \ {0}, Advance(t) PROVE Known'
  BY <1>7, <1>1 DEF Advance
<1>8. ASSUME NEW w \in Nat, Fire(w) PROVE Known'
  BY <1>8, <1>1 DEF Fire
<1>9. ASSUME NEW m \in buffer, Deliver(m) \/ LoseLate(m) PROVE Known'
  BY <1>9, <1>1 DEF Deliver, LoseLate, job
<1>10. ASSUME NEW m \in dlq, Replay(m) PROVE Known'
  BY <1>10, <1>1 DEF Replay, job
<1>11. CASE Tick
  BY <1>11, <1>1 DEF Tick, job
<1> QED
  BY <1>2, <1>3, <1>4, <1>5, <1>6, <1>7, <1>8, <1>9, <1>10, <1>11, Actions

(* An event that was read is known, so its copies are dropped.                *)
LEMMA CopyDropped ==
  ASSUME Types, Topic, InTime, Known, NEW n, Readable(n), ~log[n].replay, ~Duplicate(log[n].id)
  PROVE  seen[log[n].id] = 0 /\ (\A p \in read : log[p].id # log[n].id) /\ First(n)
<1> DEFINE e == log[n].id
<1>1. e \in Ids /\ n \in DOMAIN log \ read
  BY NextTyped
<1>2. ASSUME seen[e] # 0 PROVE FALSE
  <2>1. PICK p \in read : log[p].id = e /\ log[p].at + DedupTTL <= seen[e]
    BY <1>1, <1>2 DEF Known, Knows
  <2>2. p \in DOMAIN log
    BY DEF Types
  <2>3. now < log[p].at + DedupTTL
    BY <1>1, <2>1, <2>2, CopyIsSoon
  <2>4. now \in Nat /\ log[p].at \in Nat /\ seen[e] \in Nat
    BY <1>1, <2>2, RecordTyped DEF Types
  <2>5. now < seen[e]
    BY <2>1, <2>3, <2>4, Settings
  <2> QED
    BY <2>5 DEF Duplicate
<1>3. seen[e] = 0
  BY <1>2
<1>4. \A p \in read : log[p].id # e
  BY <1>3 DEF Known, Knows
<1>5. First(n)
  BY <1>4 DEF Readable, First
<1> QED
  BY <1>3, <1>4, <1>5

(* The marker outlives the copies, and what a restart reads again.            *)
LEMMA MarkedStep ==
  ASSUME Types, Topic, InTime, Marked, Next
  PROVE  Marked'
<1>1. \A p \in DOMAIN log : p \in DOMAIN log' /\ log'[p] = log[p]
  <2>1. ASSUME NEW r \in Records, log' = Append(log, r)
        PROVE  \A p \in DOMAIN log : p \in DOMAIN log' /\ log'[p] = log[p]
    BY <2>1, Appended
  <2> HIDE DEF Records
  <2> QED
    BY <2>1, TopicSteps
<1>2. replays' = 0 => replays = 0
  <2>1. replays \in Nat
    BY DEF Types
  <2> HIDE DEF Records
  <2> QED
    BY <2>1, TopicSteps
<1>3. CASE UNCHANGED <<projected, marker>>
  BY <1>1, <1>2, <1>3 DEF Marked
<1>4. ASSUME NEW n \in DOMAIN log, Collect(n) PROVE Marked'
  <2>1. PICK e \in Ids : e = log[n].id
    BY <1>4, Reading
  <2>2. n \in DOMAIN log \ read /\ UNCHANGED <<log, replays>>
    BY <1>4, Reading
  <2>3. CASE UNCHANGED <<projected, marker>>
    BY <2>3, <1>3
  <2>4. CASE /\ ~(now < marker[e])
             /\ projected' = [projected EXCEPT ![e] = @ + 1]
             /\ marker' = [marker EXCEPT ![e] = now + MarkerTTL]
    <3>1. marker'[e] = now + MarkerTTL /\ projected'[e] = projected[e] + 1
      BY <2>4 DEF Types
    <3>2. \A f \in Ids : f # e => marker'[f] = marker[f] /\ projected'[f] = projected[f]
      BY <2>4 DEF Types
    <3>3. log[n].at <= now /\ log[n].at \in Nat /\ now \in Nat
      BY <2>2, RecordTyped DEF Topic, Types
    <3>4. log[n].at + MarkerTTL <= marker'[e]
      BY <3>1, <3>3, Settings
    <3>5. ASSUME replays = 0, projected[e] # 0 PROVE FALSE
      <4>1. PICK p \in DOMAIN log : log[p].id = e /\ log[p].at + MarkerTTL <= marker[e]
        BY <3>5 DEF Marked
      <4>2. ~log[n].replay /\ n \in DOMAIN log \ read
        BY <2>2, <3>5 DEF Topic
      <4>3. now < log[p].at + MarkerTTL
        BY <2>1, <4>1, <4>2, CopyIsSoon
      <4>4. log[p].at \in Nat /\ marker[e] \in Nat
        BY <4>1, RecordTyped DEF Types
      <4> QED
        BY <2>4, <3>3, <4>1, <4>3, <4>4, Settings
    <3>6. replays' = 0 => projected'[e] = 1
      BY <3>1, <3>5, <2>2
    <3> QED
      BY <2>1, <2>2, <3>2, <3>4, <3>6 DEF Marked
  <2> QED
    BY <1>4, <2>1, <2>3, <2>4, Projecting
<1>5. ASSUME NEW n \in DOMAIN log, Drop(n) \/ RouteLate(n) PROVE Marked'
  BY <1>3, <1>5 DEF Drop, RouteLate, redis
<1>6. ASSUME NEW e \in Ids, NEW t \in Nat \ {0}, Publish(e, t) PROVE Marked'
  BY <1>6, <1>3 DEF Publish, redis
<1>7. ASSUME NEW t \in Nat \ {0}, Advance(t) PROVE Marked'
  BY <1>7, <1>3 DEF Advance, redis
<1>8. ASSUME NEW w \in Nat, Fire(w) PROVE Marked'
  BY <1>8, <1>3, Firing
<1>9. ASSUME NEW m \in buffer, Deliver(m) \/ LoseLate(m) PROVE Marked'
  BY <1>9, <1>3 DEF Deliver, LoseLate, redis
<1>10. ASSUME NEW m \in dlq, Replay(m) PROVE Marked'
  BY <1>10, <1>3 DEF Replay, redis
<1>11. CASE Save \/ Crash \/ Tick
  BY <1>11, <1>3 DEF Save, Crash, Tick, redis
<1> QED
  BY <1>4, <1>5, <1>6, <1>7, <1>8, <1>9, <1>10, <1>11, Actions

(***************************************************************************)
(* Windows, where there are no replays: restarts read the topic again, but *)
(* always the same record of an event comes first.                         *)
(***************************************************************************)
(* What is in the topic stays what it is.                                     *)
LEMMA TopicKept ==
  ASSUME Types, Next, NEW p \in DOMAIN log
  PROVE  /\ p \in DOMAIN log' /\ log'[p] = log[p]
         /\ WindowOf(p)' = WindowOf(p) /\ (First(p) => First(p)')
<1>1. \A q \in DOMAIN log : q \in DOMAIN log' /\ log'[q] = log[q]
  <2>1. ASSUME NEW r \in Records, log' = Append(log, r)
        PROVE  \A q \in DOMAIN log : q \in DOMAIN log' /\ log'[q] = log[q]
    BY <2>1, Appended
  <2> HIDE DEF Records
  <2> QED
    BY <2>1, TopicSteps
<1>2. \A q \in 1 .. (p - 1) : q \in DOMAIN log
  BY Length
<1> QED
  BY <1>1, <1>2 DEF WindowOf, First

(* Windows hold positions of the topic.                                       *)
LEMMA Positions ==
  ASSUME Types
  PROVE  /\ collected \subseteq DOMAIN log /\ saved.collected \subseteq DOMAIN log
         /\ \A p \in collected : log[p].id \in Ids
<1>1. read \subseteq DOMAIN log /\ 1 .. saved.offset \subseteq DOMAIN log
  BY Length DEF Types
<1>2. collected \subseteq read /\ saved.collected \subseteq 1 .. saved.offset
  BY DEF Types
<1> QED
  BY <1>1, <1>2, RecordTyped

(* Only first records enter windows, and the counters know by the marker of   *)
(* the window that an event was charged.                                      *)
LEMMA FirstStep ==
  ASSUME Types, Topic, InTime, Known, FirstOnly, Next
  PROVE  FirstOnly'
<1> SUFFICES ASSUME replays' = 0 PROVE FirstOnly'
  BY DEF FirstOnly
<1>0. replays = 0
  <2>1. replays \in Nat
    BY DEF Types
  <2> HIDE DEF Records
  <2> QED
    BY <2>1, TopicSteps
<1>1. ASSUME collected' \subseteq collected \cup saved.collected,
             saved'.collected \subseteq collected \cup saved.collected,
             UNCHANGED <<applied, billed>>
      PROVE  FirstOnly'
  BY <1>0, <1>1, TopicKept, Positions DEF FirstOnly
<1>2. ASSUME NEW n \in DOMAIN log, Collect(n) \/ RouteLate(n) PROVE FirstOnly'
  <2>1. /\ n \in DOMAIN log /\ Readable(n)
        /\ ~Duplicate(log[n].id) /\ ~log[n].replay
        /\ UNCHANGED <<log, saved, applied, billed>>
        /\ collected' \subseteq collected \cup {n}
    BY <1>0, <1>2, Reading DEF Topic
  <2>3. First(n)
    BY <2>1, CopyDropped
  <2>4. \A p : First(p)' <=> First(p)
    BY <2>1 DEF First
  <2>5. \A p : WindowOf(p)' = WindowOf(p)
    BY <2>1 DEF WindowOf
  <2> QED
    BY <1>0, <2>1, <2>3, <2>4, <2>5 DEF FirstOnly
<1>3. ASSUME NEW w \in Nat, Fire(w) PROVE FirstOnly'
  <2>1. /\ collected' \subseteq collected /\ applied' = applied \cup {w}
        /\ UNCHANGED <<log, saved>>
    BY <1>3, Firing
  <2>2. \A p : (First(p)' <=> First(p)) /\ WindowOf(p)' = WindowOf(p)
    BY <2>1 DEF First, WindowOf
  <2>3. ASSUME NEW e \in Ids, billed'[e] # 0
        PROVE  /\ billed'[e] = 1
               /\ \E p \in DOMAIN log : log[p].id = e /\ First(p) /\ WindowOf(p) \in applied'
    <3>1. CASE billed'[e] = billed[e]
      BY <1>0, <2>1, <2>3, <3>1 DEF FirstOnly
    <3>2. CASE billed'[e] = billed[e] + 1 /\ w \notin applied /\ In(w, e) # {}
      <4>1. PICK p \in collected : WindowOf(p) = w /\ log[p].id = e
        BY <3>2 DEF In
      <4>2. p \in DOMAIN log /\ First(p)
        BY <1>0, Positions DEF FirstOnly
      <4>3. ASSUME billed[e] # 0 PROVE FALSE
        <5>1. PICK q \in DOMAIN log : log[q].id = e /\ First(q) /\ WindowOf(q) \in applied
          BY <1>0, <4>3 DEF FirstOnly
        <5>2. p \in Nat \ {0} /\ q \in Nat \ {0}
          BY <4>2, Length
        <5>3. ~(q < p) /\ ~(p < q)
          BY <4>1, <4>2, <5>1, <5>2 DEF First
        <5>4. p = q
          BY <5>2, <5>3
        <5> QED
          BY <3>2, <4>1, <5>1, <5>4
      <4> QED
        BY <2>1, <3>2, <4>1, <4>2, <4>3 DEF Types
    <3> QED
      BY <1>3, <3>1, <3>2, Firing
  <2> QED
    BY <1>0, <2>1, <2>2, <2>3 DEF FirstOnly
<1>4. ASSUME NEW n \in DOMAIN log, Drop(n) PROVE FirstOnly'
  BY <1>1, <1>4 DEF Drop, redis
<1>5. ASSUME NEW e \in Ids, NEW t \in Nat \ {0}, Publish(e, t) PROVE FirstOnly'
  BY <1>1, <1>5 DEF Publish, redis, job
<1>6. ASSUME NEW t \in Nat \ {0}, Advance(t) PROVE FirstOnly'
  BY <1>1, <1>6 DEF Advance, redis
<1>7. ASSUME NEW m \in buffer, Deliver(m) \/ LoseLate(m) PROVE FirstOnly'
  BY <1>1, <1>7 DEF Deliver, LoseLate, redis, job
<1>8. ASSUME NEW m \in dlq, Replay(m) PROVE FirstOnly'
  BY <1>1, <1>8 DEF Replay, redis, job
<1>9. CASE Save
  BY <1>1, <1>9, Saving
<1>10. CASE Crash
  BY <1>1, <1>10, Restarting
<1>11. CASE Tick
  BY <1>1, <1>11 DEF Tick, redis, job
<1> QED
  BY <1>2, <1>3, <1>4, <1>5, <1>6, <1>7, <1>8, <1>9, <1>10, <1>11, Actions

(***************************************************************************)
(* Replays, where there are no restarts: an event is in one place.         *)
(***************************************************************************)
(* What the places of an event are.                                           *)
LEMMA WhereIs ==
  ASSUME NEW e, NEW x
  PROVE  x \in Whereabouts(e) <=>
           \/ \E p \in collected : log[p].id = e /\ x = <<"window", p>>
           \/ \E m \in buffer : log[m.pos].id = e /\ x = <<"sink", m>>
           \/ \E m \in dlq : log[m.pos].id = e /\ x = <<"queue", m>>
           \/ \E p \in DOMAIN log \ read :
                log[p].replay /\ log[p].id = e /\ x = <<"topic", p>>
BY DEF Whereabouts

(* Where the copies of an event are after a step.                             *)
LEMMA WhereNext ==
  ASSUME NEW e, NEW x
  PROVE  x \in Whereabouts(e)' <=>
           \/ \E p \in collected' : log'[p].id = e /\ x = <<"window", p>>
           \/ \E m \in buffer' : log'[m.pos].id = e /\ x = <<"sink", m>>
           \/ \E m \in dlq' : log'[m.pos].id = e /\ x = <<"queue", m>>
           \/ \E p \in DOMAIN log' \ read' :
                log'[p].replay /\ log'[p].id = e /\ x = <<"topic", p>>
BY DEF Whereabouts

(* An event that leaves a place, or stays.                                    *)
LEMMA StaysPut ==
  ASSUME NEW e \in Ids, OnePlace(e), Whereabouts(e)' \subseteq Whereabouts(e),
         billed'[e] = billed[e], seen[e] # 0 => seen'[e] # 0
  PROVE  OnePlace(e)'
BY DEF OnePlace

(* An event that moves from its place to another one.                         *)
LEMMA Moves ==
  ASSUME NEW e \in Ids, NEW x, \A y \in Whereabouts(e)' : y = x,
         billed'[e] = billed[e], billed[e] = 0, seen'[e] # 0
  PROVE  OnePlace(e)'
BY DEF OnePlace

(* A read moves a replay out of the topic, and an event that was not known    *)
(* into its first place; what is read twice goes nowhere.                     *)
LEMMA ReadMoves ==
  ASSUME Types, Topic, InTime, Known, \A e \in Ids : OnePlace(e),
         NEW n \in DOMAIN log, RouteLate(n) \/ Collect(n)
  PROVE  \A e \in Ids : OnePlace(e)'
<1> TAKE e \in Ids
<1>1. PICK f \in Ids : f = log[n].id
  BY Reading
<1>2. /\ Readable(n) /\ n \notin read /\ ~Duplicate(f)
      /\ read' = read \cup {n} /\ seen' = [seen EXCEPT ![f] = now + DedupTTL]
      /\ UNCHANGED <<log, billed, dlq>>
  BY <1>1, Reading
<1>3. \/ buffer' = buffer \cup {[pos |-> n, at |-> now]} /\ collected' = collected
      \/ buffer' = buffer /\ collected' = collected \cup {n}
  BY Reading
<1>4. /\ DOMAIN log \ read = (DOMAIN log \ read') \cup {n}
      /\ n \notin DOMAIN log \ read'
  BY <1>2
<1>5. seen'[f] # 0 /\ (e # f => seen'[e] = seen[e])
  BY <1>2, Settings DEF Types
<1>6. PICK x : /\ x \in {<<"sink", [pos |-> n, at |-> now]>>, <<"window", n>>}
               /\ \A y \in Whereabouts(e)' :
                    \/ y \in Whereabouts(e) /\ y # <<"topic", n>>
                    \/ e = f /\ y = x
  <2>1. ASSUME NEW y, y \in Whereabouts(e)', NEW x,
               \/ x = <<"sink", [pos |-> n, at |-> now]>>
                  /\ buffer' = buffer \cup {[pos |-> n, at |-> now]} /\ collected' = collected
               \/ x = <<"window", n>>
                  /\ buffer' = buffer /\ collected' = collected \cup {n}
        PROVE  \/ y \in Whereabouts(e) /\ y # <<"topic", n>>
               \/ e = f /\ y = x
    <3>1. CASE \E p \in collected' : log'[p].id = e /\ y = <<"window", p>>
      BY <1>1, <1>2, <2>1, <3>1, WhereIs
    <3>2. CASE \E m \in buffer' : log'[m.pos].id = e /\ y = <<"sink", m>>
      BY <1>1, <1>2, <2>1, <3>2, WhereIs
    <3>3. CASE \E m \in dlq' : log'[m.pos].id = e /\ y = <<"queue", m>>
      BY <1>2, <3>3, WhereIs
    <3>4. CASE \E p \in DOMAIN log' \ read' :
                 log'[p].replay /\ log'[p].id = e /\ y = <<"topic", p>>
      BY <1>2, <1>4, <3>4, WhereIs
    <3> QED
      BY <2>1, <3>1, <3>2, <3>3, <3>4, WhereNext
  <2>2. CASE buffer' = buffer \cup {[pos |-> n, at |-> now]} /\ collected' = collected
    <3> DEFINE x == <<"sink", [pos |-> n, at |-> now]>>
    <3>1. \A y \in Whereabouts(e)' :
            \/ y \in Whereabouts(e) /\ y # <<"topic", n>>
            \/ e = f /\ y = x
      BY <2>1, <2>2
    <3> QED
      BY <3>1
  <2>3. CASE buffer' = buffer /\ collected' = collected \cup {n}
    <3> DEFINE x == <<"window", n>>
    <3>1. \A y \in Whereabouts(e)' :
            \/ y \in Whereabouts(e) /\ y # <<"topic", n>>
            \/ e = f /\ y = x
      BY <2>1, <2>3
    <3> QED
      BY <3>1
  <2> QED
    BY <1>3, <2>2, <2>3
<1>7. CASE e # f
  <2>1. Whereabouts(e)' \subseteq Whereabouts(e)
    BY <1>6, <1>7
  <2> QED
    BY <1>2, <1>5, <1>7, <2>1, StaysPut
<1>8. CASE e = f /\ log[n].replay
  <2>1. <<"topic", n>> \in Whereabouts(e)
    BY <1>1, <1>4, <1>8, WhereIs
  <2>2. billed[e] = 0 /\ \A y \in Whereabouts(e) : y = <<"topic", n>>
    BY <2>1 DEF OnePlace
  <2>3. \A y \in Whereabouts(e)' : y = x
    BY <1>6, <2>2
  <2> QED
    BY <1>2, <1>5, <1>8, <2>2, <2>3, Moves
<1>9. CASE e = f /\ ~log[n].replay
  <2>1. seen[e] = 0
    BY <1>1, <1>2, <1>9, CopyDropped
  <2>2. billed[e] = 0 /\ Whereabouts(e) = {}
    BY <2>1 DEF OnePlace
  <2>3. \A y \in Whereabouts(e)' : y = x
    BY <1>6, <2>2
  <2> QED
    BY <1>2, <1>5, <1>9, <2>2, <2>3, Moves
<1> QED
  BY <1>7, <1>8, <1>9

(* Firing charges what is in the window, and takes it out.                    *)
LEMMA FireMoves ==
  ASSUME Types, \A e \in Ids : OnePlace(e), NEW w \in Nat, Fire(w)
  PROVE  \A e \in Ids : OnePlace(e)'
<1> TAKE e \in Ids
<1>1. /\ collected' = {p \in collected : WindowOf(p) # w}
      /\ UNCHANGED <<log, read, seen, buffer, dlq>>
  BY Firing
<1>2. Whereabouts(e)' \subseteq Whereabouts(e)
  BY <1>1, WhereIs, WhereNext
<1>3. CASE billed'[e] = billed[e]
  BY <1>1, <1>2, <1>3, StaysPut
<1>4. CASE billed'[e] = billed[e] + 1 /\ In(w, e) # {}
  <2>1. PICK p \in collected : WindowOf(p) = w /\ log[p].id = e
    BY <1>4 DEF In
  <2>2. <<"window", p>> \in Whereabouts(e)
    BY <2>1, WhereIs
  <2>3. billed[e] = 0 /\ seen[e] # 0 /\ \A y \in Whereabouts(e) : y = <<"window", p>>
    BY <2>2 DEF OnePlace
  <2>4. <<"window", p>> \notin Whereabouts(e)'
    BY <1>1, <2>1, WhereNext
  <2>5. Whereabouts(e)' = {}
    BY <1>2, <2>3, <2>4
  <2> QED
    BY <1>1, <1>4, <2>3, <2>5 DEF OnePlace
<1> QED
  BY <1>3, <1>4, Firing

(* The sink delivers or loses its message: the event goes on, or nowhere.     *)
LEMMA DeliverMoves ==
  ASSUME Types, \A e \in Ids : OnePlace(e), NEW m \in buffer, Deliver(m) \/ LoseLate(m)
  PROVE  \A e \in Ids : OnePlace(e)'
<1> TAKE e \in Ids
<1>1. /\ buffer' = buffer \ {m} /\ dlq' \in {dlq, dlq \cup {m}}
      /\ UNCHANGED <<log, read, seen, collected, billed>>
  BY DEF Deliver, LoseLate, job, redis
<1>2. CASE log[m.pos].id # e
  <2>1. Whereabouts(e)' \subseteq Whereabouts(e)
    BY <1>1, <1>2, WhereIs, WhereNext
  <2> QED
    BY <1>1, <2>1, StaysPut
<1>3. CASE log[m.pos].id = e
  <2>1. <<"sink", m>> \in Whereabouts(e)
    BY <1>3, WhereIs
  <2>2. billed[e] = 0 /\ seen[e] # 0 /\ \A y \in Whereabouts(e) : y = <<"sink", m>>
    BY <2>1 DEF OnePlace
  <2>3. ASSUME NEW y \in Whereabouts(e)' PROVE y = <<"queue", m>>
    <3>1. y # <<"sink", m>>
      BY <1>1, <2>3, WhereNext
    <3>2. y \in Whereabouts(e) \/ y = <<"queue", m>>
      BY <1>1, <2>3, WhereIs, WhereNext
    <3> QED
      BY <2>2, <3>1, <3>2
  <2> QED
    BY <1>1, <2>2, <2>3, Moves
<1> QED
  BY <1>2, <1>3

(* A replay moves the copy from the queue to the topic.                       *)
LEMMA ReplayMoves ==
  ASSUME Types, \A e \in Ids : OnePlace(e), NEW m \in dlq, Replay(m)
  PROVE  \A e \in Ids : OnePlace(e)'
<1> TAKE e \in Ids
<1>1. PICK r \in Records : log' = Append(log, r) /\ r.id = log[m.pos].id /\ r.replay
  BY Replaying
<1>2. /\ dlq' = dlq \ {m} /\ UNCHANGED <<buffer, read, seen, collected, billed>>
  BY DEF Replay, job, redis
<1>3. /\ DOMAIN log' = DOMAIN log \cup {Len(log) + 1} /\ log'[Len(log) + 1] = r
      /\ \A p \in DOMAIN log : log'[p] = log[p]
  BY <1>1, Appended
<1>4. /\ \A p \in collected : log'[p] = log[p]
      /\ \A n \in buffer \cup dlq : log'[n.pos] = log[n.pos]
      /\ \A p \in DOMAIN log \ read : log'[p] = log[p]
  <2>2. \A n \in buffer \cup dlq : n.pos \in DOMAIN log
    BY LateTyped
  <2> QED
    BY <1>3, <2>2, Positions
<1>5. \A p \in DOMAIN log' \ read : p \in DOMAIN log \ read \/ p = Len(log) + 1
  BY <1>3
<1>6. ASSUME NEW y \in Whereabouts(e)'
      PROVE  \/ y \in Whereabouts(e) /\ y # <<"queue", m>>
             \/ r.id = e /\ y = <<"topic", Len(log) + 1>>
  <2>1. CASE \E p \in collected' : log'[p].id = e /\ y = <<"window", p>>
    BY <1>2, <1>4, <2>1, WhereIs
  <2>2. CASE \E n \in buffer' : log'[n.pos].id = e /\ y = <<"sink", n>>
    BY <1>2, <1>4, <2>2, WhereIs
  <2>3. CASE \E n \in dlq' : log'[n.pos].id = e /\ y = <<"queue", n>>
    BY <1>2, <1>4, <2>3, WhereIs
  <2>4. CASE \E p \in DOMAIN log' \ read' :
               log'[p].replay /\ log'[p].id = e /\ y = <<"topic", p>>
    BY <1>2, <1>3, <1>4, <1>5, <2>4, WhereIs
  <2> QED
    BY <1>6, <2>1, <2>2, <2>3, <2>4, WhereNext
<1>7. CASE log[m.pos].id # e
  <2>1. Whereabouts(e)' \subseteq Whereabouts(e)
    BY <1>1, <1>6, <1>7
  <2> QED
    BY <1>2, <2>1, StaysPut
<1>8. CASE log[m.pos].id = e
  <2>1. <<"queue", m>> \in Whereabouts(e)
    BY <1>8, WhereIs
  <2>2. billed[e] = 0 /\ seen[e] # 0 /\ \A y \in Whereabouts(e) : y = <<"queue", m>>
    BY <2>1 DEF OnePlace
  <2>3. \A y \in Whereabouts(e)' : y = <<"topic", Len(log) + 1>>
    BY <1>6, <2>2
  <2> QED
    BY <1>2, <2>2, <2>3, Moves
<1> QED
  BY <1>7, <1>8

(* Without restarts, an event is in one place on its way, or charged.         *)
LEMMA PlaceStep ==
  ASSUME Types, Topic, InTime, Known, InOnePlace, Next
  PROVE  InOnePlace'
<1> SUFFICES ASSUME crashes' = 0 PROVE \A e \in Ids : OnePlace(e)'
  BY DEF InOnePlace
<1>0. crashes \in Nat
  BY Settings DEF Types
<1>1. ASSUME crashes = 0,
             UNCHANGED <<log, seen, collected, billed, buffer, dlq>>,
             \A p \in DOMAIN log \ read' : p \in DOMAIN log \ read
      PROVE  \A e \in Ids : OnePlace(e)'
  <2> TAKE e \in Ids
  <2>1. Whereabouts(e)' \subseteq Whereabouts(e)
    BY <1>1, WhereIs, WhereNext
  <2> QED
    BY <1>1, <2>1, StaysPut DEF InOnePlace
<1>2. ASSUME NEW n \in DOMAIN log, Drop(n) PROVE \A e \in Ids : OnePlace(e)'
  BY <1>1, <1>2 DEF Drop, redis
<1>3. ASSUME NEW n \in DOMAIN log, RouteLate(n) \/ Collect(n) PROVE \A e \in Ids : OnePlace(e)'
  <2>1. crashes = 0
    BY <1>3, Reading
  <2> QED
    BY <1>3, <2>1, ReadMoves DEF InOnePlace
<1>4. ASSUME NEW f \in Ids, NEW t \in Nat \ {0}, Publish(f, t) PROVE \A e \in Ids : OnePlace(e)'
  <2> TAKE e \in Ids
  <2>1. PICK r \in Records : log' = Append(log, r) /\ ~r.replay
    BY <1>4, Publishing
  <2>2. UNCHANGED <<read, seen, collected, billed, buffer, dlq, crashes>>
    BY <1>4 DEF Publish, job, redis
  <2>3. /\ DOMAIN log' = DOMAIN log \cup {Len(log) + 1} /\ log'[Len(log) + 1] = r
        /\ \A p \in DOMAIN log : log'[p] = log[p]
    BY <2>1, Appended
  <2>4. \A n \in buffer \cup dlq : log'[n.pos] = log[n.pos]
    BY <2>3, LateTyped
  <2>5. \A p \in DOMAIN log' \ read' :
          log'[p].replay => p \in DOMAIN log \ read /\ log'[p] = log[p]
    BY <2>1, <2>2, <2>3
  <2>6. Whereabouts(e)' \subseteq Whereabouts(e)
    <3> SUFFICES ASSUME NEW y \in Whereabouts(e)' PROVE y \in Whereabouts(e)
      OBVIOUS
    <3>1. CASE \E p \in collected' : log'[p].id = e /\ y = <<"window", p>>
      BY <2>2, <2>3, <3>1, Positions, WhereIs
    <3>2. CASE \E n \in buffer' : log'[n.pos].id = e /\ y = <<"sink", n>>
      BY <2>2, <2>4, <3>2, WhereIs
    <3>3. CASE \E n \in dlq' : log'[n.pos].id = e /\ y = <<"queue", n>>
      BY <2>2, <2>4, <3>3, WhereIs
    <3>4. CASE \E p \in DOMAIN log' \ read' :
                 log'[p].replay /\ log'[p].id = e /\ y = <<"topic", p>>
      BY <2>5, <3>4, WhereIs
    <3> QED
      BY <3>1, <3>2, <3>3, <3>4, WhereNext
  <2> QED
    BY <2>2, <2>6, StaysPut DEF InOnePlace
<1>5. ASSUME NEW t \in Nat \ {0}, Advance(t) PROVE \A e \in Ids : OnePlace(e)'
  BY <1>1, <1>5 DEF Advance, redis
<1>6. ASSUME NEW w \in Nat, Fire(w) PROVE \A e \in Ids : OnePlace(e)'
  BY <1>6, FireMoves, Firing DEF InOnePlace
<1>7. ASSUME NEW m \in buffer, Deliver(m) \/ LoseLate(m) PROVE \A e \in Ids : OnePlace(e)'
  <2>1. crashes = 0
    BY <1>7 DEF Deliver, LoseLate
  <2> QED
    BY <1>7, <2>1, DeliverMoves DEF InOnePlace
<1>8. ASSUME NEW m \in dlq, Replay(m) PROVE \A e \in Ids : OnePlace(e)'
  <2>1. crashes = 0
    BY <1>8 DEF Replay
  <2> QED
    BY <1>8, <2>1, ReplayMoves DEF InOnePlace
<1>9. CASE Save
  BY <1>1, <1>9, Saving
<1>10. CASE Crash
  BY <1>0, <1>10, Restarting
<1>11. CASE Tick
  BY <1>1, <1>11 DEF Tick, redis, job
<1> QED
  BY <1>2, <1>3, <1>4, <1>5, <1>6, <1>7, <1>8, <1>9, <1>10, <1>11, Actions

(***************************************************************************)
(* Nothing is lost.                                                        *)
(***************************************************************************)
LEMMA Quotient ==
  ASSUME NEW d \in Nat \ {0}, NEW n \in Nat
  PROVE  n \div d \in Nat /\ n < d * (n \div d) + d
<1> DEFINE q == n \div d
           r == n % d
<1>1. q \in Int /\ r \in 0 .. (d - 1) /\ n = d * q + r
  OBVIOUS
<1>2. q \in Nat
  OBVIOUS
<1> HIDE DEF q, r
<1>3. d * q \in Nat
  BY <1>2
<1>4. q \in Nat /\ n < d * q + d
  BY <1>1, <1>2, <1>3
<1> QED
  BY <1>4 DEF q

(* A window ends behind the records it holds.                                 *)
LEMMA WindowEnds ==
  ASSUME Types, NEW p \in DOMAIN log
  PROVE  WindowOf(p) \in Nat /\ 1 <= End(WindowOf(p)) - 1
<1>1. PICK s \in Nat \ {0} : s = log[p].stamp
  BY RecordTyped
<1>2. Width \in Nat /\ 0 < Width
  BY Settings
<1> DEFINE q == s \div Width
<1>3. q \in Nat /\ s < Width * q + Width
  <2>1. Width \in Nat \ {0} /\ s \in Nat
    BY <1>1, <1>2
  <2> QED
    BY <2>1, Quotient, Zenon
<1>4. WindowOf(p) = q
  BY <1>1 DEF WindowOf
<1> HIDE DEF q
<1>5. (q + 1) * Width = Width * q + Width
  BY <1>2, <1>3
<1>6. Width * q \in Nat
  BY <1>2, <1>3
<1>7. End(q) \in Nat /\ s <= End(q) - 1
  BY <1>2, <1>3, <1>5, <1>6 DEF End
<1> QED
  BY <1>1, <1>3, <1>4, <1>7

(* The end of a window is an instant.                                         *)
LEMMA EndTyped ==
  ASSUME NEW w \in Nat
  PROVE  End(w) \in Nat
BY Settings DEF End

(* Without restarts the watermark only advances, and what reaches a window    *)
(* behind it does not enter.                                                  *)
LEMMA OverStep ==
  ASSUME Types, OverIsOver, Next
  PROVE  OverIsOver'
<1> SUFFICES ASSUME crashes' = 0 PROVE OverIsOver'
  BY DEF OverIsOver
<1>0. crashes \in Nat /\ wm \in Nat
  BY Settings DEF Types
<1>1. ASSUME crashes = 0, wm' \in Nat, wm <= wm', applied' = applied, collected' \subseteq collected
      PROVE  OverIsOver'
  <2>1. \A w \in applied : w \in Nat /\ wm' # 0 /\ End(w) - 1 <= wm'
    <3> TAKE w \in applied
    <3>1. w \in Nat /\ wm # 0 /\ End(w) - 1 <= wm
      BY <1>1 DEF OverIsOver
    <3>2. End(w) \in Nat
      BY <3>1, EndTyped
    <3> QED
      BY <1>0, <1>1, <3>1, <3>2
  <2>2. \A p \in collected : WindowOf(p)' = WindowOf(p)
    BY TopicKept, Positions
  <2>3. \A p \in collected' : WindowOf(p)' \notin applied
    BY <1>1, <2>2 DEF OverIsOver
  <2>4. \A w : End(w)' = End(w)
    BY DEF End
  <2> QED
    BY <1>1, <2>1, <2>3, <2>4 DEF OverIsOver
<1>2. ASSUME NEW n \in DOMAIN log, Collect(n) PROVE OverIsOver'
  <2>1. /\ UNCHANGED <<log, wm, applied, crashes>>
        /\ collected' \subseteq collected \cup {n}
        /\ n \in collected' => n \in collected \/ ~LateAtWindow(n)
    BY <1>2, Reading DEF Collect
  <2>2. ~LateAtWindow(n) => WindowOf(n) \notin applied
    BY <2>1 DEF LateAtWindow, OverIsOver
  <2>3. \A p : WindowOf(p)' = WindowOf(p)
    BY <2>1 DEF WindowOf
  <2>4. \A w : End(w)' = End(w)
    BY DEF End
  <2> QED
    BY <2>1, <2>2, <2>3, <2>4 DEF OverIsOver
<1>3. ASSUME NEW w \in Nat, Fire(w) PROVE OverIsOver'
  <2>1. /\ collected' = {p \in collected : WindowOf(p) # w} /\ applied' = applied \cup {w}
        /\ UNCHANGED <<log, wm, crashes>>
    BY <1>3, Firing
  <2>2. PICK p \in collected : w = WindowOf(p) /\ End(w) - 1 <= wm
    BY <1>3 DEF Fire, Due
  <2>3. wm # 0
    BY <1>0, <2>2, Positions, WindowEnds, EndTyped
  <2>4. \A q : WindowOf(q)' = WindowOf(q)
    BY <2>1 DEF WindowOf
  <2>5. \A v : End(v)' = End(v)
    BY DEF End
  <2> QED
    BY <2>1, <2>2, <2>3, <2>4, <2>5 DEF OverIsOver
<1>4. ASSUME NEW t \in Nat \ {0}, Advance(t) PROVE OverIsOver'
  BY <1>0, <1>1, <1>4 DEF Advance, redis
<1>5. ASSUME NEW m \in buffer, Deliver(m) \/ LoseLate(m) PROVE OverIsOver'
  BY <1>0, <1>1, <1>5 DEF Deliver, LoseLate, redis, job
<1>6. ASSUME NEW n \in DOMAIN log, Drop(n) PROVE OverIsOver'
  BY <1>0, <1>1, <1>6 DEF Drop, redis
<1>7. ASSUME NEW n \in DOMAIN log, RouteLate(n) PROVE OverIsOver'
  BY <1>0, <1>1, <1>7 DEF RouteLate, redis
<1>8. ASSUME NEW e \in Ids, NEW t \in Nat \ {0}, Publish(e, t) PROVE OverIsOver'
  BY <1>0, <1>1, <1>8 DEF Publish, redis, job
<1>9. ASSUME NEW m \in dlq, Replay(m) PROVE OverIsOver'
  BY <1>0, <1>1, <1>9 DEF Replay, redis, job
<1>10. CASE Save
  BY <1>0, <1>1, <1>10, Saving
<1>11. CASE Crash
  BY <1>0, <1>11, Restarting
<1>12. CASE Tick
  BY <1>0, <1>1, <1>12 DEF Tick, redis, job
<1> QED
  BY <1>2, <1>3, <1>4, <1>5, <1>6, <1>7, <1>8, <1>9, <1>10, <1>11, <1>12, Actions

(* An event that was read is in a window, among the late ones, or charged.    *)
LEMMA KeptStep ==
  ASSUME Types, OverIsOver, Kept, Next
  PROVE  Kept'
<1> SUFFICES ASSUME crashes' = 0, replays' = 0, NEW e \in Ids, e \notin unsent', seen'[e] # 0
             PROVE  Held(e)'
  BY DEF Kept
<1>0. crashes \in Nat /\ replays \in Nat
  BY Settings DEF Types
<1>1. ASSUME crashes = 0, replays = 0, seen'[e] = seen[e],
             unsent' = unsent, billed' = billed, collected \subseteq collected',
             \A m \in buffer \cup dlq : log[m.pos].id = e => m \in buffer' \cup dlq'
      PROVE  Held(e)'
  <2>1. Held(e)
    BY <1>1 DEF Kept
  <2>2. /\ \A p \in collected : log'[p] = log[p]
        /\ \A m \in buffer \cup dlq : log'[m.pos] = log[m.pos]
    BY TopicKept, Positions, LateTyped
  <2> QED
    BY <1>1, <2>1, <2>2 DEF Held
<1>2. ASSUME NEW n \in DOMAIN log, RouteLate(n) \/ Collect(n) PROVE Held(e)'
  <2>1. PICK f \in Ids : f = log[n].id
    BY <1>2, Reading
  <2>2. /\ seen' = [seen EXCEPT ![f] = now + DedupTTL]
        /\ UNCHANGED <<log, billed, dlq, unsent, crashes, replays>>
        /\ \/ buffer' = buffer \cup {[pos |-> n, at |-> now]} /\ collected' = collected
           \/ buffer' = buffer /\ collected' = collected \cup {n}
    BY <1>2, <2>1, Reading
  <2>3. CASE e = f
    <3>1. CASE n \in collected'
      BY <2>1, <2>2, <2>3, <3>1 DEF Held
    <3>2. CASE [pos |-> n, at |-> now] \in buffer'
      BY <2>1, <2>2, <2>3, <3>2 DEF Held
    <3> QED
      BY <2>2, <3>1, <3>2
  <2>4. CASE e # f
    <3>1. seen'[e] = seen[e]
      BY <2>2, <2>4 DEF Types
    <3> QED
      BY <1>1, <2>2, <3>1
  <2> QED
    BY <2>3, <2>4
<1>3. ASSUME NEW w \in Nat, Fire(w) PROVE Held(e)'
  <2>1. /\ collected' = {p \in collected : WindowOf(p) # w}
        /\ UNCHANGED <<log, seen, buffer, dlq, unsent, crashes, replays>>
        /\ billed'[e] \in Nat
        /\ \/ billed'[e] = billed[e] /\ (w \in applied \/ In(w, e) = {})
           \/ billed'[e] = billed[e] + 1
    BY <1>3, Firing
  <2>2. Held(e)
    BY <2>1 DEF Kept
  <2>3. CASE billed[e] # 0
    <3>1. billed[e] \in Nat
      BY DEF Types
    <3> QED
      BY <2>1, <2>3, <3>1 DEF Held
  <2>4. CASE \E m \in buffer \cup dlq : log[m.pos].id = e
    BY <2>1, <2>4 DEF Held
  <2>5. ASSUME NEW p \in collected, log[p].id = e PROVE Held(e)'
    <3>1. CASE WindowOf(p) # w
      BY <2>1, <2>5, <3>1 DEF Held
    <3>2. CASE WindowOf(p) = w
      <4>1. w \notin applied /\ In(w, e) # {}
        BY <2>1, <2>5, <3>2 DEF OverIsOver, In
      <4>2. billed'[e] # 0
        BY <2>1, <4>1 DEF Types
      <4> QED
        BY <4>2 DEF Held
    <3> QED
      BY <3>1, <3>2
  <2> QED
    BY <2>2, <2>3, <2>4, <2>5 DEF Held
<1>4. ASSUME NEW n \in DOMAIN log, Drop(n) PROVE Held(e)'
  BY <1>1, <1>4 DEF Drop, redis
<1>5. ASSUME NEW f \in Ids, NEW t \in Nat \ {0}, Publish(f, t) PROVE Held(e)'
  BY <1>1, <1>5 DEF Publish, redis, job
<1>6. ASSUME NEW t \in Nat \ {0}, Advance(t) PROVE Held(e)'
  BY <1>1, <1>6 DEF Advance, redis
<1>7. ASSUME NEW m \in buffer, Deliver(m) \/ LoseLate(m) PROVE Held(e)'
  <2>1. UNCHANGED <<log, seen, collected, billed, crashes, replays>> /\ buffer' = buffer \ {m}
    BY <1>7 DEF Deliver, LoseLate, job, redis
  <2>2. CASE Deliver(m)
    BY <1>1, <2>1, <2>2 DEF Deliver
  <2>3. CASE LoseLate(m)
    <3>1. unsent' = unsent \cup {log[m.pos].id} /\ dlq' = dlq
      BY <2>3 DEF LoseLate
    <3>2. e \notin unsent /\ log[m.pos].id # e
      BY <3>1
    <3>3. Held(e)
      BY <2>1, <3>2 DEF Kept
    <3> QED
      BY <2>1, <3>1, <3>2, <3>3 DEF Held
  <2> QED
    BY <1>7, <2>2, <2>3
<1>8. ASSUME NEW m \in dlq, Replay(m) PROVE Held(e)'
  BY <1>0, <1>8 DEF Replay
<1>9. CASE Save
  BY <1>1, <1>9, Saving
<1>10. CASE Crash
  BY <1>0, <1>10, Restarting
<1>11. CASE Tick
  BY <1>1, <1>11 DEF Tick, redis, job
<1> QED
  BY <1>2, <1>3, <1>4, <1>5, <1>6, <1>7, <1>8, <1>9, <1>10, <1>11, Actions

(***************************************************************************)
(* The theorems.                                                           *)
(***************************************************************************)
\* Nothing has happened yet.
LEMMA InvInit == Init => Inv
<1> SUFFICES ASSUME Init PROVE Inv
  OBVIOUS
<1> USE Settings DEF Init, Checkpoint0
<1>1. Types
  BY DEF Types, LateOnes
<1>2. Topic /\ Known /\ FirstOnly
  BY DEF Topic, Known, Knows, FirstOnly
<1>3. InTime
  BY DEF InTime
<1>4. Marked /\ OverIsOver /\ Kept
  BY DEF Marked, OverIsOver, Kept
<1>5. InOnePlace
  <2> SUFFICES ASSUME NEW e \in Ids PROVE OnePlace(e)
    BY DEF InOnePlace
  <2>1. Whereabouts(e) = {}
    BY DEF Whereabouts
  <2> QED
    BY <2>1 DEF OnePlace
<1> QED
  BY <1>1, <1>2, <1>3, <1>4, <1>5 DEF Inv

\* Every step of the job, of Kafka and of the operator keeps the invariant.
LEMMA InvStep == Inv /\ [Next]_vars => Inv'
<1> SUFFICES ASSUME Inv, [Next]_vars PROVE Inv'
  OBVIOUS
<1>1. CASE Next
  BY <1>1, TypesStep, TopicStep, InTimeStep, KnownStep, MarkedStep, FirstStep, PlaceStep,
     OverStep, KeptStep DEF Inv
<1>2. CASE UNCHANGED vars
  <2> USE <1>2 DEF vars, job, redis
  <2>1. Types' <=> Types
    BY DEF Types, LateOnes, Records
  <2>2. (Topic' <=> Topic) /\ (Known' <=> Known) /\ (Marked' <=> Marked)
    BY DEF Topic, Known, Knows, Marked
  <2>3. InTime' <=> InTime
    BY DEF InTime, MayCrash, Troubles, Delay
  <2>4. FirstOnly' <=> FirstOnly
    BY DEF FirstOnly, First, WindowOf
  <2>5. InOnePlace' <=> InOnePlace
    BY DEF InOnePlace, OnePlace, Whereabouts
  <2>6. (OverIsOver' <=> OverIsOver) /\ (Kept' <=> Kept)
    BY DEF OverIsOver, End, WindowOf, Kept, Held
  <2> QED
    BY <2>1, <2>2, <2>3, <2>4, <2>5, <2>6 DEF Inv
<1> QED
  BY <1>1, <1>2

(* Every reachable state satisfies the inductive invariant.                   *)
LEMMA InvariantHolds == Spec => []Inv
<1>1. Init => Inv
  BY InvInit
<1>2. Inv /\ [Next]_vars => Inv'
  BY InvStep
<1> QED
  BY <1>1, <1>2, PTL DEF Spec

(* However often custody publishes an event, whatever timestamps and windows  *)
(* the copies have, and however often the job restarts: the counters and the  *)
(* balance have it once.  With replays, it is so without restarts.            *)
THEOREM EventsChargedOnce == Spec => []ChargedOnce
<1>1. Inv => ChargedOnce
  <2> SUFFICES ASSUME Inv, crashes = 0 \/ replays = 0, NEW e \in Ids PROVE billed[e] <= 1
    BY DEF ChargedOnce
  <2>1. billed[e] \in Nat
    BY DEF Inv, Types
  <2>2. billed[e] # 0 => billed[e] = 1
    BY DEF Inv, FirstOnly, InOnePlace, OnePlace
  <2> QED
    BY <2>1, <2>2
<1> QED
  BY <1>1, InvariantHolds, PTL

(* And so with the projections, which rely on the marker of the event: it     *)
(* outlives every copy, and every record that a restart reads again.          *)
THEOREM EventsProjectedOnce == Spec => []ProjectedOnce
<1>1. Inv => ProjectedOnce
  <2> SUFFICES ASSUME Inv, replays = 0, NEW e \in Ids PROVE projected[e] <= 1
    BY DEF ProjectedOnce
  <2>1. projected[e] \in Nat
    BY DEF Inv, Types
  <2>2. projected[e] # 0 => projected[e] = 1
    BY DEF Inv, Marked
  <2> QED
    BY <2>1, <2>2
<1> QED
  BY <1>1, InvariantHolds, PTL

(* Between the router, the window operator and the queue nothing falls        *)
(* through, in whatever order records are read: what is over for one is       *)
(* caught by the next, or is a late message that the sink failed to send.     *)
THEOREM EventsAreKept == Spec => []NothingLost
<1>1. Inv => NothingLost
  <2> SUFFICES ASSUME Inv, crashes = 0, replays = 0, NEW p \in DOMAIN log, log[p].id \in Ids \ unsent
               PROVE  Accounted(log[p].id)
    BY DEF NothingLost, Published
  <2>1. CASE p \notin read
    BY <2>1 DEF Accounted
  <2>2. CASE p \in read
    <3>1. Held(log[p].id) /\ billed[log[p].id] \in Nat
      BY <2>2 DEF Inv, Known, Knows, Kept, Types
    <3> QED
      BY <3>1 DEF Held, Accounted
  <2> QED
    BY <2>1, <2>2
<1> QED
  BY <1>1, InvariantHolds, PTL
(***************************************************************************)
(* Induction.                                                              *)
(***************************************************************************)
(* A set of numbers that has 0 and every successor has all numbers.           *)
LEMMA AllNumbers ==
  ASSUME NEW P \in SUBSET Nat, 0 \in P, \A n \in P : n + 1 \in P
  PROVE  P = Nat
<1> SUFFICES ASSUME Nat \ P # {} PROVE FALSE
  OBVIOUS
<1>1. IsWellFoundedOn(OpToRel(<, Nat), Nat)
  BY NatLessThanWellFounded
<1>2. PICK n \in Nat \ P : \A m \in Nat \ P : ~(<<m, n>> \in OpToRel(<, Nat))
  BY <1>1, WFMin
<1>3. \A m \in Nat \ P : ~(m < n)
  BY <1>2 DEF OpToRel
<1>4. n # 0 /\ n - 1 \in Nat /\ n - 1 < n /\ (n - 1) + 1 = n
  OBVIOUS
<1>5. n - 1 \in P
  BY <1>3, <1>4
<1> QED
  BY <1>4, <1>5

(* A set of subsets of a finite set that has {} and grows element by element  *)
(* has them all.                                                              *)
LEMMA AllSubsets ==
  ASSUME NEW U, IsFiniteSet(U), NEW P \in SUBSET (SUBSET U), {} \in P,
         \A S \in P : \A x \in U \ S : S \cup {x} \in P
  PROVE  P = SUBSET U
<1> DEFINE Sizes == {n \in Nat : \A S \in SUBSET U : Cardinality(S) = n => S \in P}
<1>0. \A S \in SUBSET U : IsFiniteSet(S) /\ Cardinality(S) \in Nat
  BY FS_Subset, FS_CardinalityType
<1>1. 0 \in Sizes
  BY <1>0, FS_EmptySet
<1>2. ASSUME NEW n \in Sizes PROVE n + 1 \in Sizes
  <2> SUFFICES ASSUME NEW S \in SUBSET U, Cardinality(S) = n + 1
               PROVE  S \in P
    OBVIOUS
  <2>0. n \in Nat /\ \A T \in SUBSET U : Cardinality(T) = n => T \in P
    OBVIOUS
  <2>1. S # {}
    <3>1. Cardinality({}) = 0
      BY FS_EmptySet
    <3>2. Cardinality(S) # 0
      BY <2>0
    <3> QED
      BY <3>1, <3>2
  <2>2. PICK x \in S : TRUE
    BY <2>1
  <2>3. Cardinality(S \ {x}) = n
    BY <1>0, <2>0, FS_RemoveElement
  <2>4. S \ {x} \in P
    BY <2>3
  <2>5. (S \ {x}) \cup {x} \in P
    BY <2>4
  <2> QED
    BY <2>5
<1>3. Sizes = Nat
  <2> HIDE DEF Sizes
  <2>1. Sizes \in SUBSET Nat
    BY DEF Sizes
  <2> QED
    BY <1>1, <1>2, <2>1, AllNumbers
<1> QED
  BY <1>0, <1>3

(***************************************************************************)
(* Sums.                                                                   *)
(***************************************************************************)
\* The element taken next, and one step of the recursion of a sum.
Some(S) == CHOOSE x \in S : TRUE
Step(f, g, S) == IF S = {} THEN 0 ELSE f[Some(S)] + g[S \ {Some(S)}]
Partial(f, U) == CHOOSE g : g = [S \in SUBSET U |-> Step(f, g, S)]

Sum(f, S) == SumFunctionOnSet(f, S)

(* The folded sum is the recursive sum over the parts of the set.             *)
LEMMA SumIsPartial ==
  ASSUME NEW f, NEW S
  PROVE  Sum(f, S) = Partial(f, S)[S]
BY DEF Sum, SumFunctionOnSet, FoldFunctionOnSet, MapThenFoldSet, Partial, Step, Some

(* The recursive function exists: one that is right up to a size is right up  *)
(* to the next after a step.                                                  *)
LEMMA PartialSteps ==
  ASSUME NEW f, NEW U, IsFiniteSet(U)
  PROVE  \A S \in SUBSET U : Partial(f, U)[S] = Step(f, Partial(f, U), S)
<1> DEFINE RightUpTo(g, n) == \A S \in SUBSET U : Cardinality(S) <= n => g[S] = Step(f, g, S)
           Reached == {n \in Nat : \E g : g = [S \in SUBSET U |-> g[S]] /\ RightUpTo(g, n)}
<1>0. \A S \in SUBSET U :
        /\ IsFiniteSet(S) /\ Cardinality(S) \in Nat /\ Cardinality(S) <= Cardinality(U)
        /\ Cardinality(S) = 0 <=> S = {}
  BY FS_Subset, FS_CardinalityType, FS_EmptySet
<1>1. \A S \in SUBSET U :
        S # {} => Some(S) \in S /\ S \ {Some(S)} \in SUBSET U
                  /\ Cardinality(S \ {Some(S)}) = Cardinality(S) - 1
  BY <1>0, FS_RemoveElement DEF Some
<1>2. 0 \in Reached
  <2> DEFINE g == [S \in SUBSET U |-> 0]
  <2>1. g = [S \in SUBSET U |-> g[S]]
    OBVIOUS
  <2>2. RightUpTo(g, 0)
    BY <1>0 DEF Step
  <2> QED
    BY <2>1, <2>2
<1>3. ASSUME NEW n \in Reached PROVE n + 1 \in Reached
  <2>1. PICK g : g = [S \in SUBSET U |-> g[S]] /\ RightUpTo(g, n)
    OBVIOUS
  <2> DEFINE h == [S \in SUBSET U |-> Step(f, g, S)]
  <2>2. h = [S \in SUBSET U |-> h[S]]
    OBVIOUS
  <2>3. ASSUME NEW S \in SUBSET U, Cardinality(S) <= n + 1
        PROVE  h[S] = Step(f, h, S)
    <3>1. CASE S = {}
      BY <3>1 DEF Step
    <3>2. CASE S # {}
      <4> DEFINE rest == S \ {Some(S)}
      <4>1. rest \in SUBSET U /\ Cardinality(rest) = Cardinality(S) - 1
        BY <1>1, <3>2
      <4>2. Cardinality(rest) <= n
        BY <1>0, <2>3, <4>1
      <4>3. g[rest] = Step(f, g, rest)
        BY <2>1, <4>1, <4>2
      <4>4. h[rest] = g[rest]
        BY <4>1, <4>3
      <4>5. h[S] = Step(f, g, S)
        OBVIOUS
      <4> QED
        BY <3>2, <4>4, <4>5 DEF Step
    <3> QED
      BY <3>1, <3>2
  <2>4. RightUpTo(h, n + 1)
    BY <2>3
  <2> HIDE DEF h, RightUpTo
  <2> QED
    BY <2>2, <2>4
<1>4. Reached = Nat
  <2> HIDE DEF Reached
  <2>1. Reached \in SUBSET Nat
    BY DEF Reached
  <2> QED
    BY <1>2, <1>3, <2>1, AllNumbers
<1>5. PICK g : g = [S \in SUBSET U |-> g[S]] /\ RightUpTo(g, Cardinality(U))
  <2>1. Cardinality(U) \in Reached
    BY <1>4, FS_CardinalityType
  <2> QED
    BY <2>1
<1>6. \A S \in SUBSET U : g[S] = Step(f, g, S)
  BY <1>0, <1>5
<1>7. g = [S \in SUBSET U |-> Step(f, g, S)]
  BY <1>5, <1>6
<1>8. Partial(f, U) = [S \in SUBSET U |-> Step(f, Partial(f, U), S)]
  BY <1>7 DEF Partial
<1>9. PICK p : p = Partial(f, U)
  OBVIOUS
<1>10. p = [S \in SUBSET U |-> Step(f, p, S)]
  BY <1>8, <1>9
<1>11. \A S \in SUBSET U : p[S] = Step(f, p, S)
  BY <1>10
<1> QED
  BY <1>9, <1>11

(* Sums over subsets are the same recursive function, whatever set it was     *)
(* defined for.                                                               *)
LEMMA PartialsAgree ==
  ASSUME NEW f, NEW U, IsFiniteSet(U), NEW V \in SUBSET U
  PROVE  \A S \in SUBSET V : Partial(f, U)[S] = Partial(f, V)[S]
<1> DEFINE P == {S \in SUBSET V : Partial(f, U)[S] = Partial(f, V)[S]}
           Sizes == {n \in Nat : \A S \in SUBSET V : Cardinality(S) <= n => S \in P}
<1>0. /\ IsFiniteSet(V)
      /\ \A S \in SUBSET V :
           /\ IsFiniteSet(S) /\ Cardinality(S) \in Nat /\ Cardinality(S) <= Cardinality(V)
           /\ Cardinality(S) = 0 <=> S = {}
  BY FS_Subset, FS_CardinalityType, FS_EmptySet
<1>1. \A S \in SUBSET V :
        /\ Partial(f, U)[S] = Step(f, Partial(f, U), S)
        /\ Partial(f, V)[S] = Step(f, Partial(f, V), S)
  BY <1>0, PartialSteps
<1>2. 0 \in Sizes
  <2>1. {} \in P
    BY <1>1 DEF Step
  <2>2. \A S \in SUBSET V : Cardinality(S) <= 0 => S = {}
    BY <1>0
  <2> HIDE DEF P
  <2> QED
    BY <2>1, <2>2
<1>3. ASSUME NEW n \in Sizes PROVE n + 1 \in Sizes
  <2>0. n \in Nat /\ \A T \in SUBSET V : Cardinality(T) <= n => T \in P
    OBVIOUS
  <2> SUFFICES ASSUME NEW S \in SUBSET V, Cardinality(S) <= n + 1
               PROVE  S \in P
    BY <2>0
  <2>1. CASE S = {}
    BY <1>1, <2>1 DEF Step
  <2>2. CASE S # {}
    <3> DEFINE rest == S \ {Some(S)}
    <3>1. Some(S) \in S
      BY <2>2 DEF Some
    <3>2. rest \in SUBSET V /\ Cardinality(rest) = Cardinality(S) - 1
      BY <1>0, <3>1, FS_RemoveElement
    <3>3. rest \in P
      BY <1>0, <2>0, <3>2
    <3>4. Partial(f, U)[S] = f[Some(S)] + Partial(f, U)[rest] /\ Partial(f, V)[S] = f[Some(S)] + Partial(f, V)[rest]
      BY <1>1, <2>2 DEF Step
    <3> QED
      BY <3>3, <3>4
  <2> QED
    BY <2>1, <2>2
<1>4. Sizes = Nat
  <2> HIDE DEF Sizes
  <2>1. Sizes \in SUBSET Nat
    BY DEF Sizes
  <2> QED
    BY <1>2, <1>3, <2>1, AllNumbers
<1> QED
  BY <1>0, <1>4

(* The first equation of a sum, ...                                           *)
LEMMA SumTakesSome ==
  ASSUME NEW f, NEW S, IsFiniteSet(S)
  PROVE  /\ S = {} => Sum(f, S) = 0
         /\ S # {} => Some(S) \in S /\ Sum(f, S) = f[Some(S)] + Sum(f, S \ {Some(S)})
<1>1. Partial(f, S)[S] = Step(f, Partial(f, S), S)
  <2>1. S \in SUBSET S
    OBVIOUS
  <2> QED
    BY <2>1, PartialSteps
<1>2. S # {} => Some(S) \in S
  BY DEF Some
<1>3. Partial(f, S)[S \ {Some(S)}] = Sum(f, S \ {Some(S)})
  BY PartialsAgree, SumIsPartial
<1> QED
  BY <1>1, <1>2, <1>3, SumIsPartial DEF Step

(* ... which does not depend on the element taken.                            *)
LEMMA SumTakes ==
  ASSUME NEW U, IsFiniteSet(U), NEW f, \A u \in U : f[u] \in Int
  PROVE  \A S \in SUBSET U :
           Sum(f, S) \in Int /\ \A x \in S : Sum(f, S) = f[x] + Sum(f, S \ {x})
<1> DEFINE Good(S) == Sum(f, S) \in Int /\ \A x \in S : Sum(f, S) = f[x] + Sum(f, S \ {x})
           Sizes == {n \in Nat : \A S \in SUBSET U : Cardinality(S) <= n => Good(S)}
<1>0. \A S \in SUBSET U :
        /\ IsFiniteSet(S) /\ Cardinality(S) \in Nat
        /\ Cardinality(S) = 0 <=> S = {}
        /\ \A x \in S : S \ {x} \in SUBSET U /\ Cardinality(S \ {x}) = Cardinality(S) - 1
  BY FS_Subset, FS_CardinalityType, FS_EmptySet, FS_RemoveElement
<1>1. \A S \in SUBSET U : S # {} => Some(S) \in S /\ Sum(f, S) = f[Some(S)] + Sum(f, S \ {Some(S)})
  BY <1>0, SumTakesSome
<1>2. Good({})
  <2>1. Sum(f, {}) = 0
    BY SumTakesSome, FS_EmptySet
  <2> QED
    BY <2>1
<1>3. 0 \in Sizes
  BY <1>0, <1>2
<1>4. ASSUME NEW n \in Sizes PROVE n + 1 \in Sizes
  <2>0. n \in Nat /\ \A T \in SUBSET U : Cardinality(T) <= n => Good(T)
    OBVIOUS
  <2> HIDE DEF Good
  <2> SUFFICES ASSUME NEW S \in SUBSET U, Cardinality(S) <= n + 1, S # {}
               PROVE  Good(S)
    BY <2>0, <1>2
  <2> DEFINE c == Some(S)
             rest == S \ {c}
  <2>1. c \in S /\ c \in U /\ f[c] \in Int /\ Sum(f, S) = f[c] + Sum(f, rest)
    BY <1>1
  <2>2. rest \in SUBSET U /\ Cardinality(rest) <= n
    BY <1>0, <2>0, <2>1
  <2> HIDE DEF c
  <2>3. Good(rest)
    BY <2>0, <2>2
  <2>4. Sum(f, S) \in Int
    BY <2>1, <2>3 DEF Good
  <2>5. ASSUME NEW x \in S, x # c PROVE Sum(f, S) = f[x] + Sum(f, S \ {x})
    <3> DEFINE less == S \ {x}
               both == rest \ {x}
    <3>1. less \in SUBSET U /\ Cardinality(less) <= n
      BY <1>0, <2>0
    <3>2. Good(less)
      BY <2>0, <3>1
    <3>3. both = less \ {c} /\ c \in less /\ x \in rest
      BY <2>1, <2>5
    <3>4. Sum(f, rest) = f[x] + Sum(f, both)
      BY <2>3, <3>3 DEF Good
    <3>5. Sum(f, less) = f[c] + Sum(f, both)
      BY <3>2, <3>3 DEF Good
    <3>6. Sum(f, both) \in Int
      <4>1. both \in SUBSET U /\ Cardinality(both) = Cardinality(less) - 1 /\ Cardinality(less) \in Nat
        BY <1>0, <3>1, <3>3
      <4>2. Cardinality(both) <= n
        BY <2>0, <3>1, <4>1
      <4> QED
        BY <2>0, <4>1, <4>2 DEF Good
    <3>7. f[x] \in Int
      OBVIOUS
    <3> HIDE DEF less, both, rest
    <3>8. f[c] + (f[x] + Sum(f, both)) = f[x] + (f[c] + Sum(f, both))
      BY <2>1, <3>6, <3>7
    <3> QED
      BY <2>1, <3>4, <3>5, <3>8 DEF less
  <2>6. Sum(f, S) = f[c] + Sum(f, S \ {c})
    BY <2>1
  <2> QED
    BY <2>4, <2>5, <2>6 DEF Good
<1>5. Sizes = Nat
  <2> HIDE DEF Sizes
  <2>1. Sizes \in SUBSET Nat
    BY DEF Sizes
  <2> QED
    BY <1>3, <1>4, <2>1, AllNumbers
<1> QED
  BY <1>0, <1>5

(* What the proofs below use of sums: the sum of nothing, of one element more *)
(* or less, of naturals, of functions that agree or are ordered, of a part.   *)
LEMMA SumOfNone ==
  ASSUME NEW f
  PROVE  Sum(f, {}) = 0
BY SumTakesSome, FS_EmptySet

(* A sum is one of its terms and the sum of the rest.                         *)
LEMMA SumWithout ==
  ASSUME NEW S, IsFiniteSet(S), NEW f, \A u \in S : f[u] \in Int, NEW x \in S
  PROVE  Sum(f, S) = f[x] + Sum(f, S \ {x}) /\ Sum(f, S) \in Int /\ Sum(f, S \ {x}) \in Int
<1>1. S \in SUBSET S /\ S \ {x} \in SUBSET S
  OBVIOUS
<1> QED
  BY <1>1, SumTakes

(* One more element adds its term.                                            *)
LEMMA SumWith ==
  ASSUME NEW S, IsFiniteSet(S), NEW f, \A u \in S : f[u] \in Int,
         NEW T \in SUBSET S, NEW x \in S \ T
  PROVE  Sum(f, T \cup {x}) = f[x] + Sum(f, T) /\ Sum(f, T) \in Int
<1>1. T \in SUBSET S /\ T \cup {x} \in SUBSET S /\ (T \cup {x}) \ {x} = T
  OBVIOUS
<1>2. x \in T \cup {x}
  OBVIOUS
<1>3. \A R \in SUBSET S : Sum(f, R) \in Int /\ \A y \in R : Sum(f, R) = f[y] + Sum(f, R \ {y})
  BY SumTakes
<1> QED
  BY <1>1, <1>2, <1>3

(* Equal terms make equal sums.                                               *)
LEMMA SumSame ==
  ASSUME NEW S, IsFiniteSet(S), NEW f, NEW g, \A u \in S : f[u] \in Int /\ g[u] = f[u]
  PROVE  Sum(f, S) = Sum(g, S)
<1> DEFINE P == {T \in SUBSET S : Sum(f, T) = Sum(g, T)}
<1>1. {} \in P
  BY SumOfNone
<1>2. ASSUME NEW T \in P, NEW x \in S \ T PROVE T \cup {x} \in P
  <2>1. Sum(f, T \cup {x}) = f[x] + Sum(f, T) /\ Sum(g, T \cup {x}) = g[x] + Sum(g, T)
    BY SumWith
  <2> QED
    BY <2>1
<1>3. P = SUBSET S
  <2> HIDE DEF P
  <2>1. P \in SUBSET (SUBSET S)
    BY DEF P
  <2> QED
    BY <1>1, <1>2, <2>1, AllSubsets
<1> QED
  BY <1>3

(* Sums of natural numbers are natural numbers.                               *)
LEMMA SumOfNats ==
  ASSUME NEW S, IsFiniteSet(S), NEW f, \A u \in S : f[u] \in Nat
  PROVE  \A T \in SUBSET S : Sum(f, T) \in Nat
<1> DEFINE P == {T \in SUBSET S : Sum(f, T) \in Nat}
<1>1. {} \in P
  BY SumOfNone
<1>2. ASSUME NEW T \in P, NEW x \in S \ T PROVE T \cup {x} \in P
  <2>1. Sum(f, T \cup {x}) = f[x] + Sum(f, T) /\ Sum(f, T) \in Nat /\ f[x] \in Nat
    BY SumWith
  <2> QED
    BY <2>1
<1>3. P = SUBSET S
  <2> HIDE DEF P
  <2>1. P \in SUBSET (SUBSET S)
    BY DEF P
  <2> QED
    BY <1>1, <1>2, <2>1, AllSubsets
<1> QED
  BY <1>3

Ints(f, S) == \A u \in S : f[u] \in Int

(* A sum of numbered terms grows by the next term.                            *)
LEMMA SumUpTo ==
  ASSUME NEW a \in Int, NEW b \in Int, NEW f, Ints(f, a .. b)
  PROVE  /\ \A n \in (a - 1) .. b : Sum(f, a .. n) \in Int
         /\ \A n \in a .. b : Sum(f, a .. n) = Sum(f, a .. (n - 1)) + f[n]
         /\ Sum(f, a .. (a - 1)) = 0
<1> USE DEF Ints
<1>1. IsFiniteSet(a .. b) /\ a .. b \in SUBSET (a .. b)
  BY FS_Interval
<1>2. \A T \in SUBSET (a .. b) : Sum(f, T) \in Int
  BY <1>1, SumTakes
<1>3. \A n \in (a - 1) .. b : a .. n \in SUBSET (a .. b)
  OBVIOUS
<1>4. ASSUME NEW n \in a .. b PROVE Sum(f, a .. n) = Sum(f, a .. (n - 1)) + f[n]
  <2> DEFINE all == a .. b
             ahead == a .. (n - 1)
  <2>1. a .. n = ahead \cup {n} /\ n \in all \ ahead /\ ahead \in SUBSET all
    OBVIOUS
  <2>2. IsFiniteSet(all) /\ \A u \in all : f[u] \in Int
    BY <1>1
  <2> HIDE DEF all, ahead
  <2>3. Sum(f, ahead \cup {n}) = f[n] + Sum(f, ahead) /\ Sum(f, ahead) \in Int
    BY <2>1, <2>2, SumWith
  <2>4. f[n] \in Int
    OBVIOUS
  <2>5. Sum(f, a .. n) = f[n] + Sum(f, ahead)
    BY <2>1, <2>3
  <2>6. Sum(f, a .. n) = Sum(f, ahead) + f[n]
    BY <2>3, <2>4, <2>5
  <2> QED
    BY <2>6 DEF ahead
<1>5. a .. (a - 1) = {}
  OBVIOUS
<1> QED
  BY <1>2, <1>3, <1>4, <1>5, SumOfNone

Falls(B, n) == \A k \in 1 .. n : B[k] \in 0 .. (k - 1)
AddsUp(g, A, B, n) == g[0] = 0 /\ \A k \in 1 .. n : g[k] = A[k] + g[B[k]]

(* A recursion on smaller numbers that adds a term at each of them has a      *)
(* solution.                                                                  *)
LEMMA Recursion ==
  ASSUME NEW n \in Nat, NEW A, NEW B, Falls(B, n)
  PROVE  \E g : AddsUp(g, A, B, n)
<1> USE DEF Falls, AddsUp
<1> DEFINE F(g, k) == IF k = 0 THEN 0 ELSE A[k] + g[B[k]]
           Reached == {m \in Nat : \E g : \A k \in 0 .. n : k <= m => g[k] = F(g, k)}
<1>1. 0 \in Reached
  <2> DEFINE g == [k \in 0 .. n |-> 0]
  <2>1. \A k \in 0 .. n : k <= 0 => g[k] = F(g, k)
    OBVIOUS
  <2> QED
    BY <2>1
<1>2. ASSUME NEW m \in Reached PROVE m + 1 \in Reached
  <2>1. PICK g : \A k \in 0 .. n : k <= m => g[k] = F(g, k)
    OBVIOUS
  <2> DEFINE h == [k \in 0 .. n |-> F(g, k)]
  <2>2. ASSUME NEW k \in 0 .. n, k <= m + 1 PROVE h[k] = F(h, k)
    <3>1. CASE k = 0
      BY <3>1
    <3>2. CASE k # 0
      <4>1. B[k] \in 0 .. n /\ B[k] <= m
        BY <2>2, <3>2
      <4>2. h[B[k]] = g[B[k]]
        BY <2>1, <4>1
      <4> QED
        BY <3>2, <4>2
    <3> QED
      BY <3>1, <3>2
  <2>3. \A k \in 0 .. n : k <= m + 1 => h[k] = F(h, k)
    BY <2>2
  <2> HIDE DEF h, F
  <2> QED
    BY <2>3
<1>3. Reached = Nat
  <2> HIDE DEF Reached
  <2>1. Reached \in SUBSET Nat
    BY DEF Reached
  <2> QED
    BY <1>1, <1>2, <2>1, AllNumbers
<1>4. PICK g : \A k \in 0 .. n : k <= n => g[k] = F(g, k)
  <2>1. n \in Reached
    BY <1>3
  <2> QED
    BY <2>1
<1>5. \A k \in 0 .. n : g[k] = F(g, k)
  BY <1>4
<1>6. g[0] = 0 /\ \A k \in 1 .. n : g[k] = A[k] + g[B[k]]
  BY <1>5
<1> QED
  BY <1>6

(***************************************************************************)
(* Pricing.  The walk through the tiers makes progress on every catalog    *)
(* the Python loader accepts: the tier of a token holds it, so there is    *)
(* room in it for at least one, and the guard against misconfigured tiers  *)
(* never acts.                                                             *)
(***************************************************************************)
Less == {p \in Nat \X Nat : p[1] < p[2]}

(* Indices do not descend for ever.                                           *)
LEMMA LessWellFounded == IsWellFoundedOn(Less, Nat)
  BY NatLessThanWellFounded DEF OpToRel, Less

(* The last tier reaches every token, so one does; the first that does is     *)
(* the tier of the token (ModelPricing.tier_at_token).                        *)
LEMMA FirstReaching ==
  ASSUME NEW tiers, Increasing(tiers), tiers # <<>>, NEW index \in Nat
  PROVE  /\ TierIndex(tiers, index) \in DOMAIN tiers
         /\ Reaches(tiers[TierIndex(tiers, index)], index)
         /\ \A j \in DOMAIN tiers :
              j < TierIndex(tiers, index) => ~Reaches(tiers[j], index)
<1> DEFINE R == {i \in DOMAIN tiers : Reaches(tiers[i], index)}
<1>1. Len(tiers) \in Nat /\ DOMAIN tiers = 1 .. Len(tiers)
  BY DEF Increasing
<1>2. Len(tiers) \in R
  BY <1>1 DEF Increasing, Reaches
<1>3. R \subseteq Nat /\ R # {}
  BY <1>1, <1>2
<1>4. PICK i \in R : \A j \in R : <<j, i>> \notin Less
  <2> HIDE DEF R
  <2> QED
    BY <1>3, LessWellFounded, WFMin
<1>5. \A j \in DOMAIN tiers : j < i => ~Reaches(tiers[j], index)
  BY <1>1, <1>3, <1>4 DEF Less
<1>6. \A j \in DOMAIN tiers : j = Len(tiers) => Reaches(tiers[j], index)
  BY <1>2
<1> QED
  BY <1>1, <1>4, <1>5, <1>6 DEF TierIndex

(* Every tier begins at or before the tokens it is chosen for, and ends       *)
(* behind them: whatever the cursor, the walk takes at least one token and    *)
(* never more than there are (the guard of costCategoryGraduated does not     *)
(* act).                                                                      *)
THEOREM WalkProgresses ==
  ASSUME NEW tiers, Increasing(tiers), tiers # <<>>,
         NEW cursor \in Nat, NEW remaining \in Nat \ {0}
  PROVE  Room(TierAtToken(tiers, cursor), cursor, remaining) \in 1 .. remaining
<1> DEFINE i == TierIndex(tiers, cursor)
<1>1. i \in DOMAIN tiers /\ Reaches(tiers[i], cursor)
  BY FirstReaching
<1>2. tiers[i].upTo \in Int
  <2> DEFINE T == [upTo : Int, input : Nat, output : Nat, embedding : Nat]
  <2>1. tiers \in Seq(T)
    BY DEF Increasing
  <2> HIDE DEF T
  <2>2. tiers[i] \in T
    BY <1>1, <2>1
  <2> QED
    BY <2>2 DEF T
<1>3. TierAtToken(tiers, cursor) = tiers[i]
  BY DEF TierAtToken
<1> HIDE DEF i
<1>4. CASE tiers[i].upTo = OpenEnded
  BY <1>3, <1>4 DEF Room
<1>5. CASE tiers[i].upTo # OpenEnded
  <2>1. cursor \div Million < tiers[i].upTo
    BY <1>1, <1>5 DEF Reaches
  <2>2. cursor < TierEnd(tiers[i])
    BY <2>1, <1>2, PricingAssumption DEF TierEnd
  <2>3. TierEnd(tiers[i]) \in Int
    BY <1>2, PricingAssumption DEF TierEnd
  <2> QED
    BY <1>3, <1>5, <2>2, <2>3 DEF Room
<1> QED
  BY <1>4, <1>5

(* Math.round errs by half a micro-dollar at most, and so does round() of     *)
(* Python: the job and a quote differ by one per amount at most.              *)
THEOREM RoundsToNearest ==
  ASSUME NEW n \in Nat
  PROVE  /\ 2 * (Unit * HalfUp(n)) <= 2 * n + Unit
         /\ 2 * n - Unit <= 2 * (Unit * HalfUp(n))
         /\ 2 * (Unit * HalfEven(n)) <= 2 * n + Unit
         /\ 2 * n - Unit <= 2 * (Unit * HalfEven(n))
<1>1. Unit \in Nat \ {0}
  BY PricingAssumption DEF Unit
<1> HIDE DEF Unit
<1>2. 2 * (Unit * HalfUp(n)) <= 2 * n + Unit /\ 2 * n - Unit <= 2 * (Unit * HalfUp(n))
  <2> DEFINE q == HalfUp(n)
             r == (2 * n + Unit) % (2 * Unit)
  <2>1. q \in Int /\ r \in 0 .. (2 * Unit - 1) /\ 2 * n + Unit = (2 * Unit) * q + r
    BY <1>1 DEF HalfUp
  <2>2. (2 * Unit) * q = 2 * (Unit * q)
    BY <1>1, <2>1
  <2> HIDE DEF q, r
  <2>3. Unit * q \in Int
    BY <1>1, <2>1
  <2>4. 2 * (Unit * q) <= 2 * n + Unit /\ 2 * n - Unit <= 2 * (Unit * q)
    BY <1>1, <2>1, <2>2, <2>3
  <2> QED
    BY <2>4 DEF q
<1>3. 2 * (Unit * HalfEven(n)) <= 2 * n + Unit /\ 2 * n - Unit <= 2 * (Unit * HalfEven(n))
  <2> DEFINE q == n \div Unit
             r == n % Unit
  <2>1. q \in Int /\ r \in 0 .. (Unit - 1) /\ n = Unit * q + r
    BY <1>1
  <2>2. /\ HalfEven(n) \in {q, q + 1}
        /\ HalfEven(n) = q => 2 * r <= Unit
        /\ HalfEven(n) = q + 1 => 2 * r >= Unit
    BY <1>1, <2>1 DEF HalfEven
  <2> HIDE DEF q, r
  <2>3. Unit * q \in Int /\ Unit * (q + 1) = Unit * q + Unit
    BY <1>1, <2>1
  <2>4. CASE HalfEven(n) = q
    BY <1>1, <2>1, <2>2, <2>3, <2>4
  <2>5. CASE HalfEven(n) = q + 1
    BY <1>1, <2>1, <2>2, <2>3, <2>5
  <2> QED
    BY <2>2, <2>4, <2>5
<1> QED
  BY <1>2, <1>3

(***************************************************************************)
(* The walk from tier to tier.                                             *)
(***************************************************************************)
(* The tiers a loader accepts.                                                *)
LEMMA TierTyped ==
  ASSUME NEW tiers, Increasing(tiers), NEW i \in DOMAIN tiers
  PROVE  /\ Len(tiers) \in Nat /\ DOMAIN tiers = 1 .. Len(tiers)
         /\ tiers[i].upTo \in Int /\ tiers[i].input \in Nat
         /\ tiers[i].output \in Nat /\ tiers[i].embedding \in Nat
<1> DEFINE T == [upTo : Int, input : Nat, output : Nat, embedding : Nat]
<1>1. tiers \in Seq(T)
  BY DEF Increasing
<1>2. tiers[i] \in T /\ Len(tiers) \in Nat /\ DOMAIN tiers = 1 .. Len(tiers)
  <2> HIDE DEF T
  <2> QED
    BY <1>1
<1> QED
  BY <1>2

(* A tier reaches the tokens ahead of its end.                                *)
LEMMA ReachesAhead ==
  ASSUME NEW tier, tier.upTo \in Int, NEW index \in Nat
  PROVE  /\ TierEnd(tier) \in Int
         /\ Reaches(tier, index) <=> tier.upTo = OpenEnded \/ index < TierEnd(tier)
<1> DEFINE q == index \div Million
           r == index % Million
           u == tier.upTo
<1>1. Million \in Nat /\ 0 < Million
  BY PricingAssumption
<1>2. q \in Int /\ r \in 0 .. (Million - 1) /\ index = Million * q + r
  BY <1>1
<1>3. u * Million \in Int
  BY <1>1
<1> HIDE DEF q, r
<1>4. q < u => index < u * Million
  <2> SUFFICES ASSUME q < u PROVE index < u * Million
    OBVIOUS
  <2>1. (u - q - 1) \in Nat
    BY <1>2
  <2>2. (u - q - 1) * Million \in Nat
    BY <1>1, <2>1
  <2>3. (u - q - 1) * Million = u * Million - Million * q - Million
    BY <1>1, <1>2
  <2>4. Million * q \in Int
    BY <1>1, <1>2
  <2> QED
    BY <1>1, <1>2, <1>3, <2>2, <2>3, <2>4
<1>5. ~(q < u) => ~(index < u * Million)
  <2> SUFFICES ASSUME ~(q < u) PROVE ~(index < u * Million)
    OBVIOUS
  <2>1. (q - u) \in Nat
    BY <1>2
  <2>2. (q - u) * Million \in Nat
    BY <1>1, <2>1
  <2>3. (q - u) * Million = Million * q - u * Million
    BY <1>1, <1>2
  <2>4. Million * q \in Int
    BY <1>1, <1>2
  <2> QED
    BY <1>1, <1>2, <1>3, <2>2, <2>3, <2>4
<1> QED
  BY <1>3, <1>4, <1>5 DEF Reaches, TierEnd, q

(* A tier that reaches a token reaches the tokens before.                     *)
LEMMA ReachesBefore ==
  ASSUME NEW tier, tier.upTo \in Int, NEW a \in Nat, NEW b \in Nat, a <= b, Reaches(tier, b)
  PROVE  Reaches(tier, a)
BY ReachesAhead

(* The first tier that reaches a token is the only one that can be called so. *)
LEMMA OnlyFirst ==
  ASSUME NEW tiers, Increasing(tiers), tiers # <<>>, NEW index \in Nat,
         NEW i \in DOMAIN tiers, Reaches(tiers[i], index),
         \A j \in DOMAIN tiers : j < i => ~Reaches(tiers[j], index)
  PROVE  TierIndex(tiers, index) = i
<1>1. /\ TierIndex(tiers, index) \in DOMAIN tiers
      /\ Reaches(tiers[TierIndex(tiers, index)], index)
      /\ \A j \in DOMAIN tiers : j < TierIndex(tiers, index) => ~Reaches(tiers[j], index)
  BY FirstReaching
<1>2. DOMAIN tiers \subseteq Nat
  BY TierTyped
<1>3. i \in Nat /\ TierIndex(tiers, index) \in Nat
  BY <1>1, <1>2
<1>4. ~(i < TierIndex(tiers, index)) /\ ~(TierIndex(tiers, index) < i)
  BY <1>1
<1> QED
  BY <1>3, <1>4

(* Later tokens are not in earlier tiers.                                     *)
LEMMA TiersAscend ==
  ASSUME NEW tiers, Increasing(tiers), tiers # <<>>, NEW a \in Nat, NEW b \in Nat, a <= b
  PROVE  /\ TierIndex(tiers, a) \in 1 .. Len(tiers) /\ TierIndex(tiers, b) \in 1 .. Len(tiers)
         /\ TierIndex(tiers, a) <= TierIndex(tiers, b)
<1> DEFINE i == TierIndex(tiers, a)
           k == TierIndex(tiers, b)
<1>1. i \in DOMAIN tiers /\ \A j \in DOMAIN tiers : j < i => ~Reaches(tiers[j], a)
  BY FirstReaching
<1>2. k \in DOMAIN tiers /\ Reaches(tiers[k], b)
  BY FirstReaching
<1>3. tiers[k].upTo \in Int /\ DOMAIN tiers = 1 .. Len(tiers) /\ Len(tiers) \in Nat
  BY <1>2, TierTyped
<1>4. Reaches(tiers[k], a)
  <2> HIDE DEF k
  <2> QED
    BY <1>2, <1>3, ReachesBefore
<1>5. ~(k < i)
  BY <1>1, <1>2, <1>4
<1> QED
  BY <1>1, <1>2, <1>3, <1>5

(* The tokens taken at once are in one tier, ...                              *)
LEMMA TakenFromOneTier ==
  ASSUME NEW tiers, Increasing(tiers), tiers # <<>>, NEW cursor \in Nat, NEW remaining \in Nat \ {0},
         NEW d \in 0 .. (Room(TierAtToken(tiers, cursor), cursor, remaining) - 1)
  PROVE  TierAtToken(tiers, cursor + d) = TierAtToken(tiers, cursor)
<1> DEFINE i == TierIndex(tiers, cursor)
           room == Room(TierAtToken(tiers, cursor), cursor, remaining)
<1>1. /\ i \in DOMAIN tiers /\ Reaches(tiers[i], cursor)
      /\ \A j \in DOMAIN tiers : j < i => ~Reaches(tiers[j], cursor)
  BY FirstReaching
<1>2. room \in 1 .. remaining /\ room \in Nat
  BY WalkProgresses
<1>3. tiers[i].upTo \in Int /\ TierEnd(tiers[i]) \in Int
  BY <1>1, TierTyped, ReachesAhead
<1>4. d \in Nat /\ cursor + d \in Nat /\ cursor <= cursor + d
  BY <1>2
<1>5. tiers[i].upTo = OpenEnded \/ cursor + d < TierEnd(tiers[i])
  <2>1. TierAtToken(tiers, cursor) = tiers[i]
    BY DEF TierAtToken
  <2>2. tiers[i].upTo = OpenEnded \/ room <= TierEnd(tiers[i]) - cursor
    <3>1. room = Room(tiers[i], cursor, remaining)
      BY <2>1
    <3> HIDE DEF room, i
    <3> QED
      BY <1>3, <3>1 DEF Room
  <2>3. d <= room - 1
    BY <1>2
  <2> HIDE DEF room, i
  <2> QED
    BY <1>2, <1>3, <1>4, <2>2, <2>3
<1>6. Reaches(tiers[i], cursor + d)
  <2> HIDE DEF i
  <2> QED
    BY <1>3, <1>4, <1>5, ReachesAhead
<1>7. \A j \in DOMAIN tiers : j < i => ~Reaches(tiers[j], cursor + d)
  <2> SUFFICES ASSUME NEW j \in DOMAIN tiers, Reaches(tiers[j], cursor + d), j < i
               PROVE  FALSE
    OBVIOUS
  <2>1. tiers[j].upTo \in Int
    BY TierTyped
  <2>2. Reaches(tiers[j], cursor)
    BY <1>4, <2>1, ReachesBefore
  <2> QED
    BY <1>1, <2>2
<1>8. TierIndex(tiers, cursor + d) = i
  <2> HIDE DEF i
  <2> QED
    BY <1>1, <1>4, <1>6, <1>7, OnlyFirst
<1> QED
  BY <1>8 DEF TierAtToken

(* ... and when they are not all, the next one is in a later tier.            *)
LEMMA TierLeft ==
  ASSUME NEW tiers, Increasing(tiers), tiers # <<>>, NEW cursor \in Nat, NEW remaining \in Nat \ {0},
         NEW room \in Nat, room = Room(TierAtToken(tiers, cursor), cursor, remaining), room # remaining
  PROVE  TierIndex(tiers, cursor) < TierIndex(tiers, cursor + room)
<1> DEFINE i == TierIndex(tiers, cursor)
           k == TierIndex(tiers, cursor + room)
<1>1. i \in DOMAIN tiers
  BY FirstReaching
<1>2. k \in DOMAIN tiers /\ Reaches(tiers[k], cursor + room)
  BY FirstReaching
<1>3. tiers[i].upTo \in Int /\ TierEnd(tiers[i]) \in Int
  BY <1>1, TierTyped, ReachesAhead
<1>4. tiers[i].upTo # OpenEnded /\ room = TierEnd(tiers[i]) - cursor
  <2>1. room = Room(tiers[i], cursor, remaining)
    BY DEF TierAtToken
  <2> HIDE DEF i
  <2> QED
    BY <2>1, <1>3 DEF Room
<1>5. ~Reaches(tiers[i], cursor + room)
  <2>1. ~(cursor + room < TierEnd(tiers[i]))
    BY <1>3, <1>4
  <2> HIDE DEF i
  <2> QED
    BY <1>3, <1>4, <2>1, ReachesAhead
<1>6. i # k
  BY <1>2, <1>5
<1>7. i \in 1 .. Len(tiers) /\ k \in 1 .. Len(tiers) /\ i <= k /\ Len(tiers) \in Nat
  <2>1. cursor + room \in Nat /\ cursor <= cursor + room
    OBVIOUS
  <2> QED
    BY <2>1, <1>1, TiersAscend, TierTyped
<1> QED
  BY <1>6, <1>7

(***************************************************************************)
(* What a walk costs.                                                      *)
(***************************************************************************)
Kinds == {Categories[i] : i \in Order}

(* The six categories.                                                        *)
LEMMA Sixfold ==
  /\ Order = 1 .. 6 /\ Len(Categories) = 6
  /\ Kinds = {"input", "output", "cacheRead", "reasoning", "cacheWrite", "embedding"}
<1>1. Order = 1 .. 6 /\ Len(Categories) = 6
  BY DEF Order, Categories
<1>2. /\ Categories[1] = "input" /\ Categories[2] = "output" /\ Categories[3] = "cacheRead"
      /\ Categories[4] = "reasoning" /\ Categories[5] = "cacheWrite" /\ Categories[6] = "embedding"
  BY DEF Categories
<1>3. Kinds = {Categories[1], Categories[2], Categories[3], Categories[4], Categories[5], Categories[6]}
  <2>1. Order = {1, 2, 3, 4, 5, 6}
    BY <1>1
  <2> QED
    BY <2>1 DEF Kinds
<1> QED
  BY <1>1, <1>2, <1>3

(* A unit of money.                                                           *)
LEMMA UnitTyped == Unit \in Nat \ {0}
  BY PricingAssumption DEF Unit

(* Every token has a rate.                                                    *)
LEMMA RateTyped ==
  ASSUME NEW tier, tier.input \in Nat, tier.output \in Nat, tier.embedding \in Nat,
         NEW kind \in Kinds, NEW cacheRead \in Nat
  PROVE  RateFor(tier, kind, cacheRead) \in Nat
<1>1. /\ tier.input * Scale \in Nat /\ tier.output * Scale \in Nat
      /\ tier.input * cacheRead \in Nat /\ tier.embedding * Scale \in Nat
  BY PricingAssumption
<1>2. kind \in {"input", "output", "cacheRead", "reasoning", "cacheWrite", "embedding"}
  BY Sixfold
<1> QED
  BY <1>1, <1>2 DEF RateFor

(* A distance is the longer the more is added.                                *)
LEMMA OffByAdds ==
  ASSUME NEW a \in Int, NEW b \in Int
  PROVE  OffBy(a) \in Nat /\ OffBy(a + b) <= OffBy(a) + OffBy(b)
BY DEF OffBy

(* A rounded amount is off by half a unit at most.                            *)
LEMMA RoundedTyped ==
  ASSUME NEW n \in Nat, NEW impl
  PROVE  Rounded(impl, n) \in Nat /\ 2 * OffBy(Unit * Rounded(impl, n) - n) <= Unit
<1> DEFINE r == Rounded(impl, n)
<1>1. Unit \in Nat \ {0}
  BY UnitTyped
<1> HIDE DEF Unit
<1>2. r \in Int
  <2>1. HalfUp(n) \in Int
    BY <1>1 DEF HalfUp
  <2>2. HalfEven(n) \in Int
    BY <1>1 DEF HalfEven
  <2> QED
    BY <2>1, <2>2 DEF Rounded
<1>3. 2 * (Unit * r) <= 2 * n + Unit /\ 2 * n - Unit <= 2 * (Unit * r)
  BY RoundsToNearest DEF Rounded
<1> HIDE DEF r
<1>4. Unit * r \in Int
  BY <1>1, <1>2
<1>5. 2 * OffBy(Unit * r - n) <= Unit
  BY <1>1, <1>3, <1>4 DEF OffBy
<1>6. r \in Nat
  <2> SUFFICES ASSUME r <= -1 PROVE FALSE
    BY <1>2
  <2>1. (-1 - r) \in Nat
    BY <1>2
  <2>2. Unit * (-1 - r) \in Nat
    BY <1>1, <2>1
  <2>3. Unit * (-1 - r) = -Unit - Unit * r
    BY <1>1, <1>2
  <2> QED
    BY <1>1, <1>3, <1>4, <2>2, <2>3
<1> QED
  BY <1>5, <1>6 DEF r

\* The costs of what remains of a category, as the code walks it: the tokens
\* of a chunk are rounded together, and the rest is walked from there.
Walks(cost, tiers, kind, tokens, start, cacheRead, impl) ==
  /\ cost[0] = 0
  /\ \A remaining \in 1 .. tokens : \E room \in 1 .. remaining :
       LET cursor == start + tokens - remaining
           tier == TierAtToken(tiers, cursor)
       IN  /\ room = Room(tier, cursor, remaining)
           /\ cost[remaining] = Rounded(impl, room * RateFor(tier, kind, cacheRead))
                                  + cost[remaining - room]

(* The recursion of the code has these values.                                *)
LEMMA CostWalks ==
  ASSUME NEW tiers, Increasing(tiers), tiers # <<>>, NEW category, NEW tokens \in Nat,
         NEW start \in Nat, NEW cacheRead, NEW impl
  PROVE  \E cost :
           /\ CostCategory(tiers, category, tokens, start, cacheRead, impl) = cost[tokens]
           /\ Walks(cost, tiers, category, tokens, start, cacheRead, impl)
<1> DEFINE cursor(r) == start + tokens - r
           tier(r) == TierAtToken(tiers, cursor(r))
           room(r) == Room(tier(r), cursor(r), r)
           amount(r) == Rounded(impl, room(r) * RateFor(tier(r), category, cacheRead))
           Body(g, r) == IF r = 0 THEN 0
                         ELSE IF room(r) <= 0
                              THEN Rounded(impl, r * RateFor(tiers[Len(tiers)], category, cacheRead))
                              ELSE amount(r) + g[r - room(r)]
           cost == CHOOSE g : g = [r \in 0 .. tokens |-> Body(g, r)]
           A == [r \in 1 .. tokens |-> amount(r)]
           B == [r \in 1 .. tokens |-> r - room(r)]
<1>1. CostCategory(tiers, category, tokens, start, cacheRead, impl) = cost[tokens]
  BY DEF CostCategory
<1>2. \A r \in 1 .. tokens : room(r) \in 1 .. r
  <2> SUFFICES ASSUME NEW r \in 1 .. tokens PROVE room(r) \in 1 .. r
    OBVIOUS
  <2>1. cursor(r) \in Nat /\ r \in Nat \ {0}
    OBVIOUS
  <2> HIDE DEF cursor
  <2> QED
    BY <2>1, WalkProgresses
<1> HIDE DEF room, amount
<1>3. PICK f : f[0] = 0 /\ \A r \in 1 .. tokens : f[r] = A[r] + f[B[r]]
  <2>1. Falls(B, tokens)
    BY <1>2 DEF Falls
  <2> HIDE DEF A, B
  <2>2. \E f : AddsUp(f, A, B, tokens)
    BY <2>1, Recursion
  <2> QED
    BY <2>2 DEF AddsUp
<1> DEFINE h == [r \in 0 .. tokens |-> f[r]]
<1>4. \A r \in 0 .. tokens : h[r] = Body(h, r)
  <2> SUFFICES ASSUME NEW r \in 1 .. tokens PROVE h[r] = Body(h, r)
    <3>1. h[0] = Body(h, 0)
      BY <1>3
    <3>2. \A r \in 0 .. tokens : r = 0 \/ r \in 1 .. tokens
      OBVIOUS
    <3> HIDE DEF h, Body
    <3> QED
      BY <3>1, <3>2
  <2>1. r \in 0 .. tokens /\ r # 0 /\ B[r] = r - room(r) /\ B[r] \in 0 .. tokens /\ ~(room(r) <= 0)
    BY <1>2
  <2>2. A[r] = amount(r) /\ h[r] = f[r] /\ h[B[r]] = f[B[r]]
    BY <2>1
  <2> HIDE DEF h, A, B
  <2> QED
    BY <1>3, <2>1, <2>2
<1>5. h = [r \in 0 .. tokens |-> Body(h, r)]
  <2>1. h = [r \in 0 .. tokens |-> h[r]]
    OBVIOUS
  <2> HIDE DEF h, Body
  <2> QED
    BY <1>4, <2>1
<1>6. cost = [r \in 0 .. tokens |-> Body(cost, r)]
  BY <1>5
<1>7. PICK c : c = cost
  OBVIOUS
<1>8. c = [r \in 0 .. tokens |-> Body(c, r)]
  BY <1>6, <1>7
<1>9. c[0] = 0 /\ \A r \in 1 .. tokens : c[r] = amount(r) + c[r - room(r)]
  BY <1>2, <1>8
<1>10. \A r \in 1 .. tokens : \E q \in 1 .. r :
         /\ q = room(r)
         /\ c[r] = Rounded(impl, q * RateFor(tier(r), category, cacheRead)) + c[r - q]
  BY <1>2, <1>9 DEF amount
<1> HIDE DEF cost
<1>11. Walks(c, tiers, category, tokens, start, cacheRead, impl)
  BY <1>9, <1>10 DEF room, Walks
<1> QED
  BY <1>1, <1>7, <1>11

\* The totals q grow by the same rate.
Steady(q, a, room, rate) ==
  /\ \A k \in a .. (a + room) : q[k] \in Int
  /\ \A d \in 0 .. (room - 1) : q[a + d + 1] = q[a + d] + rate

(* Equal rates multiply.                                                      *)
LEMMA EqualRates ==
  ASSUME NEW q, NEW a \in Nat, NEW room \in Nat, NEW rate \in Nat, Steady(q, a, room, rate)
  PROVE  q[a + room] = q[a] + room * rate
<1> USE DEF Steady
<1> DEFINE P == {n \in Nat : n <= room => q[a + n] = q[a] + n * rate}
<1>1. 0 \in P
  BY DEF P
<1>2. ASSUME NEW n \in P PROVE n + 1 \in P
  <2> SUFFICES ASSUME n + 1 <= room PROVE q[a + (n + 1)] = q[a] + (n + 1) * rate
    OBVIOUS
  <2>1. n \in Nat /\ n <= room /\ n \in 0 .. (room - 1) /\ a + (n + 1) = a + n + 1
    OBVIOUS
  <2>2. q[a + n] = q[a] + n * rate
    BY <2>1
  <2>3. q[a + n + 1] = q[a + n] + rate
    BY <2>1
  <2>4. n * rate \in Int /\ (n + 1) * rate = n * rate + rate /\ q[a] \in Int
    BY <2>1
  <2> HIDE DEF P
  <2> QED
    BY <2>1, <2>2, <2>3, <2>4
<1>3. P = Nat
  <2> HIDE DEF P
  <2>1. P \in SUBSET Nat
    BY DEF P
  <2> QED
    BY <1>1, <1>2, <2>1, AllNumbers
<1>4. room \in P
  BY <1>3
<1> QED
  BY <1>4

(* Whole units, ...                                                           *)
LEMMA UnitsTyped ==
  ASSUME NEW a \in Int
  PROVE  Unit * a \in Int /\ Unit * 0 = 0 /\ Unit * 1 = Unit
<1>1. PICK u \in Nat : u = Unit
  BY UnitTyped
<1>2. u * a \in Int /\ u * 0 = 0 /\ u * 1 = u
  OBVIOUS
<1> QED
  BY <1>1, <1>2

(* ... how they add up and compare.                                           *)
LEMMA UnitTimes ==
  ASSUME NEW a \in Int, NEW b \in Int
  PROVE  /\ Unit * (a + b) = Unit * a + Unit * b
         /\ a <= b => Unit * a <= Unit * b
<1>1. PICK u \in Nat : u = Unit
  BY UnitTyped
<1>2. u * a \in Int /\ u * b \in Int /\ u * (a + b) = u * a + u * b
  OBVIOUS
<1>3. a <= b => u * a <= u * b
  <2> SUFFICES ASSUME a <= b PROVE u * a <= u * b
    OBVIOUS
  <2>1. b - a \in Nat
    OBVIOUS
  <2>2. u * (b - a) \in Nat
    BY <2>1
  <2>3. u * (b - a) = u * b - u * a
    OBVIOUS
  <2> QED
    BY <1>2, <2>2, <2>3
<1> QED
  BY <1>1, <1>2, <1>3

\* The totals q take the tokens one by one, each at its own place.
Totals(q, tiers, kind, tokens, start, cacheRead) ==
  /\ \A k \in 0 .. tokens : q[k] \in Int
  /\ \A k \in 0 .. (tokens - 1) :
       q[k + 1] = q[k] + RateFor(TierAtToken(tiers, start + k), kind, cacheRead)

(* A category costs what its tokens cost one by one, but for half a micro per *)
(* chunk; and there is one chunk, and one more whenever the walk enters a     *)
(* later tier.                                                                *)
LEMMA CategoryByToken ==
  ASSUME NEW tiers, Increasing(tiers), tiers # <<>>, NEW kind \in Kinds, NEW tokens \in Nat,
         NEW start \in Nat, NEW cacheRead \in Nat, NEW impl,
         NEW q, Totals(q, tiers, kind, tokens, start, cacheRead)
  PROVE  LET cost == CostCategory(tiers, kind, tokens, start, cacheRead, impl)
         IN  /\ cost \in Nat
             /\ 2 * OffBy(Unit * cost - (q[tokens] - q[0]))
                  <= Unit * ((IF tokens = 0 THEN 0 ELSE 1)
                             + (TierIndex(tiers, start + tokens) - TierIndex(tiers, start)))
<1> USE DEF Totals
<1>1. PICK cost : /\ CostCategory(tiers, kind, tokens, start, cacheRead, impl) = cost[tokens]
                  /\ Walks(cost, tiers, kind, tokens, start, cacheRead, impl)
  BY CostWalks
<1> DEFINE index(r) == TierIndex(tiers, start + tokens - r)
           W(r) == (IF r = 0 THEN 0 ELSE 1) + (index(0) - index(r))
           Good(r) == /\ cost[r] \in Nat
                      /\ 2 * OffBy(Unit * cost[r] - (q[tokens] - q[tokens - r])) <= Unit * W(r)
           P == {n \in Nat : \A r \in 0 .. tokens : r <= n => Good(r)}
<1>2. \A r \in 0 .. tokens : index(r) \in Int /\ index(r) <= index(0)
  <2> SUFFICES ASSUME NEW r \in 0 .. tokens PROVE index(r) \in Int /\ index(r) <= index(0)
    OBVIOUS
  <2>1. start + tokens - r \in Nat /\ start + tokens \in Nat /\ start + tokens - r <= start + tokens
        /\ start + tokens - 0 = start + tokens
    OBVIOUS
  <2> QED
    BY <2>1, TiersAscend
<1> HIDE DEF index
<1>3. W(0) = 0 /\ \A r \in 0 .. tokens : W(r) \in Int
  BY <1>2
<1>4. \A r \in 1 .. tokens : W(r) = 1 + (index(0) - index(r))
  OBVIOUS
<1> HIDE DEF W
<1>5. 0 \in P
  <2>1. Unit * 0 = 0 /\ cost[0] = 0 /\ OffBy(0) = 0
    BY UnitsTyped, <1>1 DEF OffBy, Walks
  <2>2. W(0) = 0 /\ q[tokens] - q[tokens - 0] = 0
    BY <1>3
  <2>3. Good(0)
    BY <2>1, <2>2
  <2> HIDE DEF Good
  <2> QED
    BY <2>3
<1>6. ASSUME NEW n \in P PROVE n + 1 \in P
  <2>0. n \in Nat /\ \A r \in 0 .. tokens : r <= n => Good(r)
    OBVIOUS
  <2> HIDE DEF P, Good
  <2> SUFFICES ASSUME NEW r \in 1 .. tokens, r <= n + 1 PROVE Good(r)
    <3>1. \A r \in 0 .. tokens : r <= n + 1 => Good(r)
      BY <2>0
    <3> QED
      BY <2>0, <3>1 DEF P
  <2>1. PICK cursor, a : cursor = start + tokens - r /\ a = tokens - r
    OBVIOUS
  <2>2. PICK rate : rate = RateFor(TierAtToken(tiers, cursor), kind, cacheRead)
    OBVIOUS
  <2>3. PICK room \in 1 .. r :
          /\ room = Room(TierAtToken(tiers, cursor), cursor, r)
          /\ cost[r] = Rounded(impl, room * rate) + cost[r - room]
    BY <1>1, <2>1, <2>2 DEF Walks
  <2>4. PICK rest : rest = r - room
    OBVIOUS
  <2>5. /\ cursor \in Nat /\ r \in Nat \ {0} /\ a \in 0 .. tokens /\ a \in Nat /\ room \in Nat
        /\ cursor = start + a /\ rest \in 0 .. tokens /\ rest <= n
        /\ tokens - rest = a + room /\ a + room \in 0 .. tokens
    BY <2>0, <2>1, <2>4
  <2>6. rate \in Nat
    <3> DEFINE i == TierIndex(tiers, cursor)
    <3>1. i \in DOMAIN tiers /\ TierAtToken(tiers, cursor) = tiers[i]
      BY <2>5, FirstReaching DEF TierAtToken
    <3>2. tiers[i].input \in Nat /\ tiers[i].output \in Nat /\ tiers[i].embedding \in Nat
      BY <3>1, TierTyped
    <3> HIDE DEF i
    <3> QED
      BY <2>2, <3>1, <3>2, RateTyped
  <2>7. q[a + room] = q[a] + room * rate
    <3>1. ASSUME NEW d \in 0 .. (room - 1) PROVE q[a + d + 1] = q[a + d] + rate
      <4>1. a + d \in 0 .. (tokens - 1) /\ start + (a + d) = cursor + d
        BY <2>5
      <4>2. q[(a + d) + 1] = q[a + d] + RateFor(TierAtToken(tiers, cursor + d), kind, cacheRead)
        BY <4>1
      <4>3. TierAtToken(tiers, cursor + d) = TierAtToken(tiers, cursor)
        BY <2>3, <2>5, TakenFromOneTier
      <4> QED
        BY <2>2, <4>2, <4>3
    <3>2. a \in Nat /\ room \in Nat /\ \A k \in a .. (a + room) : q[k] \in Int
      BY <2>5
    <3>3. Steady(q, a, room, rate)
      BY <3>1, <3>2 DEF Steady
    <3> QED
      BY <2>6, <3>2, <3>3, EqualRates
  <2>8. PICK amount : amount = Rounded(impl, room * rate)
    OBVIOUS
  <2> DEFINE chunk == Unit * amount - room * rate
             tail == Unit * cost[rest] - (q[tokens] - q[a + room])
  <2>9. /\ room * rate \in Nat /\ amount \in Nat /\ 2 * OffBy(chunk) <= Unit
        /\ Unit * amount \in Int
    <3>1. room * rate \in Nat
      BY <2>5, <2>6
    <3>2. amount \in Nat /\ 2 * OffBy(chunk) <= Unit
      BY <2>8, <3>1, RoundedTyped
    <3> HIDE DEF chunk
    <3>3. amount \in Int
      BY <3>2
    <3>4. Unit * amount \in Int
      BY <3>3, UnitsTyped
    <3> QED
      BY <3>1, <3>2, <3>4
  <2>10. /\ cost[rest] \in Nat /\ 2 * OffBy(tail) <= Unit * W(rest)
         /\ Unit * cost[rest] \in Int
    <3>1. cost[rest] \in Nat /\ 2 * OffBy(tail) <= Unit * W(rest)
      BY <2>0, <2>5 DEF Good
    <3> HIDE DEF tail
    <3>2. cost[rest] \in Int
      BY <3>1
    <3>3. Unit * cost[rest] \in Int
      BY <3>2, UnitsTyped
    <3> QED
      BY <3>1, <3>3
  <2>11. W(rest) + 1 <= W(r) /\ W(rest) \in Int /\ W(r) \in Int
    <3>1. W(rest) \in Int /\ W(r) \in Int /\ index(r) <= index(0)
          /\ index(r) \in Int /\ index(rest) \in Int /\ index(0) \in Int
          /\ W(r) = 1 + (index(0) - index(r))
      BY <1>2, <1>3, <1>4, <2>5
    <3>2. CASE rest = 0
      BY <1>3, <3>1, <3>2
    <3>3. CASE rest # 0
      <4>1. TierIndex(tiers, cursor) < TierIndex(tiers, cursor + room)
        <5>1. room # r
          BY <2>4, <2>5, <3>3
        <5> QED
          BY <2>3, <2>5, <5>1, TierLeft
      <4>2. start + tokens - rest = cursor + room /\ start + tokens - r = cursor
        BY <2>1, <2>4, <2>5
      <4>3. index(r) < index(rest)
        BY <4>1, <4>2 DEF index
      <4>4. W(rest) = 1 + (index(0) - index(rest))
        BY <1>4, <2>5, <3>3
      <4> QED
        BY <3>1, <4>3, <4>4
    <3> QED
      BY <3>2, <3>3
  <2>12. Unit * W(rest) + Unit <= Unit * W(r) /\ Unit * W(rest) \in Int /\ Unit * W(r) \in Int
    <3>1. Unit * (W(rest) + 1) = Unit * W(rest) + Unit * 1
      BY <2>11, UnitTimes
    <3>2. W(rest) + 1 \in Int
      BY <2>11
    <3>3. Unit * (W(rest) + 1) <= Unit * W(r)
      BY <2>11, <3>2, UnitTimes
    <3> QED
      BY <2>11, <3>1, <3>3, UnitsTyped
  <2>13. cost[r] \in Nat /\ Unit * cost[r] = Unit * amount + Unit * cost[rest]
    <3>1. cost[r] = amount + cost[rest]
      BY <2>3, <2>4, <2>8
    <3>2. amount \in Int /\ cost[rest] \in Int
      BY <2>9, <2>10
    <3>3. Unit * (amount + cost[rest]) = Unit * amount + Unit * cost[rest]
      BY <3>2, UnitTimes
    <3>4. amount + cost[rest] \in Nat
      <4> HIDE DEF chunk, tail
      <4> QED
        BY <2>9, <2>10
    <3> QED
      BY <3>1, <3>3, <3>4
  <2>14. q[tokens] \in Int /\ q[a] \in Int /\ q[a + room] \in Int /\ q[tokens - r] = q[a]
    BY <2>1, <2>5
  <2>15. /\ Unit * cost[r] - (q[tokens] - q[tokens - r]) = chunk + tail
         /\ chunk \in Int /\ tail \in Int
    <3>1. PICK u1, u2, u3 : u1 = Unit * amount /\ u2 = Unit * cost[rest] /\ u3 = room * rate
      OBVIOUS
    <3>2. u1 \in Int /\ u2 \in Int /\ u3 \in Int
      <4> HIDE DEF chunk, tail
      <4> QED
        BY <2>9, <2>10, <3>1
    <3>3. chunk = u1 - u3 /\ tail = u2 - (q[tokens] - q[a + room])
      BY <3>1
    <3>4. Unit * cost[r] = u1 + u2 /\ q[a + room] = q[a] + u3
      BY <2>7, <2>13, <3>1
    <3> HIDE DEF chunk, tail
    <3>5. Unit * cost[r] - (q[tokens] - q[a]) = (u1 - u3) + (u2 - (q[tokens] - q[a + room]))
      <4>1. PICK x \in Int, y \in Int : x = q[tokens] /\ y = q[a]
        BY <2>14
      <4>2. (u1 + u2) - (x - y) = (u1 - u3) + (u2 - (x - (y + u3)))
        BY <3>2
      <4> QED
        BY <3>4, <4>1, <4>2
    <3> QED
      BY <2>14, <3>2, <3>3, <3>5
  <2> HIDE DEF chunk, tail
  <2>16. OffBy(chunk + tail) <= OffBy(chunk) + OffBy(tail) /\ OffBy(chunk) \in Nat /\ OffBy(tail) \in Nat
         /\ OffBy(chunk + tail) \in Nat
    <3>1. chunk + tail \in Int
      BY <2>15
    <3> QED
      BY <2>15, <3>1, OffByAdds
  <2>17. 2 * OffBy(chunk + tail) <= Unit * W(r)
    <3>1. Unit \in Int
      BY UnitTyped
    <3> QED
      BY <2>9, <2>10, <2>12, <2>16, <3>1, SMTT(30)
  <2> QED
    BY <2>13, <2>15, <2>17 DEF Good
<1>7. P = Nat
  <2> HIDE DEF P
  <2>1. P \in SUBSET Nat
    BY DEF P
  <2> QED
    BY <1>5, <1>6, <2>1, AllNumbers
<1>8. Good(tokens)
  <2> HIDE DEF Good
  <2>1. tokens \in P /\ tokens \in 0 .. tokens /\ tokens <= tokens
    <3> HIDE DEF P
    <3> QED
      BY <1>7
  <2> QED
    BY <2>1
<1>9. start + tokens - tokens = start /\ start + tokens - 0 = start + tokens /\ tokens - tokens = 0
  OBVIOUS
<1> QED
  BY <1>1, <1>8, <1>9 DEF W, index

(* Every model of an accepted catalog has tiers to walk.                      *)
LEMMA TiersAccepted ==
  ASSUME NEW c, AcceptsCatalog(c), NEW m
  PROVE  LET tiers == TiersOf(ModelPricing(c, m)) IN Increasing(tiers) /\ tiers # <<>>
<1> DEFINE node == ModelPricing(c, m)
<1>1. Accepts(node)
  BY DEF AcceptsCatalog, ModelPricing
<1> HIDE DEF node
<1>2. Increasing(node.tiers) /\ node.base \in Rates
  BY <1>1 DEF Accepts
<1>3. CASE node.tiers = <<>>
  <2> DEFINE flat == FlatTier(node)
             T == [upTo : Int, input : Nat, output : Nat, embedding : Nat]
  <2>1. flat \in T /\ flat.upTo = OpenEnded
    BY <1>2 DEF FlatTier, Rates, OpenEnded
  <2> HIDE DEF flat
  <2>2. <<flat>> \in Seq(T) /\ Len(<<flat>>) = 1 /\ DOMAIN <<flat>> = {1} /\ <<flat>>[1] = flat
    <3> HIDE DEF T
    <3> QED
      BY <2>1
  <2>3. Increasing(<<flat>>)
    BY <2>1, <2>2 DEF Increasing
  <2>4. TiersOf(node) = <<flat>>
    BY <1>3 DEF TiersOf, flat
  <2>5. <<flat>> # <<>>
    BY <2>2
  <2> QED
    BY <2>3, <2>4, <2>5 DEF node
<1>4. CASE node.tiers # <<>>
  <2>1. TiersOf(node) = node.tiers
    BY <1>4 DEF TiersOf
  <2> QED
    BY <1>2, <1>4, <2>1 DEF node
<1> QED
  BY <1>3, <1>4

(* The sum of a function is that over its domain, ...                         *)
LEMMA WholeSum ==
  ASSUME NEW f
  PROVE  SumFunction(f) = Sum(f, DOMAIN f)
BY DEF SumFunction, Sum

(* The categories of an event follow one another.                             *)
LEMMA CategoriesFollow ==
  ASSUME NEW event \in [Kinds -> Nat]
  PROVE  /\ \A i \in 1 .. 6 : Categories[i] \in Kinds /\ event[Categories[i]] \in Nat
         /\ Before(event, 1) = 0 /\ TotalTokens(event) = Before(event, 7)
         /\ \A i \in 1 .. 7 : Before(event, i) \in Nat
         /\ \A i \in 1 .. 6 : Before(event, i + 1) = Before(event, i) + event[Categories[i]]
<1>1. \A i \in 1 .. 6 : Categories[i] \in Kinds /\ event[Categories[i]] \in Nat
  BY Sixfold DEF Kinds
<1> DEFINE f == [i \in 1 .. 6 |-> event[Categories[i]]]
<1>2. \A i \in 1 .. 6 : f[i] = event[Categories[i]] /\ f[i] \in Nat
  BY <1>1
<1> HIDE DEF f
<1>3. ASSUME NEW i \in 1 .. 7 PROVE Before(event, i) = Sum(f, 1 .. (i - 1)) /\ Sum(f, 1 .. (i - 1)) \in Nat
  <2> DEFINE S == 1 .. (i - 1)
             g == [j \in S |-> event[Categories[j]]]
  <2>1. Before(event, i) = Sum(g, S)
    <3>1. DOMAIN g = S
      OBVIOUS
    <3> QED
      BY <3>1, WholeSum DEF Before
  <2>2. IsFiniteSet(S) /\ \A j \in S : f[j] \in Int /\ f[j] \in Nat /\ g[j] = f[j]
    <3>1. IsFiniteSet(S)
      BY FS_Interval
    <3>2. \A j \in S : f[j] \in Nat /\ g[j] = f[j]
      BY <1>2
    <3> HIDE DEF S, g
    <3> QED
      BY <3>1, <3>2
  <2> HIDE DEF S, g
  <2>3. Sum(f, S) = Sum(g, S)
    BY <2>2, SumSame
  <2>4. Sum(f, S) \in Nat
    <3>1. S \in SUBSET S
      OBVIOUS
    <3> QED
      BY <2>2, <3>1, SumOfNats
  <2> QED
    BY <2>1, <2>3, <2>4 DEF S
<1>4. /\ \A n \in 1 .. 6 : Sum(f, 1 .. n) = Sum(f, 1 .. (n - 1)) + f[n]
      /\ Sum(f, 1 .. (1 - 1)) = 0
  <2>1. Ints(f, 1 .. 6)
    BY <1>2 DEF Ints
  <2>2. 1 \in Int /\ 6 \in Int
    OBVIOUS
  <2> QED
    BY <2>1, <2>2, SumUpTo, ZenonT(60)
<1>5. Before(event, 1) = 0
  BY <1>3, <1>4
<1>6. ASSUME NEW i \in 1 .. 6 PROVE Before(event, i + 1) = Before(event, i) + event[Categories[i]]
  <2>1. i \in 1 .. 7 /\ i + 1 \in 1 .. 7 /\ (i + 1) - 1 = i
    OBVIOUS
  <2>2. Before(event, i + 1) = Sum(f, 1 .. i)
    BY <1>3, <2>1
  <2> QED
    BY <1>2, <1>3, <1>4, <2>1, <2>2
<1>7. TotalTokens(event) = Before(event, 7)
  BY Sixfold DEF TotalTokens
<1> QED
  BY <1>1, <1>3, <1>5, <1>6, <1>7

(* Each category begins where the one before it ends.                         *)
LEMMA Ascending ==
  ASSUME NEW event \in [Kinds -> Nat]
  PROVE  /\ \A i \in 1 .. 7 : Before(event, i) \in 0 .. TotalTokens(event)
         /\ \A i, j \in 1 .. 7 : i <= j => Before(event, i) <= Before(event, j)
         /\ \A k \in Nat : k < TotalTokens(event) =>
              \E i \in 1 .. 6 : Before(event, i) <= k /\ k < Before(event, i + 1)
<1> DEFINE b(i) == Before(event, i)
<1>1. /\ b(1) \in Nat /\ b(2) \in Nat /\ b(3) \in Nat /\ b(4) \in Nat /\ b(5) \in Nat /\ b(6) \in Nat /\ b(7) \in Nat
      /\ b(1) <= b(2) /\ b(2) <= b(3) /\ b(3) <= b(4) /\ b(4) <= b(5) /\ b(5) <= b(6) /\ b(6) <= b(7)
      /\ b(1) = 0 /\ TotalTokens(event) = b(7)
  <2>1. \A j \in 1 .. 6 : b(j) \in Nat /\ b(j + 1) \in Nat /\ b(j) <= b(j + 1)
    <3> SUFFICES ASSUME NEW j \in 1 .. 6 PROVE b(j) \in Nat /\ b(j + 1) \in Nat /\ b(j) <= b(j + 1)
      OBVIOUS
    <3>1. j \in 1 .. 7 /\ j + 1 \in 1 .. 7
      OBVIOUS
    <3> QED
      BY <3>1, CategoriesFollow
  <2>2. 1 + 1 = 2 /\ 2 + 1 = 3 /\ 3 + 1 = 4 /\ 4 + 1 = 5 /\ 5 + 1 = 6 /\ 6 + 1 = 7
    OBVIOUS
  <2>3. b(1) = 0 /\ TotalTokens(event) = b(7)
    BY CategoriesFollow
  <2> HIDE DEF b
  <2> QED
    BY <2>1, <2>2, <2>3
<1> HIDE DEF b
<1>2. \A i \in 1 .. 7 : i \in {1, 2, 3, 4, 5, 6, 7}
  OBVIOUS
<1>3. \A i, j \in 1 .. 7 : i <= j => b(i) <= b(j)
  BY <1>1, <1>2
<1>4. \A i \in 1 .. 7 : b(i) \in 0 .. TotalTokens(event)
  BY <1>1, <1>2
<1>5. ASSUME NEW k \in Nat, k < TotalTokens(event)
      PROVE  \E i \in 1 .. 6 : b(i) <= k /\ k < b(i + 1)
  <2>1. 1 + 1 = 2 /\ 2 + 1 = 3 /\ 3 + 1 = 4 /\ 4 + 1 = 5 /\ 5 + 1 = 6 /\ 6 + 1 = 7
    OBVIOUS
  <2> QED
    BY <1>1, <1>5, <2>1
<1> QED
  BY <1>3, <1>4, <1>5 DEF b

(* A token belongs to the category it comes with.                             *)
LEMMA CategoryFound ==
  ASSUME NEW event \in [Kinds -> Nat], NEW i \in 1 .. 6, NEW k \in Nat,
         Before(event, i) <= k, k < Before(event, i + 1)
  PROVE  CategoryOf(event, k) = Categories[i] /\ k < TotalTokens(event)
<1> DEFINE b(j) == Before(event, j)
           Here(j) == b(j) <= k /\ k < b(j + 1)
<1>1. /\ \A j \in 1 .. 7 : b(j) \in 0 .. TotalTokens(event)
      /\ \A j, h \in 1 .. 7 : j <= h => b(j) <= b(h)
  BY Ascending
<1>2. TotalTokens(event) \in Nat
  BY CategoriesFollow
<1>3. Here(i)
  OBVIOUS
<1> HIDE DEF b
<1>4. ASSUME NEW j \in 1 .. 6, Here(j) PROVE j = i
  <2>1. j + 1 \in 1 .. 7 /\ i + 1 \in 1 .. 7 /\ j \in 1 .. 7 /\ i \in 1 .. 7
    OBVIOUS
  <2>2. /\ b(j) \in Int /\ b(j + 1) \in Int /\ b(i) \in Int /\ b(i + 1) \in Int
        /\ j + 1 <= i => b(j + 1) <= b(i)
        /\ i + 1 <= j => b(i + 1) <= b(j)
    BY <1>1, <1>2, <2>1
  <2> QED
    BY <1>3, <1>4, <2>2
<1>5. k < TotalTokens(event)
  <2>1. i + 1 \in 1 .. 7
    OBVIOUS
  <2>2. b(i + 1) \in 0 .. TotalTokens(event)
    BY <1>1, <2>1
  <2> QED
    BY <1>2, <1>3, <2>2
<1>6. (CHOOSE j \in Order : b(j) <= k /\ k < b(j + 1)) = i
  <2>1. Order = 1 .. 6
    BY Sixfold
  <2> QED
    BY <1>3, <1>4, <2>1
<1> QED
  BY <1>5, <1>6 DEF CategoryOf, b

(* The whole event, category by category.                                     *)
LEMMA EventByToken ==
  ASSUME NEW c, AcceptsCatalog(c), NEW m, ModeOf(ModelPricing(c, m)) = "graduated",
         NEW event \in [Kinds -> Nat], NEW before \in Nat, NEW impl
  PROVE  /\ CostMicro(c, m, event, before, impl) \in Nat
         /\ 2 * OffBy(Unit * CostMicro(c, m, event, before, impl) - ExactCost(c, m, event, before))
              <= Unit * Chunks(c, m, event)
         /\ ExactCost(c, m, event, before) \in Int /\ Chunks(c, m, event) \in Int
<1>1. PICK tiers : tiers = TiersOf(ModelPricing(c, m))
  OBVIOUS
<1>2. Increasing(tiers) /\ tiers # <<>> /\ c.cacheRead \in Nat
  BY <1>1, TiersAccepted DEF AcceptsCatalog
<1> DEFINE N == TotalTokens(event)
           b(i) == Before(event, i)
           t(i) == event[Categories[i]]
           rate(k) == RateFor(TierAtToken(tiers, before + k), CategoryOf(event, k), c.cacheRead)
           x == [k \in 0 .. (N - 1) |-> rate(k)]
           q(k) == Sum(x, 0 .. (k - 1))
           cost == [i \in Order |-> CostCategory(tiers, Categories[i], t(i), before + b(i),
                                                 c.cacheRead, impl)]
           spentOn(i) == Sum(cost, 1 .. (i - 1))
           index(k) == TierIndex(tiers, before + k)
           some(i) == {j \in 1 .. (i - 1) : t(j) > 0}
           Good(i) == /\ spentOn(i) \in Nat
                      /\ 2 * OffBy(Unit * spentOn(i) - q(b(i)))
                           <= Unit * (Cardinality(some(i)) + (index(b(i)) - index(0)))
<1>3. /\ CostMicro(c, m, event, before, impl) = spentOn(7)
      /\ ExactCost(c, m, event, before) = q(N)
      /\ Chunks(c, m, event) = Cardinality(some(7)) + Len(tiers) - 1
  <2>1. Order = 1 .. 6 /\ 7 - 1 = 6 /\ DOMAIN cost = Order /\ DOMAIN x = 0 .. (N - 1)
    BY Sixfold
  <2>2. CostMicro(c, m, event, before, impl) = SumFunction(cost)
    BY <1>1 DEF CostMicro, CostGraduated
  <2>3. ExactCost(c, m, event, before) = SumFunction(x)
    BY <1>1 DEF ExactCost
  <2>4. Chunks(c, m, event) = Cardinality(some(7)) + Len(tiers) - 1
    BY <1>1, <2>1 DEF Chunks
  <2> HIDE DEF cost, x, N, some
  <2> QED
    BY <2>1, <2>2, <2>3, <2>4, WholeSum
<1>4. /\ b(1) = 0 /\ N = b(7) /\ \A i \in 1 .. 7 : b(i) \in Nat
      /\ \A i \in 1 .. 6 : b(i + 1) = b(i) + t(i) /\ t(i) \in Nat /\ Categories[i] \in Kinds
  BY CategoriesFollow
<1>5. \A i \in 1 .. 6 : \A k \in 0 .. (t(i) - 1) :
        /\ b(i) + k \in 0 .. (N - 1)
        /\ x[b(i) + k] = RateFor(TierAtToken(tiers, (before + b(i)) + k), Categories[i], c.cacheRead)
        /\ x[b(i) + k] \in Nat
  <2> SUFFICES ASSUME NEW i \in 1 .. 6, NEW k \in 0 .. (t(i) - 1)
               PROVE  /\ b(i) + k \in 0 .. (N - 1)
                      /\ x[b(i) + k] = RateFor(TierAtToken(tiers, (before + b(i)) + k), Categories[i], c.cacheRead)
                      /\ x[b(i) + k] \in Nat
    OBVIOUS
  <2>1. /\ b(i) \in Nat /\ t(i) \in Nat /\ Categories[i] \in Kinds
        /\ b(i) + k \in Nat /\ b(i) <= b(i) + k /\ b(i) + k < b(i + 1)
        /\ before + (b(i) + k) = (before + b(i)) + k /\ (before + b(i)) + k \in Nat
    <3>1. b(i) \in Nat /\ t(i) \in Nat /\ b(i + 1) = b(i) + t(i) /\ Categories[i] \in Kinds
      <4>1. i \in 1 .. 7
        OBVIOUS
      <4> HIDE DEF b, t
      <4> QED
        BY <1>4, <4>1
    <3> HIDE DEF b, t
    <3> QED
      BY <3>1
  <2>2. CategoryOf(event, b(i) + k) = Categories[i] /\ b(i) + k < N
    <3> HIDE DEF N
    <3> QED
      BY <2>1, CategoryFound DEF N
  <2>3. b(i) + k \in 0 .. (N - 1) /\ N \in Nat
    <3>1. N \in Nat
      BY <1>4
    <3> HIDE DEF b, N
    <3> QED
      BY <2>1, <2>2, <3>1
  <2>4. x[b(i) + k] = RateFor(TierAtToken(tiers, (before + b(i)) + k), Categories[i], c.cacheRead)
    <3>1. x[b(i) + k] = rate(b(i) + k)
      <4> HIDE DEF b, N, rate
      <4> QED
        BY <2>3
    <3> HIDE DEF b, x
    <3> QED
      BY <2>1, <2>2, <3>1
  <2>5. RateFor(TierAtToken(tiers, (before + b(i)) + k), Categories[i], c.cacheRead) \in Nat
    <3> DEFINE place == (before + b(i)) + k
               z == TierIndex(tiers, place)
    <3>1. place \in Nat
      BY <2>1
    <3> HIDE DEF place
    <3>2. z \in DOMAIN tiers /\ TierAtToken(tiers, place) = tiers[z]
      BY <1>2, <3>1, FirstReaching DEF TierAtToken
    <3>3. tiers[z].input \in Nat /\ tiers[z].output \in Nat /\ tiers[z].embedding \in Nat
      BY <1>2, <3>2, TierTyped
    <3> HIDE DEF z
    <3>4. RateFor(TierAtToken(tiers, place), Categories[i], c.cacheRead) \in Nat
      BY <1>2, <2>1, <3>2, <3>3, RateTyped
    <3> QED
      BY <3>4 DEF place
  <2> HIDE DEF b, N, x
  <2> QED
    BY <2>3, <2>4, <2>5
<1>6. \A k \in 0 .. (N - 1) : x[k] \in Int
  <2> SUFFICES ASSUME NEW k \in 0 .. (N - 1) PROVE x[k] \in Int
    OBVIOUS
  <2>1. N \in Nat
    BY <1>4
  <2>2. k \in Nat /\ k < N
    <3> HIDE DEF N, x
    <3> QED
      BY <2>1
  <2>3. \E i \in 1 .. 6 : b(i) <= k /\ k < b(i + 1)
    BY <2>2, Ascending
  <2>4. PICK i \in 1 .. 6 : b(i) <= k /\ k < b(i + 1)
    BY <2>3
  <2>5. i \in 1 .. 7 /\ k \in Int
    BY <2>1
  <2>6. b(i) \in Nat /\ t(i) \in Nat /\ b(i + 1) = b(i) + t(i)
    <3> HIDE DEF b, t
    <3> QED
      BY <1>4, <2>5
  <2>7. k - b(i) \in 0 .. (t(i) - 1) /\ b(i) + (k - b(i)) = k
    <3> HIDE DEF b, t
    <3> QED
      BY <2>4, <2>5, <2>6
  <2>8. x[b(i) + (k - b(i))] \in Nat
    <3> HIDE DEF b, t, x, N
    <3> QED
      BY <1>5, <2>7
  <2> HIDE DEF b, x
  <2> QED
    BY <2>7, <2>8
<1>7. /\ N \in Nat /\ q(0) = 0 /\ \A k \in 0 .. N : q(k) \in Int
      /\ \A k \in 0 .. (N - 1) : q(k + 1) = q(k) + x[k]
  <2> DEFINE L == N - 1
  <2>1. N \in Nat /\ L \in Int /\ 0 \in Int
    BY <1>4
  <2> HIDE DEF N, x
  <2>2. Ints(x, 0 .. L)
    BY <1>6 DEF Ints
  <2> HIDE DEF L
  <2>3. /\ \A n \in (0 - 1) .. L : Sum(x, 0 .. n) \in Int
        /\ \A n \in 0 .. L : Sum(x, 0 .. n) = Sum(x, 0 .. (n - 1)) + x[n]
        /\ Sum(x, 0 .. (0 - 1)) = 0
    BY <2>1, <2>2, SumUpTo
  <2>4. \A k \in 0 .. N : k - 1 \in (0 - 1) .. L
    BY <2>1 DEF L
  <2>5. \A k \in 0 .. (N - 1) : k \in 0 .. L /\ (k + 1) - 1 = k
    BY <2>1 DEF L
  <2> QED
    BY <2>1, <2>3, <2>4, <2>5
<1>8. ASSUME NEW i \in 1 .. 6
      PROVE  /\ cost[i] \in Nat
             /\ 2 * OffBy(Unit * cost[i] - (q(b(i + 1)) - q(b(i))))
                  <= Unit * ((IF t(i) = 0 THEN 0 ELSE 1) + (index(b(i + 1)) - index(b(i))))
  <2>1. /\ b(i) \in Nat /\ b(i + 1) \in Nat /\ t(i) \in Nat /\ Categories[i] \in Kinds
        /\ b(i + 1) = b(i) + t(i)
    <3>1. i \in 1 .. 7 /\ i + 1 \in 1 .. 7
      OBVIOUS
    <3> HIDE DEF b, t
    <3> QED
      BY <1>4, <3>1
  <2>2. PICK start, tokens, kind : start = before + b(i) /\ tokens = t(i) /\ kind = Categories[i]
    OBVIOUS
  <2>3. /\ start \in Nat /\ tokens \in Nat /\ kind \in Kinds
        /\ before + b(i + 1) = start + tokens /\ b(i + 1) = b(i) + tokens
    <3> HIDE DEF b, t
    <3> QED
      BY <2>1, <2>2
  <2> DEFINE p == [k \in 0 .. tokens |-> q(b(i) + k)]
  <2>4. \A k \in 0 .. (tokens - 1) :
          /\ b(i) + k \in 0 .. (N - 1)
          /\ x[b(i) + k] = RateFor(TierAtToken(tiers, start + k), kind, c.cacheRead)
    <3> HIDE DEF x, N, t, b
    <3> QED
      BY <1>5, <2>2
  <2>5. \A k \in 0 .. tokens : b(i) + k \in 0 .. N
    <3>1. b(i + 1) \in 0 .. N
      <4>1. i + 1 \in 1 .. 7
        OBVIOUS
      <4> QED
        BY <4>1, Ascending
    <3> HIDE DEF b, N
    <3>2. N \in Nat
      BY <1>7
    <3>3. PICK B \in Nat, C \in Nat, M \in Nat : B = b(i) /\ C = b(i + 1) /\ M = N
      BY <2>1, <3>2
    <3>4. C = B + tokens /\ C <= M /\ tokens \in Nat
      BY <2>3, <3>1, <3>3
    <3>5. \A k \in 0 .. tokens : B + k \in 0 .. M
      BY <3>4
    <3> QED
      BY <3>3, <3>5
  <2>6. Totals(p, tiers, kind, tokens, start, c.cacheRead)
    <3>1. \A k \in 0 .. tokens : p[k] = q(b(i) + k) /\ p[k] \in Int
      <4> HIDE DEF q, b, N
      <4> QED
        BY <1>7, <2>5
    <3>2. ASSUME NEW k \in 0 .. (tokens - 1)
          PROVE  p[k + 1] = p[k] + RateFor(TierAtToken(tiers, start + k), kind, c.cacheRead)
      <4>1. k \in 0 .. tokens /\ k + 1 \in 0 .. tokens /\ b(i) + (k + 1) = (b(i) + k) + 1
        <5> HIDE DEF b
        <5> QED
          BY <2>1, <2>3
      <4>2. p[k] = q(b(i) + k) /\ p[k + 1] = q((b(i) + k) + 1)
        <5> HIDE DEF p
        <5> QED
          BY <3>1, <4>1
      <4>3. q((b(i) + k) + 1) = q(b(i) + k) + x[b(i) + k]
        <5> HIDE DEF q, b, x, N
        <5> QED
          BY <1>7, <2>4
      <4> HIDE DEF q, p, x
      <4> QED
        BY <2>4, <4>2, <4>3
    <3> HIDE DEF p
    <3> QED
      BY <3>1, <3>2 DEF Totals
  <2>7. p[tokens] = q(b(i + 1)) /\ p[0] = q(b(i))
    <3>1. tokens \in 0 .. tokens /\ 0 \in 0 .. tokens /\ b(i) + tokens = b(i + 1) /\ b(i) + 0 = b(i)
      <4> HIDE DEF b
      <4> QED
        BY <2>1, <2>3
    <3> HIDE DEF q, b
    <3> QED
      BY <3>1
  <2>8. cost[i] = CostCategory(tiers, kind, tokens, start, c.cacheRead, impl)
    BY <2>2, Sixfold
  <2>9. index(b(i + 1)) = TierIndex(tiers, start + tokens) /\ index(b(i)) = TierIndex(tiers, start)
    BY <2>2, <2>3
  <2>10. CostCategory(tiers, kind, tokens, start, c.cacheRead, impl) \in Nat
         /\ 2 * OffBy(Unit * CostCategory(tiers, kind, tokens, start, c.cacheRead, impl) - (p[tokens] - p[0]))
              <= Unit * ((IF tokens = 0 THEN 0 ELSE 1)
                         + (TierIndex(tiers, start + tokens) - TierIndex(tiers, start)))
    <3> HIDE DEF p
    <3> QED
      BY <1>2, <2>3, <2>6, CategoryByToken
  <2> HIDE DEF p, q, b, cost, index
  <2> QED
    BY <2>2, <2>7, <2>8, <2>9, <2>10
<1>9. /\ spentOn(1) = 0 /\ \A i \in 1 .. 7 : spentOn(i) \in Int
      /\ \A i \in 1 .. 6 : spentOn(i + 1) = spentOn(i) + cost[i]
  <2>1. \A i \in 1 .. 6 : cost[i] \in Nat
    <3> HIDE DEF cost, q, b, index
    <3> QED
      BY <1>8
  <2> HIDE DEF cost
  <2>2. Ints(cost, 1 .. 6)
    BY <2>1 DEF Ints
  <2>3. 1 \in Int /\ 6 \in Int
    OBVIOUS
  <2>4. /\ \A n \in (1 - 1) .. 6 : Sum(cost, 1 .. n) \in Int
        /\ \A n \in 1 .. 6 : Sum(cost, 1 .. n) = Sum(cost, 1 .. (n - 1)) + cost[n]
        /\ Sum(cost, 1 .. (1 - 1)) = 0
    BY <2>2, <2>3, SumUpTo
  <2>5. \A i \in 1 .. 7 : i - 1 \in (1 - 1) .. 6
    OBVIOUS
  <2>6. \A i \in 1 .. 6 : (i + 1) - 1 = i
    OBVIOUS
  <2> QED
    BY <2>4, <2>5, <2>6
<1>10. /\ \A i \in 1 .. 7 : Cardinality(some(i)) \in Nat /\ IsFiniteSet(some(i))
       /\ Cardinality(some(1)) = 0
       /\ \A i \in 1 .. 6 : Cardinality(some(i + 1)) = Cardinality(some(i)) + (IF t(i) = 0 THEN 0 ELSE 1)
  <2>1. ASSUME NEW i \in 1 .. 7 PROVE Cardinality(some(i)) \in Nat /\ IsFiniteSet(some(i))
    <3>1. IsFiniteSet(1 .. (i - 1)) /\ some(i) \in SUBSET (1 .. (i - 1))
      BY FS_Interval
    <3> HIDE DEF some
    <3> QED
      BY <3>1, FS_Subset, FS_CardinalityType
  <2>2. some(1) = {}
    OBVIOUS
  <2>3. ASSUME NEW i \in 1 .. 6
        PROVE  Cardinality(some(i + 1)) = Cardinality(some(i)) + (IF t(i) = 0 THEN 0 ELSE 1)
    <3>0. t(i) \in Nat /\ i \in 1 .. 7
      <4> HIDE DEF t, b
      <4> QED
        BY <1>4
    <3>1. some(i + 1) = IF t(i) = 0 THEN some(i) ELSE some(i) \cup {i}
      <4>1. \A j : j \in 1 .. ((i + 1) - 1) <=> j \in 1 .. (i - 1) \/ j = i
        OBVIOUS
      <4> HIDE DEF t
      <4> QED
        BY <3>0, <4>1
    <3>2. i \notin some(i)
      OBVIOUS
    <3>3. IsFiniteSet(some(i)) /\ Cardinality(some(i)) \in Nat
      <4> HIDE DEF some
      <4> QED
        BY <2>1, <3>0
    <3> HIDE DEF some, t
    <3>4. Cardinality(some(i) \cup {i}) = Cardinality(some(i)) + 1
      BY <3>2, <3>3, FS_AddElement
    <3> QED
      BY <3>1, <3>3, <3>4
  <2> HIDE DEF some
  <2> QED
    BY <2>1, <2>2, <2>3, FS_EmptySet
<1>11. \A i \in 1 .. 7 : index(b(i)) \in 1 .. Len(tiers) /\ index(0) \in 1 .. Len(tiers) /\ Len(tiers) \in Nat
                         /\ q(b(i)) \in Int
  <2> SUFFICES ASSUME NEW i \in 1 .. 7
               PROVE  /\ index(b(i)) \in 1 .. Len(tiers) /\ index(0) \in 1 .. Len(tiers) /\ Len(tiers) \in Nat
                      /\ q(b(i)) \in Int
    OBVIOUS
  <2>1. b(i) \in Nat
    <3> HIDE DEF b
    <3> QED
      BY <1>4
  <2>2. before + b(i) \in Nat /\ before + 0 \in Nat /\ 1 \in DOMAIN tiers /\ before + b(i) <= before + b(i)
        /\ before + 0 <= before + 0
    <3>1. TierIndex(tiers, before) \in DOMAIN tiers
      BY <1>2, FirstReaching
    <3>2. DOMAIN tiers = 1 .. Len(tiers) /\ Len(tiers) \in Nat
      BY <1>2, <3>1, TierTyped
    <3> HIDE DEF b
    <3> QED
      BY <2>1, <3>1, <3>2
  <2>3. index(b(i)) \in 1 .. Len(tiers) /\ index(0) \in 1 .. Len(tiers) /\ Len(tiers) \in Nat
    <3> HIDE DEF b
    <3> QED
      BY <1>2, <2>2, TiersAscend, TierTyped
  <2>4. q(b(i)) \in Int
    <3>1. b(i) \in 0 .. N
      BY Ascending
    <3> HIDE DEF b, q, N
    <3> QED
      BY <1>7, <3>1
  <2> QED
    BY <2>3, <2>4
<1>12. Good(1)
  <2>1. Unit * 0 = 0 /\ OffBy(0) = 0
    BY UnitsTyped, SMTT(30) DEF OffBy
  <2>2. spentOn(1) = 0 /\ b(1) = 0 /\ q(0) = 0 /\ Cardinality(some(1)) = 0
    BY <1>4, <1>7, <1>9, <1>10
  <2>3. index(0) \in Int
    <3>1. 1 \in 1 .. 7
      OBVIOUS
    <3> HIDE DEF index, b, q
    <3> QED
      BY <1>11, <3>1
  <2> HIDE DEF spentOn, b, q, some, index
  <2>4. Unit * spentOn(1) - q(b(1)) = 0 /\ Cardinality(some(1)) + (index(b(1)) - index(0)) = 0
    BY <2>1, <2>2, <2>3
  <2> QED
    BY <2>1, <2>2, <2>4
<1>13. ASSUME NEW i \in 1 .. 6, Good(i) PROVE Good(i + 1)
  <2>1. i \in 1 .. 7 /\ i + 1 \in 1 .. 7
    OBVIOUS
  <2>2. PICK some0, some1, first, here, next, one :
          /\ some0 = Cardinality(some(i)) /\ some1 = Cardinality(some(i + 1)) /\ first = index(0)
          /\ here = index(b(i)) /\ next = index(b(i + 1)) /\ one = IF t(i) = 0 THEN 0 ELSE 1
    OBVIOUS
  <2>3. PICK spent0, spent1, q0, q1, c1 :
          /\ spent0 = spentOn(i) /\ spent1 = spentOn(i + 1)
          /\ q0 = q(b(i)) /\ q1 = q(b(i + 1)) /\ c1 = cost[i]
    OBVIOUS
  <2>4. some0 \in Int /\ some1 = some0 + one /\ one \in Int
    <3> HIDE DEF some, t
    <3>1. some0 \in Nat /\ some1 = some0 + one
      BY <1>10, <2>1, <2>2
    <3>2. one \in Int
      BY <2>2
    <3> QED
      BY <3>1, <3>2
  <2>5. first \in Int /\ here \in Int /\ next \in Int /\ q0 \in Int /\ q1 \in Int
    <3> HIDE DEF index, b, q
    <3>1. index(b(i)) \in 1 .. Len(tiers) /\ index(0) \in 1 .. Len(tiers) /\ Len(tiers) \in Nat /\ q(b(i)) \in Int
      BY <1>11, <2>1
    <3>2. index(b(i + 1)) \in 1 .. Len(tiers) /\ q(b(i + 1)) \in Int
      BY <1>11, <2>1
    <3>3. \A n \in 1 .. Len(tiers) : n \in Int
      BY <3>1
    <3> QED
      BY <2>2, <2>3, <3>1, <3>2, <3>3
  <2>6. spent1 = spent0 + c1
    <3> HIDE DEF spentOn, cost
    <3> QED
      BY <1>9, <2>3
  <2>7. c1 \in Nat /\ 2 * OffBy(Unit * c1 - (q1 - q0)) <= Unit * (one + (next - here))
    <3> HIDE DEF cost, q, b, index, t
    <3> QED
      BY <1>8, <2>2, <2>3
  <2>8. spent0 \in Nat /\ 2 * OffBy(Unit * spent0 - q0) <= Unit * (some0 + (here - first))
    <3> HIDE DEF spentOn, q, b, index, some
    <3> QED
      BY <1>13, <2>2, <2>3
  <2>9. spent1 \in Nat /\ 2 * OffBy(Unit * spent1 - q1) <= Unit * (some1 + (next - first))
    <3> HIDE DEF N, b, t, rate, x, q, cost, spentOn, index, some
    <3> DEFINE w0 == some0 + (here - first)
               w1 == one + (next - here)
               off0 == Unit * spent0 - q0
               off1 == Unit * c1 - (q1 - q0)
    <3>1. w0 \in Int /\ w1 \in Int /\ some1 + (next - first) = w0 + w1
      BY <2>4, <2>5
    <3>2. Unit * spent0 \in Int /\ Unit * c1 \in Int /\ Unit * spent1 = Unit * spent0 + Unit * c1
      <4>1. spent0 \in Int /\ c1 \in Int
        BY <2>7, <2>8
      <4> QED
        BY <2>6, <4>1, UnitsTyped, UnitTimes
    <3>3. off0 \in Int /\ off1 \in Int /\ Unit * spent1 - q1 = off0 + off1
      <4>1. PICK u0 \in Int, u1 \in Int : u0 = Unit * spent0 /\ u1 = Unit * c1
        BY <3>2
      <4>2. off0 = u0 - q0 /\ off1 = u1 - (q1 - q0) /\ Unit * spent1 = u0 + u1
        BY <3>2, <4>1
      <4> HIDE DEF off0, off1
      <4> QED
        BY <2>5, <4>1, <4>2
    <3>4. 2 * OffBy(off0) <= Unit * w0 /\ 2 * OffBy(off1) <= Unit * w1
      BY <2>7, <2>8
    <3> HIDE DEF w0, w1, off0, off1
    <3>5. Unit * (w0 + w1) = Unit * w0 + Unit * w1 /\ Unit * w0 \in Int /\ Unit * w1 \in Int
      BY <3>1, UnitsTyped, UnitTimes
    <3>6. /\ OffBy(off0 + off1) <= OffBy(off0) + OffBy(off1)
          /\ OffBy(off0) \in Nat /\ OffBy(off1) \in Nat /\ OffBy(off0 + off1) \in Nat
      <4>1. off0 + off1 \in Int
        BY <3>3
      <4> QED
        BY <3>3, <4>1, OffByAdds
    <3>7. 2 * OffBy(off0 + off1) <= Unit * (w0 + w1)
      <4>1. PICK v0 \in Int, v1 \in Int, v \in Int : v0 = Unit * w0 /\ v1 = Unit * w1 /\ v = Unit * (w0 + w1)
        <5>1. Unit * (w0 + w1) \in Int
          BY <3>5
        <5> QED
          BY <3>5, <5>1
      <4> QED
        BY <3>4, <3>5, <3>6, <4>1
    <3>8. spent1 \in Nat
      BY <2>6, <2>7, <2>8
    <3> QED
      BY <3>1, <3>3, <3>7, <3>8
  <2> HIDE DEF spentOn, q, b, index, some
  <2> QED
    BY <2>2, <2>3, <2>9
<1>14. Good(7)
  <2> HIDE DEF Good
  <2>1. 1 + 1 = 2 /\ 2 + 1 = 3 /\ 3 + 1 = 4 /\ 4 + 1 = 5 /\ 5 + 1 = 6 /\ 6 + 1 = 7
        /\ 1 \in 1 .. 6 /\ 2 \in 1 .. 6 /\ 3 \in 1 .. 6 /\ 4 \in 1 .. 6 /\ 5 \in 1 .. 6 /\ 6 \in 1 .. 6
    OBVIOUS
  <2>2. Good(2)
    BY <1>12, <1>13, <2>1
  <2>3. Good(3)
    BY <1>13, <2>1, <2>2
  <2>4. Good(4)
    BY <1>13, <2>1, <2>3
  <2>5. Good(5)
    BY <1>13, <2>1, <2>4
  <2>6. Good(6)
    BY <1>13, <2>1, <2>5
  <2> QED
    BY <1>13, <2>1, <2>6
<1>15. PICK w, chunks : w = Cardinality(some(7)) + (index(b(7)) - index(0)) /\ chunks = Chunks(c, m, event)
  OBVIOUS
<1>16. w \in Int /\ chunks \in Int /\ w <= chunks /\ q(N) \in Int
  <2>1. 7 \in 1 .. 7 /\ N \in Nat /\ N = b(7)
    BY <1>4, <1>7
  <2>2. /\ Cardinality(some(7)) \in Nat /\ index(b(7)) \in 1 .. Len(tiers) /\ index(0) \in 1 .. Len(tiers)
        /\ Len(tiers) \in Nat /\ q(b(7)) \in Int
    <3> HIDE DEF some, index, b, q, N
    <3> QED
      BY <1>10, <1>11, <2>1
  <2>3. chunks = Cardinality(some(7)) + Len(tiers) - 1
    BY <1>3, <1>15
  <2> HIDE DEF some, index, b, q, N
  <2> QED
    BY <1>15, <2>1, <2>2, <2>3, SMTT(30)
<1>17. spentOn(7) \in Nat /\ 2 * OffBy(Unit * spentOn(7) - q(N)) <= Unit * chunks
  <2>1. spentOn(7) \in Nat /\ 2 * OffBy(Unit * spentOn(7) - q(N)) <= Unit * w
    <3>1. N = b(7)
      BY <1>4
    <3> HIDE DEF spentOn, q, N, b, some, index
    <3> QED
      BY <1>14, <1>15, <3>1
  <2>2. Unit * w <= Unit * chunks /\ Unit * w \in Int /\ Unit * chunks \in Int
    BY <1>16, UnitsTyped, UnitTimes
  <2>3. OffBy(Unit * spentOn(7) - q(N)) \in Nat
    <3>1. PICK a \in Int : a = Unit * spentOn(7)
      <4>1. spentOn(7) \in Int
        <5> HIDE DEF spentOn
        <5> QED
          BY <2>1
      <4> QED
        BY <4>1, UnitsTyped
    <3>2. Unit * spentOn(7) - q(N) \in Int
      <4> HIDE DEF spentOn, q, N
      <4> QED
        BY <1>16, <3>1
    <3> QED
      BY <3>2, OffByAdds
  <2> HIDE DEF spentOn, q, N
  <2> QED
    BY <2>1, <2>2, <2>3
<1> HIDE DEF spentOn, q, N, some
<1> QED
  BY <1>3, <1>15, <1>16, <1>17

(* Under graduated prices an event costs what its tokens cost one by one,     *)
(* each at the tier of its own place in the month, but for half a             *)
(* micro-dollar per amount that is rounded: the walk of                       *)
(* CostCalculator.costCategoryGraduated, in Java and in Python, from any      *)
(* volume.                                                                    *)
THEOREM GraduatedByToken ==
  ASSUME NEW c, AcceptsCatalog(c), NEW m, ModeOf(ModelPricing(c, m)) = "graduated",
         NEW event \in [Kinds -> Nat], NEW before \in Nat, NEW impl
  PROVE  2 * OffBy(Unit * CostMicro(c, m, event, before, impl) - ExactCost(c, m, event, before))
           <= Unit * Chunks(c, m, event)
BY EventByToken

(* Every event has a price, in every mode.                                    *)
LEMMA EventPriced ==
  ASSUME NEW c, AcceptsCatalog(c), NEW m, NEW event \in [Kinds -> Nat], NEW before \in Nat, NEW impl
  PROVE  CostMicro(c, m, event, before, impl) \in Nat
<1>1. CASE ModeOf(ModelPricing(c, m)) = "graduated"
  BY <1>1, EventByToken
<1>2. CASE ModeOf(ModelPricing(c, m)) # "graduated"
  <2>1. PICK tiers : tiers = TiersOf(ModelPricing(c, m))
    OBVIOUS
  <2>2. Increasing(tiers) /\ tiers # <<>> /\ c.cacheRead \in Nat
    BY <2>1, TiersAccepted DEF AcceptsCatalog
  <2>3. PICK tier : /\ tier = TierAtToken(tiers, before)
                    /\ tier.input \in Nat /\ tier.output \in Nat /\ tier.embedding \in Nat
    BY <2>2, FirstReaching, TierTyped DEF TierAtToken
  <2> DEFINE cost == [i \in Order |-> Rounded(impl, event[Categories[i]]
                                                    * RateFor(tier, Categories[i], c.cacheRead))]
  <2>4. CostMicro(c, m, event, before, impl) = Sum(cost, Order)
    <3>1. CostMicro(c, m, event, before, impl) = SumFunction(cost)
      BY <1>2, <2>1, <2>3 DEF CostMicro, CostAtTier
    <3>2. DOMAIN cost = Order
      OBVIOUS
    <3> HIDE DEF cost
    <3> QED
      BY <3>1, <3>2, WholeSum
  <2>5. ASSUME NEW i \in Order PROVE cost[i] \in Nat
    <3>1. Categories[i] \in Kinds /\ event[Categories[i]] \in Nat
      BY DEF Kinds
    <3>2. RateFor(tier, Categories[i], c.cacheRead) \in Nat
      BY <2>2, <2>3, <3>1, RateTyped
    <3>3. event[Categories[i]] * RateFor(tier, Categories[i], c.cacheRead) \in Nat
      BY <3>1, <3>2
    <3> QED
      BY <3>3, RoundedTyped
  <2>6. IsFiniteSet(Order) /\ Order \in SUBSET Order
    <3>1. 1 \in Int /\ 6 \in Int /\ Order = 1 .. 6
      BY Sixfold
    <3> QED
      BY <3>1, FS_Interval
  <2> HIDE DEF cost
  <2>7. Sum(cost, Order) \in Nat
    BY <2>5, <2>6, SumOfNats
  <2> QED
    BY <2>4, <2>7
<1> QED
  BY <1>1, <1>2

(***************************************************************************)
(* The rest of the types.  The topic is bounded, hence the volume of a     *)
(* month, hence the meter never leaves the places that have a price.       *)
(***************************************************************************)
Heaviest == IF Ids = {} THEN 0 ELSE Max({Volume[e] : e \in Ids})

(* The greatest of finitely many values.                                      *)
LEMMA Greatest ==
  ASSUME NEW S, IsFiniteSet(S), S # {}, NEW f, \A u \in S : f[u] \in Nat
  PROVE  /\ Max({f[u] : u \in S}) \in Nat
         /\ \A u \in S : f[u] <= Max({f[v] : v \in S})
<1> DEFINE P == {T \in SUBSET S : T = {} \/ \E x \in T : \A y \in T : f[y] <= f[x]}
           V == {f[u] : u \in S}
<1>1. ASSUME NEW T \in P, NEW x \in S \ T PROVE T \cup {x} \in P
  <2>1. f[x] \in Nat /\ \A y \in T : f[y] \in Nat
    OBVIOUS
  <2>2. CASE T = {}
    BY <2>1, <2>2
  <2>3. CASE T # {}
    <3>1. PICK z \in T : \A y \in T : f[y] <= f[z]
      BY <2>3
    <3>2. CASE f[x] <= f[z]
      BY <3>1, <3>2
    <3>3. CASE ~(f[x] <= f[z])
      <4>1. \A y \in T : f[y] <= f[x]
        BY <2>1, <3>1, <3>3
      <4>2. \A y \in T \cup {x} : f[y] <= f[x]
        BY <2>1, <4>1
      <4> QED
        BY <4>2
    <3> QED
      BY <3>2, <3>3
  <2> QED
    BY <2>2, <2>3
<1>2. P = SUBSET S
  <2>1. P \in SUBSET (SUBSET S) /\ {} \in P
    OBVIOUS
  <2> HIDE DEF P
  <2> QED
    BY <1>1, <2>1, AllSubsets
<1>3. PICK x \in S : \A y \in S : f[y] <= f[x]
  <2>1. S \in P
    BY <1>2
  <2> QED
    BY <2>1
<1>4. f[x] \in V /\ \A v \in V : f[x] >= v
  BY <1>3
<1>5. Max(V) \in V /\ \A v \in V : Max(V) >= v
  <2> HIDE DEF V
  <2> QED
    BY <1>4 DEF Max
<1>6. Max(V) \in Nat /\ \A u \in S : f[u] \in V
  BY <1>5
<1>7. ASSUME NEW u \in S PROVE f[u] <= Max(V)
  <2> HIDE DEF V
  <2> QED
    BY <1>5, <1>6
<1> QED
  BY <1>6, <1>7

(* What an event weighs.                                                      *)
LEMMA EventsWeigh ==
  /\ \A e \in Ids : Usage[e] \in [Kinds -> Nat] /\ Volume[e] \in Nat /\ Volume[e] <= Heaviest
  /\ Heaviest \in Nat
<1>1. \A e \in Ids : Usage[e] \in [Kinds -> Nat]
  BY MeteringAssumption DEF Kinds
<1>2. ASSUME NEW e \in Ids PROVE Volume[e] \in Nat
  <2>1. TotalTokens(Usage[e]) \in Nat
    <3>1. 7 \in 1 .. 7
      OBVIOUS
    <3> QED
      BY <1>1, <3>1, CategoriesFollow
  <2> QED
    BY <2>1 DEF Volume
<1>3. CASE Ids # {}
  <2>1. IsFiniteSet(Ids) /\ Heaviest = Max({Volume[e] : e \in Ids})
    BY <1>3, MeteringAssumption DEF Heaviest
  <2>2. PICK f : f = Volume
    OBVIOUS
  <2>3. \A e \in Ids : f[e] \in Nat
    BY <1>2, <2>2
  <2>4. Max({f[e] : e \in Ids}) \in Nat /\ \A e \in Ids : f[e] <= Max({f[u] : u \in Ids})
    BY <1>3, <2>1, <2>3, Greatest
  <2> QED
    BY <1>1, <1>2, <2>1, <2>2, <2>4
<1>4. CASE Ids = {}
  BY <1>4 DEF Heaviest
<1> QED
  BY <1>3, <1>4

(* More records may weigh more.                                               *)
LEMMA WeightGrows ==
  ASSUME NEW n \in Nat
  PROVE  /\ n * Heaviest \in Nat /\ (n + 1) * Heaviest = n * Heaviest + Heaviest
         /\ \A k \in Nat : n <= k => n * Heaviest <= k * Heaviest
<1>1. PICK h \in Nat : h = Heaviest
  BY EventsWeigh
<1>2. n * h \in Nat /\ (n + 1) * h = n * h + h
  OBVIOUS
<1>3. ASSUME NEW k \in Nat, n <= k PROVE n * h <= k * h
  <2>1. (k - n) \in Nat
    BY <1>3
  <2>2. (k - n) * h \in Nat /\ k * h = n * h + (k - n) * h
    BY <2>1
  <2> QED
    BY <1>2, <2>2
<1> QED
  BY <1>1, <1>2, <1>3

(* Every event has a price at every place that a volume can reach.            *)
LEMMA PlacesPriced ==
  ASSUME NEW e \in Ids, NEW n \in Nat, n <= MaxLog + MaxReplays, NEW v \in Nat, v <= n * Heaviest
  PROVE  /\ v \in Places
         /\ Cost[e][v] = EventCost(Catalog, Model, Usage[e], v)
         /\ Cost[e][v] \in Nat
<1>1. v \in Places
  <2>1. Heaviest = Max({Volume[f] : f \in Ids})
    BY DEF Heaviest
  <2>2. MaxLog + MaxReplays \in Nat
    BY MeteringAssumption
  <2>3. n * Heaviest <= (MaxLog + MaxReplays) * Heaviest /\ n * Heaviest \in Nat
        /\ (MaxLog + MaxReplays) * Heaviest \in Nat
    BY <2>2, WeightGrows
  <2>4. v <= (MaxLog + MaxReplays) * Heaviest
    BY <2>3
  <2> QED
    BY <2>1, <2>3, <2>4 DEF Places
<1>2. Cost[e][v] = EventCost(Catalog, Model, Usage[e], v)
  BY <1>1 DEF Cost
<1>3. AcceptsCatalog(Catalog) /\ Usage[e] \in [Kinds -> Nat]
  BY MeteringAssumption, EventsWeigh
<1>4. EventCost(Catalog, Model, Usage[e], v) \in Nat
  BY <1>3, EventPriced DEF EventCost
<1> QED
  BY <1>1, <1>2, <1>4

\* The volume on a meter that has seen n records at most.
MeterFits(m, n) ==
  m \in [month : Nat \cup {NoMonth}, tokens : Nat] /\ m.tokens <= n * Heaviest

Stamps == Seq([pos : Nat, before : Nat])
PlacesOf(s) == {s[i].pos : i \in DOMAIN s}

Fits ==
  /\ Len(log) <= MaxLog + replays /\ replays <= MaxReplays
  /\ MeterFits(meter, Cardinality(read)) /\ MeterFits(saved.meter, saved.offset)
  /\ stamped \in Stamps /\ PlacesOf(stamped) \subseteq read /\ collected \subseteq PlacesOf(stamped)
  /\ saved.stamped \in Stamps /\ PlacesOf(saved.stamped) \subseteq 1 .. saved.offset
  /\ saved.collected \subseteq PlacesOf(saved.stamped)
  /\ wm < now /\ spent \in Nat /\ placed \in [Ids -> Nat] /\ applied \subseteq Nat
  /\ 0 < saved.at /\ \A m \in buffer \cup dlq : m.at <= now

(* The records read are as many as the topic has at most.                     *)
LEMMA ReadCounted ==
  ASSUME Types
  PROVE  /\ IsFiniteSet(read) /\ Cardinality(read) \in Nat /\ Cardinality(read) <= Len(log)
         /\ \A n \in DOMAIN log \ read :
              /\ Cardinality(read \cup {n}) = Cardinality(read) + 1
              /\ Cardinality(read) + 1 <= Len(log)
<1>1. Len(log) \in Nat /\ DOMAIN log = 1 .. Len(log) /\ 1 \in Int
  BY Length
<1>2. IsFiniteSet(DOMAIN log) /\ Cardinality(DOMAIN log) = Len(log)
  <2>1. IsFiniteSet(1 .. Len(log))
        /\ Cardinality(1 .. Len(log)) = IF 1 > Len(log) THEN 0 ELSE Len(log) - 1 + 1
    BY <1>1, FS_Interval, SMTT(30)
  <2> QED
    BY <1>1, <2>1
<1>3. read \subseteq DOMAIN log
  BY DEF Types
<1>4. IsFiniteSet(read) /\ Cardinality(read) \in Nat /\ Cardinality(read) <= Len(log)
  BY <1>2, <1>3, FS_Subset, FS_CardinalityType
<1>5. ASSUME NEW n \in DOMAIN log \ read
      PROVE  Cardinality(read \cup {n}) = Cardinality(read) + 1 /\ Cardinality(read) + 1 <= Len(log)
  <2>1. Cardinality(read \cup {n}) = Cardinality(read) + 1
    BY <1>4, <1>5, FS_AddElement
  <2>2. read \cup {n} \subseteq DOMAIN log
    BY <1>3
  <2>3. Cardinality(read \cup {n}) <= Cardinality(DOMAIN log)
    BY <1>2, <2>2, FS_Subset
  <2> QED
    BY <1>2, <2>1, <2>3
<1> QED
  BY <1>4, <1>5

(* One more stamp.                                                            *)
LEMMA StampAppended ==
  ASSUME NEW s \in Stamps, NEW x \in [pos : Nat, before : Nat]
  PROVE  /\ Len(s) \in Nat /\ DOMAIN s = 1 .. Len(s)
         /\ Append(s, x) \in Stamps
         /\ DOMAIN Append(s, x) = 1 .. (Len(s) + 1) /\ Len(Append(s, x)) = Len(s) + 1
         /\ Append(s, x)[Len(s) + 1] = x
         /\ \A i \in DOMAIN s : Append(s, x)[i] = s[i]
         /\ PlacesOf(Append(s, x)) = PlacesOf(s) \cup {x.pos}
<1> DEFINE T == [pos : Nat, before : Nat]
<1>1. x \in T /\ s \in Seq(T)
  BY DEF Stamps
<1> HIDE DEF T
<1>2. PICK r : r = Append(s, x)
  OBVIOUS
<1>3. /\ Len(s) \in Nat /\ DOMAIN s = 1 .. Len(s)
      /\ r \in Seq(T) /\ Len(r) = Len(s) + 1 /\ DOMAIN r = 1 .. (Len(s) + 1)
      /\ r[Len(s) + 1] = x
      /\ \A i \in DOMAIN s : r[i] = s[i]
  BY <1>1, <1>2
<1>4. r \in Stamps
  BY <1>3 DEF T, Stamps
<1>5. DOMAIN r = DOMAIN s \cup {Len(s) + 1}
  BY <1>3
<1>6. PlacesOf(r) = PlacesOf(s) \cup {x.pos}
  BY <1>3, <1>5 DEF PlacesOf
<1> QED
  BY <1>2, <1>3, <1>4, <1>6

(* A stamp has a position and a volume ahead.                                 *)
LEMMA StampTyped ==
  ASSUME NEW s \in Stamps
  PROVE  /\ Len(s) \in Nat /\ DOMAIN s = 1 .. Len(s) /\ IsFiniteSet(DOMAIN s)
         /\ \A i \in DOMAIN s : s[i].pos \in Nat /\ s[i].before \in Nat /\ s[i].pos \in PlacesOf(s)
<1> DEFINE T == [pos : Nat, before : Nat]
<1>1. s \in Seq(T)
  BY DEF Stamps
<1> HIDE DEF T
<1>2. Len(s) \in Nat /\ DOMAIN s = 1 .. Len(s) /\ 1 \in Int /\ \A i \in DOMAIN s : s[i] \in T
  BY <1>1
<1>3. IsFiniteSet(DOMAIN s)
  BY <1>2, FS_Interval
<1>4. ASSUME NEW i \in DOMAIN s PROVE s[i].pos \in Nat /\ s[i].before \in Nat /\ s[i].pos \in PlacesOf(s)
  BY <1>2 DEF T, PlacesOf
<1> QED
  BY <1>2, <1>3, <1>4

(* What the stamp of a record does to the meter: it goes on from what the     *)
(* meter shows for the month, or from nothing.                                *)
LEMMA Stamping ==
  ASSUME Types, Fits, NEW n, Collect(n)
  PROVE  \E e \in Ids, v \in Nat :
           /\ e = log[n].id
           /\ v = IF meter.month = Month(log[n].stamp) THEN meter.tokens ELSE 0
           /\ meter'.month = Month(log[n].stamp) /\ meter'.tokens = v + Volume[e]
           /\ MeterFits(meter', Cardinality(read'))
           /\ stamped' = Append(stamped, [pos |-> n, before |-> v])
           /\ Cost[e][v] \in Nat /\ v \in Places
           /\ \/ now < marker[e] /\ UNCHANGED <<marker, projected, spent, placed>>
              \/ /\ ~(now < marker[e])
                 /\ projected' = [projected EXCEPT ![e] = @ + 1]
                 /\ marker' = [marker EXCEPT ![e] = now + MarkerTTL]
                 /\ spent' = spent + Cost[e][v]
                 /\ placed' = [placed EXCEPT ![e] = v]
<1> DEFINE t == log[n].stamp
           m == Rolled(t)
<1>1. PICK e \in Ids : e = log[n].id
  BY Reading
<1>2. PICK k \in Nat : k = Cardinality(read) /\ Cardinality(read') = k + 1 /\ k + 1 <= Len(log)
  <2>1. n \in DOMAIN log \ read /\ read' = read \cup {n}
    BY Reading
  <2> QED
    BY <2>1, ReadCounted
<1>3. n \in DOMAIN log /\ t \in Nat /\ Len(log) \in Nat
  <2>1. n \in DOMAIN log
    BY Reading
  <2>2. t \in Nat
    BY <2>1, RecordTyped
  <2> HIDE DEF t
  <2> QED
    BY <2>1, <2>2, Length
<1>4. Month(t) \in Nat
  <2>1. MonthWidth \in Nat \ {0}
    BY MeteringAssumption
  <2> HIDE DEF t
  <2> QED
    BY <1>3, <2>1, Quotient DEF Month
<1>5. meter.tokens \in Nat /\ meter.tokens <= k * Heaviest
  BY <1>2 DEF Fits, MeterFits
<1>6. k * Heaviest \in Nat /\ (k + 1) * Heaviest = k * Heaviest + Heaviest
  BY <1>2, WeightGrows
<1>7. m.month = Month(t) /\ m.tokens = IF meter.month = Month(t) THEN meter.tokens ELSE 0
  BY DEF Rolled
<1>8. PICK v \in Nat : v = m.tokens /\ v <= k * Heaviest
  BY <1>5, <1>6, <1>7
<1>9. /\ stamped' = Append(stamped, [pos |-> n, before |-> v])
      /\ meter' = [m EXCEPT !.tokens = v + Volume[e]]
  BY <1>1, <1>8 DEF Collect, Stamp
<1>10. meter' = [month |-> Month(t), tokens |-> v + Volume[e]]
  <2>1. m = [month |-> Month(t), tokens |-> m.tokens]
    <3>1. CASE meter.month = Month(t)
      <4>1. meter \in [month : Nat \cup {NoMonth}, tokens : Nat]
        BY DEF Fits, MeterFits
      <4> HIDE DEF t
      <4> QED
        BY <3>1, <4>1 DEF Rolled
    <3>2. CASE meter.month # Month(t)
      BY <3>2 DEF Rolled
    <3> QED
      BY <3>1, <3>2
  <2> HIDE DEF m, t
  <2> QED
    BY <1>9, <2>1
<1>11. MeterFits(meter', Cardinality(read'))
  <2>1. Volume[e] \in Nat /\ Volume[e] <= Heaviest /\ Heaviest \in Nat
    BY <1>1, EventsWeigh
  <2>2. v + Volume[e] \in Nat /\ v + Volume[e] <= (k + 1) * Heaviest
    BY <1>6, <1>8, <2>1
  <2> HIDE DEF t
  <2> QED
    BY <1>2, <1>4, <1>10, <2>2 DEF MeterFits
<1>12. Cost[e][v] \in Nat /\ v \in Places
  <2>1. k <= MaxLog + MaxReplays
    <3>1. Len(log) <= MaxLog + replays /\ replays <= MaxReplays /\ replays \in Nat
      BY DEF Fits, Types
    <3>2. MaxLog \in Nat /\ MaxReplays \in Nat
      BY MeteringAssumption
    <3> QED
      BY <1>2, <1>3, <3>1, <3>2
  <2> QED
    BY <1>1, <1>2, <1>8, <2>1, PlacesPriced
<1>13. \/ now < marker[e] /\ UNCHANGED <<marker, projected, spent, placed>>
       \/ /\ ~(now < marker[e])
          /\ projected' = [projected EXCEPT ![e] = @ + 1]
          /\ marker' = [marker EXCEPT ![e] = now + MarkerTTL]
          /\ spent' = spent + Cost[e][v]
          /\ placed' = [placed EXCEPT ![e] = v]
  <2>1. Project(e, v)
    BY <1>1, <1>8 DEF Collect
  <2> QED
    BY <2>1 DEF Project
<1> HIDE DEF m
<1> QED
  BY <1>1, <1>7, <1>8, <1>9, <1>10, <1>11, <1>12, <1>13

(* Records that are not metered leave room on the meter.                      *)
LEMMA MeterStillFits ==
  ASSUME Types, Fits, NEW n \in DOMAIN log \ read
  PROVE  MeterFits(meter, Cardinality(read \cup {n}))
<1>1. PICK k \in Nat : k = Cardinality(read) /\ Cardinality(read \cup {n}) = k + 1
  BY ReadCounted
<1>2. k * Heaviest \in Nat /\ (k + 1) * Heaviest = k * Heaviest + Heaviest /\ Heaviest \in Nat
  BY WeightGrows, EventsWeigh
<1>3. meter.tokens \in Nat /\ meter.tokens <= k * Heaviest
  BY <1>1 DEF Fits, MeterFits
<1>4. meter.tokens <= (k + 1) * Heaviest
  BY <1>2, <1>3
<1> QED
  BY <1>1, <1>4 DEF Fits, MeterFits

(* The meter, the stamps and the windows stay within what was read.           *)
LEMMA FitsStep ==
  ASSUME Types, InTime, Fits, Next
  PROVE  Fits'
<1>0. /\ now \in Nat \ {0} /\ Len(log) \in Nat /\ replays \in Nat /\ wm \in Nat
      /\ saved.at \in Nat /\ saved.offset \in Nat
      /\ MaxLog \in Nat /\ MaxReplays \in Nat
  BY Length, MeteringAssumption DEF Types
<1>1. ASSUME NEW e \in Ids, NEW t \in Nat \ {0}, Publish(e, t) PROVE Fits'
  <2>1. PICK r \in Records : log' = Append(log, r)
    BY <1>1, Publishing
  <2>2. Len(log') = Len(log) + 1
    BY <2>1, Appended
  <2>3. /\ Len(log) < MaxLog
        /\ UNCHANGED <<now, read, wm, meter, stamped, collected, applied, spent, placed, buffer, dlq,
                       saved, replays>>
    BY <1>1 DEF Publish, job, volume, redis
  <2>4. Len(log') <= MaxLog + replays'
    BY <1>0, <2>2, <2>3
  <2> QED
    BY <2>3, <2>4 DEF Fits
<1>2. ASSUME NEW n, Drop(n) PROVE Fits'
  <2>1. /\ read' = read \cup {n} /\ Readable(n)
        /\ UNCHANGED <<now, log, wm, meter, stamped, collected, applied, spent, placed, buffer, dlq,
                       saved, replays>>
    BY <1>2 DEF Drop, volume, redis
  <2>2. MeterFits(meter, Cardinality(read \cup {n}))
    BY <2>1, NextTyped, MeterStillFits
  <2> QED
    BY <2>1, <2>2 DEF Fits
<1>3. ASSUME NEW n, RouteLate(n) PROVE Fits'
  <2>1. /\ read' = read \cup {n} /\ Readable(n)
        /\ buffer' = buffer \cup {[pos |-> n, at |-> now]}
        /\ UNCHANGED <<now, log, wm, meter, stamped, collected, applied, spent, placed, dlq,
                       saved, replays>>
    BY <1>3 DEF RouteLate, ToDlq, volume, redis
  <2>2. MeterFits(meter, Cardinality(read \cup {n}))
    BY <2>1, NextTyped, MeterStillFits
  <2>3. \A m \in buffer' \cup dlq' : m.at <= now'
    BY <1>0, <2>1 DEF Fits
  <2> QED
    BY <2>1, <2>2, <2>3 DEF Fits
<1>4. ASSUME NEW n, Collect(n) PROVE Fits'
  <2>1. PICK e \in Ids, v \in Nat :
          /\ MeterFits(meter', Cardinality(read'))
          /\ stamped' = Append(stamped, [pos |-> n, before |-> v])
          /\ Cost[e][v] \in Nat /\ spent' \in {spent, spent + Cost[e][v]}
          /\ placed' \in {placed, [placed EXCEPT ![e] = v]}
    <3>1. PICK e \in Ids, v \in Nat :
            /\ e = log[n].id
            /\ v = IF meter.month = Month(log[n].stamp) THEN meter.tokens ELSE 0
            /\ meter'.month = Month(log[n].stamp) /\ meter'.tokens = v + Volume[e]
            /\ MeterFits(meter', Cardinality(read'))
            /\ stamped' = Append(stamped, [pos |-> n, before |-> v])
            /\ Cost[e][v] \in Nat /\ v \in Places
            /\ \/ now < marker[e] /\ UNCHANGED <<marker, projected, spent, placed>>
               \/ /\ ~(now < marker[e])
                  /\ projected' = [projected EXCEPT ![e] = @ + 1]
                  /\ marker' = [marker EXCEPT ![e] = now + MarkerTTL]
                  /\ spent' = spent + Cost[e][v]
                  /\ placed' = [placed EXCEPT ![e] = v]
      BY <1>4, Stamping
    <3> QED
      BY <3>1
  <2>2. /\ read' = read \cup {n} /\ n \in DOMAIN log
        /\ collected' \subseteq collected \cup {n}
        /\ buffer' \subseteq buffer \cup {[pos |-> n, at |-> now]}
        /\ UNCHANGED <<now, log, wm, applied, dlq, saved, replays>>
    BY <1>4, Reading
  <2>3. n \in Nat /\ stamped \in Stamps
    BY <2>2, Length DEF Fits
  <2>4. stamped' \in Stamps /\ PlacesOf(stamped') = PlacesOf(stamped) \cup {n}
    <3>1. PICK x \in [pos : Nat, before : Nat] : x = [pos |-> n, before |-> v] /\ x.pos = n
      <4>1. [pos |-> n, before |-> v] \in [pos : Nat, before : Nat]
        BY <2>3
      <4> QED
        BY <4>1
    <3>2. stamped' = Append(stamped, x)
      BY <2>1, <3>1
    <3>3. Append(stamped, x) \in Stamps /\ PlacesOf(Append(stamped, x)) = PlacesOf(stamped) \cup {x.pos}
      BY <2>3, StampAppended
    <3> QED
      BY <3>1, <3>2, <3>3
  <2>5. /\ stamped' \in Stamps /\ PlacesOf(stamped)' \subseteq read'
        /\ collected' \subseteq PlacesOf(stamped)'
    BY <2>2, <2>4 DEF Fits, PlacesOf
  <2>6. spent' \in Nat
    BY <2>1 DEF Fits
  <2>7. placed' \in [Ids -> Nat]
    BY <2>1 DEF Fits
  <2>8. \A m \in buffer' \cup dlq' : m.at <= now'
    <3>1. now <= now
      BY <1>0
    <3> QED
      BY <2>2, <3>1 DEF Fits
  <2> QED
    BY <2>1, <2>2, <2>5, <2>6, <2>7, <2>8 DEF Fits
<1>5. ASSUME NEW t \in Nat \ {0}, Advance(t) PROVE Fits'
  BY <1>5 DEF Advance, Fits, volume, redis
<1>6. ASSUME NEW w \in Nat, Fire(w) PROVE Fits'
  <2>1. /\ collected' \subseteq collected /\ applied' = applied \cup {w}
        /\ UNCHANGED <<now, log, read, wm, meter, stamped, spent, placed, buffer, dlq, saved, replays>>
    BY <1>6 DEF Fire, volume
  <2> QED
    BY <2>1 DEF Fits
<1>7. ASSUME NEW m \in buffer, Deliver(m) \/ LoseLate(m) PROVE Fits'
  <2>1. /\ buffer' \cup dlq' \subseteq buffer \cup dlq
        /\ UNCHANGED <<now, log, read, wm, meter, stamped, collected, applied, spent, placed,
                       saved, replays>>
    BY <1>7 DEF Deliver, LoseLate, volume, job, redis
  <2> QED
    BY <2>1 DEF Fits
<1>8. ASSUME NEW m \in dlq, Replay(m) PROVE Fits'
  <2>1. PICK r \in Records : log' = Append(log, r)
    BY <1>8, Replaying
  <2>2. Len(log') = Len(log) + 1
    BY <2>1, Appended
  <2>3. /\ replays < MaxReplays /\ replays' = replays + 1 /\ dlq' \subseteq dlq
        /\ UNCHANGED <<now, read, wm, meter, stamped, collected, applied, spent, placed, buffer,
                       saved>>
    BY <1>8 DEF Replay, job, volume, redis
  <2>4. Len(log) <= MaxLog + replays
    BY DEF Fits
  <2>5. Len(log') <= MaxLog + replays' /\ replays' <= MaxReplays
    BY <1>0, <2>2, <2>3, <2>4
  <2> QED
    BY <2>3, <2>5 DEF Fits
<1>9. CASE Save
  <2>1. PICK n \in 0 .. Len(log) :
          /\ read = 1 .. n
          /\ saved' = [offset |-> n, seen |-> seen, meter |-> meter, stamped |-> stamped,
                       collected |-> collected, at |-> now]
    BY <1>9 DEF Save
  <2>2. UNCHANGED <<now, log, read, wm, meter, stamped, collected, applied, spent, placed, buffer, dlq,
                    replays>>
    BY <1>9 DEF Save, volume, job, redis
  <2>3. /\ saved'.offset = n /\ saved'.meter = meter /\ saved'.stamped = stamped
        /\ saved'.collected = collected /\ saved'.at = now
    BY <2>1
  <2>4. Cardinality(read) = n
    BY <2>1, FS_Interval
  <2>5. MeterFits(saved.meter, saved.offset)'
    BY <2>3, <2>4 DEF Fits, MeterFits
  <2>6. 0 < saved'.at
    BY <1>0, <2>3
  <2>7. /\ saved'.stamped \in Stamps /\ PlacesOf(saved.stamped)' \subseteq 1 .. saved'.offset
        /\ saved'.collected \subseteq PlacesOf(saved.stamped)'
    BY <2>1, <2>3 DEF Fits, PlacesOf
  <2> QED
    BY <2>2, <2>5, <2>6, <2>7 DEF Fits
<1>10. CASE Crash
  <2>1. /\ read' = 1 .. saved.offset /\ meter' = saved.meter /\ stamped' = saved.stamped
        /\ collected' = saved.collected /\ wm' = 0 /\ buffer' = {}
        /\ UNCHANGED <<now, log, applied, spent, placed, dlq, saved, replays>>
    BY <1>10 DEF Crash, redis
  <2>2. wm' < now'
    BY <1>0, <2>1
  <2>3. Cardinality(read') = saved.offset
    BY <1>0, <2>1, FS_Interval, SMTT(30)
  <2>4. MeterFits(meter, Cardinality(read))'
    BY <2>1, <2>3 DEF Fits, MeterFits
  <2>5. /\ stamped' \in Stamps /\ PlacesOf(stamped)' \subseteq read'
        /\ collected' \subseteq PlacesOf(stamped)'
    BY <2>1 DEF Fits, PlacesOf
  <2> QED
    BY <2>1, <2>2, <2>4, <2>5 DEF Fits
<1>11. CASE Tick
  <2>1. /\ now' = now + 1
        /\ UNCHANGED <<log, read, wm, meter, stamped, collected, applied, spent, placed, buffer, dlq,
                       saved, replays>>
    BY <1>11 DEF Tick, volume, job, redis
  <2>2. wm' < now'
    BY <1>0, <2>1 DEF Fits
  <2>3. \A m \in buffer' \cup dlq' : m.at <= now'
    <3>1. \A m \in buffer \cup dlq : m.at \in Nat
      BY LateTyped
    <3> QED
      BY <1>0, <2>1, <3>1 DEF Fits
  <2> QED
    BY <2>1, <2>2, <2>3 DEF Fits
<1> QED
  BY <1>1, <1>2, <1>3, <1>4, <1>5, <1>6, <1>7, <1>8, <1>9, <1>10, <1>11, Actions

(***************************************************************************)
(* Volumes.  While the months of the stamped records do not go back, the   *)
(* meter shows what was stamped of its month, in whatever order, and so    *)
(* does every stamp.  M, W and B are the months, the weights and the       *)
(* volumes ahead of the first k stamps.                                    *)
(***************************************************************************)
Alike(M, i) == {j \in 1 .. (i - 1) : M[j] = M[i]}
InMonth(M, k, month) == {j \in 1 .. k : M[j] = month}

Right(M, W, B, k, m) ==
  (\A i, j \in 1 .. k : i < j => M[i] <= M[j]) =>
    /\ \A i \in 1 .. k : M[i] <= m.month
    /\ k # 0 => \E i \in 1 .. k : M[i] = m.month
    /\ m.tokens = Sum(W, InMonth(M, k, m.month))
    /\ \A i \in 1 .. k : B[i] = Sum(W, Alike(M, i))

Months(s) == [i \in DOMAIN s |-> Month(log[s[i].pos].stamp)]
Weights(s) == [i \in DOMAIN s |-> Volume[log[s[i].pos].id]]
Aheads(s) == [i \in DOMAIN s |-> s[i].before]

MeterRight(s, m) == Right(Months(s), Weights(s), Aheads(s), Len(s), m)

Volumes == MeterRight(stamped, meter) /\ MeterRight(saved.stamped, saved.meter)

(* The next record of a month continues its volume; that of another month     *)
(* begins one.                                                                *)
LEMMA MeterGoesOn ==
  ASSUME NEW k \in Nat,
         NEW M, NEW W, NEW B, \A i \in 1 .. (k + 1) : M[i] \in Nat /\ W[i] \in Nat,
         NEW m, Right(M, W, B, k, m),
         B[k + 1] = (IF m.month = M[k + 1] THEN m.tokens ELSE 0),
         NEW n, n.month = M[k + 1], n.tokens = B[k + 1] + W[k + 1]
  PROVE  Right(M, W, B, k + 1, n)
<1> DEFINE K == 1 .. k
           p == k + 1
<1> SUFFICES ASSUME \A i, j \in 1 .. (k + 1) : i < j => M[i] <= M[j]
             PROVE  /\ \A i \in 1 .. (k + 1) : M[i] <= n.month
                    /\ \E i \in 1 .. (k + 1) : M[i] = n.month
                    /\ n.tokens = Sum(W, InMonth(M, k + 1, n.month))
                    /\ \A i \in 1 .. (k + 1) : B[i] = Sum(W, Alike(M, i))
  BY DEF Right
<1>1. /\ 1 .. (k + 1) = K \cup {p} /\ p \notin K /\ p \in 1 .. (k + 1) /\ 1 .. (p - 1) = K
      /\ \A i \in K : i \in 1 .. (k + 1) /\ i < p
  OBVIOUS
<1>2. /\ \A i \in K : M[i] <= m.month
      /\ k # 0 => \E i \in K : M[i] = m.month
      /\ m.tokens = Sum(W, InMonth(M, k, m.month))
      /\ \A i \in K : B[i] = Sum(W, Alike(M, i))
  BY <1>1 DEF Right
<1>3. \A i \in K : M[i] <= M[p] /\ M[i] \in Nat
  BY <1>1
<1>4. M[p] \in Nat /\ W[p] \in Nat
  BY <1>1
<1> HIDE DEF p
<1>5. PICK ahead : ahead = InMonth(M, k, M[p])
  OBVIOUS
<1>6. Alike(M, p) = ahead
  BY <1>1, <1>5 DEF Alike, InMonth
<1>7. InMonth(M, p, M[p]) = ahead \cup {p} /\ p \notin ahead /\ ahead \in SUBSET (1 .. p)
  BY <1>1, <1>5 DEF InMonth, p
<1>8. B[p] = Sum(W, ahead)
  <2>1. CASE m.month = M[p]
    BY <1>2, <1>5, <2>1 DEF p
  <2>2. CASE m.month # M[p]
    <3>1. ahead = {}
      <4> SUFFICES ASSUME NEW i \in K, M[i] = M[p] PROVE FALSE
        BY <1>5 DEF InMonth
      <4>1. k # 0
        OBVIOUS
      <4>2. PICK j \in K : M[j] = m.month
        BY <1>2, <4>1
      <4>3. M[p] <= M[j] /\ M[j] <= M[p]
        BY <1>2, <1>3, <4>2
      <4>4. M[p] = M[j]
        BY <1>3, <1>4, <4>3
      <4> QED
        BY <2>2, <4>2, <4>4
    <3> QED
      BY <2>2, <3>1, SumOfNone DEF p
  <2> QED
    BY <2>1, <2>2
<1>9. Sum(W, ahead \cup {p}) = W[p] + Sum(W, ahead) /\ Sum(W, ahead) \in Int
  <2>1. PICK U : U = 1 .. p
    OBVIOUS
  <2>2. p \in Nat
    BY DEF p
  <2>3. IsFiniteSet(U) /\ \A u \in U : W[u] \in Int
    <3>1. 1 \in Int /\ p \in Int
      BY <2>2
    <3>2. IsFiniteSet(U)
      BY <2>1, <3>1, FS_Interval
    <3> QED
      BY <2>1, <3>2 DEF p
  <2>4. ahead \in SUBSET U /\ p \in U \ ahead
    <3>1. p \in 1 .. p
      BY DEF p
    <3> QED
      BY <1>7, <2>1, <3>1
  <2> QED
    BY <2>3, <2>4, SumWith
<1>10. n.tokens = Sum(W, InMonth(M, k + 1, n.month))
  <2>1. n.month = M[p] /\ n.tokens = B[p] + W[p]
    BY DEF p
  <2>2. W[p] + Sum(W, ahead) = Sum(W, ahead) + W[p]
    BY <1>4, <1>9
  <2> QED
    BY <1>7, <1>8, <1>9, <2>1, <2>2 DEF p
<1>11. /\ \A i \in 1 .. (k + 1) : M[i] <= n.month
       /\ \E i \in 1 .. (k + 1) : M[i] = n.month
  BY <1>1, <1>3, <1>4 DEF p
<1>12. \A i \in 1 .. (k + 1) : B[i] = Sum(W, Alike(M, i))
  BY <1>1, <1>2, <1>6, <1>8
<1> QED
  BY <1>10, <1>11, <1>12

(* What is said of the first k stamps says nothing of the others.             *)
LEMMA OnlyTheFirst ==
  ASSUME NEW k \in Nat, NEW M, NEW W, NEW B, NEW N, NEW V, NEW C, NEW m,
         \A i \in 1 .. k : W[i] \in Nat /\ N[i] = M[i] /\ V[i] = W[i] /\ C[i] = B[i],
         Right(M, W, B, k, m)
  PROVE  Right(N, V, C, k, m)
<1> SUFFICES ASSUME \A i, j \in 1 .. k : i < j => N[i] <= N[j]
             PROVE  /\ \A i \in 1 .. k : N[i] <= m.month
                    /\ k # 0 => \E i \in 1 .. k : N[i] = m.month
                    /\ m.tokens = Sum(V, InMonth(N, k, m.month))
                    /\ \A i \in 1 .. k : C[i] = Sum(V, Alike(N, i))
  BY DEF Right
<1>1. \A i, j \in 1 .. k : i < j => M[i] <= M[j]
  OBVIOUS
<1>2. /\ \A i \in 1 .. k : M[i] <= m.month
      /\ k # 0 => \E i \in 1 .. k : M[i] = m.month
      /\ m.tokens = Sum(W, InMonth(M, k, m.month))
      /\ \A i \in 1 .. k : B[i] = Sum(W, Alike(M, i))
  BY <1>1 DEF Right
<1>3. ASSUME NEW S \in SUBSET (1 .. k) PROVE Sum(V, S) = Sum(W, S)
  <2>1. IsFiniteSet(1 .. k)
    <3>1. 1 \in Int /\ k \in Int
      OBVIOUS
    <3> QED
      BY <3>1, FS_Interval
  <2>2. IsFiniteSet(S)
    BY <2>1, FS_Subset
  <2>3. ASSUME NEW u \in S PROVE W[u] \in Int /\ V[u] = W[u]
    <3>1. u \in 1 .. k
      OBVIOUS
    <3>2. W[u] \in Nat /\ V[u] = W[u]
      BY <3>1
    <3> QED
      BY <3>2
  <2> QED
    BY <2>2, <2>3, SumSame
<1>4. InMonth(N, k, m.month) = InMonth(M, k, m.month) /\ InMonth(M, k, m.month) \in SUBSET (1 .. k)
  BY DEF InMonth
<1>5. m.tokens = Sum(V, InMonth(N, k, m.month))
  BY <1>2, <1>3, <1>4
<1>6. ASSUME NEW i \in 1 .. k PROVE C[i] = Sum(V, Alike(N, i))
  <2>1. Alike(N, i) = Alike(M, i) /\ Alike(M, i) \in SUBSET (1 .. k)
    BY DEF Alike
  <2> QED
    BY <1>2, <1>3, <2>1
<1> QED
  BY <1>2, <1>5, <1>6

(* Stamps point at records of the topic, which have a weight and a month.     *)
LEMMA WeightsTyped ==
  ASSUME Types, NEW s \in Stamps, PlacesOf(s) \subseteq DOMAIN log
  PROVE  /\ Len(s) \in Nat /\ DOMAIN s = 1 .. Len(s)
         /\ \A i \in DOMAIN s :
              /\ s[i].pos \in DOMAIN log /\ log[s[i].pos].id \in Ids
              /\ Months(s)[i] = Month(log[s[i].pos].stamp) /\ Months(s)[i] \in Nat
              /\ Weights(s)[i] = Volume[log[s[i].pos].id] /\ Weights(s)[i] \in Nat
              /\ Aheads(s)[i] = s[i].before
<1>1. Len(s) \in Nat /\ DOMAIN s = 1 .. Len(s) /\ \A i \in DOMAIN s : s[i].pos \in PlacesOf(s)
  BY StampTyped
<1>2. ASSUME NEW i \in DOMAIN s
      PROVE  /\ s[i].pos \in DOMAIN log /\ log[s[i].pos].id \in Ids
             /\ Months(s)[i] = Month(log[s[i].pos].stamp) /\ Months(s)[i] \in Nat
             /\ Weights(s)[i] = Volume[log[s[i].pos].id] /\ Weights(s)[i] \in Nat
             /\ Aheads(s)[i] = s[i].before
  <2>1. PICK p \in DOMAIN log : p = s[i].pos
    BY <1>1
  <2>2. log[p].id \in Ids /\ log[p].stamp \in Nat
    BY RecordTyped
  <2>3. Volume[log[p].id] \in Nat
    BY <2>2, EventsWeigh
  <2>4. MonthWidth \in Nat \ {0}
    BY MeteringAssumption
  <2>5. Month(log[p].stamp) \in Nat
    BY <2>2, <2>4, Quotient DEF Month
  <2>6. Months(s)[i] = Month(log[s[i].pos].stamp) /\ Weights(s)[i] = Volume[log[s[i].pos].id]
        /\ Aheads(s)[i] = s[i].before
    BY DEF Months, Weights, Aheads
  <2> QED
    BY <2>1, <2>2, <2>3, <2>5, <2>6
<1> QED
  BY <1>1, <1>2

(* The stamps that the job has, and those of its checkpoint.                  *)
LEMMA StampedTyped ==
  ASSUME Types, Fits
  PROVE  /\ stamped \in Stamps /\ PlacesOf(stamped) \subseteq read /\ PlacesOf(stamped) \subseteq DOMAIN log
         /\ saved.stamped \in Stamps /\ PlacesOf(saved.stamped) \subseteq DOMAIN log
<1>1. read \subseteq DOMAIN log /\ 1 .. saved.offset \subseteq DOMAIN log
  BY Length, SMTT(30) DEF Types
<1> QED
  BY <1>1 DEF Fits

(* What the topic says of its records it says for good.                       *)
LEMMA VolumesKept ==
  ASSUME Types, Next, NEW s \in Stamps, PlacesOf(s) \subseteq DOMAIN log, NEW m, MeterRight(s, m)
  PROVE  MeterRight(s, m)'
<1>1. \A i \in DOMAIN s : s[i].pos \in DOMAIN log
  BY StampTyped
<1>2. \A p \in DOMAIN log : log'[p] = log[p]
  BY TopicKept
<1>3. \A i \in DOMAIN s : log'[s[i].pos] = log[s[i].pos]
  BY <1>1, <1>2
<1>4. Months(s)' = Months(s) /\ Weights(s)' = Weights(s)
  BY <1>3 DEF Months, Weights, Month
<1>5. Aheads(s)' = Aheads(s)
  BY DEF Aheads
<1> QED
  BY <1>4, <1>5 DEF MeterRight, Right, InMonth, Alike, Sum

(* The meter stays right, and a restart brings back one that was.             *)
LEMMA VolumesStep ==
  ASSUME Types, Fits, Volumes, Next
  PROVE  Volumes'
<1>1. /\ stamped \in Stamps /\ PlacesOf(stamped) \subseteq DOMAIN log
      /\ saved.stamped \in Stamps /\ PlacesOf(saved.stamped) \subseteq DOMAIN log
  BY StampedTyped
<1>2. MeterRight(stamped, meter) /\ MeterRight(saved.stamped, saved.meter)
  BY DEF Volumes
<1>3. PICK s1, s2, m1, m2 : s1 = stamped /\ s2 = saved.stamped /\ m1 = meter /\ m2 = saved.meter
  OBVIOUS
<1>4. MeterRight(s1, m1)' /\ MeterRight(s2, m2)'
  <2>1. /\ s1 \in Stamps /\ PlacesOf(s1) \subseteq DOMAIN log /\ MeterRight(s1, m1)
        /\ s2 \in Stamps /\ PlacesOf(s2) \subseteq DOMAIN log /\ MeterRight(s2, m2)
    BY <1>1, <1>2, <1>3
  <2> QED
    BY <2>1, VolumesKept
<1>5. ASSUME NEW s, NEW m, MeterRight(s, m)', stamped' = s, meter' = m PROVE MeterRight(stamped, meter)'
  BY <1>5 DEF MeterRight, Months, Weights, Aheads
<1>6. ASSUME NEW s, NEW m, MeterRight(s, m)', saved'.stamped = s, saved'.meter = m
      PROVE  MeterRight(saved.stamped, saved.meter)'
  BY <1>6 DEF MeterRight, Months, Weights, Aheads
<1>7. CASE UNCHANGED <<meter, stamped, saved>>
  <2>1. stamped' = s1 /\ meter' = m1 /\ saved'.stamped = s2 /\ saved'.meter = m2
    BY <1>3, <1>7
  <2> QED
    BY <1>4, <1>5, <1>6, <2>1 DEF Volumes
<1>8. ASSUME NEW n, Collect(n) PROVE Volumes'
  <2>1. PICK e \in Ids, v \in Nat :
          /\ e = log[n].id
          /\ v = IF meter.month = Month(log[n].stamp) THEN meter.tokens ELSE 0
          /\ meter'.month = Month(log[n].stamp) /\ meter'.tokens = v + Volume[e]
          /\ MeterFits(meter', Cardinality(read'))
          /\ stamped' = Append(stamped, [pos |-> n, before |-> v])
          /\ Cost[e][v] \in Nat /\ v \in Places
          /\ \/ now < marker[e] /\ UNCHANGED <<marker, projected, spent, placed>>
             \/ /\ ~(now < marker[e])
                /\ projected' = [projected EXCEPT ![e] = @ + 1]
                /\ marker' = [marker EXCEPT ![e] = now + MarkerTTL]
                /\ spent' = spent + Cost[e][v]
                /\ placed' = [placed EXCEPT ![e] = v]
    BY <1>8, Stamping
  <2>2. n \in DOMAIN log /\ n \in Nat /\ UNCHANGED <<log, saved>>
    BY <1>8, Reading, Length
  <2>3. PICK x \in [pos : Nat, before : Nat] : x = [pos |-> n, before |-> v] /\ x.pos = n /\ x.before = v
    <3>1. [pos |-> n, before |-> v] \in [pos : Nat, before : Nat]
      BY <2>2
    <3> QED
      BY <3>1
  <2>4. PICK r, k, c : r = Append(stamped, x) /\ k = Len(stamped) /\ c = meter'
    OBVIOUS
  <2>5. /\ r \in Stamps /\ Len(r) = k + 1 /\ k \in Nat /\ DOMAIN r = 1 .. (k + 1)
        /\ DOMAIN stamped = 1 .. k
        /\ r[k + 1] = x /\ \A i \in 1 .. k : r[i] = stamped[i]
        /\ PlacesOf(r) = PlacesOf(stamped) \cup {n}
    BY <1>1, <2>3, <2>4, StampAppended
  <2>6. PlacesOf(r) \subseteq DOMAIN log
    BY <1>1, <2>2, <2>5
  <2>7. \A i \in 1 .. (k + 1) :
          /\ Months(r)[i] = Month(log[r[i].pos].stamp) /\ Months(r)[i] \in Nat
          /\ Weights(r)[i] = Volume[log[r[i].pos].id] /\ Weights(r)[i] \in Nat
          /\ Aheads(r)[i] = r[i].before
    BY <2>5, <2>6, WeightsTyped
  <2>8. \A i \in 1 .. k :
          /\ Weights(stamped)[i] \in Nat /\ Months(r)[i] = Months(stamped)[i]
          /\ Weights(r)[i] = Weights(stamped)[i] /\ Aheads(r)[i] = Aheads(stamped)[i]
    <3> SUFFICES ASSUME NEW i \in 1 .. k
                 PROVE  /\ Weights(stamped)[i] \in Nat /\ Months(r)[i] = Months(stamped)[i]
                        /\ Weights(r)[i] = Weights(stamped)[i] /\ Aheads(r)[i] = Aheads(stamped)[i]
      OBVIOUS
    <3>1. /\ Months(stamped)[i] = Month(log[stamped[i].pos].stamp)
          /\ Weights(stamped)[i] = Volume[log[stamped[i].pos].id] /\ Weights(stamped)[i] \in Nat
          /\ Aheads(stamped)[i] = stamped[i].before
      BY <1>1, <2>5, WeightsTyped
    <3>2. i \in 1 .. (k + 1) /\ r[i] = stamped[i]
      BY <2>5
    <3> QED
      BY <2>7, <3>1, <3>2
  <2>9. Right(Months(stamped), Weights(stamped), Aheads(stamped), k, meter)
    BY <1>2, <2>4 DEF MeterRight
  <2>10. PICK M, W, B, M0, W0, B0 :
           /\ M = Months(r) /\ W = Weights(r) /\ B = Aheads(r)
           /\ M0 = Months(stamped) /\ W0 = Weights(stamped) /\ B0 = Aheads(stamped)
    OBVIOUS
  <2>11. Right(M, W, B, k, m1)
    <3>1. \A i \in 1 .. k : W0[i] \in Nat /\ M[i] = M0[i] /\ W[i] = W0[i] /\ B[i] = B0[i]
      BY <2>8, <2>10
    <3>2. Right(M0, W0, B0, k, m1)
      BY <1>3, <2>9, <2>10
    <3> QED
      BY <2>5, <3>1, <3>2, OnlyTheFirst
  <2>12. k + 1 \in 1 .. (k + 1)
    BY <2>5
  <2>13. /\ B[k + 1] = v /\ M[k + 1] = Month(log[n].stamp) /\ W[k + 1] = Volume[e]
    BY <2>1, <2>3, <2>5, <2>7, <2>10, <2>12, SMTT(30)
  <2>14. /\ \A i \in 1 .. (k + 1) : M[i] \in Nat /\ W[i] \in Nat
         /\ B[k + 1] = IF m1.month = M[k + 1] THEN m1.tokens ELSE 0
         /\ c.month = M[k + 1] /\ c.tokens = B[k + 1] + W[k + 1]
    BY <1>3, <2>1, <2>4, <2>7, <2>10, <2>13
  <2>15. Right(M, W, B, k + 1, c)
    BY <2>5, <2>11, <2>14, MeterGoesOn
  <2>16. MeterRight(r, c)
    BY <2>5, <2>10, <2>15 DEF MeterRight
  <2>17. MeterRight(r, c)'
    <3>1. Months(r)' = Months(r) /\ Weights(r)' = Weights(r) /\ Aheads(r)' = Aheads(r)
      BY <2>2 DEF Months, Weights, Aheads
    <3> QED
      BY <2>16, <3>1 DEF MeterRight, Right, InMonth, Alike, Sum
  <2>18. stamped' = r /\ meter' = c
    BY <2>1, <2>3, <2>4
  <2>19. saved'.stamped = s2 /\ saved'.meter = m2
    BY <1>3, <2>2
  <2> QED
    BY <1>4, <1>5, <1>6, <2>17, <2>18, <2>19 DEF Volumes
<1>9. CASE Save
  <2>1. saved'.meter = m1 /\ saved'.stamped = s1 /\ meter' = m1 /\ stamped' = s1
    BY <1>3, <1>9 DEF Save, job, volume
  <2> QED
    BY <1>4, <1>5, <1>6, <2>1 DEF Volumes
<1>10. CASE Crash
  <2>1. meter' = m2 /\ stamped' = s2 /\ saved'.stamped = s2 /\ saved'.meter = m2
    BY <1>3, <1>10 DEF Crash
  <2> QED
    BY <1>4, <1>5, <1>6, <2>1 DEF Volumes
<1>11. CASE Tick
  BY <1>7, <1>11 DEF Tick, job, volume
<1>12. ASSUME NEW n, Drop(n) \/ RouteLate(n) PROVE Volumes'
  BY <1>7, <1>12 DEF Drop, RouteLate, volume
<1>13. ASSUME NEW e \in Ids, NEW t \in Nat \ {0}, Publish(e, t) PROVE Volumes'
  BY <1>7, <1>13 DEF Publish, job, volume
<1>14. ASSUME NEW t \in Nat \ {0}, Advance(t) PROVE Volumes'
  BY <1>7, <1>14 DEF Advance, volume
<1>15. ASSUME NEW w \in Nat, Fire(w) PROVE Volumes'
  BY <1>7, <1>15 DEF Fire, volume
<1>16. ASSUME NEW m \in buffer, Deliver(m) \/ LoseLate(m) PROVE Volumes'
  BY <1>7, <1>16 DEF Deliver, LoseLate, job, volume
<1>17. ASSUME NEW m \in dlq, Replay(m) PROVE Volumes'
  BY <1>7, <1>17 DEF Replay, job, volume
<1> QED
  BY <1>8, <1>9, <1>10, <1>11, <1>12, <1>13, <1>14, <1>15, <1>16, <1>17, Actions

(***************************************************************************)
(* What was projected.  An event is projected once, with the volume that   *)
(* its stamp had then; without restarts every stamp is the one projected.  *)
(***************************************************************************)
InProjections == {e \in Ids : projected[e] # 0}
Prices == [e \in Ids |-> Cost[e][placed[e]]]

Marks == \A e \in Ids : marker[e] # 0 => projected[e] # 0

Spent ==
  replays = 0 =>
    /\ \A e \in InProjections : placed[e] \in Places /\ Prices[e] \in Nat
    /\ spent = Sum(Prices, InProjections)

\* The stamps are those of the projections, one for each.
AsProjected ==
  /\ \A e \in InProjections : \E i \in DOMAIN stamped : IdAt(i) = e
  /\ \A i \in DOMAIN stamped : projected[IdAt(i)] # 0 /\ stamped[i].before = placed[IdAt(i)]
  /\ \A i, j \in DOMAIN stamped : IdAt(i) = IdAt(j) => i = j

Steadily == crashes = 0 /\ replays = 0 => AsProjected

(* A marker is written with the projection.                                   *)
LEMMA MarksStep ==
  ASSUME Types, Marks, Next
  PROVE  Marks'
<1>1. CASE UNCHANGED <<projected, marker>>
  BY <1>1 DEF Marks
<1>2. ASSUME NEW n, Collect(n) PROVE Marks'
  <2>1. PICK e \in Ids : e = log[n].id
    BY <1>2, Reading
  <2>2. \/ now < marker[e] /\ UNCHANGED <<marker, projected>>
        \/ /\ ~(now < marker[e])
           /\ projected' = [projected EXCEPT ![e] = @ + 1]
           /\ marker' = [marker EXCEPT ![e] = now + MarkerTTL]
    BY <1>2, <2>1, Projecting
  <2>3. projected \in [Ids -> Nat] /\ marker \in [Ids -> Nat]
    BY DEF Types
  <2> QED
    BY <1>1, <2>2, <2>3 DEF Marks
<1>3. CASE Save \/ Crash \/ Tick
  BY <1>1, <1>3 DEF Save, Crash, Tick, redis
<1>4. ASSUME NEW n, Drop(n) \/ RouteLate(n) PROVE Marks'
  BY <1>1, <1>4 DEF Drop, RouteLate, redis
<1>5. ASSUME NEW e \in Ids, NEW t \in Nat \ {0}, Publish(e, t) PROVE Marks'
  BY <1>1, <1>5 DEF Publish, redis
<1>6. ASSUME NEW t \in Nat \ {0}, Advance(t) PROVE Marks'
  BY <1>1, <1>6 DEF Advance, redis
<1>7. ASSUME NEW w \in Nat, Fire(w) PROVE Marks'
  BY <1>1, <1>7, Firing
<1>8. ASSUME NEW m \in buffer, Deliver(m) \/ LoseLate(m) PROVE Marks'
  BY <1>1, <1>8 DEF Deliver, LoseLate, redis
<1>9. ASSUME NEW m \in dlq, Replay(m) PROVE Marks'
  BY <1>1, <1>9, SMTT(30) DEF Replay, redis
<1> QED
  BY <1>2, <1>3, <1>4, <1>5, <1>6, <1>7, <1>8, <1>9, Actions

\* The price of an event is added, at the volume ahead of it, ...
Added(u, v) ==
  /\ projected[u] = 0 /\ projected' = [projected EXCEPT ![u] = 1]
  /\ spent' = spent + Cost[u][v]
  /\ placed' = [placed EXCEPT ![u] = v]

\* ... unless that was done.
StampedAt(n, u, v) ==
  /\ stamped' = Append(stamped, [pos |-> n, before |-> v])
  /\ v \in Places /\ Cost[u][v] \in Nat
  /\ Added(u, v) \/ (projected[u] # 0 /\ UNCHANGED <<projected, spent, placed>>)

(* What a record that passes the deduplicator does to the projections: it     *)
(* adds the price of its event, unless that was added.                        *)
LEMMA ProjectedNext ==
  ASSUME Types, Topic, InTime, Marked, Marks, Fits, Next, replays' = 0,
         NEW n, Collect(n), NEW u \in Ids, u = log[n].id
  PROVE  \E v \in Nat : StampedAt(n, u, v)
<1>0. Collect(n) /\ Types /\ Fits
  OBVIOUS
<1>1. PICK e \in Ids, v \in Nat :
        /\ e = log[n].id
        /\ v = IF meter.month = Month(log[n].stamp) THEN meter.tokens ELSE 0
        /\ meter'.month = Month(log[n].stamp) /\ meter'.tokens = v + Volume[e]
        /\ MeterFits(meter', Cardinality(read'))
        /\ stamped' = Append(stamped, [pos |-> n, before |-> v])
        /\ Cost[e][v] \in Nat /\ v \in Places
        /\ \/ now < marker[e] /\ UNCHANGED <<marker, projected, spent, placed>>
           \/ /\ ~(now < marker[e])
              /\ projected' = [projected EXCEPT ![e] = @ + 1]
              /\ marker' = [marker EXCEPT ![e] = now + MarkerTTL]
              /\ spent' = spent + Cost[e][v]
              /\ placed' = [placed EXCEPT ![e] = v]
  BY <1>0, Stamping
<1>2. u = e
  BY <1>1
<1>3. projected \in [Ids -> Nat] /\ marker \in [Ids -> Nat] /\ now \in Nat
  BY DEF Types
<1>4. CASE now < marker[u] /\ UNCHANGED <<marker, projected, spent, placed>>
  <2>1. marker[u] # 0
    BY <1>3, <1>4
  <2>2. projected[u] # 0
    BY <2>1 DEF Marks
  <2> QED
    BY <1>1, <1>2, <1>4, <2>2 DEF StampedAt
<1>5. CASE projected' = [projected EXCEPT ![u] = @ + 1] /\ spent' = spent + Cost[u][v]
           /\ placed' = [placed EXCEPT ![u] = v]
  <2>1. projected'[u] = projected[u] + 1 /\ projected[u] \in Nat
    BY <1>3, <1>5
  <2>2. projected'[u] # 0
    BY <2>1
  <2>3. Marked'
    BY MarkedStep
  <2>4. projected'[u] = 1
    BY <2>2, <2>3 DEF Marked
  <2>5. projected[u] = 0
    BY <2>1, <2>4
  <2>6. projected' = [projected EXCEPT ![u] = 1]
    BY <1>5, <2>5
  <2>7. Added(u, v)
    BY <1>5, <2>5, <2>6 DEF Added
  <2> QED
    BY <1>1, <1>2, <2>7 DEF StampedAt
<1> QED
  BY <1>1, <1>2, <1>4, <1>5

(* What was spent is the sum of the prices of what was projected.             *)
LEMMA SpentStep ==
  ASSUME Types, Topic, InTime, Marked, Marks, Fits, Spent, Next
  PROVE  Spent'
<1> SUFFICES ASSUME replays' = 0 PROVE Spent'
  BY DEF Spent
<1>1. replays = 0
  <2>1. replays \in Nat
    BY DEF Types
  <2> QED
    BY <2>1, TopicSteps
<1>2. /\ \A u \in InProjections : placed[u] \in Places /\ Prices[u] \in Nat
      /\ spent = Sum(Prices, InProjections)
  BY <1>1 DEF Spent
<1>3. CASE UNCHANGED <<projected, spent, placed>>
  <2>1. InProjections' = InProjections /\ Prices' = Prices
    BY <1>3 DEF InProjections, Prices
  <2>2. Sum(Prices, InProjections)' = Sum(Prices, InProjections)
    BY <2>1 DEF Sum
  <2> QED
    BY <1>2, <1>3, <2>1, <2>2 DEF Spent
<1>4. ASSUME NEW n, Collect(n) PROVE Spent'
  <2>1. PICK e \in Ids : e = log[n].id
    BY <1>4, Reading
  <2>0. PICK v \in Nat : StampedAt(n, e, v)
    BY <1>4, <2>1, ProjectedNext
  <2>2. /\ v \in Places /\ Cost[e][v] \in Nat
        /\ UNCHANGED <<projected, spent, placed>>
           \/ (/\ projected[e] = 0 /\ projected' = [projected EXCEPT ![e] = 1]
               /\ spent' = spent + Cost[e][v]
               /\ placed' = [placed EXCEPT ![e] = v])
    BY <2>0 DEF StampedAt, Added
  <2>3. CASE UNCHANGED <<projected, spent, placed>>
    BY <1>3, <2>3
  <2>4. CASE /\ projected[e] = 0 /\ projected' = [projected EXCEPT ![e] = 1]
             /\ spent' = spent + Cost[e][v]
             /\ placed' = [placed EXCEPT ![e] = v]
    <3>1. projected \in [Ids -> Nat] /\ placed \in [Ids -> Nat]
      BY DEF Types, Fits
    <3>2. PICK S, T, f, g : S = InProjections /\ T = InProjections' /\ f = Prices /\ g = Prices'
      OBVIOUS
    <3>3. T = S \cup {e} /\ e \notin S /\ S \in SUBSET Ids /\ T \in SUBSET Ids
      BY <2>4, <3>1, <3>2 DEF InProjections
    <3>4. /\ placed'[e] = v /\ \A u \in S : placed'[u] = placed[u]
      BY <2>4, <3>1, <3>3
    <3>5. g[e] = Cost[e][v] /\ \A u \in S : g[u] = f[u]
      <4>1. \A u \in Ids : f[u] = Cost[u][placed[u]] /\ g[u] = Cost[u][placed'[u]]
        BY <3>2 DEF Prices
      <4> QED
        BY <3>3, <3>4, <4>1
    <3>6. \A u \in T : placed'[u] \in Places /\ g[u] \in Nat
      BY <1>2, <2>2, <3>2, <3>3, <3>4, <3>5
    <3>7. IsFiniteSet(T) /\ IsFiniteSet(S)
      BY <3>3, MeteringAssumption, FS_Subset
    <3>8. Sum(g, T) = g[e] + Sum(g, S) /\ Sum(g, S) \in Int
      <4>1. \A u \in T : g[u] \in Int
        BY <3>6
      <4>2. S \in SUBSET T /\ e \in T \ S
        BY <3>3
      <4> QED
        BY <3>3, <3>7, <4>1, <4>2, SumWith
    <3>9. Sum(g, S) = Sum(f, S)
      <4>1. \A u \in S : f[u] \in Int /\ g[u] = f[u]
        BY <1>2, <3>2, <3>5
      <4> QED
        BY <3>7, <4>1, SumSame
    <3>10. spent' = Sum(g, T)
      <4>1. spent = Sum(f, S)
        BY <1>2, <3>2
      <4>2. Cost[e][v] + Sum(f, S) = Sum(f, S) + Cost[e][v]
        BY <2>2, <3>8, <3>9
      <4> QED
        BY <2>4, <3>5, <3>8, <3>9, <4>1, <4>2
    <3>11. spent' = Sum(Prices, InProjections)'
      BY <3>2, <3>10 DEF Sum
    <3> QED
      BY <3>2, <3>6, <3>11 DEF Spent
  <2> QED
    BY <2>2, <2>3, <2>4
<1>5. CASE Save \/ Crash \/ Tick
  BY <1>3, <1>5 DEF Save, Crash, Tick, redis
<1>6. ASSUME NEW n, Drop(n) \/ RouteLate(n) PROVE Spent'
  BY <1>3, <1>6 DEF Drop, RouteLate, redis
<1>7. ASSUME NEW e \in Ids, NEW t \in Nat \ {0}, Publish(e, t) PROVE Spent'
  BY <1>3, <1>7 DEF Publish, redis
<1>8. ASSUME NEW t \in Nat \ {0}, Advance(t) PROVE Spent'
  BY <1>3, <1>8 DEF Advance, redis
<1>9. ASSUME NEW w \in Nat, Fire(w) PROVE Spent'
  BY <1>3, <1>9 DEF Fire
<1>10. ASSUME NEW m \in buffer, Deliver(m) \/ LoseLate(m) PROVE Spent'
  BY <1>3, <1>10 DEF Deliver, LoseLate, redis
<1>11. ASSUME NEW m \in dlq, Replay(m) PROVE Spent'
  BY <1>3, <1>11 DEF Replay, redis
<1> QED
  BY <1>4, <1>5, <1>6, <1>7, <1>8, <1>9, <1>10, <1>11, Actions

(* The events of stamps are those of their records, which stay.               *)
LEMMA IdsStay ==
  ASSUME Types, Fits, Next, UNCHANGED stamped
  PROVE  \A i \in DOMAIN stamped : IdAt(i)' = IdAt(i) /\ IdAt(i) \in Ids
<1>1. stamped \in Stamps /\ PlacesOf(stamped) \subseteq DOMAIN log
  BY StampedTyped
<1>2. \A i \in DOMAIN stamped : stamped[i].pos \in DOMAIN log
  BY <1>1, StampTyped
<1>3. \A p \in DOMAIN log : log'[p] = log[p] /\ log[p].id \in Ids
  BY TopicKept, RecordTyped
<1> QED
  BY <1>2, <1>3 DEF IdAt

(* Without restarts a stamp belongs to the projection of its event, since     *)
(* the deduplicator lets one record of an event pass.                         *)
LEMMA SteadilyStep ==
  ASSUME Types, Topic, InTime, Known, Marked, Marks, Fits, Steadily, Next
  PROVE  Steadily'
<1> SUFFICES ASSUME crashes' = 0, replays' = 0 PROVE AsProjected'
  BY DEF Steadily
<1>1. replays = 0
  <2>1. replays \in Nat
    BY DEF Types
  <2> QED
    BY <2>1, TopicSteps
<1>2. ASSUME crashes = 0, UNCHANGED <<stamped, projected, placed>> PROVE AsProjected'
  <2>1. AsProjected
    BY <1>1, <1>2 DEF Steadily
  <2>2. \A i \in DOMAIN stamped : IdAt(i)' = IdAt(i) /\ IdAt(i) \in Ids
    BY <1>2, IdsStay
  <2>3. InProjections' = InProjections
    BY <1>2 DEF InProjections
  <2> QED
    BY <1>2, <2>1, <2>2, <2>3 DEF AsProjected
<1>3. ASSUME NEW n, Collect(n) PROVE AsProjected'
  <2>1. PICK e \in Ids : e = log[n].id
    BY <1>3, Reading
  <2>2. /\ Readable(n) /\ n \in DOMAIN log /\ ~Duplicate(log[n].id) /\ log' = log /\ crashes = 0
    BY <1>3, Reading
  <2>3. ~log[n].replay
    BY <1>1, <2>2 DEF Topic
  <2>4. \A p \in read : log[p].id # e
    BY <2>1, <2>2, <2>3, CopyDropped
  <2>5. AsProjected
    BY <1>1, <2>2 DEF Steadily
  <2>0. PICK v \in Nat : StampedAt(n, e, v)
    BY <1>3, <2>1, ProjectedNext
  <2>6. /\ stamped' = Append(stamped, [pos |-> n, before |-> v])
        /\ v \in Places /\ Cost[e][v] \in Nat
        /\ (projected[e] # 0 /\ UNCHANGED <<projected, spent, placed>>)
           \/ (/\ projected[e] = 0 /\ projected' = [projected EXCEPT ![e] = 1]
               /\ spent' = spent + Cost[e][v]
               /\ placed' = [placed EXCEPT ![e] = v])
    BY <2>0 DEF StampedAt, Added
  <2>7. PICK x \in [pos : Nat, before : Nat] : x = [pos |-> n, before |-> v] /\ x.pos = n /\ x.before = v
    <3>1. n \in Nat
      BY <2>2, Length
    <3>2. [pos |-> n, before |-> v] \in [pos : Nat, before : Nat]
      BY <3>1
    <3> QED
      BY <3>2
  <2>8. stamped \in Stamps /\ PlacesOf(stamped) \subseteq read
    BY StampedTyped
  <2>9. PICK k \in Nat : k = Len(stamped) /\ DOMAIN stamped = 1 .. k
    BY <2>8, StampTyped
  <2>10. /\ DOMAIN stamped' = 1 .. (k + 1) /\ stamped'[k + 1] = x
         /\ \A i \in 1 .. k : stamped'[i] = stamped[i]
    <3>1. stamped' = Append(stamped, x)
      BY <2>6, <2>7
    <3>2. /\ DOMAIN Append(stamped, x) = 1 .. (k + 1) /\ Append(stamped, x)[k + 1] = x
          /\ \A i \in 1 .. k : Append(stamped, x)[i] = stamped[i]
      BY <2>8, <2>9, StampAppended
    <3> QED
      BY <3>1, <3>2
  <2>11. \A i \in 1 .. k : IdAt(i) # e /\ IdAt(i)' = IdAt(i) /\ IdAt(i) \in Ids
    <3> SUFFICES ASSUME NEW i \in 1 .. k PROVE IdAt(i) # e /\ IdAt(i)' = IdAt(i) /\ IdAt(i) \in Ids
      OBVIOUS
    <3>1. stamped[i].pos \in read
      BY <2>8, <2>9, StampTyped
    <3>2. log[stamped[i].pos].id # e /\ log[stamped[i].pos].id \in Ids
      BY <2>4, <3>1, RecordTyped DEF Types
    <3> QED
      BY <2>2, <2>10, <3>2 DEF IdAt
  <2>12. IdAt(k + 1)' = e
    BY <2>1, <2>2, <2>7, <2>10 DEF IdAt
  <2>13. projected[e] = 0
    <3> SUFFICES ASSUME projected[e] # 0 PROVE FALSE
      OBVIOUS
    <3>1. PICK i \in DOMAIN stamped : IdAt(i) = e
      BY <2>5 DEF AsProjected, InProjections
    <3> QED
      BY <2>9, <2>11, <3>1
  <2>14. projected' = [projected EXCEPT ![e] = 1] /\ placed' = [placed EXCEPT ![e] = v]
    BY <2>6, <2>13
  <2>15. projected \in [Ids -> Nat] /\ placed \in [Ids -> Nat]
    BY DEF Types, Fits
  <2>16. /\ projected'[e] = 1 /\ placed'[e] = v
         /\ \A u \in Ids \ {e} : projected'[u] = projected[u] /\ placed'[u] = placed[u]
    BY <2>14, <2>15
  <2>17. 1 .. (k + 1) = (1 .. k) \cup {k + 1} /\ k + 1 \notin 1 .. k
    BY <2>9
  <2>18. \A u \in InProjections' : \E i \in DOMAIN stamped' : IdAt(i)' = u
    <3> SUFFICES ASSUME NEW u \in Ids, projected'[u] # 0 PROVE \E i \in DOMAIN stamped' : IdAt(i)' = u
      BY DEF InProjections
    <3>1. CASE u = e
      BY <2>10, <2>12, <2>17, <3>1
    <3>2. CASE u # e
      <4>1. projected[u] # 0
        BY <2>16, <3>2
      <4>2. PICK i \in 1 .. k : IdAt(i) = u
        BY <2>5, <2>9, <4>1 DEF AsProjected, InProjections
      <4> QED
        BY <2>10, <2>11, <2>17, <4>2
    <3> QED
      BY <3>1, <3>2
  <2>19. \A i \in DOMAIN stamped' : projected'[IdAt(i)'] # 0 /\ stamped'[i].before = placed'[IdAt(i)']
    <3> SUFFICES ASSUME NEW i \in DOMAIN stamped'
                 PROVE  projected'[IdAt(i)'] # 0 /\ stamped'[i].before = placed'[IdAt(i)']
      OBVIOUS
    <3>1. CASE i = k + 1
      BY <2>7, <2>10, <2>12, <2>16, <3>1
    <3>2. CASE i \in 1 .. k
      <4>1. projected[IdAt(i)] # 0 /\ stamped[i].before = placed[IdAt(i)]
        BY <2>5, <2>9, <3>2 DEF AsProjected
      <4>2. IdAt(i) \in Ids \ {e} /\ IdAt(i)' = IdAt(i) /\ stamped'[i] = stamped[i]
        BY <2>10, <2>11, <3>2
      <4> QED
        BY <2>16, <4>1, <4>2
    <3> QED
      BY <2>10, <2>17, <3>1, <3>2
  <2>20. \A i, j \in DOMAIN stamped' : IdAt(i)' = IdAt(j)' => i = j
    <3> SUFFICES ASSUME NEW i \in 1 .. (k + 1), NEW j \in 1 .. (k + 1), IdAt(i)' = IdAt(j)' PROVE i = j
      BY <2>10
    <3>1. CASE i \in 1 .. k /\ j \in 1 .. k
      BY <2>5, <2>9, <2>11, <3>1 DEF AsProjected
    <3>2. CASE i = k + 1 \/ j = k + 1
      BY <2>11, <2>12, <2>17, <3>2
    <3> QED
      BY <2>17, <3>1, <3>2
  <2> QED
    BY <2>18, <2>19, <2>20 DEF AsProjected
<1>4. CASE Save \/ Tick
  BY <1>2, <1>4 DEF Save, Tick, job, volume, redis
<1>5. CASE Crash
  <2>1. crashes' = crashes + 1 /\ crashes \in Nat
    BY <1>5, Settings DEF Crash, Types
  <2> QED
    BY <2>1
<1>6. ASSUME NEW n, Drop(n) \/ RouteLate(n) PROVE AsProjected'
  BY <1>2, <1>6 DEF Drop, RouteLate, volume, redis
<1>7. ASSUME NEW e \in Ids, NEW t \in Nat \ {0}, Publish(e, t) PROVE AsProjected'
  BY <1>2, <1>7 DEF Publish, job, volume, redis
<1>8. ASSUME NEW t \in Nat \ {0}, Advance(t) PROVE AsProjected'
  BY <1>2, <1>8 DEF Advance, volume, redis
<1>9. ASSUME NEW w \in Nat, Fire(w) PROVE AsProjected'
  BY <1>2, <1>9 DEF Fire, volume
<1>10. ASSUME NEW m \in buffer, Deliver(m) \/ LoseLate(m) PROVE AsProjected'
  BY <1>2, <1>10 DEF Deliver, LoseLate, job, volume, redis
<1>11. ASSUME NEW m \in dlq, Replay(m) PROVE AsProjected'
  BY <1>2, <1>11 DEF Replay, job, volume, redis
<1> QED
  BY <1>3, <1>4, <1>5, <1>6, <1>7, <1>8, <1>9, <1>10, <1>11, Actions

(***************************************************************************)
(* The invariant of the prices, which rests on that of the events.         *)
(***************************************************************************)
Ledger == Fits /\ Marks /\ Volumes /\ Spent /\ Steadily

(* Nothing was stamped and nothing spent.                                     *)
LEMMA LedgerInit == Init => Ledger
<1> SUFFICES ASSUME Init PROVE Ledger
  OBVIOUS
<1>1. /\ now = 1 /\ log = <<>> /\ read = {} /\ wm = 0 /\ meter = Meter0 /\ stamped = <<>>
      /\ collected = {} /\ applied = {} /\ spent = 0 /\ buffer = {} /\ dlq = {}
      /\ projected = [e \in Ids |-> 0] /\ marker = [e \in Ids |-> 0] /\ placed = [e \in Ids |-> 0]
      /\ saved.offset = 0 /\ saved.meter = Meter0 /\ saved.stamped = <<>> /\ saved.collected = {}
      /\ saved.at = 1 /\ replays = 0
  BY DEF Init, Checkpoint0
<1>2. Len(log) = 0 /\ DOMAIN stamped = {} /\ DOMAIN saved.stamped = {}
      /\ Len(stamped) = 0 /\ Len(saved.stamped) = 0 /\ Cardinality(read) = 0
  BY <1>1, FS_EmptySet
<1>3. <<>> \in Stamps /\ PlacesOf(<<>>) = {}
  BY DEF Stamps, PlacesOf
<1>4. Fits
  <2>1. 0 * Heaviest \in Nat
    BY WeightGrows
  <2>2. MeterFits(Meter0, 0)
    BY <2>1 DEF MeterFits, Meter0
  <2>3. Len(log) <= MaxLog + replays /\ replays <= MaxReplays /\ wm < now /\ 0 < saved.at
    BY <1>1, <1>2, MeteringAssumption
  <2>4. placed \in [Ids -> Nat]
    BY <1>1
  <2> QED
    BY <1>1, <1>2, <1>3, <2>2, <2>3, <2>4 DEF Fits
<1>5. Marks
  BY <1>1 DEF Marks
<1>6. Volumes
  <2>1. ASSUME NEW M, NEW W, NEW B PROVE Right(M, W, B, 0, Meter0)
    <3>1. InMonth(M, 0, Meter0.month) = {} /\ Meter0.tokens = 0
      BY DEF InMonth, Meter0
    <3> QED
      BY <3>1, SumOfNone DEF Right
  <2> QED
    BY <1>1, <1>2, <2>1 DEF Volumes, MeterRight
<1>7. InProjections = {}
  BY <1>1 DEF InProjections
<1>8. Spent
  BY <1>1, <1>7, SumOfNone DEF Spent
<1>9. Steadily
  BY <1>2, <1>7 DEF Steadily, AsProjected
<1> QED
  BY <1>4, <1>5, <1>6, <1>8, <1>9 DEF Ledger

(* Every step of the job, of Kafka and of the operator keeps the ledger.      *)
LEMMA LedgerStep == Inv /\ Ledger /\ [Next]_vars => Ledger'
<1> SUFFICES ASSUME Inv, Ledger, [Next]_vars PROVE Ledger'
  OBVIOUS
<1>1. Types /\ Topic /\ InTime /\ Known /\ Marked /\ Fits /\ Marks /\ Volumes /\ Spent /\ Steadily
  BY DEF Inv, Ledger
<1>2. CASE Next
  <2>1. Fits' /\ Marks' /\ Volumes'
    BY <1>1, <1>2, FitsStep, MarksStep, VolumesStep
  <2>2. Spent' /\ Steadily'
    BY <1>1, <1>2, SpentStep, SteadilyStep
  <2> QED
    BY <2>1, <2>2 DEF Ledger
<1>3. CASE UNCHANGED vars
  <2>1. UNCHANGED <<now, log, read, wm, meter, stamped, collected, applied, marker, projected, placed,
                    spent, buffer, dlq, saved, crashes, replays>>
    BY <1>3 DEF vars, job, volume, redis
  <2>2. Fits'
    <3>1. PlacesOf(stamped)' = PlacesOf(stamped) /\ PlacesOf(saved.stamped)' = PlacesOf(saved.stamped)
      BY <2>1 DEF PlacesOf
    <3> QED
      BY <1>1, <2>1, <3>1 DEF Fits
  <2>3. Marks'
    BY <1>1, <2>1 DEF Marks
  <2>4. Volumes'
    <3>1. /\ Months(stamped)' = Months(stamped) /\ Months(saved.stamped)' = Months(saved.stamped)
          /\ Weights(stamped)' = Weights(stamped) /\ Weights(saved.stamped)' = Weights(saved.stamped)
          /\ Aheads(stamped)' = Aheads(stamped) /\ Aheads(saved.stamped)' = Aheads(saved.stamped)
      BY <2>1 DEF Months, Weights, Aheads
    <3> QED
      BY <1>1, <2>1, <3>1 DEF Volumes, MeterRight, Right, InMonth, Alike, Sum
  <2>5. InProjections' = InProjections /\ Prices' = Prices
    BY <2>1 DEF InProjections, Prices
  <2>6. Spent'
    <3>1. Sum(Prices, InProjections)' = Sum(Prices, InProjections)
      BY <2>5 DEF Sum
    <3> QED
      BY <1>1, <2>1, <2>5, <3>1 DEF Spent
  <2>7. Steadily'
    BY <1>1, <2>1, <2>5 DEF Steadily, AsProjected, IdAt
  <2> QED
    BY <2>2, <2>3, <2>4, <2>6, <2>7 DEF Ledger
<1> QED
  BY <1>2, <1>3

(* Every reachable state satisfies both invariants.                           *)
LEMMA LedgerHolds == Spec => [](Inv /\ Ledger)
<1>1. Init => Inv /\ Ledger
  BY InvInit, LedgerInit
<1>2. (Inv /\ Ledger) /\ [Next]_vars => (Inv /\ Ledger)'
  BY InvStep, LedgerStep
<1> QED
  BY <1>1, <1>2, PTL DEF Spec

(* Stamps stay within what was read, windows within what was stamped,         *)
(* checkpoints and watermarks behind the clock, also after restarts.          *)
THEOREM JobTyped == Spec => []TypeOK
<1>1. Inv /\ Ledger => TypeOK
  <2> SUFFICES ASSUME Inv, Ledger PROVE TypeOK
    OBVIOUS
  <2>1. Types /\ InTime /\ Fits
    BY DEF Inv, Ledger
  <2>2. now \in Nat \ {0} /\ read \subseteq DOMAIN log /\ wm \in 0 .. (now - 1)
    BY <2>1 DEF Types, Fits
  <2>3. log \in Seq([id : Ids, stamp : Nat, at : Nat, replay : BOOLEAN])
    <3>1. Records \subseteq [id : Ids, stamp : Nat, at : Nat, replay : BOOLEAN]
      BY DEF Records
    <3>2. log \in Seq(Records)
      BY <2>1 DEF Types
    <3>3. PICK R, S : R = Records /\ S = [id : Ids, stamp : Nat, at : Nat, replay : BOOLEAN]
      OBVIOUS
    <3>4. log \in [1 .. Len(log) -> R] /\ Len(log) \in Nat
      BY <3>2, <3>3
    <3>5. log \in [1 .. Len(log) -> S]
      BY <3>1, <3>3, <3>4
    <3>6. ASSUME NEW n \in Nat, NEW T, NEW s \in [1 .. n -> T] PROVE s \in Seq(T)
      OBVIOUS
    <3>7. log \in Seq(S)
      BY <3>4, <3>5, <3>6
    <3> QED
      BY <3>3, <3>7
  <2>4. /\ meter \in [month : Nat \cup {NoMonth}, tokens : Nat]
        /\ spent \in Nat /\ placed \in [Ids -> Nat] /\ applied \subseteq Nat
    BY <2>1 DEF Fits, MeterFits
  <2>9. stamped \in Seq([pos : read, before : Nat]) /\ collected \subseteq Stamped
    <3>1. stamped \in Seq([pos : Nat, before : Nat]) /\ collected \subseteq PlacesOf(stamped)
      BY <2>1 DEF Fits, Stamps
    <3>2. PICK R, S : R = [pos : Nat, before : Nat] /\ S = [pos : read, before : Nat]
      OBVIOUS
    <3>3. stamped \in [1 .. Len(stamped) -> R] /\ Len(stamped) \in Nat
      <4>1. stamped \in Seq(R)
        BY <3>1, <3>2
      <4> QED
        BY <4>1
    <3>4. ASSUME NEW i \in 1 .. Len(stamped) PROVE stamped[i] \in S
      <4>1. stamped[i] \in [pos : Nat, before : Nat] /\ i \in DOMAIN stamped
        BY <3>2, <3>3
      <4>2. stamped[i].pos \in read
        BY <2>1, <4>1 DEF Fits, PlacesOf
      <4> QED
        BY <3>2, <4>1, <4>2
    <3>5. stamped \in [1 .. Len(stamped) -> S]
      BY <3>3, <3>4
    <3>6. ASSUME NEW n \in Nat, NEW T, NEW s \in [1 .. n -> T] PROVE s \in Seq(T)
      OBVIOUS
    <3>7. stamped \in Seq(S)
      BY <3>3, <3>5, <3>6
    <3> QED
      BY <3>1, <3>2, <3>7 DEF Stamped, PlacesOf
  <2>5. /\ seen \in [Ids -> Nat] /\ marker \in [Ids -> Nat]
        /\ projected \in [Ids -> Nat] /\ billed \in [Ids -> Nat]
        /\ saved.offset \in 0 .. Len(log) /\ saved.seen \in [Ids -> Nat]
        /\ crashes \in Nat /\ replays \in Nat /\ unsent \subseteq Ids
    BY <2>1, Settings DEF Types
  <2>6. buffer \cup dlq \subseteq [pos : DOMAIN log, at : 1 .. now]
    <3> SUFFICES ASSUME NEW m \in buffer \cup dlq PROVE m \in [pos : DOMAIN log, at : 1 .. now]
      OBVIOUS
    <3>1. m \in LateOnes /\ m.at <= now
      BY <2>1 DEF Types, Fits
    <3>2. m.at \in 1 .. now
      BY <2>2, <3>1 DEF LateOnes
    <3> QED
      BY <3>1, <3>2 DEF LateOnes
  <2>7. saved.collected \subseteq DOMAIN log
    <3>1. DOMAIN log = 1 .. Len(log) /\ Len(log) \in Nat
      BY <2>1, Length
    <3> QED
      BY <2>1, <2>5, <3>1 DEF Types
  <2>8. saved.at \in 1 .. now /\ restarted \in 0 .. now
    BY <2>1 DEF Types, InTime, Fits
  <2> QED
    BY <2>2, <2>3, <2>4, <2>5, <2>6, <2>7, <2>8, <2>9 DEF TypeOK
<1> QED
  BY <1>1, LedgerHolds, PTL

(***************************************************************************)
(* What a month costs.                                                     *)
(***************************************************************************)
\* An amount in micro-dollars is half a micro per chunk off at most.
Close(amount, exact, chunks) == 2 * OffBy(Unit * amount - exact) <= Unit * chunks

(* Amounts that are close each are close together.                            *)
LEMMA CloseAdds ==
  ASSUME NEW a \in Int, NEW x \in Int, NEW n \in Int, NEW b \in Int, NEW y \in Int, NEW k \in Int,
         Close(a, x, n), Close(b, y, k)
  PROVE  Close(a + b, x + y, n + k)
<1>1. /\ Unit * (a + b) = Unit * a + Unit * b /\ Unit * (n + k) = Unit * n + Unit * k
      /\ Unit * a \in Int /\ Unit * b \in Int /\ Unit * n \in Int /\ Unit * k \in Int
  BY UnitTimes, UnitsTyped
<1>2. PICK A \in Int, B \in Int, N \in Int, K \in Int :
        A = Unit * a /\ B = Unit * b /\ N = Unit * n /\ K = Unit * k
  BY <1>1
<1>3. 2 * OffBy(A - x) <= N /\ 2 * OffBy(B - y) <= K
  BY <1>2 DEF Close
<1>4. OffBy((A - x) + (B - y)) <= OffBy(A - x) + OffBy(B - y)
      /\ OffBy((A - x) + (B - y)) \in Int /\ OffBy(A - x) \in Int /\ OffBy(B - y) \in Int
  <2>1. A - x \in Int /\ B - y \in Int /\ (A - x) + (B - y) \in Int
    OBVIOUS
  <2> QED
    BY <2>1 DEF OffBy
<1>5. (A - x) + (B - y) = (A + B) - (x + y)
  OBVIOUS
<1>6. 2 * OffBy((A + B) - (x + y)) <= N + K
  <2>1. PICK i \in Int, j \in Int, l \in Int :
          i = OffBy((A - x) + (B - y)) /\ j = OffBy(A - x) /\ l = OffBy(B - y)
    BY <1>4
  <2>2. i <= j + l /\ 2 * j <= N /\ 2 * l <= K
    BY <1>3, <1>4, <2>1
  <2>3. 2 * i <= N + K
    BY <2>2
  <2> QED
    BY <1>5, <2>1, <2>3
<1> QED
  BY <1>1, <1>2, <1>6 DEF Close

(* And so are the sums of any number of them.                                 *)
LEMMA CloseSums ==
  ASSUME NEW S, IsFiniteSet(S), NEW f, NEW x, NEW n,
         \A u \in S : f[u] \in Int /\ x[u] \in Int /\ n[u] \in Int /\ Close(f[u], x[u], n[u])
  PROVE  Close(Sum(f, S), Sum(x, S), Sum(n, S))
<1> DEFINE P == {T \in SUBSET S : Close(Sum(f, T), Sum(x, T), Sum(n, T))}
<1>1. {} \in P
  <2>1. Unit * 0 = 0 /\ OffBy(0) = 0
    BY UnitsTyped DEF OffBy
  <2>2. Unit * 0 - 0 = 0
    BY <2>1
  <2> QED
    BY <2>1, <2>2, SumOfNone DEF Close
<1>2. ASSUME NEW T \in P, NEW u \in S \ T PROVE T \cup {u} \in P
  <2>1. Sum(f, T \cup {u}) = f[u] + Sum(f, T) /\ Sum(f, T) \in Int
    BY SumWith
  <2>2. Sum(x, T \cup {u}) = x[u] + Sum(x, T) /\ Sum(x, T) \in Int
    BY SumWith
  <2>3. Sum(n, T \cup {u}) = n[u] + Sum(n, T) /\ Sum(n, T) \in Int
    BY SumWith
  <2>4. Close(f[u], x[u], n[u]) /\ f[u] \in Int /\ x[u] \in Int /\ n[u] \in Int
    OBVIOUS
  <2>5. Close(f[u] + Sum(f, T), x[u] + Sum(x, T), n[u] + Sum(n, T))
    BY <2>1, <2>2, <2>3, <2>4, CloseAdds
  <2> QED
    BY <2>1, <2>2, <2>3, <2>5
<1>3. P = SUBSET S
  <2> HIDE DEF P
  <2>1. P \in SUBSET (SUBSET S)
    BY DEF P
  <2> QED
    BY <1>1, <1>2, <2>1, AllSubsets
<1>4. S \in P
  BY <1>3
<1> QED
  BY <1>4

(* A sum over events is the sum over the stamps that are theirs.              *)
LEMMA SumAlong ==
  ASSUME NEW D, IsFiniteSet(D), NEW at, \A i, j \in D : at[i] = at[j] => i = j,
         NEW U, IsFiniteSet(U), \A i \in D : at[i] \in U,
         NEW f, \A u \in U : f[u] \in Int, NEW g, \A i \in D : g[i] = f[at[i]]
  PROVE  Sum(f, {at[i] : i \in D}) = Sum(g, D)
<1> DEFINE Image(T) == {at[i] : i \in T}
           P == {T \in SUBSET D : Sum(f, Image(T)) = Sum(g, T)}
<1>1. {} \in P
  <2>1. Image({}) = {}
    OBVIOUS
  <2> QED
    BY <2>1, SumOfNone
<1>2. ASSUME NEW T \in P, NEW x \in D \ T PROVE T \cup {x} \in P
  <2>1. /\ Image(T \cup {x}) = Image(T) \cup {at[x]} /\ at[x] \notin Image(T)
        /\ Image(T) \in SUBSET U /\ at[x] \in U
    OBVIOUS
  <2>2. T \in SUBSET D /\ Sum(f, Image(T)) = Sum(g, T) /\ g[x] = f[at[x]]
    OBVIOUS
  <2>3. PICK I, y : I = Image(T) /\ y = at[x]
    OBVIOUS
  <2>4. Sum(f, I \cup {y}) = f[y] + Sum(f, I)
    <3>1. I \in SUBSET U /\ y \in U \ I
      BY <2>1, <2>3
    <3> QED
      BY <3>1, SumWith
  <2>5. Sum(g, T \cup {x}) = g[x] + Sum(g, T)
    <3>1. \A i \in D : g[i] \in Int
      OBVIOUS
    <3> QED
      BY <2>2, <3>1, SumWith
  <2> QED
    BY <2>1, <2>2, <2>3, <2>4, <2>5
<1>3. P = SUBSET D
  <2> HIDE DEF P
  <2>1. P \in SUBSET (SUBSET D)
    BY DEF P
  <2> QED
    BY <1>1, <1>2, <2>1, AllSubsets
<1>4. D \in P
  BY <1>3
<1> QED
  BY <1>4

(* After a restart, too, the stamps are those of the projections where the    *)
(* job has caught up and every record came back to its place.                 *)
LEMMA BackInPlace ==
  ASSUME Inv, Fits, CaughtUp, InPlace, replays = 0
  PROVE  AsProjected
<1>1. stamped \in Stamps /\ PlacesOf(stamped) \subseteq DOMAIN log /\ Types
  BY StampedTyped DEF Inv
<1>2. \A i \in DOMAIN stamped : IdAt(i) \in Ids
  BY <1>1, StampTyped, RecordTyped DEF IdAt
<1>3. IsFiniteSet(DOMAIN stamped)
  BY <1>1, StampTyped
<1>4. ASSUME NEW e \in Ids
      PROVE  \E S \in SUBSET (DOMAIN stamped) :
               /\ S = {i \in DOMAIN stamped : IdAt(i) = e}
               /\ projected[e] = 0 => S = {}
               /\ projected[e] # 0 => \E i : S = {i}
  <2>1. PICK S \in SUBSET (DOMAIN stamped) : S = {i \in DOMAIN stamped : IdAt(i) = e}
    OBVIOUS
  <2>2. IsFiniteSet(S) /\ projected[e] = Cardinality(S)
    BY <1>3, <2>1, FS_Subset DEF CaughtUp
  <2>3. projected[e] # 0 => projected[e] = 1
    BY DEF Inv, Marked
  <2>4. /\ Cardinality(S) = 0 => S = {}
        /\ Cardinality(S) = 1 => \E i : S = {i}
    BY <2>2, FS_EmptySet, FS_Singleton
  <2> QED
    BY <2>1, <2>2, <2>3, <2>4
<1>5. ASSUME NEW e \in InProjections PROVE \E i \in DOMAIN stamped : IdAt(i) = e
  <2>1. e \in Ids /\ projected[e] # 0
    BY DEF InProjections
  <2>2. PICK S \in SUBSET (DOMAIN stamped) :
          S = {i \in DOMAIN stamped : IdAt(i) = e} /\ \E i : S = {i}
    BY <1>4, <2>1
  <2> QED
    BY <2>2
<1>6. ASSUME NEW i \in DOMAIN stamped PROVE projected[IdAt(i)] # 0
  <2>1. PICK e \in Ids : e = IdAt(i)
    BY <1>2
  <2>2. PICK S \in SUBSET (DOMAIN stamped) :
          S = {j \in DOMAIN stamped : IdAt(j) = e} /\ (projected[e] = 0 => S = {})
    BY <1>4
  <2>3. i \in S
    BY <2>1, <2>2
  <2> QED
    BY <2>1, <2>2, <2>3
<1>7. ASSUME NEW i \in DOMAIN stamped, NEW j \in DOMAIN stamped, IdAt(i) = IdAt(j) PROVE i = j
  <2>1. PICK e \in Ids : e = IdAt(i) /\ projected[e] # 0
    BY <1>2, <1>6
  <2>2. PICK S \in SUBSET (DOMAIN stamped) :
          S = {l \in DOMAIN stamped : IdAt(l) = e} /\ \E l : S = {l}
    BY <1>4, <2>1
  <2>3. i \in S /\ j \in S
    BY <1>7, <2>1, <2>2
  <2> QED
    BY <2>2, <2>3
<1> QED
  BY <1>5, <1>6, <1>7 DEF AsProjected, InPlace

(* The volume counted from the stamps is the one that the meter gave.         *)
LEMMA VolumeIsAhead ==
  ASSUME Types, Fits, Volumes, MonthsInOrder, NEW i \in DOMAIN stamped
  PROVE  VolumeBefore(i) = stamped[i].before
<1>1. stamped \in Stamps /\ PlacesOf(stamped) \subseteq DOMAIN log
  BY StampedTyped
<1>2. PICK k, M, W, B :
        k = Len(stamped) /\ M = Months(stamped) /\ W = Weights(stamped) /\ B = Aheads(stamped)
  OBVIOUS
<1>3. /\ k \in Nat /\ DOMAIN stamped = 1 .. k
      /\ \A j \in 1 .. k : /\ M[j] = MonthAt(j) /\ M[j] \in Nat
                           /\ W[j] = Volume[IdAt(j)] /\ W[j] \in Nat
                           /\ B[j] = stamped[j].before
  BY <1>1, <1>2, WeightsTyped DEF MonthAt, IdAt
<1>4. \A a, b \in 1 .. k : a < b => M[a] <= M[b]
  BY <1>3, ZenonT(60) DEF MonthsInOrder
<1>5. \A j \in 1 .. k : B[j] = Sum(W, Alike(M, j))
  BY <1>2, <1>4 DEF Volumes, MeterRight, Right
<1> DEFINE S == {j \in 1 .. (i - 1) : MonthAt(j) = MonthAt(i)}
           f == [j \in S |-> Volume[IdAt(j)]]
<1>6. \A j \in 1 .. (i - 1) : j \in 1 .. k
  BY <1>3
<1>7. S = Alike(M, i) /\ S \in SUBSET (1 .. k)
  BY <1>3, <1>6 DEF Alike
<1>8. IsFiniteSet(S)
  <2>1. IsFiniteSet(1 .. k)
    BY <1>1, <1>3, StampTyped
  <2> HIDE DEF S
  <2> QED
    BY <1>7, <2>1, FS_Subset
<1>9. \A j \in S : W[j] \in Int /\ f[j] = W[j]
  BY <1>3, <1>7
<1>10. SumFunction(f) = Sum(f, S)
  <2>1. DOMAIN f = S
    OBVIOUS
  <2> HIDE DEF f, S
  <2> QED
    BY <2>1, WholeSum
<1>11. VolumeBefore(i) = SumFunction(f)
  BY DEF VolumeBefore
<1> HIDE DEF f, S
<1>12. Sum(f, S) = Sum(W, S)
  BY <1>8, <1>9, SumSame
<1> QED
  BY <1>3, <1>5, <1>7, <1>10, <1>11, <1>12

(* Under graduated prices a month costs what its tokens cost one by one, each *)
(* at the tier of its own place, into however many calls they are cut, and in *)
(* whatever order they reach the meter; after a restart, where what is read   *)
(* again comes back to its places.                                            *)
THEOREM MonthsPricedByVolume == Spec => []PricedByVolume
<1>1. Inv /\ Ledger => PricedByVolume
  <2> SUFFICES ASSUME Inv, Ledger, Graduated, MonthsInOrder, replays = 0,
                      crashes > 0 => CaughtUp /\ InPlace
               PROVE  Close(spent,
                            SumFunction([i \in DOMAIN stamped |-> Exact[IdAt(i)][VolumeBefore(i)]]),
                            SumFunction([i \in DOMAIN stamped |-> Roundings[IdAt(i)]]))
    BY DEF PricedByVolume, Close
  <2> DEFINE x == [i \in DOMAIN stamped |-> Exact[IdAt(i)][VolumeBefore(i)]]
             n == [i \in DOMAIN stamped |-> Roundings[IdAt(i)]]
  <2>1. Types /\ Fits /\ Spent /\ Volumes /\ Steadily
    BY DEF Inv, Ledger
  <2>2. AsProjected
    <3>1. crashes = 0 \/ crashes > 0
      BY <2>1 DEF Types
    <3> QED
      BY <2>1, <3>1, BackInPlace DEF Steadily
  <2>3. PICK D : D = DOMAIN stamped /\ IsFiniteSet(D)
    BY <2>1, StampedTyped, StampTyped
  <2>4. \A i \in D : IdAt(i) \in Ids
    <3>1. \A i \in D : stamped[i].pos \in DOMAIN log
      BY <2>1, <2>3, StampedTyped, StampTyped
    <3> QED
      BY <2>1, <3>1, RecordTyped DEF IdAt
  <2>5. PICK p, U : p = Prices /\ U = InProjections
    OBVIOUS
  <2>6. PICK at : at = [i \in D |-> IdAt(i)]
    OBVIOUS
  <2>7. PICK f : f = [i \in D |-> p[at[i]]]
    OBVIOUS
  <2>8. /\ spent = Sum(p, U) /\ \A u \in U : placed[u] \in Places /\ p[u] \in Nat
    BY <2>1, <2>5 DEF Spent
  <2>9. /\ \A i \in D : at[i] \in U /\ at[i] \in Ids /\ at[i] = IdAt(i)
        /\ \A i, j \in D : at[i] = at[j] => i = j
        /\ U = {at[i] : i \in D}
    <3>1. \A i \in D : at[i] = IdAt(i)
      BY <2>6
    <3>2. \A i \in D : at[i] \in U /\ at[i] \in Ids
      BY <2>2, <2>3, <2>4, <2>5, <3>1 DEF AsProjected, InProjections
    <3>3. \A i, j \in D : at[i] = at[j] => i = j
      BY <2>2, <2>3, <3>1 DEF AsProjected
    <3>4. \A u \in U : \E i \in D : at[i] = u
      BY <2>2, <2>3, <2>5, <3>1 DEF AsProjected
    <3> QED
      BY <3>1, <3>2, <3>3, <3>4
  <2>10. spent = Sum(f, D)
    <3>1. IsFiniteSet(U)
      <4>1. U \in SUBSET Ids
        BY <2>5 DEF InProjections
      <4> QED
        BY <4>1, MeteringAssumption, FS_Subset
    <3>2. \A u \in U : p[u] \in Int
      BY <2>8
    <3>3. \A i \in D : f[i] = p[at[i]]
      BY <2>7
    <3>4. Sum(p, {at[i] : i \in D}) = Sum(f, D)
      BY <2>3, <2>9, <3>1, <3>2, <3>3, SumAlong
    <3> QED
      BY <2>8, <2>9, <3>4
  <2>11. ASSUME NEW i \in D
         PROVE  f[i] \in Int /\ x[i] \in Int /\ n[i] \in Int /\ Close(f[i], x[i], n[i])
    <3>1. PICK e \in Ids : e = at[i] /\ e = IdAt(i) /\ e \in U
      BY <2>9
    <3>2. PICK v \in Nat : v = placed[e] /\ v \in Places
      <4>1. placed[e] \in Nat
        BY <2>1 DEF Fits
      <4> QED
        BY <2>8, <3>1, <4>1
    <3>3. v = VolumeBefore(i)
      <4>1. stamped[i].before = placed[IdAt(i)]
        BY <2>2, <2>3 DEF AsProjected
      <4>2. VolumeBefore(i) = stamped[i].before
        BY <2>1, <2>3, VolumeIsAhead
      <4> QED
        BY <3>1, <3>2, <4>1, <4>2
    <3>4. x[i] = ExactCost(Catalog, Model, Usage[e], v) /\ n[i] = Chunks(Catalog, Model, Usage[e])
      BY <2>3, <3>1, <3>2, <3>3 DEF Exact, Roundings
    <3>5. f[i] = CostMicro(Catalog, Model, Usage[e], v, "java")
      <4>1. f[i] = p[e] /\ p[e] = Cost[e][placed[e]]
        BY <2>5, <2>7, <3>1 DEF Prices
      <4> QED
        BY <3>2, <4>1 DEF Cost, EventCost
    <3>6. AcceptsCatalog(Catalog) /\ Usage[e] \in [Kinds -> Nat]
          /\ ModeOf(ModelPricing(Catalog, Model)) = "graduated"
      BY MeteringAssumption, EventsWeigh DEF Graduated
    <3> HIDE DEF x, n
    <3> QED
      BY <3>4, <3>5, <3>6, EventByToken DEF Close
  <2>12. SumFunction(x) = Sum(x, D) /\ SumFunction(n) = Sum(n, D)
    <3>1. DOMAIN x = D /\ DOMAIN n = D
      BY <2>3
    <3> HIDE DEF x, n
    <3> QED
      BY <3>1, WholeSum
  <2>13. Close(Sum(f, D), Sum(x, D), Sum(n, D))
    <3> HIDE DEF x, n
    <3> QED
      BY <2>3, <2>11, CloseSums
  <2> QED
    BY <2>10, <2>12, <2>13
<1> QED
  BY <1>1, LedgerHolds, PTL

(***************************************************************************)
(* What the Gateway quotes and what the job charges.                       *)
(***************************************************************************)
(* Two amounts that are close to the same exact one are close.                *)
LEMMA CloseBoth ==
  ASSUME NEW a \in Int, NEW b \in Int, NEW x \in Int, NEW n \in Int, Close(a, x, n), Close(b, x, n)
  PROVE  a - b <= n /\ b - a <= n
<1>1. PICK U \in Nat \ {0} : U = Unit
  BY UnitTyped
<1>2. PICK A \in Int, B \in Int, N \in Int : A = U * a /\ B = U * b /\ N = U * n
  OBVIOUS
<1>3. 2 * OffBy(A - x) <= N /\ 2 * OffBy(B - x) <= N
  BY <1>1, <1>2 DEF Close
<1>4. A - B <= N /\ B - A <= N
  BY <1>3 DEF OffBy
<1>5. ASSUME NEW d \in Int, n < d PROVE N < U * d
  <2>1. d - n - 1 \in Nat
    BY <1>5
  <2>2. PICK k \in Nat : k = d - n - 1
    BY <2>1
  <2>3. d = n + 1 + k
    BY <2>2
  <2>4. U * (n + 1 + k) = U * n + U + U * k /\ U * k \in Nat
    OBVIOUS
  <2>5. PICK K \in Nat : K = U * k
    BY <2>4
  <2>6. U * d = N + U + K
    BY <1>2, <2>3, <2>4, <2>5
  <2> QED
    BY <2>6
<1>6. U * (a - b) = A - B /\ U * (b - a) = B - A
  <2>1. U * (a - b) = U * a - U * b /\ U * (b - a) = U * b - U * a
    OBVIOUS
  <2> QED
    BY <1>2, <2>1
<1>7. ~(n < a - b)
  <2> SUFFICES ASSUME n < a - b PROVE FALSE
    OBVIOUS
  <2>1. PICK d \in Int : d = a - b
    OBVIOUS
  <2>2. N < A - B
    BY <1>5, <1>6, <2>1
  <2> QED
    BY <1>4, <2>2
<1>8. ~(n < b - a)
  <2> SUFFICES ASSUME n < b - a PROVE FALSE
    OBVIOUS
  <2>1. PICK d \in Int : d = b - a
    OBVIOUS
  <2>2. N < B - A
    BY <1>5, <1>6, <2>1
  <2> QED
    BY <1>4, <2>2
<1> QED
  BY <1>7, <1>8

(* Ones and zeros add up to the number of the ones.                           *)
LEMMA SumCounts ==
  ASSUME NEW S, IsFiniteSet(S), NEW V \in SUBSET S,
         NEW f, \A u \in S : f[u] = IF u \in V THEN 1 ELSE 0
  PROVE  Sum(f, S) = Cardinality(V)
<1> DEFINE P == {T \in SUBSET S : Sum(f, T) = Cardinality(T \cap V)}
<1>1. {} \in P
  BY SumOfNone, FS_EmptySet
<1>2. ASSUME NEW T \in P, NEW u \in S \ T PROVE T \cup {u} \in P
  <2>1. Sum(f, T \cup {u}) = f[u] + Sum(f, T)
    <3>1. \A w \in S : f[w] \in Int
      OBVIOUS
    <3>2. T \in SUBSET S
      OBVIOUS
    <3> HIDE DEF P
    <3> QED
      BY <3>1, <3>2, SumWith
  <2>2. PICK W : W = T \cap V /\ IsFiniteSet(W) /\ Cardinality(W) \in Nat /\ u \notin W
    <3>1. IsFiniteSet(T \cap V)
      BY FS_Subset
    <3> QED
      BY <3>1, FS_CardinalityType
  <2>3. Sum(f, T) = Cardinality(W)
    BY <2>2
  <2>4. Sum(f, T \cup {u}) = Cardinality((T \cup {u}) \cap V)
    <3>1. CASE u \in V
      <4>1. (T \cup {u}) \cap V = W \cup {u} /\ f[u] = 1
        BY <2>2, <3>1
      <4>2. Cardinality(W \cup {u}) = Cardinality(W) + 1
        BY <2>2, FS_AddElement
      <4>3. 1 + Cardinality(W) = Cardinality(W) + 1
        BY <2>2
      <4> QED
        BY <2>1, <2>3, <4>1, <4>2, <4>3
    <3>2. CASE u \notin V
      <4>1. (T \cup {u}) \cap V = W /\ f[u] = 0
        BY <2>2, <3>2
      <4>2. 0 + Cardinality(W) = Cardinality(W)
        BY <2>2
      <4> QED
        BY <2>1, <2>3, <4>1, <4>2
    <3> QED
      BY <3>1, <3>2
  <2> QED
    BY <2>4
<1>3. P = SUBSET S
  <2> HIDE DEF P
  <2>1. P \in SUBSET (SUBSET S)
    BY DEF P
  <2> QED
    BY <1>1, <1>2, <2>1, AllSubsets
<1>4. S \in P /\ S \cap V = V
  BY <1>3
<1> QED
  BY <1>4

(* Nothing costs nothing.                                                     *)
LEMMA NothingIsFree ==
  ASSUME NEW impl
  PROVE  Rounded(impl, 0) = 0
<1>1. PICK r \in Nat : r = Rounded(impl, 0)
  BY RoundedTyped
<1>2. PICK U \in Nat \ {0} : U = Unit
  BY UnitTyped
<1>3. 2 * OffBy(U * r - 0) <= U
  BY <1>1, <1>2, RoundedTyped
<1>4. r # 0 => U <= U * r
  <2> SUFFICES ASSUME r # 0 PROVE U <= U * r
    OBVIOUS
  <2>1. PICK k \in Nat : r = k + 1
    <3>1. r - 1 \in Nat /\ r = (r - 1) + 1
      OBVIOUS
    <3> QED
      BY <3>1
  <2>2. U * (k + 1) = U * k + U /\ U * k \in Nat
    OBVIOUS
  <2> QED
    BY <2>1, <2>2
<1>5. PICK R \in Nat : R = U * r
  OBVIOUS
<1>6. OffBy(R - 0) = R
  BY DEF OffBy
<1> QED
  BY <1>1, <1>3, <1>4, <1>5, <1>6

(* At one tier, an event is half a micro-dollar per category off at most.     *)
LEMMA TierByToken ==
  ASSUME NEW tier, tier.input \in Nat, tier.output \in Nat, tier.embedding \in Nat,
         NEW cacheRead \in Nat, NEW event \in [Kinds -> Nat]
  PROVE  \E x \in Int : \A impl :
           /\ CostAtTier(tier, event, cacheRead, impl) \in Int
           /\ Close(CostAtTier(tier, event, cacheRead, impl), x,
                    Cardinality({i \in Order : event[Categories[i]] > 0}))
<1> DEFINE amount == [i \in Order |-> event[Categories[i]] * RateFor(tier, Categories[i], cacheRead)]
           some == {i \in Order : event[Categories[i]] > 0}
           one == [i \in Order |-> IF i \in some THEN 1 ELSE 0]
<1>1. Order = 1 .. 6 /\ IsFiniteSet(Order) /\ Order \in SUBSET Order
  <2>1. Order = 1 .. 6 /\ 1 \in Int /\ 6 \in Int
    BY Sixfold
  <2> QED
    BY <2>1, FS_Interval
<1>2. \A i \in Order : amount[i] \in Nat /\ (i \notin some => amount[i] = 0)
  <2> SUFFICES ASSUME NEW i \in Order PROVE amount[i] \in Nat /\ (i \notin some => amount[i] = 0)
    OBVIOUS
  <2>1. PICK t \in Nat, r \in Nat : t = event[Categories[i]] /\ r = RateFor(tier, Categories[i], cacheRead)
    <3>1. Categories[i] \in Kinds /\ event[Categories[i]] \in Nat
      BY DEF Kinds
    <3>2. RateFor(tier, Categories[i], cacheRead) \in Nat
      BY <3>1, RateTyped
    <3> QED
      BY <3>1, <3>2
  <2>2. t * r \in Nat /\ (t = 0 => t * r = 0)
    OBVIOUS
  <2>3. amount[i] = t * r /\ (i \notin some => t = 0)
    BY <2>1
  <2> QED
    BY <2>2, <2>3
<1>3. Sum(amount, Order) \in Int
  <2> HIDE DEF amount
  <2> QED
    BY <1>1, <1>2, SumTakes
<1>4. Sum(one, Order) = Cardinality(some)
  <2>1. some \in SUBSET Order /\ \A i \in Order : one[i] = IF i \in some THEN 1 ELSE 0
    OBVIOUS
  <2> HIDE DEF one, some
  <2> QED
    BY <1>1, <2>1, SumCounts
<1>5. ASSUME NEW impl
      PROVE  /\ CostAtTier(tier, event, cacheRead, impl) \in Int
             /\ Close(CostAtTier(tier, event, cacheRead, impl), Sum(amount, Order), Cardinality(some))
  <2> DEFINE cost == [i \in Order |-> Rounded(impl, event[Categories[i]]
                                                    * RateFor(tier, Categories[i], cacheRead))]
  <2>1. CostAtTier(tier, event, cacheRead, impl) = Sum(cost, Order)
    <3>1. CostAtTier(tier, event, cacheRead, impl) = SumFunction(cost)
      BY DEF CostAtTier
    <3>2. DOMAIN cost = Order
      OBVIOUS
    <3> HIDE DEF cost
    <3> QED
      BY <3>1, <3>2, WholeSum
  <2>2. \A i \in Order : cost[i] = Rounded(impl, amount[i]) /\ one[i] = IF i \in some THEN 1 ELSE 0
    OBVIOUS
  <2> HIDE DEF cost, amount, one, some
  <2>3. \A i \in Order : cost[i] \in Int /\ amount[i] \in Int /\ one[i] \in Int
                         /\ Close(cost[i], amount[i], one[i])
    <3> SUFFICES ASSUME NEW i \in Order
                 PROVE  cost[i] \in Int /\ amount[i] \in Int /\ one[i] \in Int
                        /\ Close(cost[i], amount[i], one[i])
      OBVIOUS
    <3>1. PICK a \in Nat : a = amount[i]
      BY <1>2
    <3>2. Rounded(impl, a) \in Nat /\ 2 * OffBy(Unit * Rounded(impl, a) - a) <= Unit
      BY RoundedTyped
    <3>3. Unit * 1 = Unit /\ Unit * 0 = 0
      BY UnitsTyped
    <3>4. CASE i \in some
      <4>1. Close(Rounded(impl, a), a, 1)
        BY <3>2, <3>3 DEF Close
      <4> QED
        BY <2>2, <3>1, <3>2, <3>4, <4>1
    <3>5. CASE i \notin some
      <4>1. a = 0 /\ cost[i] = 0 /\ one[i] = 0
        BY <1>2, <2>2, <3>1, <3>5, NothingIsFree
      <4>2. OffBy(0) = 0 /\ Unit * 0 - 0 = 0
        BY <3>3 DEF OffBy
      <4>3. Close(0, 0, 0)
        BY <3>3, <4>2 DEF Close
      <4> QED
        BY <3>1, <4>1, <4>3
    <3> QED
      BY <3>4, <3>5
  <2>4. Close(Sum(cost, Order), Sum(amount, Order), Sum(one, Order))
    BY <1>1, <2>3, CloseSums
  <2>5. Sum(cost, Order) \in Int
    BY <1>1, <2>3, SumTakes
  <2> QED
    BY <1>4, <2>1, <2>4, <2>5
<1> HIDE DEF amount
<1> QED
  BY <1>3, <1>5

(* PricingCatalog.java and pricing.py, given the same catalog, the same event *)
(* and the same place in the month, differ by a micro-dollar per amount that  *)
(* is rounded at most, though one rounds halves up and the other to even: so  *)
(* far a quote of the Gateway may be from the charge of the job.              *)
THEOREM PricesAgree ==
  ASSUME NEW c, AcceptsCatalog(c), NEW m, NEW event \in [Kinds -> Nat], NEW before \in Nat
  PROVE  OffBy(CostMicro(c, m, event, before, "java") - CostMicro(c, m, event, before, "python"))
           <= Chunks(c, m, event)
<1> DEFINE cost(impl) == CostMicro(c, m, event, before, impl)
<1>1. \E x \in Int, n \in Int :
        /\ n <= Chunks(c, m, event) /\ Chunks(c, m, event) \in Int
        /\ \A impl : cost(impl) \in Int /\ Close(cost(impl), x, n)
  <2>1. CASE ModeOf(ModelPricing(c, m)) = "graduated"
    <3>1. PICK x, n : x = ExactCost(c, m, event, before) /\ n = Chunks(c, m, event)
      OBVIOUS
    <3>2. ASSUME NEW impl PROVE x \in Int /\ n \in Int /\ cost(impl) \in Int /\ Close(cost(impl), x, n)
      BY <2>1, <3>1, EventByToken DEF Close
    <3>3. n <= Chunks(c, m, event)
      BY <3>1, <3>2
    <3> HIDE DEF cost
    <3> QED
      BY <3>1, <3>2, <3>3
  <2>2. CASE ModeOf(ModelPricing(c, m)) # "graduated"
    <3>1. PICK tiers : tiers = TiersOf(ModelPricing(c, m))
      OBVIOUS
    <3>2. Increasing(tiers) /\ tiers # <<>> /\ c.cacheRead \in Nat
      BY <3>1, TiersAccepted DEF AcceptsCatalog
    <3>3. PICK tier : /\ tier = TierAtToken(tiers, before)
                      /\ tier.input \in Nat /\ tier.output \in Nat /\ tier.embedding \in Nat
      BY <3>2, FirstReaching, TierTyped DEF TierAtToken
    <3>4. \A impl : cost(impl) = CostAtTier(tier, event, c.cacheRead, impl)
      BY <2>2, <3>1, <3>3 DEF CostMicro
    <3>5. PICK n : n = Cardinality({i \in Order : event[Categories[i]] > 0})
      OBVIOUS
    <3>6. n \in Nat
      <4>1. Order = 1 .. 6 /\ 1 \in Int /\ 6 \in Int
        BY Sixfold
      <4>2. IsFiniteSet({i \in Order : event[Categories[i]] > 0})
        BY <4>1, FS_Interval, FS_Subset
      <4> QED
        BY <3>5, <4>2, FS_CardinalityType
    <3>7. n <= Chunks(c, m, event) /\ Chunks(c, m, event) \in Int
      <4>1. Len(tiers) \in Nat /\ Len(tiers) # 0
        BY <3>2 DEF Increasing
      <4>2. Chunks(c, m, event) = n + Len(tiers) - 1
        BY <3>1, <3>5 DEF Chunks
      <4> QED
        BY <3>6, <4>1, <4>2
    <3>8. PICK x \in Int : \A impl : /\ CostAtTier(tier, event, c.cacheRead, impl) \in Int
                                     /\ Close(CostAtTier(tier, event, c.cacheRead, impl), x, n)
      BY <3>2, <3>3, <3>5, TierByToken
    <3> HIDE DEF cost
    <3> QED
      BY <3>4, <3>6, <3>7, <3>8
  <2> QED
    BY <2>1, <2>2
<1>2. PICK x \in Int, n \in Int, most \in Int, a \in Int, b \in Int :
        /\ n <= most /\ most = Chunks(c, m, event) /\ a = cost("java") /\ b = cost("python")
        /\ Close(a, x, n) /\ Close(b, x, n)
  <2> HIDE DEF cost
  <2> QED
    BY <1>1
<1>3. a - b <= n /\ b - a <= n
  BY <1>2, CloseBoth
<1>4. OffBy(a - b) <= most
  BY <1>2, <1>3 DEF OffBy
<1> QED
  BY <1>2, <1>4

==============================================================================
