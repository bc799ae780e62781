---------------------------- MODULE GatewayProofs ----------------------------
(***************************************************************************)
(* The Gateway for any number of calls, workers, malformed entries and     *)
(* failures: stored usage stays in the outbox until Kafka has it, what is  *)
(* stored is a true receipt, and nobody publishes again what it had        *)
(* acknowledged and removed.                                               *)
(***************************************************************************)
EXTENDS Gateway, TLAPS

(***************************************************************************)
(* The inductive invariant.                                                *)
(***************************************************************************)
\* A call before it stores its usage, and behind that.
Early == {"new", "calling", "streaming", "ingesting", "storing"}
Later == {"publishing", "removing", "remembering"}

Journey(c) ==
  /\ at[c] \in Early \cup Later \cup {"over"}
  /\ at[c] \in Early => c \notin stored
  /\ at[c] \in Later => c \in stored
  /\ at[c] = "streaming" => stream[c]
  /\ at[c] \in {"new", "calling"} => usage[c] = NoTokens /\ passed[c] = 0 /\ ~killed[c]
  /\ c \in lost => at[c] = "over" /\ c \notin stored
  /\ c \in unsure => at[c] \notin {"new", "calling", "streaming"} /\ usage[c] = NoTokens
  /\ settled[c] => \/ at[c] = "over" /\ c \notin stored
                   \/ c \in unsure

\* The guard's figures in step.
Guarded(c) ==
  IF stream[c]
  THEN /\ killed[c] <=> OverHold(c, usage[c])
       /\ ~killed[c] => passed[c] = Quote(usage[c])
       /\ hold[c] > 0 => passed[c] <= hold[c]
  ELSE passed[c] = 0

\* Where entries come from.
Origins ==
  /\ \A c \in Calls : raw[c] # "malformed" /\ (score[c] # 0 => c \in stored)
  /\ \A f \in Foreign : raw[f] # "valid"

\* What a worker has in its hands.
Grip(w) ==
  /\ at[w] \in {"asleep", "flushing", "reading", "dropping", "burying", "publishing", "removing"}
  /\ at[w] \in {"reading", "removing"} => entry[w] \in stored \cup Foreign
  /\ at[w] = "dropping" => entry[w] \in stored \cup Foreign /\ raw[entry[w]] = "none"
  /\ at[w] = "burying" => entry[w] \in Foreign
  /\ at[w] = "publishing" => entry[w] \in stored

\* An acknowledgement is that of the entry in hand.
Evidence(x) ==
  /\ sent[x] = "appended" => Target(x) \in log
  /\ at[x] = "removing" => Target(x) \in log \cup Foreign

Gone(e) == raw[e] = "none" /\ score[e] = 0

\* Acknowledged: about to be removed, or gone and not about to be published.
Closed ==
  \A x \in Publishers, e \in Entries :
    <<x, e>> \in acked
    => \/ at[x] = "removing" /\ Target(x) = e
       \/ Gone(e) /\ ~(at[x] = "publishing" /\ Target(x) = e)

\* The parts of TypeOK.
Figures ==
  /\ stream \in [Calls -> BOOLEAN] /\ hold \in [Calls -> Nat] /\ passed \in [Calls -> Nat]
  /\ usage \in [Calls -> [input : Nat, output : Nat]]
  /\ killed \in [Calls -> BOOLEAN] /\ settled \in [Calls -> BOOLEAN]
  /\ identity \in [Calls -> {"absent", "pending", "accepted", "uncertain"}]
Redis ==
  /\ raw \in [Entries -> {"none", "valid", "malformed"}] /\ score \in [Entries -> Nat]
  /\ dead \subseteq Foreign /\ entry \in [Workers -> Entries \cup {Nobody}]
Sending ==
  /\ sent \in [Publishers -> {"none", "queued", "appended"}]
  /\ \A x \in Publishers : sent[x] # "none" => at[x] = "publishing"
Arrivals ==
  /\ stray \subseteq stored /\ log \subseteq stored /\ stored \subseteq Calls
  /\ acked \subseteq Publishers \X stored /\ lost \subseteq Calls \ stored
  /\ unsure \subseteq Calls /\ faults \in 0..MaxFaults

Inv ==
  /\ TypeOK /\ Origins /\ UsageKept /\ Closed
  /\ \A c \in Calls : Journey(c) /\ Guarded(c)
  /\ \A w \in Workers : Grip(w)
  /\ \A x \in Publishers : Evidence(x)

(***************************************************************************)
(* Lemmas.                                                                 *)
(***************************************************************************)
(* Calls, workers and entries are different things.                           *)
LEMMA Different ==
  /\ \A c \in Calls : c \notin Workers /\ c \notin Foreign /\ c \in Entries /\ c \in Publishers
  /\ \A w \in Workers : w \notin Calls /\ w \in Publishers
  /\ \A f \in Foreign : f \notin Calls /\ f \in Entries
  /\ Nobody \notin Entries
  BY GatewayAssumption DEF Entries, Publishers

(* What is published, or removed, is an entry, and no foreign one is published. *)
LEMMA Aim ==
  ASSUME Inv, NEW x \in Publishers
  PROVE  /\ at[x] = "publishing" => Target(x) \in stored
         /\ at[x] = "removing" => Target(x) \in stored \cup Foreign
         /\ sent[x] # "none" => Target(x) \in stored
<1>1. CASE x \in Calls
  BY <1>1 DEF Inv, Journey, Later, Target, TypeOK
<1>2. CASE x \in Workers
  BY <1>2, Different DEF Inv, Grip, Target, TypeOK
<1> QED
  BY <1>1, <1>2 DEF Publishers

(* The kinds of steps.                                                        *)
LEMMA Actions ==
  ASSUME Next
  PROVE  \/ \E c \in Calls :
              \/ Reject(c)
              \/ Run(c)
              \/ UpstreamError(c)
              \/ SettleRaises(c)
              \/ NoAnswer(c)
              \/ Answer(c)
              \/ StreamStarts(c)
              \/ Chunk(c)
              \/ StreamEnds(c)
              \/ Claim(c)
              \/ Store(c)
              \/ IngestFails(c)
              \/ Remember(c)
              \/ RememberFails(c)
              \/ Straggle(c)
         \/ \E w \in Workers : Wake(w) \/ Peek(w) \/ Read(w) \/ DropId(w) \/ Bury(w)
         \/ \E x \in Publishers :
              \/ Produce(x)
              \/ ProduceRaises(x)
              \/ Append(x)
              \/ Acknowledge(x)
              \/ Unavailable(x)
              \/ Remove(x)
              \/ RemoveFails(x)
              \/ Die(x)
  BY DEF Next, CallStep, WorkerStep, PublishStep, Failure

(* The controls a step leaves and enters.                                     *)
LEMMA Controlled ==
  /\ \A c \in Calls : Leave(c) = "over"
  /\ \A w \in Workers : Leave(w) = "asleep"
  /\ \A x : Leave(x) \in {"over", "asleep"}
  BY Different DEF Leave

(* Counting keeps the types.                                                  *)
LEMMA CountedTyped ==
  ASSUME NEW u \in [input : Nat, output : Nat], NEW v \in Counted(u)
  PROVE  v \in [input : Nat, output : Nat] /\ Quote(v) \in Nat
<1>3. Reports \subseteq Nat /\ \A n \in Sizes : u.output + n \in Nat
  BY GatewayAssumption
<1>1. v.input \in Nat /\ v.output \in Nat
  BY <1>3 DEF Counted
<1>2. v = [input |-> v.input, output |-> v.output]
  BY DEF Counted
<1> QED
  BY <1>1, <1>2 DEF Quote

(* One more control.                                                          *)
LEMMA Controlling ==
  ASSUME at \in [Publishers -> Controls], NEW x \in Publishers, NEW to \in Controls, Goto(x, to)
  PROVE  at' \in [Publishers -> Controls] /\ at'[x] = to
         /\ \A y \in Publishers : y # x => at'[y] = at[y]
  BY DEF Goto

(* Who sends a record is publishing.                                          *)
LEMMA Publishing ==
  ASSUME TypeOK, Next, NEW y \in Publishers, sent[y] = "none", sent'[y] = "queued"
  PROVE  at[y] = "publishing"
<1> USE DEF kafka, TypeOK
<1>2. ASSUME NEW c \in Calls, Reject(c) PROVE at[y] = "publishing"
  BY <1>2 DEF Reject
<1>3. ASSUME NEW c \in Calls, Run(c) PROVE at[y] = "publishing"
  BY <1>3 DEF Run
<1>4. ASSUME NEW c \in Calls, UpstreamError(c) PROVE at[y] = "publishing"
  BY <1>4 DEF UpstreamError
<1>5. ASSUME NEW c \in Calls, NoAnswer(c) PROVE at[y] = "publishing"
  BY <1>5 DEF NoAnswer
<1>6. ASSUME NEW c \in Calls, Answer(c) PROVE at[y] = "publishing"
  BY <1>6 DEF Answer
<1>7. ASSUME NEW c \in Calls, StreamStarts(c) PROVE at[y] = "publishing"
  BY <1>7 DEF StreamStarts
<1>8. ASSUME NEW c \in Calls, Chunk(c) PROVE at[y] = "publishing"
  BY <1>8 DEF Chunk
<1>9. ASSUME NEW c \in Calls, StreamEnds(c) PROVE at[y] = "publishing"
  BY <1>9 DEF StreamEnds
<1>10. ASSUME NEW c \in Calls, Claim(c) PROVE at[y] = "publishing"
  BY <1>10 DEF Claim
<1>11. ASSUME NEW c \in Calls, Store(c) PROVE at[y] = "publishing"
  BY <1>11 DEF Store
<1>12. ASSUME NEW c \in Calls, IngestFails(c) PROVE at[y] = "publishing"
  BY <1>12 DEF IngestFails
<1>13. ASSUME NEW c \in Calls, Remember(c) PROVE at[y] = "publishing"
  BY <1>13 DEF Remember
<1>14. ASSUME NEW c \in Calls, RememberFails(c) PROVE at[y] = "publishing"
  BY <1>14 DEF RememberFails
<1>15. ASSUME NEW c \in Calls, Straggle(c) PROVE at[y] = "publishing"
  BY <1>15 DEF Straggle
<1>16. ASSUME NEW w \in Workers, Wake(w) PROVE at[y] = "publishing"
  BY <1>16 DEF Wake
<1>17. ASSUME NEW w \in Workers, Peek(w) PROVE at[y] = "publishing"
  BY <1>17 DEF Peek
<1>18. ASSUME NEW w \in Workers, Read(w) PROVE at[y] = "publishing"
  BY <1>18 DEF Read
<1>19. ASSUME NEW w \in Workers, DropId(w) PROVE at[y] = "publishing"
  BY <1>19 DEF DropId
<1>20. ASSUME NEW w \in Workers, Bury(w) PROVE at[y] = "publishing"
  BY <1>20 DEF Bury
<1>21. ASSUME NEW x \in Publishers, Produce(x) PROVE at[y] = "publishing"
  BY <1>21 DEF Produce
<1>22. ASSUME NEW x \in Publishers, ProduceRaises(x) PROVE at[y] = "publishing"
  BY <1>22 DEF ProduceRaises
<1>23. ASSUME NEW x \in Publishers, Append(x) PROVE at[y] = "publishing"
  BY <1>23 DEF Append
<1>24. ASSUME NEW x \in Publishers, Acknowledge(x) PROVE at[y] = "publishing"
  BY <1>24 DEF Acknowledge
<1>25. ASSUME NEW x \in Publishers, Unavailable(x) PROVE at[y] = "publishing"
  BY <1>25 DEF Unavailable
<1>26. ASSUME NEW x \in Publishers, Remove(x) PROVE at[y] = "publishing"
  BY <1>26 DEF Remove
<1>27. ASSUME NEW x \in Publishers, RemoveFails(x) PROVE at[y] = "publishing"
  BY <1>27 DEF RemoveFails
<1>28. ASSUME NEW x \in Publishers, Die(x) PROVE at[y] = "publishing"
  BY <1>28 DEF Die
<1>29. ASSUME NEW c \in Calls, SettleRaises(c) PROVE at[y] = "publishing"
  BY <1>29 DEF SettleRaises
<1> QED
  BY Actions, <1>2, <1>3, <1>4, <1>5, <1>6, <1>7, <1>8, <1>9, <1>10, <1>11, <1>12,
     <1>13, <1>14, <1>15, <1>16, <1>17, <1>18, <1>19, <1>20, <1>21, <1>22, <1>23, <1>24,
     <1>25, <1>26, <1>27, <1>28, <1>29

(* A chunk comes to a stream that is not killed.                              *)
LEMMA Chunking ==
  ASSUME NEW c \in Calls, Chunk(c), Inv
  PROVE  stream' = stream /\ hold' = hold /\ stream[c] /\ ~killed[c]
<1>1. at[c] = "streaming" /\ ~killed[c] /\ stream' = stream /\ hold' = hold
  BY DEF Chunk
<1> QED
  BY <1>1 DEF Inv, Journey

(* A worker that reads holds an entry.                                        *)
LEMMA Grips ==
  ASSUME Inv, NEW w \in Workers, at[w] = "reading"
  PROVE  raw[entry[w]] \in {"none", "valid", "malformed"}
<1>1. entry[w] \in Entries
  BY Different DEF Inv, Grip, TypeOK, Entries
<1> QED
  BY <1>1 DEF Inv, TypeOK

(* Controls.                                                                  *)
LEMMA AtTyped ==
  ASSUME Inv, Next
  PROVE  at' \in [Publishers -> Controls]
<1>1. at \in [Publishers -> Controls]
  BY DEF Inv, TypeOK
<1> USE <1>1, Different, Controlled, Controlling DEF Controls
<1>2. ASSUME NEW c \in Calls, Reject(c) PROVE at' \in [Publishers -> Controls]
  BY <1>2 DEF Reject
<1>3. ASSUME NEW c \in Calls, Run(c) PROVE at' \in [Publishers -> Controls]
  BY <1>3 DEF Run
<1>4. ASSUME NEW c \in Calls, UpstreamError(c) PROVE at' \in [Publishers -> Controls]
  BY <1>4 DEF UpstreamError
<1>5. ASSUME NEW c \in Calls, NoAnswer(c) PROVE at' \in [Publishers -> Controls]
  BY <1>5 DEF NoAnswer
<1>6. ASSUME NEW c \in Calls, Answer(c) PROVE at' \in [Publishers -> Controls]
  BY <1>6 DEF Answer
<1>7. ASSUME NEW c \in Calls, StreamStarts(c) PROVE at' \in [Publishers -> Controls]
  BY <1>7 DEF StreamStarts
<1>8. ASSUME NEW c \in Calls, Chunk(c) PROVE at' \in [Publishers -> Controls]
  BY <1>8 DEF Chunk
<1>9. ASSUME NEW c \in Calls, StreamEnds(c) PROVE at' \in [Publishers -> Controls]
  BY <1>9 DEF StreamEnds
<1>10. ASSUME NEW c \in Calls, Claim(c) PROVE at' \in [Publishers -> Controls]
  BY <1>10 DEF Claim
<1>11. ASSUME NEW c \in Calls, Store(c) PROVE at' \in [Publishers -> Controls]
  BY <1>11 DEF Store
<1>12. ASSUME NEW c \in Calls, IngestFails(c) PROVE at' \in [Publishers -> Controls]
  BY <1>12 DEF IngestFails
<1>13. ASSUME NEW c \in Calls, Remember(c) PROVE at' \in [Publishers -> Controls]
  BY <1>13 DEF Remember
<1>14. ASSUME NEW c \in Calls, RememberFails(c) PROVE at' \in [Publishers -> Controls]
  BY <1>14 DEF RememberFails
<1>15. ASSUME NEW c \in Calls, Straggle(c) PROVE at' \in [Publishers -> Controls]
  BY <1>15 DEF Straggle
<1>16. ASSUME NEW w \in Workers, Wake(w) PROVE at' \in [Publishers -> Controls]
  BY <1>16 DEF Wake
<1>17. ASSUME NEW w \in Workers, Peek(w) PROVE at' \in [Publishers -> Controls]
  BY <1>17 DEF Peek
<1>18. ASSUME NEW w \in Workers, Read(w) PROVE at' \in [Publishers -> Controls]
  <2>1. \E to \in {"dropping", "publishing", "burying"} : Goto(w, to)
    BY <1>18, Grips DEF Read
  <2> QED
    BY <2>1, <1>18
<1>19. ASSUME NEW w \in Workers, DropId(w) PROVE at' \in [Publishers -> Controls]
  BY <1>19 DEF DropId
<1>20. ASSUME NEW w \in Workers, Bury(w) PROVE at' \in [Publishers -> Controls]
  BY <1>20 DEF Bury
<1>21. ASSUME NEW x \in Publishers, Produce(x) PROVE at' \in [Publishers -> Controls]
  BY <1>21 DEF Produce
<1>22. ASSUME NEW x \in Publishers, ProduceRaises(x) PROVE at' \in [Publishers -> Controls]
  BY <1>22 DEF ProduceRaises
<1>23. ASSUME NEW x \in Publishers, Append(x) PROVE at' \in [Publishers -> Controls]
  BY <1>23 DEF Append
<1>24. ASSUME NEW x \in Publishers, Acknowledge(x) PROVE at' \in [Publishers -> Controls]
  BY <1>24 DEF Acknowledge
<1>25. ASSUME NEW x \in Publishers, Unavailable(x) PROVE at' \in [Publishers -> Controls]
  BY <1>25 DEF Unavailable
<1>26. ASSUME NEW x \in Publishers, Remove(x) PROVE at' \in [Publishers -> Controls]
  BY <1>26 DEF Remove
<1>27. ASSUME NEW x \in Publishers, RemoveFails(x) PROVE at' \in [Publishers -> Controls]
  BY <1>27 DEF RemoveFails
<1>28. ASSUME NEW x \in Publishers, Die(x) PROVE at' \in [Publishers -> Controls]
  BY <1>28 DEF Die
<1>29. ASSUME NEW c \in Calls, SettleRaises(c) PROVE at' \in [Publishers -> Controls]
  BY <1>29 DEF SettleRaises
<1> QED
  BY Actions, <1>2, <1>3, <1>4, <1>5, <1>6, <1>7, <1>8, <1>9, <1>10, <1>11, <1>12,
     <1>13, <1>14, <1>15, <1>16, <1>17, <1>18, <1>19, <1>20, <1>21, <1>22, <1>23, <1>24,
     <1>25, <1>26, <1>27, <1>28, <1>29

(* The figures of the calls.                                                  *)
LEMMA FiguresTyped ==
  ASSUME Inv, Next
  PROVE  Figures'
<1> USE DEF calls
<1>1. TypeOK
  BY DEF Inv
<1> USE <1>1, GatewayAssumption DEF TypeOK, Figures
<1>2. ASSUME NEW c \in Calls, Reject(c) PROVE Figures'
  BY <1>2 DEF Reject
<1>3. ASSUME NEW c \in Calls, Run(c) PROVE Figures'
  <2>1. CASE UNCHANGED calls
    BY <1>3, <2>1 DEF Run
  <2>2. ASSUME NEW streams \in BOOLEAN, NEW amount \in Holds,
               stream' = [stream EXCEPT ![c] = streams], hold' = [hold EXCEPT ![c] = amount]
        PROVE  stream' \in [Calls -> BOOLEAN] /\ hold' \in [Calls -> Nat]
    BY <2>2
  <2> QED
    BY <1>3, <2>1, <2>2 DEF Run
<1>4. ASSUME NEW c \in Calls, UpstreamError(c) PROVE Figures'
  BY <1>4 DEF UpstreamError
<1>5. ASSUME NEW c \in Calls, NoAnswer(c) PROVE Figures'
  BY <1>5 DEF NoAnswer
<1>6. ASSUME NEW c \in Calls, Answer(c) PROVE Figures'
  BY <1>6 DEF Answer
<1>7. ASSUME NEW c \in Calls, StreamStarts(c) PROVE Figures'
  BY <1>7 DEF StreamStarts
<1>8. ASSUME NEW c \in Calls, Chunk(c) PROVE Figures'
  <2>1. PICK u \in Counted(usage[c]) :
          /\ usage' = [usage EXCEPT ![c] = u]
          /\ passed' \in {passed, [passed EXCEPT ![c] = Quote(u)]}
          /\ killed' \in {killed, [killed EXCEPT ![c] = TRUE]}
    BY <1>8 DEF Chunk
  <2>2. u \in [input : Nat, output : Nat] /\ Quote(u) \in Nat
    BY CountedTyped
  <2>3. UNCHANGED <<stream, hold, settled, identity>>
    BY <1>8 DEF Chunk
  <2>4. usage' \in [Calls -> [input : Nat, output : Nat]]
    BY <2>1, <2>2
  <2>5. passed' \in [Calls -> Nat]
    BY <2>1, <2>2
  <2>6. killed' \in [Calls -> BOOLEAN]
    BY <2>1
  <2> QED
    BY <2>3, <2>4, <2>5, <2>6
<1>9. ASSUME NEW c \in Calls, StreamEnds(c) PROVE Figures'
  BY <1>9 DEF StreamEnds
<1>10. ASSUME NEW c \in Calls, Claim(c) PROVE Figures'
  BY <1>10 DEF Claim
<1>11. ASSUME NEW c \in Calls, Store(c) PROVE Figures'
  BY <1>11 DEF Store
<1>12. ASSUME NEW c \in Calls, IngestFails(c) PROVE Figures'
  BY <1>12 DEF IngestFails
<1>13. ASSUME NEW c \in Calls, Remember(c) PROVE Figures'
  BY <1>13 DEF Remember
<1>14. ASSUME NEW c \in Calls, RememberFails(c) PROVE Figures'
  BY <1>14 DEF RememberFails
<1>15. ASSUME NEW c \in Calls, Straggle(c) PROVE Figures'
  BY <1>15 DEF Straggle
<1>16. ASSUME NEW w \in Workers, Wake(w) PROVE Figures'
  BY <1>16 DEF Wake
<1>17. ASSUME NEW w \in Workers, Peek(w) PROVE Figures'
  BY <1>17 DEF Peek
<1>18. ASSUME NEW w \in Workers, Read(w) PROVE Figures'
  BY <1>18 DEF Read
<1>19. ASSUME NEW w \in Workers, DropId(w) PROVE Figures'
  BY <1>19 DEF DropId
<1>20. ASSUME NEW w \in Workers, Bury(w) PROVE Figures'
  BY <1>20 DEF Bury
<1>21. ASSUME NEW x \in Publishers, Produce(x) PROVE Figures'
  BY <1>21 DEF Produce
<1>22. ASSUME NEW x \in Publishers, ProduceRaises(x) PROVE Figures'
  BY <1>22 DEF ProduceRaises
<1>23. ASSUME NEW x \in Publishers, Append(x) PROVE Figures'
  BY <1>23 DEF Append
<1>24. ASSUME NEW x \in Publishers, Acknowledge(x) PROVE Figures'
  BY <1>24 DEF Acknowledge
<1>25. ASSUME NEW x \in Publishers, Unavailable(x) PROVE Figures'
  BY <1>25 DEF Unavailable
<1>26. ASSUME NEW x \in Publishers, Remove(x) PROVE Figures'
  BY <1>26 DEF Remove
<1>27. ASSUME NEW x \in Publishers, RemoveFails(x) PROVE Figures'
  BY <1>27 DEF RemoveFails
<1>28. ASSUME NEW x \in Publishers, Die(x) PROVE Figures'
  BY <1>28 DEF Die
<1>29. ASSUME NEW c \in Calls, SettleRaises(c) PROVE Figures'
  BY <1>29 DEF SettleRaises
<1> QED
  BY Actions, <1>2, <1>3, <1>4, <1>5, <1>6, <1>7, <1>8, <1>9, <1>10, <1>11, <1>12,
     <1>13, <1>14, <1>15, <1>16, <1>17, <1>18, <1>19, <1>20, <1>21, <1>22, <1>23, <1>24,
     <1>25, <1>26, <1>27, <1>28, <1>29

(* The outbox, and what the workers hold.                                     *)
LEMMA OutboxTyped ==
  ASSUME Inv, Next
  PROVE  Redis'
<1> USE DEF outbox
<1>1. TypeOK
  BY DEF Inv
<1> USE <1>1, GatewayAssumption, Different DEF TypeOK, Redis
<1>2. ASSUME NEW c \in Calls, Reject(c) PROVE Redis'
  BY <1>2 DEF Reject
<1>3. ASSUME NEW c \in Calls, Run(c) PROVE Redis'
  BY <1>3 DEF Run
<1>4. ASSUME NEW c \in Calls, UpstreamError(c) PROVE Redis'
  BY <1>4 DEF UpstreamError
<1>5. ASSUME NEW c \in Calls, NoAnswer(c) PROVE Redis'
  BY <1>5 DEF NoAnswer
<1>6. ASSUME NEW c \in Calls, Answer(c) PROVE Redis'
  BY <1>6 DEF Answer
<1>7. ASSUME NEW c \in Calls, StreamStarts(c) PROVE Redis'
  BY <1>7 DEF StreamStarts
<1>8. ASSUME NEW c \in Calls, Chunk(c) PROVE Redis'
  BY <1>8 DEF Chunk
<1>9. ASSUME NEW c \in Calls, StreamEnds(c) PROVE Redis'
  BY <1>9 DEF StreamEnds
<1>10. ASSUME NEW c \in Calls, Claim(c) PROVE Redis'
  BY <1>10 DEF Claim
<1>11. ASSUME NEW c \in Calls, Store(c) PROVE Redis'
  BY <1>11 DEF Store, Put
<1>12. ASSUME NEW c \in Calls, IngestFails(c) PROVE Redis'
  BY <1>12, SMTT(30) DEF IngestFails, Put
<1>13. ASSUME NEW c \in Calls, Remember(c) PROVE Redis'
  BY <1>13 DEF Remember
<1>14. ASSUME NEW c \in Calls, RememberFails(c) PROVE Redis'
  BY <1>14 DEF RememberFails
<1>15. ASSUME NEW c \in Calls, Straggle(c) PROVE Redis'
  BY <1>15 DEF Straggle
<1>16. ASSUME NEW w \in Workers, Wake(w) PROVE Redis'
  BY <1>16 DEF Wake
<1>17. ASSUME NEW w \in Workers, Peek(w) PROVE Redis'
  BY <1>17 DEF Peek, Heads, Pending
<1>18. ASSUME NEW w \in Workers, Read(w) PROVE Redis'
  BY <1>18 DEF Read
<1>19. ASSUME NEW w \in Workers, DropId(w) PROVE Redis'
  BY <1>19 DEF DropId
<1>20. ASSUME NEW w \in Workers, Bury(w) PROVE Redis'
  BY <1>20 DEF Bury, Inv, Grip
<1>21. ASSUME NEW x \in Publishers, Produce(x) PROVE Redis'
  BY <1>21 DEF Produce
<1>22. ASSUME NEW x \in Publishers, ProduceRaises(x) PROVE Redis'
  BY <1>22 DEF ProduceRaises
<1>23. ASSUME NEW x \in Publishers, Append(x) PROVE Redis'
  BY <1>23 DEF Append
<1>24. ASSUME NEW x \in Publishers, Acknowledge(x) PROVE Redis'
  BY <1>24 DEF Acknowledge
<1>25. ASSUME NEW x \in Publishers, Unavailable(x) PROVE Redis'
  BY <1>25 DEF Unavailable
<1>26. ASSUME NEW x \in Publishers, Remove(x) PROVE Redis'
  BY <1>26 DEF Remove, Taken
<1>27. ASSUME NEW x \in Publishers, RemoveFails(x) PROVE Redis'
  BY <1>27 DEF RemoveFails, Taken
<1>28. ASSUME NEW x \in Publishers, Die(x) PROVE Redis'
  BY <1>28 DEF Die
<1>29. ASSUME NEW c \in Calls, SettleRaises(c) PROVE Redis'
  BY <1>29 DEF SettleRaises
<1> QED
  BY Actions, <1>2, <1>3, <1>4, <1>5, <1>6, <1>7, <1>8, <1>9, <1>10, <1>11, <1>12,
     <1>13, <1>14, <1>15, <1>16, <1>17, <1>18, <1>19, <1>20, <1>21, <1>22, <1>23, <1>24,
     <1>25, <1>26, <1>27, <1>28, <1>29

(* A record is on the way only while its publisher waits.                     *)
LEMMA SentTyped ==
  ASSUME Inv, Next
  PROVE  Sending'
<1> USE DEF kafka, Goto
<1>1. TypeOK
  BY DEF Inv
<1> USE <1>1, Different DEF TypeOK, Sending
<1>2. ASSUME NEW c \in Calls, Reject(c) PROVE Sending'
  BY <1>2 DEF Reject
<1>3. ASSUME NEW c \in Calls, Run(c) PROVE Sending'
  BY <1>3 DEF Run
<1>4. ASSUME NEW c \in Calls, UpstreamError(c) PROVE Sending'
  BY <1>4 DEF UpstreamError
<1>5. ASSUME NEW c \in Calls, NoAnswer(c) PROVE Sending'
  BY <1>5 DEF NoAnswer
<1>6. ASSUME NEW c \in Calls, Answer(c) PROVE Sending'
  BY <1>6 DEF Answer
<1>7. ASSUME NEW c \in Calls, StreamStarts(c) PROVE Sending'
  BY <1>7 DEF StreamStarts
<1>8. ASSUME NEW c \in Calls, Chunk(c) PROVE Sending'
  BY <1>8 DEF Chunk
<1>9. ASSUME NEW c \in Calls, StreamEnds(c) PROVE Sending'
  BY <1>9 DEF StreamEnds
<1>10. ASSUME NEW c \in Calls, Claim(c) PROVE Sending'
  BY <1>10 DEF Claim
<1>11. ASSUME NEW c \in Calls, Store(c) PROVE Sending'
  BY <1>11 DEF Store
<1>12. ASSUME NEW c \in Calls, IngestFails(c) PROVE Sending'
  BY <1>12 DEF IngestFails
<1>13. ASSUME NEW c \in Calls, Remember(c) PROVE Sending'
  BY <1>13 DEF Remember
<1>14. ASSUME NEW c \in Calls, RememberFails(c) PROVE Sending'
  BY <1>14 DEF RememberFails
<1>15. ASSUME NEW c \in Calls, Straggle(c) PROVE Sending'
  BY <1>15 DEF Straggle
<1>16. ASSUME NEW w \in Workers, Wake(w) PROVE Sending'
  BY <1>16 DEF Wake
<1>17. ASSUME NEW w \in Workers, Peek(w) PROVE Sending'
  BY <1>17 DEF Peek
<1>18. ASSUME NEW w \in Workers, Read(w) PROVE Sending'
  BY <1>18 DEF Read
<1>19. ASSUME NEW w \in Workers, DropId(w) PROVE Sending'
  BY <1>19 DEF DropId
<1>20. ASSUME NEW w \in Workers, Bury(w) PROVE Sending'
  BY <1>20 DEF Bury
<1>21. ASSUME NEW x \in Publishers, Produce(x) PROVE Sending'
  BY <1>21 DEF Produce
<1>22. ASSUME NEW x \in Publishers, ProduceRaises(x) PROVE Sending'
  BY <1>22 DEF ProduceRaises
<1>23. ASSUME NEW x \in Publishers, Append(x) PROVE Sending'
  BY <1>23 DEF Append
<1>24. ASSUME NEW x \in Publishers, Acknowledge(x) PROVE Sending'
  BY <1>24 DEF Acknowledge
<1>25. ASSUME NEW x \in Publishers, Unavailable(x) PROVE Sending'
  BY <1>25 DEF Unavailable
<1>26. ASSUME NEW x \in Publishers, Remove(x) PROVE Sending'
  BY <1>26 DEF Remove
<1>27. ASSUME NEW x \in Publishers, RemoveFails(x) PROVE Sending'
  BY <1>27 DEF RemoveFails
<1>28. ASSUME NEW x \in Publishers, Die(x) PROVE Sending'
  BY <1>28 DEF Die
<1>29. ASSUME NEW c \in Calls, SettleRaises(c) PROVE Sending'
  BY <1>29 DEF SettleRaises
<1> QED
  BY Actions, <1>2, <1>3, <1>4, <1>5, <1>6, <1>7, <1>8, <1>9, <1>10, <1>11, <1>12,
     <1>13, <1>14, <1>15, <1>16, <1>17, <1>18, <1>19, <1>20, <1>21, <1>22, <1>23, <1>24,
     <1>25, <1>26, <1>27, <1>28, <1>29

(* What was stored, and only that, is acknowledged or arrives.                 *)
LEMMA HistoryTyped ==
  ASSUME Inv, Next
  PROVE  Arrivals'
<1> USE DEF kafka, history, Fault
<1>1. TypeOK
  BY DEF Inv
<1> USE <1>1, GatewayAssumption DEF TypeOK, Arrivals
<1>2. ASSUME NEW c \in Calls, Reject(c) PROVE Arrivals'
  BY <1>2 DEF Reject
<1>3. ASSUME NEW c \in Calls, Run(c) PROVE Arrivals'
  BY <1>3 DEF Run
<1>4. ASSUME NEW c \in Calls, UpstreamError(c) PROVE Arrivals'
  BY <1>4 DEF UpstreamError
<1>5. ASSUME NEW c \in Calls, NoAnswer(c) PROVE Arrivals'
  BY <1>5 DEF NoAnswer
<1>6. ASSUME NEW c \in Calls, Answer(c) PROVE Arrivals'
  BY <1>6 DEF Answer
<1>7. ASSUME NEW c \in Calls, StreamStarts(c) PROVE Arrivals'
  BY <1>7 DEF StreamStarts
<1>8. ASSUME NEW c \in Calls, Chunk(c) PROVE Arrivals'
  BY <1>8 DEF Chunk
<1>9. ASSUME NEW c \in Calls, StreamEnds(c) PROVE Arrivals'
  BY <1>9 DEF StreamEnds
<1>10. ASSUME NEW c \in Calls, Claim(c) PROVE Arrivals'
  BY <1>10 DEF Claim
<1>11. ASSUME NEW c \in Calls, Store(c) PROVE Arrivals'
  BY <1>11 DEF Store, Put, Inv, Journey, Early
<1>12. ASSUME NEW c \in Calls, IngestFails(c) PROVE Arrivals'
  BY <1>12 DEF IngestFails, Put, Inv, Journey, Early
<1>13. ASSUME NEW c \in Calls, Remember(c) PROVE Arrivals'
  BY <1>13 DEF Remember
<1>14. ASSUME NEW c \in Calls, RememberFails(c) PROVE Arrivals'
  BY <1>14 DEF RememberFails
<1>15. ASSUME NEW c \in Calls, Straggle(c) PROVE Arrivals'
  BY <1>15 DEF Straggle
<1>16. ASSUME NEW w \in Workers, Wake(w) PROVE Arrivals'
  BY <1>16 DEF Wake
<1>17. ASSUME NEW w \in Workers, Peek(w) PROVE Arrivals'
  BY <1>17 DEF Peek
<1>18. ASSUME NEW w \in Workers, Read(w) PROVE Arrivals'
  BY <1>18 DEF Read
<1>19. ASSUME NEW w \in Workers, DropId(w) PROVE Arrivals'
  BY <1>19 DEF DropId
<1>20. ASSUME NEW w \in Workers, Bury(w) PROVE Arrivals'
  BY <1>20 DEF Bury
<1>21. ASSUME NEW x \in Publishers, Produce(x) PROVE Arrivals'
  BY <1>21 DEF Produce
<1>22. ASSUME NEW x \in Publishers, ProduceRaises(x) PROVE Arrivals'
  BY <1>22 DEF ProduceRaises
<1>23. ASSUME NEW x \in Publishers, Append(x) PROVE Arrivals'
  BY <1>23, Aim DEF Append
<1>24. ASSUME NEW x \in Publishers, Acknowledge(x) PROVE Arrivals'
  BY <1>24, Aim DEF Acknowledge
<1>25. ASSUME NEW x \in Publishers, Unavailable(x) PROVE Arrivals'
  BY <1>25, Aim DEF Unavailable
<1>26. ASSUME NEW x \in Publishers, Remove(x) PROVE Arrivals'
  BY <1>26 DEF Remove
<1>27. ASSUME NEW x \in Publishers, RemoveFails(x) PROVE Arrivals'
  BY <1>27 DEF RemoveFails
<1>28. ASSUME NEW x \in Publishers, Die(x) PROVE Arrivals'
  BY <1>28, Aim DEF Die
<1>29. ASSUME NEW c \in Calls, SettleRaises(c) PROVE Arrivals'
  BY <1>29 DEF SettleRaises
<1> QED
  BY Actions, <1>2, <1>3, <1>4, <1>5, <1>6, <1>7, <1>8, <1>9, <1>10, <1>11, <1>12,
     <1>13, <1>14, <1>15, <1>16, <1>17, <1>18, <1>19, <1>20, <1>21, <1>22, <1>23, <1>24,
     <1>25, <1>26, <1>27, <1>28, <1>29

(* Types.                                                                     *)
LEMMA TypeStep ==
  ASSUME Inv, Next PROVE TypeOK'
  BY AtTyped, FiguresTyped, OutboxTyped, SentTyped, HistoryTyped DEF TypeOK, Figures, Redis, Sending, Arrivals

(* The way of a call.                                                         *)
LEMMA JourneyStep ==
  ASSUME Inv, Next
  PROVE  \A d \in Calls : Journey(d)'
<1> USE DEF calls, history, Goto
<1>1. TypeOK /\ TypeOK'
  BY TypeStep DEF Inv
<1> USE <1>1, Different, Controlled DEF TypeOK, Inv, Journey, Early, Later
<1>2. ASSUME NEW c \in Calls, Reject(c) PROVE \A d \in Calls : Journey(d)'
  BY <1>2 DEF Reject
<1>3. ASSUME NEW c \in Calls, Run(c) PROVE \A d \in Calls : Journey(d)'
  BY <1>3 DEF Run
<1>4. ASSUME NEW c \in Calls, UpstreamError(c) PROVE \A d \in Calls : Journey(d)'
  BY <1>4 DEF UpstreamError
<1>5. ASSUME NEW c \in Calls, NoAnswer(c) PROVE \A d \in Calls : Journey(d)'
  BY <1>5 DEF NoAnswer
<1>6. ASSUME NEW c \in Calls, Answer(c) PROVE \A d \in Calls : Journey(d)'
  BY <1>6 DEF Answer
<1>7. ASSUME NEW c \in Calls, StreamStarts(c) PROVE \A d \in Calls : Journey(d)'
  BY <1>7 DEF StreamStarts
<1>8. ASSUME NEW c \in Calls, Chunk(c) PROVE \A d \in Calls : Journey(d)'
  BY <1>8 DEF Chunk
<1>9. ASSUME NEW c \in Calls, StreamEnds(c) PROVE \A d \in Calls : Journey(d)'
  BY <1>9 DEF StreamEnds
<1>10. ASSUME NEW c \in Calls, Claim(c) PROVE \A d \in Calls : Journey(d)'
  BY <1>10 DEF Claim
<1>11. ASSUME NEW c \in Calls, Store(c) PROVE \A d \in Calls : Journey(d)'
  BY <1>11 DEF Store, Put
<1>12. ASSUME NEW c \in Calls, IngestFails(c) PROVE \A d \in Calls : Journey(d)'
  BY <1>12 DEF IngestFails, Put
<1>13. ASSUME NEW c \in Calls, Remember(c) PROVE \A d \in Calls : Journey(d)'
  BY <1>13 DEF Remember
<1>14. ASSUME NEW c \in Calls, RememberFails(c) PROVE \A d \in Calls : Journey(d)'
  BY <1>14 DEF RememberFails
<1>15. ASSUME NEW c \in Calls, Straggle(c) PROVE \A d \in Calls : Journey(d)'
  BY <1>15 DEF Straggle
<1>16. ASSUME NEW w \in Workers, Wake(w) PROVE \A d \in Calls : Journey(d)'
  BY <1>16 DEF Wake
<1>17. ASSUME NEW w \in Workers, Peek(w) PROVE \A d \in Calls : Journey(d)'
  BY <1>17 DEF Peek
<1>18. ASSUME NEW w \in Workers, Read(w) PROVE \A d \in Calls : Journey(d)'
  BY <1>18 DEF Read
<1>19. ASSUME NEW w \in Workers, DropId(w) PROVE \A d \in Calls : Journey(d)'
  BY <1>19 DEF DropId
<1>20. ASSUME NEW w \in Workers, Bury(w) PROVE \A d \in Calls : Journey(d)'
  BY <1>20 DEF Bury
<1>21. ASSUME NEW x \in Publishers, Produce(x) PROVE \A d \in Calls : Journey(d)'
  BY <1>21 DEF Produce
<1>22. ASSUME NEW x \in Publishers, ProduceRaises(x) PROVE \A d \in Calls : Journey(d)'
  BY <1>22 DEF ProduceRaises
<1>23. ASSUME NEW x \in Publishers, Append(x) PROVE \A d \in Calls : Journey(d)'
  BY <1>23 DEF Append
<1>24. ASSUME NEW x \in Publishers, Acknowledge(x) PROVE \A d \in Calls : Journey(d)'
  BY <1>24 DEF Acknowledge
<1>25. ASSUME NEW x \in Publishers, Unavailable(x) PROVE \A d \in Calls : Journey(d)'
  BY <1>25 DEF Unavailable
<1>26. ASSUME NEW x \in Publishers, Remove(x) PROVE \A d \in Calls : Journey(d)'
  BY <1>26 DEF Remove
<1>27. ASSUME NEW x \in Publishers, RemoveFails(x) PROVE \A d \in Calls : Journey(d)'
  BY <1>27 DEF RemoveFails
<1>28. ASSUME NEW x \in Publishers, Die(x) PROVE \A d \in Calls : Journey(d)'
  BY <1>28 DEF Die
<1>29. ASSUME NEW c \in Calls, SettleRaises(c) PROVE \A d \in Calls : Journey(d)'
  BY <1>29 DEF SettleRaises
<1> QED
  BY Actions, <1>2, <1>3, <1>4, <1>5, <1>6, <1>7, <1>8, <1>9, <1>10, <1>11, <1>12,
     <1>13, <1>14, <1>15, <1>16, <1>17, <1>18, <1>19, <1>20, <1>21, <1>22, <1>23, <1>24,
     <1>25, <1>26, <1>27, <1>28, <1>29

(* The stream guard.                                                          *)
LEMMA GuardedStep ==
  ASSUME Inv, Next
  PROVE  \A d \in Calls : Guarded(d)'
<1> USE DEF calls
<1>1. TypeOK /\ TypeOK'
  BY TypeStep DEF Inv
<1> USE <1>1, GatewayAssumption DEF TypeOK, Inv, Guarded, OverHold, Quote, NoTokens
<1>2. ASSUME NEW c \in Calls, Reject(c) PROVE \A d \in Calls : Guarded(d)'
  BY <1>2 DEF Reject
<1>3. ASSUME NEW c \in Calls, Run(c) PROVE \A d \in Calls : Guarded(d)'
  BY <1>3 DEF Run, Journey
<1>4. ASSUME NEW c \in Calls, UpstreamError(c) PROVE \A d \in Calls : Guarded(d)'
  BY <1>4 DEF UpstreamError
<1>5. ASSUME NEW c \in Calls, NoAnswer(c) PROVE \A d \in Calls : Guarded(d)'
  BY <1>5 DEF NoAnswer
<1>6. ASSUME NEW c \in Calls, Answer(c) PROVE \A d \in Calls : Guarded(d)'
  BY <1>6 DEF Answer, Journey
<1>7. ASSUME NEW c \in Calls, StreamStarts(c) PROVE \A d \in Calls : Guarded(d)'
  BY <1>7 DEF StreamStarts
<1>8. ASSUME NEW c \in Calls, Chunk(c) PROVE \A d \in Calls : Guarded(d)'
  <2>1. PICK u \in Counted(usage[c]) :
          /\ usage' = [usage EXCEPT ![c] = u]
          /\ IF OverHold(c, u) THEN killed' = [killed EXCEPT ![c] = TRUE] /\ UNCHANGED passed
             ELSE passed' = [passed EXCEPT ![c] = Quote(u)] /\ UNCHANGED killed
    BY <1>8 DEF Chunk
  <2>2. stream' = stream /\ hold' = hold /\ stream[c] /\ ~killed[c]
    BY <1>8, Chunking
  <2>3. ASSUME NEW d \in Calls, d # c PROVE Guarded(d)'
    BY <2>1, <2>2, <2>3
  <2>4. usage'[c] = u
    BY <2>1
  <2>5. u \in [input : Nat, output : Nat]
    BY CountedTyped
  <2>6. CASE OverHold(c, u)
    BY <2>1, <2>2, <2>4, <2>5, <2>6
  <2>7. CASE ~OverHold(c, u)
    BY <2>1, <2>2, <2>4, <2>5, <2>7
  <2> QED
    BY <2>3, <2>6, <2>7
<1>9. ASSUME NEW c \in Calls, StreamEnds(c) PROVE \A d \in Calls : Guarded(d)'
  BY <1>9 DEF StreamEnds
<1>10. ASSUME NEW c \in Calls, Claim(c) PROVE \A d \in Calls : Guarded(d)'
  BY <1>10 DEF Claim
<1>11. ASSUME NEW c \in Calls, Store(c) PROVE \A d \in Calls : Guarded(d)'
  BY <1>11 DEF Store
<1>12. ASSUME NEW c \in Calls, IngestFails(c) PROVE \A d \in Calls : Guarded(d)'
  BY <1>12 DEF IngestFails
<1>13. ASSUME NEW c \in Calls, Remember(c) PROVE \A d \in Calls : Guarded(d)'
  BY <1>13 DEF Remember
<1>14. ASSUME NEW c \in Calls, RememberFails(c) PROVE \A d \in Calls : Guarded(d)'
  BY <1>14 DEF RememberFails
<1>15. ASSUME NEW c \in Calls, Straggle(c) PROVE \A d \in Calls : Guarded(d)'
  BY <1>15 DEF Straggle
<1>16. ASSUME NEW w \in Workers, Wake(w) PROVE \A d \in Calls : Guarded(d)'
  BY <1>16 DEF Wake
<1>17. ASSUME NEW w \in Workers, Peek(w) PROVE \A d \in Calls : Guarded(d)'
  BY <1>17 DEF Peek
<1>18. ASSUME NEW w \in Workers, Read(w) PROVE \A d \in Calls : Guarded(d)'
  BY <1>18 DEF Read
<1>19. ASSUME NEW w \in Workers, DropId(w) PROVE \A d \in Calls : Guarded(d)'
  BY <1>19 DEF DropId
<1>20. ASSUME NEW w \in Workers, Bury(w) PROVE \A d \in Calls : Guarded(d)'
  BY <1>20 DEF Bury
<1>21. ASSUME NEW x \in Publishers, Produce(x) PROVE \A d \in Calls : Guarded(d)'
  BY <1>21 DEF Produce
<1>22. ASSUME NEW x \in Publishers, ProduceRaises(x) PROVE \A d \in Calls : Guarded(d)'
  BY <1>22 DEF ProduceRaises
<1>23. ASSUME NEW x \in Publishers, Append(x) PROVE \A d \in Calls : Guarded(d)'
  BY <1>23 DEF Append
<1>24. ASSUME NEW x \in Publishers, Acknowledge(x) PROVE \A d \in Calls : Guarded(d)'
  BY <1>24 DEF Acknowledge
<1>25. ASSUME NEW x \in Publishers, Unavailable(x) PROVE \A d \in Calls : Guarded(d)'
  BY <1>25 DEF Unavailable
<1>26. ASSUME NEW x \in Publishers, Remove(x) PROVE \A d \in Calls : Guarded(d)'
  BY <1>26 DEF Remove
<1>27. ASSUME NEW x \in Publishers, RemoveFails(x) PROVE \A d \in Calls : Guarded(d)'
  BY <1>27 DEF RemoveFails
<1>28. ASSUME NEW x \in Publishers, Die(x) PROVE \A d \in Calls : Guarded(d)'
  BY <1>28 DEF Die
<1>29. ASSUME NEW c \in Calls, SettleRaises(c) PROVE \A d \in Calls : Guarded(d)'
  BY <1>29 DEF SettleRaises
<1> QED
  BY Actions, <1>2, <1>3, <1>4, <1>5, <1>6, <1>7, <1>8, <1>9, <1>10, <1>11, <1>12,
     <1>13, <1>14, <1>15, <1>16, <1>17, <1>18, <1>19, <1>20, <1>21, <1>22, <1>23, <1>24,
     <1>25, <1>26, <1>27, <1>28, <1>29

(* Entries in the outbox.                                                     *)
LEMMA OriginsStep ==
  ASSUME Inv, Next
  PROVE  Origins'
<1> USE DEF outbox, history
<1>1. TypeOK /\ TypeOK'
  BY TypeStep DEF Inv
<1> USE <1>1, Different DEF TypeOK, Inv, Origins
<1>2. ASSUME NEW c \in Calls, Reject(c) PROVE Origins'
  BY <1>2 DEF Reject
<1>3. ASSUME NEW c \in Calls, Run(c) PROVE Origins'
  BY <1>3 DEF Run
<1>4. ASSUME NEW c \in Calls, UpstreamError(c) PROVE Origins'
  BY <1>4 DEF UpstreamError
<1>5. ASSUME NEW c \in Calls, NoAnswer(c) PROVE Origins'
  BY <1>5 DEF NoAnswer
<1>6. ASSUME NEW c \in Calls, Answer(c) PROVE Origins'
  BY <1>6 DEF Answer
<1>7. ASSUME NEW c \in Calls, StreamStarts(c) PROVE Origins'
  BY <1>7 DEF StreamStarts
<1>8. ASSUME NEW c \in Calls, Chunk(c) PROVE Origins'
  BY <1>8 DEF Chunk
<1>9. ASSUME NEW c \in Calls, StreamEnds(c) PROVE Origins'
  BY <1>9 DEF StreamEnds
<1>10. ASSUME NEW c \in Calls, Claim(c) PROVE Origins'
  BY <1>10 DEF Claim
<1>11. ASSUME NEW c \in Calls, Store(c) PROVE Origins'
  BY <1>11 DEF Store, Put
<1>12. ASSUME NEW c \in Calls, IngestFails(c) PROVE Origins'
  BY <1>12 DEF IngestFails, Put
<1>13. ASSUME NEW c \in Calls, Remember(c) PROVE Origins'
  BY <1>13 DEF Remember
<1>14. ASSUME NEW c \in Calls, RememberFails(c) PROVE Origins'
  BY <1>14 DEF RememberFails
<1>15. ASSUME NEW c \in Calls, Straggle(c) PROVE Origins'
  BY <1>15 DEF Straggle
<1>16. ASSUME NEW w \in Workers, Wake(w) PROVE Origins'
  BY <1>16 DEF Wake
<1>17. ASSUME NEW w \in Workers, Peek(w) PROVE Origins'
  BY <1>17 DEF Peek
<1>18. ASSUME NEW w \in Workers, Read(w) PROVE Origins'
  BY <1>18 DEF Read
<1>19. ASSUME NEW w \in Workers, DropId(w) PROVE Origins'
  BY <1>19 DEF DropId
<1>20. ASSUME NEW w \in Workers, Bury(w) PROVE Origins'
  BY <1>20 DEF Bury
<1>21. ASSUME NEW x \in Publishers, Produce(x) PROVE Origins'
  BY <1>21 DEF Produce
<1>22. ASSUME NEW x \in Publishers, ProduceRaises(x) PROVE Origins'
  BY <1>22 DEF ProduceRaises
<1>23. ASSUME NEW x \in Publishers, Append(x) PROVE Origins'
  BY <1>23 DEF Append
<1>24. ASSUME NEW x \in Publishers, Acknowledge(x) PROVE Origins'
  BY <1>24 DEF Acknowledge
<1>25. ASSUME NEW x \in Publishers, Unavailable(x) PROVE Origins'
  BY <1>25 DEF Unavailable
<1>26. ASSUME NEW x \in Publishers, Remove(x) PROVE Origins'
  BY <1>26 DEF Remove, Taken
<1>27. ASSUME NEW x \in Publishers, RemoveFails(x) PROVE Origins'
  BY <1>27 DEF RemoveFails, Taken
<1>28. ASSUME NEW x \in Publishers, Die(x) PROVE Origins'
  BY <1>28 DEF Die
<1>29. ASSUME NEW c \in Calls, SettleRaises(c) PROVE Origins'
  BY <1>29 DEF SettleRaises
<1> QED
  BY Actions, <1>2, <1>3, <1>4, <1>5, <1>6, <1>7, <1>8, <1>9, <1>10, <1>11, <1>12,
     <1>13, <1>14, <1>15, <1>16, <1>17, <1>18, <1>19, <1>20, <1>21, <1>22, <1>23, <1>24,
     <1>25, <1>26, <1>27, <1>28, <1>29

(* What the workers hold.                                                     *)
LEMMA GripStep ==
  ASSUME Inv, Next
  PROVE  \A v \in Workers : Grip(v)'
<1> USE DEF outbox, history, Goto
<1>1. TypeOK /\ TypeOK'
  BY TypeStep DEF Inv
<1> USE <1>1, Different, Controlled DEF TypeOK, Inv, Grip
<1>2. ASSUME NEW c \in Calls, Reject(c) PROVE \A v \in Workers : Grip(v)'
  BY <1>2 DEF Reject
<1>3. ASSUME NEW c \in Calls, Run(c) PROVE \A v \in Workers : Grip(v)'
  BY <1>3 DEF Run
<1>4. ASSUME NEW c \in Calls, UpstreamError(c) PROVE \A v \in Workers : Grip(v)'
  BY <1>4 DEF UpstreamError
<1>5. ASSUME NEW c \in Calls, NoAnswer(c) PROVE \A v \in Workers : Grip(v)'
  BY <1>5 DEF NoAnswer
<1>6. ASSUME NEW c \in Calls, Answer(c) PROVE \A v \in Workers : Grip(v)'
  BY <1>6 DEF Answer
<1>7. ASSUME NEW c \in Calls, StreamStarts(c) PROVE \A v \in Workers : Grip(v)'
  BY <1>7 DEF StreamStarts
<1>8. ASSUME NEW c \in Calls, Chunk(c) PROVE \A v \in Workers : Grip(v)'
  BY <1>8 DEF Chunk
<1>9. ASSUME NEW c \in Calls, StreamEnds(c) PROVE \A v \in Workers : Grip(v)'
  BY <1>9 DEF StreamEnds
<1>10. ASSUME NEW c \in Calls, Claim(c) PROVE \A v \in Workers : Grip(v)'
  BY <1>10 DEF Claim
<1>11. ASSUME NEW c \in Calls, Store(c) PROVE \A v \in Workers : Grip(v)'
  BY <1>11 DEF Store, Put, Journey, Early
<1>12. ASSUME NEW c \in Calls, IngestFails(c) PROVE \A v \in Workers : Grip(v)'
  BY <1>12 DEF IngestFails, Put, Journey, Early
<1>13. ASSUME NEW c \in Calls, Remember(c) PROVE \A v \in Workers : Grip(v)'
  BY <1>13 DEF Remember
<1>14. ASSUME NEW c \in Calls, RememberFails(c) PROVE \A v \in Workers : Grip(v)'
  BY <1>14 DEF RememberFails
<1>15. ASSUME NEW c \in Calls, Straggle(c) PROVE \A v \in Workers : Grip(v)'
  BY <1>15 DEF Straggle
<1>16. ASSUME NEW w \in Workers, Wake(w) PROVE \A v \in Workers : Grip(v)'
  BY <1>16 DEF Wake
<1>17. ASSUME NEW w \in Workers, Peek(w) PROVE \A v \in Workers : Grip(v)'
  BY <1>17 DEF Peek, Heads, Pending, Origins, Entries
<1>18. ASSUME NEW w \in Workers, Read(w) PROVE \A v \in Workers : Grip(v)'
  BY <1>18, Grips DEF Read, Origins
<1>19. ASSUME NEW w \in Workers, DropId(w) PROVE \A v \in Workers : Grip(v)'
  BY <1>19 DEF DropId
<1>20. ASSUME NEW w \in Workers, Bury(w) PROVE \A v \in Workers : Grip(v)'
  BY <1>20 DEF Bury
<1>21. ASSUME NEW x \in Publishers, Produce(x) PROVE \A v \in Workers : Grip(v)'
  BY <1>21 DEF Produce
<1>22. ASSUME NEW x \in Publishers, ProduceRaises(x) PROVE \A v \in Workers : Grip(v)'
  BY <1>22 DEF ProduceRaises
<1>23. ASSUME NEW x \in Publishers, Append(x) PROVE \A v \in Workers : Grip(v)'
  BY <1>23 DEF Append
<1>24. ASSUME NEW x \in Publishers, Acknowledge(x) PROVE \A v \in Workers : Grip(v)'
  BY <1>24 DEF Acknowledge
<1>25. ASSUME NEW x \in Publishers, Unavailable(x) PROVE \A v \in Workers : Grip(v)'
  BY <1>25 DEF Unavailable
<1>26. ASSUME NEW x \in Publishers, Remove(x) PROVE \A v \in Workers : Grip(v)'
  BY <1>26 DEF Remove, Taken
<1>27. ASSUME NEW x \in Publishers, RemoveFails(x) PROVE \A v \in Workers : Grip(v)'
  BY <1>27 DEF RemoveFails, Taken
<1>28. ASSUME NEW x \in Publishers, Die(x) PROVE \A v \in Workers : Grip(v)'
  BY <1>28 DEF Die
<1>29. ASSUME NEW c \in Calls, SettleRaises(c) PROVE \A v \in Workers : Grip(v)'
  BY <1>29 DEF SettleRaises
<1> QED
  BY Actions, <1>2, <1>3, <1>4, <1>5, <1>6, <1>7, <1>8, <1>9, <1>10, <1>11, <1>12,
     <1>13, <1>14, <1>15, <1>16, <1>17, <1>18, <1>19, <1>20, <1>21, <1>22, <1>23, <1>24,
     <1>25, <1>26, <1>27, <1>28, <1>29

(* Acknowledgements.                                                          *)
LEMMA EvidenceStep ==
  ASSUME Inv, Next
  PROVE  \A y \in Publishers : Evidence(y)'
<1> USE DEF kafka, Goto
<1>1. TypeOK /\ TypeOK'
  BY TypeStep DEF Inv
<1> USE <1>1, Different, Controlled DEF TypeOK, Inv, Evidence, Target, Publishers
<1>2. ASSUME NEW c \in Calls, Reject(c) PROVE \A y \in Publishers : Evidence(y)'
  BY <1>2 DEF Reject
<1>3. ASSUME NEW c \in Calls, Run(c) PROVE \A y \in Publishers : Evidence(y)'
  BY <1>3 DEF Run
<1>4. ASSUME NEW c \in Calls, UpstreamError(c) PROVE \A y \in Publishers : Evidence(y)'
  BY <1>4 DEF UpstreamError
<1>5. ASSUME NEW c \in Calls, NoAnswer(c) PROVE \A y \in Publishers : Evidence(y)'
  BY <1>5 DEF NoAnswer
<1>6. ASSUME NEW c \in Calls, Answer(c) PROVE \A y \in Publishers : Evidence(y)'
  BY <1>6 DEF Answer
<1>7. ASSUME NEW c \in Calls, StreamStarts(c) PROVE \A y \in Publishers : Evidence(y)'
  BY <1>7 DEF StreamStarts
<1>8. ASSUME NEW c \in Calls, Chunk(c) PROVE \A y \in Publishers : Evidence(y)'
  BY <1>8 DEF Chunk
<1>9. ASSUME NEW c \in Calls, StreamEnds(c) PROVE \A y \in Publishers : Evidence(y)'
  BY <1>9 DEF StreamEnds
<1>10. ASSUME NEW c \in Calls, Claim(c) PROVE \A y \in Publishers : Evidence(y)'
  BY <1>10 DEF Claim
<1>11. ASSUME NEW c \in Calls, Store(c) PROVE \A y \in Publishers : Evidence(y)'
  BY <1>11 DEF Store
<1>12. ASSUME NEW c \in Calls, IngestFails(c) PROVE \A y \in Publishers : Evidence(y)'
  BY <1>12 DEF IngestFails
<1>13. ASSUME NEW c \in Calls, Remember(c) PROVE \A y \in Publishers : Evidence(y)'
  BY <1>13 DEF Remember
<1>14. ASSUME NEW c \in Calls, RememberFails(c) PROVE \A y \in Publishers : Evidence(y)'
  BY <1>14 DEF RememberFails
<1>15. ASSUME NEW c \in Calls, Straggle(c) PROVE \A y \in Publishers : Evidence(y)'
  BY <1>15 DEF Straggle
<1>16. ASSUME NEW w \in Workers, Wake(w) PROVE \A y \in Publishers : Evidence(y)'
  BY <1>16 DEF Wake
<1>17. ASSUME NEW w \in Workers, Peek(w) PROVE \A y \in Publishers : Evidence(y)'
  BY <1>17 DEF Peek
<1>18. ASSUME NEW w \in Workers, Read(w) PROVE \A y \in Publishers : Evidence(y)'
  <2>1. PICK to \in {"dropping", "publishing", "burying"} : Goto(w, to)
    BY <1>18, Grips DEF Read
  <2> QED
    BY <2>1, <1>18 DEF Read
<1>19. ASSUME NEW w \in Workers, DropId(w) PROVE \A y \in Publishers : Evidence(y)'
  BY <1>19 DEF DropId
<1>20. ASSUME NEW w \in Workers, Bury(w) PROVE \A y \in Publishers : Evidence(y)'
  BY <1>20 DEF Bury, Grip
<1>21. ASSUME NEW x \in Publishers, Produce(x) PROVE \A y \in Publishers : Evidence(y)'
  BY <1>21 DEF Produce
<1>22. ASSUME NEW x \in Publishers, ProduceRaises(x) PROVE \A y \in Publishers : Evidence(y)'
  BY <1>22 DEF ProduceRaises
<1>23. ASSUME NEW x \in Publishers, Append(x) PROVE \A y \in Publishers : Evidence(y)'
  BY <1>23 DEF Append
<1>24. ASSUME NEW x \in Publishers, Acknowledge(x) PROVE \A y \in Publishers : Evidence(y)'
  BY <1>24 DEF Acknowledge
<1>25. ASSUME NEW x \in Publishers, Unavailable(x) PROVE \A y \in Publishers : Evidence(y)'
  BY <1>25 DEF Unavailable
<1>26. ASSUME NEW x \in Publishers, Remove(x) PROVE \A y \in Publishers : Evidence(y)'
  BY <1>26 DEF Remove
<1>27. ASSUME NEW x \in Publishers, RemoveFails(x) PROVE \A y \in Publishers : Evidence(y)'
  BY <1>27 DEF RemoveFails
<1>28. ASSUME NEW x \in Publishers, Die(x) PROVE \A y \in Publishers : Evidence(y)'
  BY <1>28 DEF Die
<1>29. ASSUME NEW c \in Calls, SettleRaises(c) PROVE \A y \in Publishers : Evidence(y)'
  BY <1>29 DEF SettleRaises
<1> QED
  BY Actions, <1>2, <1>3, <1>4, <1>5, <1>6, <1>7, <1>8, <1>9, <1>10, <1>11, <1>12,
     <1>13, <1>14, <1>15, <1>16, <1>17, <1>18, <1>19, <1>20, <1>21, <1>22, <1>23, <1>24,
     <1>25, <1>26, <1>27, <1>28, <1>29

(* Who had an entry acknowledged does not come back to it.                    *)
LEMMA ClosedStep ==
  ASSUME Inv, Next
  PROVE  Closed'
<1> USE DEF outbox, kafka, history, Goto
<1>1. TypeOK /\ TypeOK'
  BY TypeStep DEF Inv
<1> USE <1>1, Different, Controlled DEF TypeOK, Inv, Closed, Gone, Target, Publishers
<1>2. ASSUME NEW c \in Calls, Reject(c) PROVE Closed'
  BY <1>2 DEF Reject
<1>3. ASSUME NEW c \in Calls, Run(c) PROVE Closed'
  BY <1>3, SMTT(30) DEF Run
<1>4. ASSUME NEW c \in Calls, UpstreamError(c) PROVE Closed'
  BY <1>4 DEF UpstreamError
<1>5. ASSUME NEW c \in Calls, NoAnswer(c) PROVE Closed'
  BY <1>5 DEF NoAnswer
<1>6. ASSUME NEW c \in Calls, Answer(c) PROVE Closed'
  BY <1>6 DEF Answer
<1>7. ASSUME NEW c \in Calls, StreamStarts(c) PROVE Closed'
  BY <1>7 DEF StreamStarts
<1>8. ASSUME NEW c \in Calls, Chunk(c) PROVE Closed'
  BY <1>8 DEF Chunk
<1>9. ASSUME NEW c \in Calls, StreamEnds(c) PROVE Closed'
  BY <1>9 DEF StreamEnds
<1>10. ASSUME NEW c \in Calls, Claim(c) PROVE Closed'
  BY <1>10 DEF Claim
<1>11. ASSUME NEW c \in Calls, Store(c) PROVE Closed'
  BY <1>11 DEF Store, Put, Journey, Early
<1>12. ASSUME NEW c \in Calls, IngestFails(c) PROVE Closed'
  BY <1>12 DEF IngestFails, Put, Journey, Early
<1>13. ASSUME NEW c \in Calls, Remember(c) PROVE Closed'
  BY <1>13 DEF Remember
<1>14. ASSUME NEW c \in Calls, RememberFails(c) PROVE Closed'
  BY <1>14 DEF RememberFails
<1>15. ASSUME NEW c \in Calls, Straggle(c) PROVE Closed'
  BY <1>15 DEF Straggle
<1>16. ASSUME NEW w \in Workers, Wake(w) PROVE Closed'
  BY <1>16 DEF Wake
<1>17. ASSUME NEW w \in Workers, Peek(w) PROVE Closed'
  BY <1>17 DEF Peek, Heads, Pending
<1>18. ASSUME NEW w \in Workers, Read(w) PROVE Closed'
  BY <1>18 DEF Read
<1>19. ASSUME NEW w \in Workers, DropId(w) PROVE Closed'
  BY <1>19 DEF DropId
<1>20. ASSUME NEW w \in Workers, Bury(w) PROVE Closed'
  BY <1>20 DEF Bury, Grip
<1>21. ASSUME NEW x \in Publishers, Produce(x) PROVE Closed'
  BY <1>21 DEF Produce
<1>22. ASSUME NEW x \in Publishers, ProduceRaises(x) PROVE Closed'
  BY <1>22 DEF ProduceRaises
<1>23. ASSUME NEW x \in Publishers, Append(x) PROVE Closed'
  BY <1>23 DEF Append
<1>24. ASSUME NEW x \in Publishers, Acknowledge(x) PROVE Closed'
  BY <1>24 DEF Acknowledge
<1>25. ASSUME NEW x \in Publishers, Unavailable(x) PROVE Closed'
  BY <1>25 DEF Unavailable
<1>26. ASSUME NEW x \in Publishers, Remove(x) PROVE Closed'
  BY <1>26 DEF Remove, Taken
<1>27. ASSUME NEW x \in Publishers, RemoveFails(x) PROVE Closed'
  BY <1>27 DEF RemoveFails, Taken
<1>28. ASSUME NEW x \in Publishers, Die(x) PROVE Closed'
  BY <1>28 DEF Die
<1>29. ASSUME NEW c \in Calls, SettleRaises(c) PROVE Closed'
  BY <1>29 DEF SettleRaises
<1> QED
  BY Actions, <1>2, <1>3, <1>4, <1>5, <1>6, <1>7, <1>8, <1>9, <1>10, <1>11, <1>12,
     <1>13, <1>14, <1>15, <1>16, <1>17, <1>18, <1>19, <1>20, <1>21, <1>22, <1>23, <1>24,
     <1>25, <1>26, <1>27, <1>28, <1>29

(* Stored usage is in the outbox or in Kafka.                                 *)
LEMMA KeptStep ==
  ASSUME Inv, Next
  PROVE  UsageKept'
<1> USE DEF outbox, kafka, history
<1>1. TypeOK /\ TypeOK'
  BY TypeStep DEF Inv
<1> USE <1>1, Different DEF TypeOK, Inv, UsageKept
<1>2. ASSUME NEW c \in Calls, Reject(c) PROVE UsageKept'
  BY <1>2 DEF Reject
<1>3. ASSUME NEW c \in Calls, Run(c) PROVE UsageKept'
  BY <1>3 DEF Run
<1>4. ASSUME NEW c \in Calls, UpstreamError(c) PROVE UsageKept'
  BY <1>4 DEF UpstreamError
<1>5. ASSUME NEW c \in Calls, NoAnswer(c) PROVE UsageKept'
  BY <1>5 DEF NoAnswer
<1>6. ASSUME NEW c \in Calls, Answer(c) PROVE UsageKept'
  BY <1>6 DEF Answer
<1>7. ASSUME NEW c \in Calls, StreamStarts(c) PROVE UsageKept'
  BY <1>7 DEF StreamStarts
<1>8. ASSUME NEW c \in Calls, Chunk(c) PROVE UsageKept'
  BY <1>8 DEF Chunk
<1>9. ASSUME NEW c \in Calls, StreamEnds(c) PROVE UsageKept'
  BY <1>9 DEF StreamEnds
<1>10. ASSUME NEW c \in Calls, Claim(c) PROVE UsageKept'
  BY <1>10 DEF Claim
<1>11. ASSUME NEW c \in Calls, Store(c) PROVE UsageKept'
  BY <1>11, GatewayAssumption DEF Store, Put, Journey, Early
<1>12. ASSUME NEW c \in Calls, IngestFails(c) PROVE UsageKept'
  BY <1>12, GatewayAssumption DEF IngestFails, Put, Journey, Early
<1>13. ASSUME NEW c \in Calls, Remember(c) PROVE UsageKept'
  BY <1>13 DEF Remember, Journey, Later
<1>14. ASSUME NEW c \in Calls, RememberFails(c) PROVE UsageKept'
  BY <1>14 DEF RememberFails, Journey, Later
<1>15. ASSUME NEW c \in Calls, Straggle(c) PROVE UsageKept'
  BY <1>15 DEF Straggle
<1>16. ASSUME NEW w \in Workers, Wake(w) PROVE UsageKept'
  BY <1>16 DEF Wake
<1>17. ASSUME NEW w \in Workers, Peek(w) PROVE UsageKept'
  BY <1>17 DEF Peek
<1>18. ASSUME NEW w \in Workers, Read(w) PROVE UsageKept'
  BY <1>18 DEF Read
<1>19. ASSUME NEW w \in Workers, DropId(w) PROVE UsageKept'
  BY <1>19 DEF DropId, Grip
<1>20. ASSUME NEW w \in Workers, Bury(w) PROVE UsageKept'
  BY <1>20 DEF Bury
<1>21. ASSUME NEW x \in Publishers, Produce(x) PROVE UsageKept'
  BY <1>21 DEF Produce
<1>22. ASSUME NEW x \in Publishers, ProduceRaises(x) PROVE UsageKept'
  BY <1>22 DEF ProduceRaises
<1>23. ASSUME NEW x \in Publishers, Append(x) PROVE UsageKept'
  BY <1>23 DEF Append
<1>24. ASSUME NEW x \in Publishers, Acknowledge(x) PROVE UsageKept'
  BY <1>24 DEF Acknowledge
<1>25. ASSUME NEW x \in Publishers, Unavailable(x) PROVE UsageKept'
  BY <1>25 DEF Unavailable
<1>26. ASSUME NEW x \in Publishers, Remove(x) PROVE UsageKept'
  BY <1>26 DEF Remove, Taken, Evidence
<1>27. ASSUME NEW x \in Publishers, RemoveFails(x) PROVE UsageKept'
  BY <1>27 DEF RemoveFails, Taken, Evidence
<1>28. ASSUME NEW x \in Publishers, Die(x) PROVE UsageKept'
  BY <1>28 DEF Die
<1>29. ASSUME NEW c \in Calls, SettleRaises(c) PROVE UsageKept'
  BY <1>29 DEF SettleRaises
<1> QED
  BY Actions, <1>2, <1>3, <1>4, <1>5, <1>6, <1>7, <1>8, <1>9, <1>10, <1>11, <1>12,
     <1>13, <1>14, <1>15, <1>16, <1>17, <1>18, <1>19, <1>20, <1>21, <1>22, <1>23, <1>24,
     <1>25, <1>26, <1>27, <1>28, <1>29

(* The invariant holds at the start, ...                                      *)
LEMMA InvInit == Init => Inv
<1> SUFFICES ASSUME Init PROVE Inv
  OBVIOUS
<1> USE Different, GatewayAssumption DEF Init
<1>1. Figures
  BY DEF Figures, NoTokens
<1>2. Redis
  BY DEF Redis, Entries
<1>3. at \in [Publishers -> Controls] /\ Sending /\ Arrivals
  BY DEF Sending, Arrivals, Controls
<1>4. TypeOK
  BY <1>1, <1>2, <1>3 DEF TypeOK, Figures, Redis, Sending, Arrivals
<1>5. Origins /\ UsageKept /\ Closed
  BY DEF Origins, UsageKept, Closed
<1>6. \A c \in Calls : Journey(c) /\ Guarded(c)
  BY DEF Journey, Guarded, Early, Later, OverHold, Quote, NoTokens
<1>7. \A w \in Workers : Grip(w)
  BY DEF Grip
<1>8. \A x \in Publishers : Evidence(x)
  BY DEF Evidence
<1> QED
  BY <1>4, <1>5, <1>6, <1>7, <1>8 DEF Inv

(* ... and after every step.                                                  *)
LEMMA InvStep == Inv /\ [Next]_vars => Inv'
<1> SUFFICES ASSUME Inv, [Next]_vars PROVE Inv'
  OBVIOUS
<1>1. CASE Next
  BY <1>1, TypeStep, JourneyStep, GuardedStep, OriginsStep, GripStep, EvidenceStep, ClosedStep,
     KeptStep DEF Inv
<1>2. CASE UNCHANGED vars
  <2> USE DEF vars, calls, outbox, kafka, history
  <2>1. TypeOK'
    BY <1>2 DEF Inv, TypeOK
  <2>2. Origins' /\ UsageKept' /\ Closed'
    BY <1>2 DEF Inv, Origins, UsageKept, Closed, Gone, Target
  <2>3. \A c \in Calls : Journey(c)' /\ Guarded(c)'
    BY <1>2 DEF Inv, Journey, Guarded, OverHold
  <2>4. \A w \in Workers : Grip(w)'
    BY <1>2 DEF Inv, Grip
  <2>5. \A x \in Publishers : Evidence(x)'
    BY <1>2 DEF Inv, Evidence, Target
  <2> QED
    BY <2>1, <2>2, <2>3, <2>4, <2>5 DEF Inv
<1> QED
  BY <1>1, <1>2

(* So it is an invariant.                                                     *)
LEMMA InvariantHolds == Spec => []Inv
  BY InvInit, InvStep, PTL DEF Spec

(***************************************************************************)
(* The theorems.                                                           *)
(***************************************************************************)
(* Types, and what follows from them: only stored usage gets to Kafka, and    *)
(* only foreign entries are given up.                                         *)
THEOREM Typed == Spec => []TypeOK
<1>1. Inv => TypeOK
  BY DEF Inv
<1> QED
  BY <1>1, InvariantHolds, PTL

(* publish_envelope and the workers of all processes remove an entry only     *)
(* after a broker acknowledged it: store, publish and remove lose nothing.    *)
THEOREM StoredUsageIsKept == Spec => []UsageKept
<1>1. Inv => UsageKept
  BY DEF Inv
<1> QED
  BY <1>1, InvariantHolds, PTL

(* What the Gateway meters agrees with its stream guard and its hold.         *)
THEOREM ReceiptsAreTrue == Spec => []ReceiptIsTrue
<1>1. ASSUME Inv, NEW c \in stored
      PROVE  /\ settled[c] => c \in unsure /\ usage[c] = NoTokens
             /\ passed[c] <= Quote(usage[c])
             /\ stream[c] /\ hold[c] > 0
                => (killed[c] <=> Quote(usage[c]) > hold[c]) /\ passed[c] <= hold[c]
  <2>1. c \in Calls /\ Journey(c) /\ Guarded(c)
    BY <1>1 DEF Inv, TypeOK
  <2>2. hold[c] \in Nat /\ passed[c] \in Nat /\ usage[c] \in [input : Nat, output : Nat]
    BY <1>1, <2>1 DEF Inv, TypeOK
  <2>3. Quote(usage[c]) \in Nat
    BY <2>2 DEF Quote
  <2>4. settled[c] => c \in unsure /\ usage[c] = NoTokens
    BY <1>1, <2>1 DEF Journey
  <2>5. CASE stream[c]
    BY <2>1, <2>2, <2>3, <2>4, <2>5 DEF Guarded, OverHold
  <2>6. CASE ~stream[c]
    BY <2>1, <2>2, <2>3, <2>4, <2>6 DEF Guarded
  <2> QED
    BY <2>5, <2>6
<1>2. Inv => ReceiptIsTrue
  BY <1>1 DEF ReceiptIsTrue
<1> QED
  BY <1>2, InvariantHolds, PTL

(* Only a death or a failed remove makes a call or a worker publish again     *)
(* what was acknowledged to it.                                               *)
THEOREM NotAcknowledgedTwice == Spec => NotPublishedAgain
<1>1. ASSUME Inv, Next, NEW x \in Publishers, sent[x] = "none", sent'[x] = "queued"
      PROVE  <<x, Target(x)>> \notin acked
  <2>1. at[x] = "publishing"
    BY <1>1, Publishing DEF Inv
  <2> QED
    BY <1>1, <2>1, Aim DEF Inv, Closed, TypeOK, Entries
<1>2. Inv /\ [Next]_vars
      => [\A x \in Publishers : sent[x] = "none" /\ sent'[x] = "queued"
                                => <<x, Target(x)>> \notin acked]_vars
  BY <1>1
<1> QED
  BY <1>2, InvariantHolds, PTL DEF Spec, NotPublishedAgain

==============================================================================
