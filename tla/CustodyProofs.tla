---------------------------- MODULE CustodyProofs ----------------------------
(***************************************************************************)
(* What holds of Custody for any number of calls, events, payloads, faults *)
(* and crashes, and for any lifetimes ordered as CustodyAssumption says;   *)
(* and, in the last part, of runs without faults.                          *)
(***************************************************************************)
EXTENDS Custody, TLAPS

(* The phases, outcomes and verdicts the steps write.                      *)
LEMMA PhaseNames ==
  /\ "sending" \in Phases /\ "waiting" \in Phases /\ "finalizing" \in Phases
  /\ "marking" \in Phases /\ "releasing" \in Phases /\ "done" \in Phases
  /\ "error" \in Phases /\ "crashed" \in Phases
  BY DEF Phases

(* The states of an item, spelt out for the provers.                          *)
LEMMA ItemNames ==
  /\ "out" \in Items /\ "same" \in Items /\ "pending" \in Items /\ "uncertain" \in Items
  /\ "conflict" \in Items /\ "owned" \in Items /\ "sent" \in Items /\ "acked" \in Items
  /\ "failed" \in Items /\ "unsure" \in Items /\ "stored" \in Items
  BY DEF Items

(* The states of a produce request, spelt out for the provers.                *)
LEMMA WireNames ==
  /\ "queued" \in Wires /\ "appended" \in Wires /\ "reported" \in Wires /\ "lost" \in Wires
  BY DEF Wires

(* The outcomes of a late delivery, spelt out for the provers.                *)
LEMMA LateNames ==
  /\ "none" \in Lates /\ "ok" \in Lates /\ "fail" \in Lates /\ "done" \in Lates
  BY DEF Lates

RegistryTyped ==
  /\ state \in [EventIds -> States]
  /\ print \in [EventIds -> Prints \cup {NoPrint}]
  /\ expiry \in [EventIds -> Nat]

(* The registry scripts keep the registry well typed.                      *)
LEMMA ClaimFieldsType ==
  ASSUME TypeOK, NEW gone \in SUBSET EventIds, NEW won \in SUBSET EventIds,
         NEW want \in [EventIds -> Prints \cup {NoPrint}],
         ClaimFields(gone, won, want)
  PROVE  RegistryTyped'
  BY CustodyAssumption DEF TypeOK, RegistryTyped, ClaimFields, States

(* The batched transition script leaves the registry well typed.              *)
LEMMA TransitionType ==
  ASSUME TypeOK, NEW S, NEW target \in {"accepted", "uncertain"}, NEW ttl \in Nat,
         Transition(S, target, ttl)
  PROVE  RegistryTyped'
  BY DEF TypeOK, RegistryTyped, Transition, States

(* So does the script that drops claims.                                      *)
LEMMA DropType ==
  ASSUME TypeOK, NEW S, Drop(S)
  PROVE  RegistryTyped'
  BY DEF TypeOK, RegistryTyped, Drop, States

(* Every step keeps the state well typed.                                  *)
LEMMA TypeStep == TypeOK /\ [Next]_vars => TypeOK'
<1> SUFFICES ASSUME TypeOK, [Next]_vars PROVE TypeOK'
  OBVIOUS
<1> USE DEF threads, kafka
<1>phase. phase \in [Calls -> Phases]
  BY DEF TypeOK
<1>item. item \in [Calls -> [EventIds -> Items]]
  BY DEF TypeOK
<1>wire. wire \in [Calls -> [EventIds -> Wires]]
  BY DEF TypeOK
<1>late. late \in [Calls -> [EventIds -> Lates]]
  BY DEF TypeOK
<1>1. CASE UNCHANGED vars
  BY <1>1 DEF TypeOK, vars, registry
<1>2. CASE Tick
  BY <1>2 DEF Tick, TypeOK, registry
<1>3. ASSUME NEW c \in Calls, NEW want \in [EventIds -> Prints \cup {NoPrint}], Claim(c, want)
      PROVE  TypeOK'
  <2>1. PICK gone \in Cleanable(want) :
          LET won == {e \in Wanted(want) : state[e] = "absent" \/ e \in gone}
          IN  /\ ClaimFields(gone, won, want)
              /\ item' = [item EXCEPT ![c] = [e \in EventIds |->
                            IF e \notin Wanted(want) THEN "out"
                            ELSE IF e \in won THEN "owned" ELSE ClaimReply(e, want[e])]]
              /\ phase' = [phase EXCEPT ![c] = IF won = {} THEN "done" ELSE "sending"]
    BY <1>3 DEF Claim
  <2> DEFINE won == {e \in Wanted(want) : state[e] = "absent" \/ e \in gone}
  <2>2. gone \in SUBSET EventIds /\ won \in SUBSET EventIds
    BY DEF Cleanable, Wanted
  <2>3. RegistryTyped'
    BY <2>1, <2>2, ClaimFieldsType
  <2>4. item' \in [Calls -> [EventIds -> Items]]
    <3>1. ASSUME NEW e \in EventIds, e \in Wanted(want), e \notin won
          PROVE  ClaimReply(e, want[e]) \in Items
      BY <3>1, ItemNames DEF ClaimReply, TypeOK, States, Wanted
    <3> QED
      BY <2>1, <3>1, ItemNames DEF TypeOK
  <2> QED
    BY <1>3, <2>3, <2>4, <2>1, PhaseNames DEF Claim, TypeOK, RegistryTyped
<1>4. ASSUME NEW c \in Calls, NEW want \in [EventIds -> Prints \cup {NoPrint}], ClaimFails(c, want)
      PROVE  TypeOK'
  <2>1. PICK gone \in SUBSET {e \in EventIds : Expired(e)} :
          \E won \in SUBSET {e \in Wanted(want) : state[e] = "absent" \/ e \in gone} :
            ClaimFields(gone, won, want)
    BY <1>4 DEF ClaimFails
  <2>2. PICK won \in SUBSET {e \in Wanted(want) : state[e] = "absent" \/ e \in gone} :
          ClaimFields(gone, won, want)
    BY <2>1
  <2>3. gone \in SUBSET EventIds /\ won \in SUBSET EventIds
    BY DEF Wanted
  <2>4. RegistryTyped'
    BY <2>2, <2>3, ClaimFieldsType
  <2> QED
    BY <1>4, <2>4, PhaseNames DEF ClaimFails, Fault, TypeOK, RegistryTyped
<1>5. ASSUME NEW c \in Calls, NEW e \in EventIds, Send(c, e)
      PROVE  TypeOK'
  <2>2. item' \in [Calls -> [EventIds -> Items]]
    BY <1>5, <1>item, ItemNames DEF Send
  <2>3. wire' \in [Calls -> [EventIds -> Wires]]
    BY <1>5, <1>wire, WireNames DEF Send
  <2> QED
    BY <1>5, <2>2, <2>3 DEF Send, TypeOK, registry
<1>6. ASSUME NEW c \in Calls, NEW e \in EventIds, Timeout(c, e)
      PROVE  TypeOK'
  BY <1>6, ItemNames, LateNames DEF Timeout, TypeOK, registry
<1>7. ASSUME NEW c \in Calls, StartWait(c) \/ Classify(c)
      PROVE  TypeOK'
  BY <1>7, PhaseNames DEF StartWait, Classify, TypeOK, registry
<1>8. ASSUME NEW c \in Calls, Finalize(c) \/ FinalizeFails(c)
      PROVE  TypeOK'
  <2>1. PICK S : Transition(S, "accepted", AcceptedTTL)
    BY <1>8 DEF Finalize, FinalizeFails
  <2>2. item' \in [Calls -> [EventIds -> Items]]
    <3>1. PICK o \in {"stored", "unsure"} : Conclude(c, o)
      BY <1>8 DEF Finalize, FinalizeFails
    <3> QED
      BY <1>item, <3>1, ItemNames DEF Conclude
  <2>3. AcceptedTTL \in Nat
    BY CustodyAssumption
  <2>4. RegistryTyped'
    BY <2>1, <2>3, TransitionType
  <2>8. CASE Finalize(c)
    BY <2>8, <2>2, <2>4, PhaseNames DEF Finalize, TypeOK, RegistryTyped
  <2>9. CASE FinalizeFails(c)
    <3>1. /\ faults' = faults + 1 /\ phase' = [phase EXCEPT ![c] = "marking"]
          /\ UNCHANGED <<now, ask, sentAt, kafka, crashes>>
      BY <2>9 DEF FinalizeFails, Fault
    <3>2. phase' \in [Calls -> Phases]
      BY <1>phase, <3>1, PhaseNames
    <3> QED
      BY <3>1, <3>2, <2>2, <2>4 DEF TypeOK, RegistryTyped
  <2> QED
    BY <1>8, <2>8, <2>9
<1>9. ASSUME NEW c \in Calls, Mark(c) \/ MarkFails(c)
      PROVE  TypeOK'
  <2>1. PICK S : Transition(S, "uncertain", UncertainTTL)
    BY <1>9 DEF Mark, MarkFails
  <2>2. UncertainTTL \in Nat
    BY CustodyAssumption
  <2>3. RegistryTyped'
    BY <2>1, <2>2, TransitionType
  <2>6. CASE Mark(c)
    BY <2>6, <2>3, PhaseNames DEF Mark, TypeOK, RegistryTyped
  <2>7. CASE MarkFails(c)
    BY <2>7, <2>3, PhaseNames DEF MarkFails, Fault, TypeOK, RegistryTyped
  <2> QED
    BY <1>9, <2>6, <2>7
<1>10. ASSUME NEW c \in Calls, Release(c) \/ ReleaseFails(c)
       PROVE  TypeOK'
  <2>1. PICK S : Drop(S)
    BY <1>10 DEF Release, ReleaseFails
  <2>2. RegistryTyped'
    BY <2>1, DropType
  <2>6. CASE Release(c)
    BY <2>6, <2>2, PhaseNames DEF Release, TypeOK, RegistryTyped
  <2>7. CASE ReleaseFails(c)
    BY <2>7, <2>2, PhaseNames DEF ReleaseFails, Fault, TypeOK, RegistryTyped
  <2> QED
    BY <1>10, <2>6, <2>7
<1>11. ASSUME NEW c \in Calls, NEW e \in EventIds, KafkaStep(c, e)
       PROVE  TypeOK'
  <2>1. CASE Append(c, e)
    <3>1. wire' \in [Calls -> [EventIds -> Wires]]
      BY <1>wire, <2>1, WireNames DEF Append
    <3> QED
      BY <2>1, <3>1 DEF Append, Record, Records, TypeOK, registry
  <2>3. CASE ReportOk(c, e)
    <3>1. item' \in [Calls -> [EventIds -> Items]]
      BY <1>item, <2>3, ItemNames DEF ReportOk
    <3>2. late' \in [Calls -> [EventIds -> Lates]]
      BY <1>late, <2>3, LateNames DEF ReportOk
    <3>3. wire' \in [Calls -> [EventIds -> Wires]]
      BY <1>wire, <2>3, WireNames DEF ReportOk
    <3> QED
      BY <2>3, <3>1, <3>2, <3>3 DEF ReportOk, TypeOK, registry
  <2>4. CASE ReportFail(c, e)
    <3>1. item' \in [Calls -> [EventIds -> Items]]
      BY <1>item, <2>4, ItemNames DEF ReportFail
    <3>2. late' \in [Calls -> [EventIds -> Lates]]
      BY <1>late, <2>4, LateNames DEF ReportFail
    <3>3. wire' \in [Calls -> [EventIds -> Wires]]
      BY <1>wire, <2>4, WireNames DEF ReportFail
    <3> QED
      BY <2>4, <3>1, <3>2, <3>3 DEF ReportFail, TypeOK, registry
  <2> QED
    BY <1>11, <2>1, <2>3, <2>4 DEF KafkaStep
<1>12. ASSUME NEW c \in Calls, NEW e \in EventIds, ReconcileOk(c, e)
       PROVE  TypeOK'
  <2>1. PICK S : Transition(S, "accepted", AcceptedTTL)
    BY <1>12 DEF ReconcileOk
  <2>2. AcceptedTTL \in Nat
    BY CustodyAssumption
  <2>3. RegistryTyped'
    BY <2>1, <2>2, TransitionType
  <2> QED
    BY <1>12, <2>3, LateNames DEF ReconcileOk, TypeOK, RegistryTyped
<1>13. ASSUME NEW c \in Calls, NEW e \in EventIds, ReconcileFail(c, e)
       PROVE  TypeOK'
  <2>1. PICK S : Drop(S)
    BY <1>13 DEF ReconcileFail
  <2>2. RegistryTyped'
    BY <2>1, DropType
  <2> QED
    BY <1>13, <2>2, LateNames DEF ReconcileFail, TypeOK, RegistryTyped
<1>14. ASSUME NEW c \in Calls, NEW e \in EventIds, ReconcileFails(c, e)
       PROVE  TypeOK'
  BY <1>14, LateNames DEF ReconcileFails, Fault, TypeOK, registry
<1>15. ASSUME NEW c \in Calls, Crash(c)
       PROVE  TypeOK'
  BY <1>15, PhaseNames, WireNames, LateNames DEF Crash, TypeOK, registry
<1> QED
  BY <1>1, <1>2, <1>3, <1>4, <1>5, <1>6, <1>7, <1>8, <1>9, <1>10, <1>11, <1>12, <1>13, <1>14, <1>15
  DEF Next, ThreadStep, FaultStep, PoolStep

(* The registry, the calls and the producer never leave their types.       *)
THEOREM Typed == Spec => []TypeOK
<1>1. Init => TypeOK
  BY CustodyAssumption DEF Init, TypeOK, States, Phases, Items, Wires, Lates
<1> QED
  BY <1>1, TypeStep, PTL DEF Spec

(***************************************************************************)
(* The inductive invariant.  Life follows one event of one call through    *)
(* its stages and says when Kafka has, and when it cannot have, a record   *)
(* of it; Timely says that a call is never held past its ack deadline.     *)
(***************************************************************************)
Own(c, e) == \E r \in log : r.call = c /\ r.event = e

Life(c, e) ==
  /\ phase[c] = "new" => item[c][e] = "out" /\ wire[c][e] = "idle" /\ late[c][e] = "none"
  /\ phase[c] = "crashed" => wire[c][e] \notin {"queued", "appended"}
  /\ item[c][e] = "owned" => wire[c][e] = "idle"
  /\ item[c][e] = "sent" => phase[c] \in {"sending", "waiting", "crashed"}
  /\ item[c][e] \notin {"sent", "unsure"} => wire[c][e] \notin {"queued", "appended"}
  /\ wire[c][e] \in {"idle", "queued"} => ~ Own(c, e)
  /\ item[c][e] = "acked" \/ wire[c][e] = "appended" \/ late[c][e] = "ok" => Own(c, e)
  /\ item[c][e] = "failed" => ~ Own(c, e)

Lives == \A c \in Calls, e \in EventIds : Life(c, e)

Working == {"sending", "waiting", "finalizing", "marking", "releasing"}

Timely ==
  \A c \in Calls : /\ sentAt[c] <= now
                   /\ phase[c] \in Working => now <= sentAt[c] + AckTimeout

GrantedLogged ==
  \A c \in Calls, e \in EventIds : item[c][e] \in {"same", "stored"} => InLog(e, ask[c][e])

AcceptedLogged == \A e \in EventIds : state[e] = "accepted" => InLog(e, print[e])

(* A call stays within its ack deadline: the clock waits for its thread.   *)
LEMMA TimelyStep ==
  ASSUME TypeOK, Timely, [Next]_vars
  PROVE  Timely'
<1> SUFFICES ASSUME NEW d \in Calls
             PROVE  /\ sentAt'[d] <= now'
                    /\ phase'[d] \in Working => now' <= sentAt'[d] + AckTimeout
  BY DEF Timely
<1>types. now \in Nat /\ sentAt \in [Calls -> Nat] /\ phase \in [Calls -> Phases]
  BY DEF TypeOK
<1>ack. AckTimeout \in Nat
  BY CustodyAssumption
<1>hyp. sentAt[d] <= now /\ (phase[d] \in Working => now <= sentAt[d] + AckTimeout)
  BY DEF Timely
<1>1. CASE Tick
  <2>1. phase[d] \in Over \/ now < sentAt[d] + AckTimeout
    BY <1>1 DEF Tick, Waiting
  <2>2. phase[d] \in Working => phase[d] \notin Over
    BY DEF Working, Over
  <2>3. now' = now + 1 /\ sentAt' = sentAt /\ phase' = phase
    BY <1>1 DEF Tick, threads
  <2> QED
    BY <1>types, <1>ack, <1>hyp, <2>1, <2>2, <2>3
<1>2. CASE UNCHANGED vars
  BY <1>2, <1>hyp DEF vars, threads
<1>3. ASSUME NEW c \in Calls, NEW want, Claim(c, want)
      PROVE  /\ sentAt'[d] <= now'
             /\ phase'[d] \in Working => now' <= sentAt'[d] + AckTimeout
  <2>1. now' = now /\ sentAt' = [sentAt EXCEPT ![c] = now] /\ (d # c => phase'[d] = phase[d])
    BY <1>3, <1>types DEF Claim
  <2> QED
    BY <1>types, <1>ack, <1>hyp, <2>1
<1>4. ASSUME NEW c \in Calls, NEW want, ClaimFails(c, want)
      PROVE  /\ sentAt'[d] <= now'
             /\ phase'[d] \in Working => now' <= sentAt'[d] + AckTimeout
  <2>1. now' = now /\ sentAt' = sentAt /\ phase'[d] \in {phase[d], "error"}
    BY <1>4, <1>types DEF ClaimFails
  <2> QED
    BY <1>hyp, <2>1 DEF Working
<1>5. ASSUME NEW c \in Calls,
             \/ ThreadStep(c) \/ FaultStep(c) \/ Crash(c)
             \/ \E e \in EventIds : KafkaStep(c, e) \/ PoolStep(c, e) \/ ReconcileFails(c, e)
      PROVE  /\ sentAt'[d] <= now'
             /\ phase'[d] \in Working => now' <= sentAt'[d] + AckTimeout
  <2>1. now' = now /\ sentAt' = sentAt
    BY <1>5 DEF ThreadStep, FaultStep, KafkaStep, PoolStep, ReconcileFails, Crash, Send, Timeout,
      StartWait, Classify, Finalize, FinalizeFails, Mark, MarkFails, Release, ReleaseFails, Append,
      ReportOk, ReportFail, ReconcileOk, ReconcileFail, threads
  <2>2. phase'[d] \in Working => phase[d] \in Working
    <3>1. CASE ThreadStep(c)
      BY <3>1, <1>types DEF ThreadStep, Send, Timeout, StartWait, Classify, Finalize, Mark,
        Release, Working
    <3>2. CASE FaultStep(c)
      BY <3>2, <1>types DEF FaultStep, FinalizeFails, MarkFails, ReleaseFails, Working
    <3>3. CASE Crash(c)
      BY <3>3, <1>types DEF Crash, Working, Over
    <3>4. ASSUME NEW e \in EventIds, KafkaStep(c, e) \/ PoolStep(c, e) \/ ReconcileFails(c, e)
          PROVE  phase' = phase
      BY <3>4 DEF KafkaStep, PoolStep, ReconcileFails, Append, ReportOk, ReportFail, ReconcileOk,
        ReconcileFail, threads
    <3> QED
      BY <1>5, <3>1, <3>2, <3>3, <3>4
  <2> QED
    BY <1>hyp, <2>1, <2>2
<1> QED
  BY <1>1, <1>2, <1>3, <1>4, <1>5 DEF Next

(* An event of a call whose own state a step leaves alone stays in its     *)
(* stage, provided no record of it appears.                                *)
LEMMA LifeKept ==
  ASSUME NEW d, NEW f, Life(d, f),
         phase'[d] = phase[d], item'[d][f] = item[d][f], wire'[d][f] = wire[d][f],
         late'[d][f] = late[d][f], Own(d, f)' <=> Own(d, f)
  PROVE  Life(d, f)'
  BY DEF Life

(* Steps of a call's own thread.                                           *)
LEMMA ThreadLife ==
  ASSUME TypeOK, Lives, NEW c \in Calls, ThreadStep(c) \/ FaultStep(c),
         NEW d \in Calls, NEW f \in EventIds
  PROVE  Life(d, f)'
<1>life. Life(d, f)
  BY DEF Lives
<1>phase. phase \in [Calls -> Phases]
  BY DEF TypeOK
<1>item. item \in [Calls -> [EventIds -> Items]]
  BY DEF TypeOK
<1>wire. wire \in [Calls -> [EventIds -> Wires]]
  BY DEF TypeOK
<1>late. late \in [Calls -> [EventIds -> Lates]]
  BY DEF TypeOK
<1>log. log' = log
  BY DEF ThreadStep, FaultStep, Send, Timeout, StartWait, Classify, Finalize, FinalizeFails, Mark,
    MarkFails, Release, ReleaseFails, kafka
<1>own. Own(d, f)' <=> Own(d, f)
  BY <1>log DEF Own
<1>1. ASSUME NEW e \in EventIds, Send(c, e)
      PROVE  Life(d, f)'
  <2>1. CASE d = c /\ f = e
    <3>1. phase' = phase /\ late' = late /\ phase[d] = "sending" /\ item[d][f] = "owned"
      BY <1>1, <2>1 DEF Send
    <3>2. \/ item'[d][f] = "sent" /\ wire'[d][f] = "queued"
          \/ item'[d][f] = "failed" /\ wire'[d][f] = wire[d][f]
      BY <1>1, <2>1, <1>item, <1>wire DEF Send
    <3> QED
      BY <1>life, <1>own, <3>1, <3>2 DEF Life
  <2>2. CASE ~ (d = c /\ f = e)
    <3>1. phase' = phase /\ late' = late
      BY <1>1 DEF Send
    <3>2. item'[d][f] = item[d][f]
      BY <1>1, <2>2, <1>item DEF Send
    <3>3. wire'[d][f] = wire[d][f]
      BY <1>1, <2>2, <1>wire DEF Send
    <3> QED
      BY <1>life, <1>own, <3>1, <3>2, <3>3, LifeKept
  <2> QED
    BY <2>1, <2>2
<1>2. ASSUME NEW e \in EventIds, Timeout(c, e)
      PROVE  Life(d, f)'
  <2>1. phase' = phase /\ wire' = wire
    BY <1>2 DEF Timeout
  <2>2. CASE d = c /\ f = e
    <3>1. phase[d] = "waiting" /\ item[d][f] \in {"sent", "acked", "failed"}
      BY <1>2, <2>2 DEF Timeout
    <3>2. item'[d][f] = "unsure"
      BY <1>2, <2>2, <1>item DEF Timeout
    <3>3. late'[d][f] = "ok" => item[d][f] = "acked"
      BY <1>2, <2>2, <1>late DEF Timeout
    <3> QED
      BY <1>life, <1>own, <2>1, <3>1, <3>2, <3>3 DEF Life
  <2>3. CASE ~ (d = c /\ f = e)
    <3>1. item'[d][f] = item[d][f]
      BY <1>2, <2>3, <1>item DEF Timeout
    <3>2. late'[d][f] = late[d][f]
      BY <1>2, <2>3, <1>late DEF Timeout
    <3> QED
      BY <1>life, <1>own, <2>1, <3>1, <3>2, LifeKept
  <2> QED
    BY <2>2, <2>3
<1>3. CASE StartWait(c) \/ Classify(c)
  <2>1. item' = item /\ wire' = wire /\ late' = late
    BY <1>3 DEF StartWait, Classify, kafka
  <2>2. CASE d = c
    <3>1. /\ phase[d] \in {"sending", "waiting"} /\ phase'[d] \in {"waiting", "finalizing"}
          /\ phase'[d] = "finalizing" => item[d][f] # "sent"
      BY <1>3, <2>2, <1>phase DEF StartWait, Classify, Having
    <3> QED
      BY <1>life, <1>own, <2>1, <3>1 DEF Life
  <2>3. CASE d # c
    <3>1. phase'[d] = phase[d]
      BY <1>3, <2>3, <1>phase DEF StartWait, Classify
    <3> QED
      BY <1>life, <1>own, <2>1, <3>1, LifeKept
  <2> QED
    BY <2>2, <2>3
<1>4. CASE Finalize(c) \/ FinalizeFails(c)
  <2>1. wire' = wire /\ late' = late
    BY <1>4 DEF Finalize, FinalizeFails, kafka
  <2>2. CASE d = c
    <3>1. phase[d] = "finalizing" /\ phase'[d] = "marking"
      BY <1>4, <2>2, <1>phase DEF Finalize, FinalizeFails
    <3>2. PICK o \in {"stored", "unsure"} : Conclude(c, o)
      BY <1>4 DEF Finalize, FinalizeFails
    <3>3. item'[d][f] = IF item[d][f] = "acked" THEN o ELSE item[d][f]
      BY <2>2, <3>2, <1>item DEF Conclude
    <3> QED
      BY <1>life, <1>own, <2>1, <3>1, <3>3 DEF Life
  <2>3. CASE d # c
    <3>1. phase'[d] = phase[d]
      BY <1>4, <2>3, <1>phase DEF Finalize, FinalizeFails
    <3>2. item'[d][f] = item[d][f]
      BY <1>4, <2>3, <1>item DEF Finalize, FinalizeFails, Conclude
    <3> QED
      BY <1>life, <1>own, <2>1, <3>1, <3>2, LifeKept
  <2> QED
    BY <2>2, <2>3
<1>5. CASE Mark(c) \/ MarkFails(c) \/ Release(c) \/ ReleaseFails(c)
  <2>1. item' = item /\ wire' = wire /\ late' = late
    BY <1>5 DEF Mark, MarkFails, Release, ReleaseFails, kafka
  <2>2. CASE d = c
    <3>1. phase[d] \in {"marking", "releasing"} /\ phase'[d] \in {"releasing", "done", "error"}
      BY <1>5, <2>2, <1>phase DEF Mark, MarkFails, Release, ReleaseFails
    <3> QED
      BY <1>life, <1>own, <2>1, <3>1 DEF Life
  <2>3. CASE d # c
    <3>1. phase'[d] = phase[d]
      BY <1>5, <2>3, <1>phase DEF Mark, MarkFails, Release, ReleaseFails
    <3> QED
      BY <1>life, <1>own, <2>1, <3>1, LifeKept
  <2> QED
    BY <2>2, <2>3
<1> QED
  BY <1>1, <1>2, <1>3, <1>4, <1>5 DEF ThreadStep, FaultStep

(* Claims: a call leaves "new" with every event settled or owned.          *)
LEMMA ClaimLife ==
  ASSUME TypeOK, Lives, NEW c \in Calls, NEW want, Claim(c, want) \/ ClaimFails(c, want),
         NEW d \in Calls, NEW f \in EventIds
  PROVE  Life(d, f)'
<1>life. Life(d, f)
  BY DEF Lives
<1>phase. phase \in [Calls -> Phases]
  BY DEF TypeOK
<1>item. item \in [Calls -> [EventIds -> Items]]
  BY DEF TypeOK
<1>kafka. wire' = wire /\ late' = late /\ log' = log
  BY DEF Claim, ClaimFails, kafka
<1>own. Own(d, f)' <=> Own(d, f)
  BY <1>kafka DEF Own
<1>1. CASE d # c
  <2>1. phase'[d] = phase[d] /\ item'[d][f] = item[d][f]
    BY <1>1, <1>phase, <1>item DEF Claim, ClaimFails
  <2> QED
    BY <1>life, <1>kafka, <1>own, <2>1, LifeKept
<1>2. CASE d = c /\ Claim(c, want)
  <2>1. phase[d] = "new" /\ phase'[d] \in {"done", "sending"}
    BY <1>2, <1>phase DEF Claim
  <2>2. item'[d][f] \in {"out", "owned", "conflict", "same", "pending", "uncertain"}
    <3>1. PICK won \in SUBSET EventIds :
            item' = [item EXCEPT ![c] = [e \in EventIds |->
                       IF e \notin Wanted(want) THEN "out"
                       ELSE IF e \in won THEN "owned" ELSE ClaimReply(e, want[e])]]
            /\ \A e \in Wanted(want) : state[e] = "absent" => e \in won
      <4>1. PICK gone \in Cleanable(want) :
              item' = [item EXCEPT ![c] = [e \in EventIds |->
                         IF e \notin Wanted(want) THEN "out"
                         ELSE IF e \in {w \in Wanted(want) : state[w] = "absent" \/ w \in gone}
                              THEN "owned" ELSE ClaimReply(e, want[e])]]
        BY <1>2 DEF Claim
      <4>2. {w \in Wanted(want) : state[w] = "absent" \/ w \in gone} \in SUBSET EventIds
        BY DEF Wanted
      <4> QED
        BY <4>1, <4>2
    <3>2. item'[d][f] = IF f \notin Wanted(want) THEN "out"
                        ELSE IF f \in won THEN "owned" ELSE ClaimReply(f, want[f])
      BY <3>1, <1>2, <1>item
    <3>3. f \in Wanted(want) /\ f \notin won
            => ClaimReply(f, want[f]) \in {"conflict", "same", "pending", "uncertain"}
      BY <3>1 DEF ClaimReply, TypeOK, States
    <3> QED
      BY <3>2, <3>3
  <2> QED
    BY <1>life, <1>kafka, <1>own, <2>1, <2>2 DEF Life
<1>3. CASE d = c /\ ClaimFails(c, want)
  <2>1. phase[d] = "new" /\ phase'[d] = "error" /\ item' = item
    BY <1>3, <1>phase DEF ClaimFails
  <2> QED
    BY <1>life, <1>kafka, <1>own, <2>1 DEF Life
<1> QED
  BY <1>1, <1>2, <1>3

(* Kafka steps: only Append writes a record, only for a queued message; a  *)
(* failure reaches a call that still listens only if there is no record.   *)
LEMMA KafkaLife ==
  ASSUME TypeOK, Lives, Timely, NEW c \in Calls, NEW e \in EventIds, KafkaStep(c, e),
         NEW d \in Calls, NEW f \in EventIds
  PROVE  Life(d, f)'
<1>life. Life(d, f)
  BY DEF Lives
<1>item. item \in [Calls -> [EventIds -> Items]]
  BY DEF TypeOK
<1>wire. wire \in [Calls -> [EventIds -> Wires]]
  BY DEF TypeOK
<1>late. late \in [Calls -> [EventIds -> Lates]]
  BY DEF TypeOK
<1>phase. phase' = phase
  BY DEF KafkaStep, Append, ReportOk, ReportFail, threads
<1>1. CASE Append(c, e)
  <2>1. item' = item /\ late' = late /\ wire[c][e] = "queued" /\ log' = log \cup {Record(c, e)}
    BY <1>1 DEF Append, threads
  <2>2. CASE d = c /\ f = e
    <3>1. wire'[d][f] = "appended"
      BY <1>1, <2>2, <1>wire DEF Append
    <3>2. Own(d, f)'
      <4>1. Record(c, e) \in log' /\ Record(c, e).call = d /\ Record(c, e).event = f
        BY <2>1, <2>2 DEF Record
      <4> QED
        BY <4>1 DEF Own
    <3> QED
      BY <1>life, <1>phase, <2>1, <2>2, <3>1, <3>2 DEF Life
  <2>3. CASE ~ (d = c /\ f = e)
    <3>1. wire'[d][f] = wire[d][f]
      BY <1>1, <2>3, <1>wire DEF Append
    <3>2. Own(d, f)' <=> Own(d, f)
      BY <2>1, <2>3 DEF Own, Record
    <3> QED
      BY <1>life, <1>phase, <2>1, <3>1, <3>2, LifeKept
  <2> QED
    BY <2>2, <2>3
<1>2. CASE ReportOk(c, e) \/ ReportFail(c, e)
  <2>own. Own(d, f)' <=> Own(d, f)
    BY <1>2 DEF ReportOk, ReportFail, Own
  <2>1. CASE ~ (d = c /\ f = e)
    <3>1. wire'[d][f] = wire[d][f]
      BY <1>2, <2>1, <1>wire DEF ReportOk, ReportFail
    <3>2. item'[d][f] = item[d][f]
      BY <1>2, <2>1, <1>item DEF ReportOk, ReportFail
    <3>3. late'[d][f] = late[d][f]
      BY <1>2, <2>1, <1>late DEF ReportOk, ReportFail
    <3> QED
      BY <1>life, <1>phase, <2>own, <3>1, <3>2, <3>3, LifeKept
  <2>2. CASE d = c /\ f = e
    <3>1. wire'[d][f] = "reported"
      BY <1>2, <2>2, <1>wire DEF ReportOk, ReportFail
    <3>2. CASE ReportOk(c, e)
      <4>1. wire[d][f] = "appended"
        BY <2>2, <3>2 DEF ReportOk
      <4>2. item'[d][f] = IF item[d][f] = "sent" THEN "acked" ELSE item[d][f]
        BY <2>2, <3>2, <1>item DEF ReportOk
      <4> QED
        BY <1>life, <1>phase, <2>own, <3>1, <4>1, <4>2 DEF Life
    <3>3. CASE ReportFail(c, e)
      <4>1. wire[d][f] \in {"queued", "appended"}
        BY <2>2, <3>3 DEF ReportFail, Undelivered
      <4>2. late'[d][f] \in {late[d][f], "fail"}
        BY <2>2, <3>3, <1>late DEF ReportFail
      <4>3. \/ item'[d][f] = item[d][f] /\ item[d][f] # "sent"
            \/ item'[d][f] = "failed" /\ (item[d][f] = "sent" \/ phase[d] = "waiting")
        BY <2>2, <3>3, <1>item DEF ReportFail
      <4>4. wire[d][f] = "appended" => phase[d] \notin Working
        <5>1. now \in Nat /\ sentAt[d] \in Nat /\ AckTimeout \in Nat /\ DeliveryTimeout \in Nat
              /\ AckTimeout < DeliveryTimeout
          BY CustodyAssumption DEF TypeOK
        <5>2. wire[d][f] = "appended" => now = sentAt[d] + DeliveryTimeout
          BY <2>2, <3>3 DEF ReportFail, Undelivered
        <5>3. phase[d] \in Working => now <= sentAt[d] + AckTimeout
          BY DEF Timely
        <5> QED
          BY <5>1, <5>2, <5>3
      <4>5. item'[d][f] = "failed" => wire[d][f] = "queued"
        BY <1>life, <4>1, <4>3, <4>4 DEF Life, Working
      <4> QED
        BY <1>life, <1>phase, <2>own, <3>1, <4>1, <4>2, <4>3, <4>5 DEF Life
    <3> QED
      BY <1>2, <3>2, <3>3
  <2> QED
    BY <2>1, <2>2
<1> QED
  BY <1>1, <1>2 DEF KafkaStep

(* Every step keeps every event of every call in its stage.                *)
LEMMA LifeStep ==
  ASSUME TypeOK, Lives, Timely, [Next]_vars
  PROVE  Lives'
<1> SUFFICES ASSUME NEW d \in Calls, NEW f \in EventIds PROVE Life(d, f)'
  BY DEF Lives
<1>life. Life(d, f)
  BY DEF Lives
<1>1. CASE Tick \/ UNCHANGED vars
  BY <1>1, <1>life DEF Tick, vars, threads, kafka, Life, Own
<1>2. ASSUME NEW c \in Calls, NEW e \in EventIds, PoolStep(c, e) \/ ReconcileFails(c, e)
      PROVE  Life(d, f)'
  <2>1. phase' = phase /\ item' = item /\ wire' = wire /\ log' = log
    BY <1>2 DEF PoolStep, ReconcileOk, ReconcileFail, ReconcileFails, threads
  <2>2. late \in [Calls -> [EventIds -> Lates]]
    BY DEF TypeOK
  <2>3. late[c][e] \in {"ok", "fail"} /\ late' = [late EXCEPT ![c][e] = "done"]
    BY <1>2 DEF PoolStep, ReconcileOk, ReconcileFail, ReconcileFails
  <2>4. \/ late'[d][f] = late[d][f]
        \/ late'[d][f] = "done" /\ late[d][f] \in {"ok", "fail"}
    BY <2>2, <2>3
  <2>5. Own(d, f)' <=> Own(d, f)
    BY <2>1 DEF Own
  <2> QED
    BY <1>life, <2>1, <2>4, <2>5 DEF Life
<1>3. ASSUME NEW c \in Calls, Crash(c)
      PROVE  Life(d, f)'
  <2>1. item' = item /\ log' = log /\ phase[c] # "new"
    BY <1>3 DEF Crash
  <2>2. Own(d, f)' <=> Own(d, f)
    BY <2>1 DEF Own
  <2>3. phase'[d] = IF d # c \/ phase[d] \in Over THEN phase[d] ELSE "crashed"
    BY <1>3 DEF Crash, TypeOK
  <2>4. wire'[d][f] = IF d = c /\ wire[d][f] \in {"queued", "appended"}
                      THEN "lost" ELSE wire[d][f]
    <3>1. wire \in [Calls -> [EventIds -> Wires]]
      BY DEF TypeOK
    <3> QED
      BY <1>3, <3>1 DEF Crash
  <2>5. late'[d][f] = IF d = c /\ late[d][f] # "none" THEN "done" ELSE late[d][f]
    <3>1. late \in [Calls -> [EventIds -> Lates]]
      BY DEF TypeOK
    <3> QED
      BY <1>3, <3>1 DEF Crash
  <2> QED
    BY <1>life, <2>1, <2>2, <2>3, <2>4, <2>5 DEF Life, Over
<1> QED
  BY <1>1, <1>2, <1>3, ThreadLife, ClaimLife, KafkaLife DEF Next

(* What Kafka holds, it keeps, and the call a record belongs to never      *)
(* changes its mind about the payload.                                     *)
LEMMA InLogKept ==
  ASSUME TypeOK, Lives, [Next]_vars, NEW e, NEW p, InLog(e, p)
  PROVE  InLog(e, p)'
<1>1. PICK r \in log : r.event = e /\ ask[r.call][e] = p
  BY DEF InLog
<1>2. r.call \in Calls /\ r.event \in EventIds
  BY DEF TypeOK, Records
<1>3. phase[r.call] # "new"
  <2>1. Life(r.call, r.event) /\ Own(r.call, r.event)
    BY <1>2 DEF Lives, Own
  <2> QED
    BY <2>1 DEF Life
<1>4. r \in log'
  <2>1. ASSUME NEW c \in Calls, NEW f \in EventIds, KafkaStep(c, f)
        PROVE  r \in log'
    BY <1>1, <2>1 DEF KafkaStep, Append, ReportOk, ReportFail
  <2>2. ASSUME NEW c \in Calls, ThreadStep(c) \/ FaultStep(c)
        PROVE  r \in log'
    BY <1>1, <2>2 DEF ThreadStep, FaultStep, Send, Timeout, StartWait, Classify, Finalize, FinalizeFails,
      Mark, MarkFails, Release, ReleaseFails, kafka
  <2>3. ASSUME NEW c \in Calls, NEW f \in EventIds, PoolStep(c, f) \/ ReconcileFails(c, f)
        PROVE  r \in log'
    BY <1>1, <2>3 DEF PoolStep, ReconcileOk, ReconcileFail, ReconcileFails
  <2>4. ASSUME NEW c \in Calls, NEW want, Claim(c, want) \/ ClaimFails(c, want)
        PROVE  r \in log'
    BY <1>1, <2>4 DEF Claim, ClaimFails, kafka
  <2>5. CASE Tick \/ UNCHANGED vars \/ \E c \in Calls : Crash(c)
    BY <1>1, <2>5 DEF Tick, Crash, kafka, vars
  <2> QED
    BY <2>1, <2>2, <2>3, <2>4, <2>5 DEF Next
<1>5. ask'[r.call] = ask[r.call]
  <2>1. ask \in [Calls -> [EventIds -> Prints \cup {NoPrint}]]
    BY DEF TypeOK
  <2>2. ASSUME NEW c \in Calls, NEW want, Claim(c, want) \/ ClaimFails(c, want)
        PROVE  ask'[r.call] = ask[r.call]
    BY <1>2, <1>3, <2>1, <2>2 DEF Claim, ClaimFails
  <2>3. ASSUME NEW c \in Calls, ThreadStep(c) \/ FaultStep(c)
        PROVE  ask' = ask
    BY <2>3 DEF ThreadStep, FaultStep, Send, Timeout, StartWait, Classify, Finalize, FinalizeFails,
      Mark, MarkFails, Release, ReleaseFails
  <2>4. ASSUME NEW c \in Calls, NEW f \in EventIds,
               KafkaStep(c, f) \/ PoolStep(c, f) \/ ReconcileFails(c, f)
        PROVE  ask' = ask
    BY <2>4 DEF KafkaStep, Append, ReportOk, ReportFail, PoolStep, ReconcileOk, ReconcileFail,
      ReconcileFails, threads
  <2>5. CASE Tick \/ UNCHANGED vars \/ \E c \in Calls : Crash(c)
    BY <2>5 DEF Tick, Crash, threads, vars
  <2> QED
    BY <2>2, <2>3, <2>4, <2>5 DEF Next
<1> QED
  BY <1>1, <1>4, <1>5 DEF InLog

(* A field becomes accepted only for a payload that is already in Kafka.   *)
LEMMA Acceptance ==
  ASSUME TypeOK, Lives, [Next]_vars, NEW f \in EventIds, state'[f] = "accepted"
  PROVE  \/ state[f] = "accepted" /\ print'[f] = print[f] /\ expiry'[f] = expiry[f]
         \/ /\ state[f] # "accepted" /\ InLog(f, print'[f])
            /\ expiry'[f] = now + AcceptedTTL /\ now' = now
<1> DEFINE Goal == \/ state[f] = "accepted" /\ print'[f] = print[f] /\ expiry'[f] = expiry[f]
                   \/ /\ state[f] # "accepted" /\ InLog(f, print'[f])
                      /\ expiry'[f] = now + AcceptedTTL /\ now' = now
<1> SUFFICES Goal
  OBVIOUS
<1>1. ASSUME UNCHANGED registry
      PROVE  Goal
  BY <1>1 DEF registry
<1>2. ASSUME NEW gone \in SUBSET EventIds, NEW won \in SUBSET EventIds, NEW want,
             ClaimFields(gone, won, want)
      PROVE  Goal
  BY <1>2 DEF ClaimFields
<1>3. ASSUME NEW S, Drop(S)
      PROVE  Goal
  BY <1>3 DEF Drop
<1>4. ASSUME NEW S, Transition(S, "uncertain", UncertainTTL)
      PROVE  Goal
  BY <1>4 DEF Transition
<1>5. ASSUME NEW c \in Calls, NEW S, Transition(S, "accepted", AcceptedTTL), now' = now,
             \A e \in S : MayAccept(c, e) /\ Own(c, e)
      PROVE  Goal
  <2>1. CASE f \in S
    <3>1. /\ print'[f] = ask[c][f] /\ state[f] # "accepted" /\ Own(c, f)
          /\ expiry'[f] = now + AcceptedTTL
      BY <1>5, <2>1 DEF Transition, MayAccept, Holds
    <3> QED
      BY <1>5, <3>1 DEF InLog, Own
  <2>2. CASE f \notin S
    BY <1>5, <2>2 DEF Transition
  <2> QED
    BY <2>1, <2>2
<1>6. ASSUME NEW c \in Calls, NEW want \in [EventIds -> Prints \cup {NoPrint}],
             Claim(c, want) \/ ClaimFails(c, want)
      PROVE  Goal
  <2>1. PICK gone \in SUBSET EventIds, won \in SUBSET EventIds : ClaimFields(gone, won, want)
    <3>1. CASE Claim(c, want)
      <4>1. PICK gone \in Cleanable(want) :
              ClaimFields(gone, {e \in Wanted(want) : state[e] = "absent" \/ e \in gone}, want)
        BY <3>1 DEF Claim
      <4>2. gone \in SUBSET EventIds
            /\ {e \in Wanted(want) : state[e] = "absent" \/ e \in gone} \in SUBSET EventIds
        BY DEF Cleanable, Wanted
      <4> QED
        BY <4>1, <4>2
    <3>2. CASE ClaimFails(c, want)
      <4>1. PICK gone \in SUBSET {e \in EventIds : Expired(e)} :
              \E won \in SUBSET {e \in Wanted(want) : state[e] = "absent" \/ e \in gone} :
                ClaimFields(gone, won, want)
        BY <3>2 DEF ClaimFails
      <4>2. PICK won \in SUBSET {e \in Wanted(want) : state[e] = "absent" \/ e \in gone} :
              ClaimFields(gone, won, want)
        BY <4>1
      <4>3. gone \in SUBSET EventIds /\ won \in SUBSET EventIds
        BY DEF Wanted
      <4> QED
        BY <4>2, <4>3
    <3> QED
      BY <1>6, <3>1, <3>2
  <2> QED
    BY <1>2, <2>1
<1>7. ASSUME NEW c \in Calls, Finalize(c) \/ FinalizeFails(c)
      PROVE  Goal
  <2>1. PICK S : Transition(S, "accepted", AcceptedTTL)
                 /\ \A e \in S : e \in Having(c, {"acked"}) /\ MayAccept(c, e)
    BY <1>7 DEF Finalize, FinalizeFails
  <2>2. \A e \in S : Own(c, e)
    BY <2>1 DEF Having, Lives, Life
  <2>3. now' = now
    BY <1>7 DEF Finalize, FinalizeFails
  <2> QED
    BY <1>5, <2>1, <2>2, <2>3
<1>8. ASSUME NEW c \in Calls, NEW e \in EventIds, ReconcileOk(c, e)
      PROVE  Goal
  <2>1. PICK S \in SUBSET {e} : Transition(S, "accepted", AcceptedTTL) /\ (S # {} => MayAccept(c, e))
    BY <1>8 DEF ReconcileOk
  <2>2. \A g \in S : MayAccept(c, g) /\ Own(c, g)
    BY <1>8, <2>1 DEF ReconcileOk, Lives, Life
  <2>3. now' = now
    BY <1>8 DEF ReconcileOk
  <2> QED
    BY <1>5, <2>1, <2>2, <2>3
<1>9. ASSUME NEW c \in Calls, ThreadStep(c) \/ FaultStep(c)
      PROVE  Goal
  <2>1. CASE Mark(c) \/ MarkFails(c)
    BY <1>4, <2>1 DEF Mark, MarkFails
  <2>2. CASE Release(c) \/ ReleaseFails(c)
    BY <1>3, <2>2 DEF Release, ReleaseFails
  <2>3. CASE StartWait(c) \/ Classify(c) \/ \E e \in EventIds : Send(c, e) \/ Timeout(c, e)
    BY <1>1, <2>3 DEF StartWait, Classify, Send, Timeout
  <2> QED
    BY <1>7, <1>9, <2>1, <2>2, <2>3 DEF ThreadStep, FaultStep
<1>10. ASSUME NEW c \in Calls, NEW e \in EventIds,
              KafkaStep(c, e) \/ PoolStep(c, e) \/ ReconcileFails(c, e)
       PROVE  Goal
  <2>1. CASE ReconcileFail(c, e)
    BY <1>3, <2>1 DEF ReconcileFail
  <2>2. CASE KafkaStep(c, e) \/ ReconcileFails(c, e)
    BY <1>1, <2>2 DEF KafkaStep, Append, ReportOk, ReportFail, ReconcileFails
  <2> QED
    BY <1>8, <1>10, <2>1, <2>2 DEF PoolStep
<1>11. CASE Tick \/ UNCHANGED vars \/ \E c \in Calls : Crash(c)
  BY <1>1, <1>11 DEF Tick, Crash, vars
<1> QED
  BY <1>6, <1>9, <1>10, <1>11 DEF Next

(* An accepted field changes only when it has expired: then it is dropped, *)
(* or claimed anew.                                                        *)
LEMMA Retention ==
  ASSUME TypeOK, [Next]_vars, NEW f \in EventIds, state[f] = "accepted"
  PROVE  \/ state'[f] = "accepted" /\ print'[f] = print[f] /\ expiry'[f] = expiry[f]
         \/ state'[f] \in {"absent", "pending"} /\ expiry[f] <= now /\ now' = now
<1> DEFINE Goal == \/ state'[f] = "accepted" /\ print'[f] = print[f] /\ expiry'[f] = expiry[f]
                   \/ state'[f] \in {"absent", "pending"} /\ expiry[f] <= now /\ now' = now
<1> SUFFICES Goal
  OBVIOUS
<1>1. ASSUME UNCHANGED registry
      PROVE  Goal
  BY <1>1 DEF registry
<1>2. ASSUME NEW S, NEW target, NEW ttl, Transition(S, target, ttl), f \notin S
      PROVE  Goal
  BY <1>2 DEF Transition
<1>3. ASSUME NEW S, Drop(S), f \notin S
      PROVE  Goal
  BY <1>3 DEF Drop
<1>4. ASSUME NEW gone \in SUBSET {e \in EventIds : Expired(e)}, NEW won, NEW want,
             won \in SUBSET {e \in Wanted(want) : state[e] = "absent" \/ e \in gone},
             ClaimFields(gone, won, want), now' = now
      PROVE  Goal
  BY <1>4 DEF ClaimFields, Expired
<1>5. ASSUME NEW c \in Calls, NEW want, Claim(c, want) \/ ClaimFails(c, want)
      PROVE  Goal
  <2>1. CASE Claim(c, want)
    <3>1. PICK gone \in Cleanable(want) :
            ClaimFields(gone, {e \in Wanted(want) : state[e] = "absent" \/ e \in gone}, want)
      BY <2>1 DEF Claim
    <3>2. gone \in SUBSET {e \in EventIds : Expired(e)}
      BY DEF Cleanable
    <3> QED
      BY <1>4, <2>1, <3>1, <3>2 DEF Claim
  <2>2. CASE ClaimFails(c, want)
    <3>1. PICK gone \in SUBSET {e \in EventIds : Expired(e)} :
            \E won \in SUBSET {e \in Wanted(want) : state[e] = "absent" \/ e \in gone} :
              ClaimFields(gone, won, want)
      BY <2>2 DEF ClaimFails
    <3> QED
      BY <1>4, <2>2, <3>1 DEF ClaimFails
  <2> QED
    BY <1>5, <2>1, <2>2
<1>6. ASSUME NEW c \in Calls, ThreadStep(c) \/ FaultStep(c)
      PROVE  Goal
  <2>1. CASE Finalize(c) \/ FinalizeFails(c)
    <3>1. PICK S : Transition(S, "accepted", AcceptedTTL) /\ \A e \in S : MayAccept(c, e)
      BY <2>1 DEF Finalize, FinalizeFails
    <3> QED
      BY <1>2, <3>1 DEF MayAccept, Holds
  <2>2. CASE Mark(c) \/ MarkFails(c)
    <3>1. PICK S : Transition(S, "uncertain", UncertainTTL) /\ \A e \in S : MayDoubt(c, e)
      BY <2>2 DEF Mark, MarkFails
    <3> QED
      BY <1>2, <3>1 DEF MayDoubt, Holds
  <2>3. CASE Release(c) \/ ReleaseFails(c)
    <3>1. PICK S : Drop(S) /\ \A e \in S : MayRelease(c, e)
      BY <2>3 DEF Release, ReleaseFails
    <3> QED
      BY <1>3, <3>1 DEF MayRelease, Holds
  <2>4. CASE StartWait(c) \/ Classify(c) \/ \E e \in EventIds : Send(c, e) \/ Timeout(c, e)
    BY <1>1, <2>4 DEF StartWait, Classify, Send, Timeout
  <2> QED
    BY <1>6, <2>1, <2>2, <2>3, <2>4 DEF ThreadStep, FaultStep
<1>7. ASSUME NEW c \in Calls, NEW e \in EventIds,
             KafkaStep(c, e) \/ PoolStep(c, e) \/ ReconcileFails(c, e)
      PROVE  Goal
  <2>1. CASE ReconcileOk(c, e)
    <3>1. PICK S : Transition(S, "accepted", AcceptedTTL) /\ \A g \in S : MayAccept(c, g)
      BY <2>1 DEF ReconcileOk
    <3> QED
      BY <1>2, <3>1 DEF MayAccept, Holds
  <2>2. CASE ReconcileFail(c, e)
    <3>1. PICK S : Drop(S) /\ \A g \in S : MayRelease(c, g)
      BY <2>2 DEF ReconcileFail
    <3> QED
      BY <1>3, <3>1 DEF MayRelease, Holds
  <2>3. CASE KafkaStep(c, e) \/ ReconcileFails(c, e)
    BY <1>1, <2>3 DEF KafkaStep, Append, ReportOk, ReportFail, ReconcileFails
  <2> QED
    BY <1>7, <2>1, <2>2, <2>3 DEF PoolStep
<1>8. CASE Tick \/ UNCHANGED vars \/ \E c \in Calls : Crash(c)
  BY <1>1, <1>8 DEF Tick, Crash, vars
<1> QED
  BY <1>5, <1>6, <1>7, <1>8 DEF Next

(* A 202 is granted by a claim that finds the payload accepted, or by the  *)
(* finalization of an acknowledged record; nothing takes it back.          *)
LEMMA Granting ==
  ASSUME TypeOK, Lives, AcceptedLogged, [Next]_vars, NEW d \in Calls, NEW f \in EventIds
  PROVE  /\ item[d][f] \in {"same", "stored"}
              => item'[d][f] = item[d][f] /\ ask'[d][f] = ask[d][f]
         /\ item'[d][f] \in {"same", "stored"} /\ item[d][f] \notin {"same", "stored"}
              => /\ InLog(f, ask'[d][f]) /\ now' = now
                 /\ state'[f] = "accepted" /\ print'[f] = ask'[d][f]
<1> DEFINE Goal ==
      /\ item[d][f] \in {"same", "stored"} => item'[d][f] = item[d][f] /\ ask'[d][f] = ask[d][f]
      /\ item'[d][f] \in {"same", "stored"} /\ item[d][f] \notin {"same", "stored"}
           => /\ InLog(f, ask'[d][f]) /\ now' = now
              /\ state'[f] = "accepted" /\ print'[f] = ask'[d][f]
<1> SUFFICES Goal
  OBVIOUS
<1>life. Life(d, f)
  BY DEF Lives
<1>item. item \in [Calls -> [EventIds -> Items]]
  BY DEF TypeOK
<1>ask. ask \in [Calls -> [EventIds -> Prints \cup {NoPrint}]]
  BY DEF TypeOK
<1>1. ASSUME ask'[d] = ask[d],
             \/ item'[d][f] = item[d][f]
             \/ item[d][f] \notin {"same", "stored"} /\ item'[d][f] \notin {"same", "stored"}
      PROVE  Goal
  BY <1>1
<1>2. ASSUME NEW c \in Calls, NEW want \in [EventIds -> Prints \cup {NoPrint}], Claim(c, want)
      PROVE  Goal
  <2>1. CASE d # c
    <3>1. ask'[d] = ask[d]
      BY <1>2, <1>ask, <2>1 DEF Claim
    <3>2. item'[d][f] = item[d][f]
      BY <1>2, <1>item, <2>1 DEF Claim
    <3> QED
      BY <1>1, <3>1, <3>2
  <2>2. CASE d = c
    <3>1. item[d][f] = "out"
      BY <1>2, <2>2, <1>life DEF Claim, Life
    <3>2. ask'[d] = want
      BY <1>2, <1>ask, <2>2 DEF Claim
    <3>3. PICK gone \in Cleanable(want) :
            LET won == {e \in Wanted(want) : state[e] = "absent" \/ e \in gone}
            IN  /\ ClaimFields(gone, won, want)
                /\ item' = [item EXCEPT ![c] = [e \in EventIds |->
                              IF e \notin Wanted(want) THEN "out"
                              ELSE IF e \in won THEN "owned" ELSE ClaimReply(e, want[e])]]
      BY <1>2 DEF Claim
    <3> DEFINE won == {e \in Wanted(want) : state[e] = "absent" \/ e \in gone}
    <3>4. item'[d][f] = IF f \notin Wanted(want) THEN "out"
                        ELSE IF f \in won THEN "owned" ELSE ClaimReply(f, want[f])
      BY <3>3, <2>2, <1>item
    <3>5. ASSUME item'[d][f] \in {"same", "stored"}
          PROVE  /\ f \in Wanted(want) /\ f \notin won /\ state[f] = "accepted"
                 /\ print[f] = want[f]
      <4>1. f \in Wanted(want) /\ f \notin won /\ ClaimReply(f, want[f]) \in {"same", "stored"}
        BY <3>4, <3>5
      <4> QED
        BY <4>1 DEF ClaimReply, TypeOK, States
    <3>6. ASSUME item'[d][f] \in {"same", "stored"}
          PROVE  state'[f] = "accepted" /\ print'[f] = want[f]
      <4>1. f \notin gone /\ f \notin won
        BY <3>5, <3>6
      <4>2. ClaimFields(gone, won, want)
        BY <3>3
      <4> HIDE DEF won
      <4>3. state'[f] = state[f] /\ print'[f] = print[f]
        BY <4>1, <4>2 DEF ClaimFields
      <4> QED
        BY <3>5, <3>6, <4>3
    <3>7. now' = now
      BY <1>2 DEF Claim
    <3> QED
      BY <3>1, <3>2, <3>5, <3>6, <3>7 DEF AcceptedLogged
  <2> QED
    BY <2>1, <2>2
<1>3. ASSUME NEW c \in Calls, NEW want, ClaimFails(c, want)
      PROVE  Goal
  <2>1. item' = item /\ (d # c => ask'[d] = ask[d])
    BY <1>3, <1>ask DEF ClaimFails
  <2>2. d = c => item[d][f] = "out"
    BY <1>3, <1>life DEF ClaimFails, Life
  <2> QED
    BY <2>1, <2>2
<1>4. ASSUME NEW c \in Calls, Finalize(c) \/ FinalizeFails(c)
      PROVE  Goal
  <2>1. ask' = ask /\ now' = now
    BY <1>4 DEF Finalize, FinalizeFails
  <2>2. PICK o : Conclude(c, o) /\ (Finalize(c) \/ o = "unsure") /\ o \in {"stored", "unsure"}
                 /\ (o = "stored" => \A e \in Having(c, {"acked"}) : Accepts(c, e))
    BY <1>4 DEF Finalize, FinalizeFails
  <2>3. item'[d][f] = IF d = c /\ item[d][f] = "acked" THEN o ELSE item[d][f]
    BY <2>2, <1>item DEF Conclude
  <2>4. CASE d = c /\ item[d][f] = "acked" /\ o = "stored"
    <3>1. Own(d, f) /\ f \in Having(c, {"acked"}) /\ Accepts(c, f) /\ Finalize(c)
      BY <2>2, <2>4, <1>life DEF Life, Having
    <3>2. state'[f] = "accepted" /\ print'[f] = ask[d][f]
      BY <2>4, <3>1 DEF Finalize, Transition, Accepts, MayAccept, Holds
    <3> QED
      BY <2>1, <2>3, <2>4, <3>1, <3>2 DEF Own, InLog
  <2>5. CASE ~ (d = c /\ item[d][f] = "acked" /\ o = "stored")
    BY <1>1, <2>1, <2>2, <2>3, <2>5
  <2> QED
    BY <2>4, <2>5
<1>5. ASSUME NEW c \in Calls, ThreadStep(c) \/ FaultStep(c)
      PROVE  Goal
  <2>1. ASSUME NEW e \in EventIds, Send(c, e) \/ Timeout(c, e)
        PROVE  Goal
    <3>1. ask' = ask
      BY <2>1 DEF Send, Timeout
    <3>2. \/ item'[d][f] = item[d][f]
          \/ item[d][f] \notin {"same", "stored"} /\ item'[d][f] \notin {"same", "stored"}
      BY <2>1, <1>item DEF Send, Timeout
    <3> QED
      BY <1>1, <3>1, <3>2
  <2>2. CASE \/ StartWait(c) \/ Classify(c) \/ Mark(c) \/ MarkFails(c)
             \/ Release(c) \/ ReleaseFails(c)
    BY <1>1, <2>2 DEF StartWait, Classify, Mark, MarkFails, Release, ReleaseFails
  <2> QED
    BY <1>4, <1>5, <2>1, <2>2 DEF ThreadStep, FaultStep
<1>6. ASSUME NEW c \in Calls, NEW e \in EventIds, KafkaStep(c, e)
      PROVE  Goal
  <2>1. ask' = ask
    BY <1>6 DEF KafkaStep, Append, ReportOk, ReportFail, threads
  <2>2. \/ item'[d][f] = item[d][f]
        \/ d = c /\ f = e /\ item'[d][f] \in {"acked", "failed"}
           /\ wire[d][f] \in {"queued", "appended"}
    BY <1>6, <1>item DEF KafkaStep, Append, ReportOk, ReportFail, Undelivered, threads
  <2> QED
    BY <1>1, <1>life, <2>1, <2>2 DEF Life
<1>7. ASSUME NEW c \in Calls, NEW e \in EventIds, PoolStep(c, e) \/ ReconcileFails(c, e)
      PROVE  Goal
  BY <1>1, <1>7 DEF PoolStep, ReconcileOk, ReconcileFail, ReconcileFails, threads
<1>8. CASE Tick \/ UNCHANGED vars \/ \E c \in Calls : Crash(c)
  BY <1>1, <1>8 DEF Tick, Crash, threads, vars
<1> QED
  BY <1>2, <1>3, <1>5, <1>6, <1>7, <1>8 DEF Next

(***************************************************************************)
(* The inductive invariant and the theorems.                               *)
(***************************************************************************)
Inv == TypeOK /\ Lives /\ Timely /\ GrantedLogged /\ AcceptedLogged

(* Nothing is claimed, produced or accepted at the start.                     *)
LEMMA InvInit == Init => Inv
<1> SUFFICES ASSUME Init PROVE Inv
  OBVIOUS
<1>1. TypeOK
  BY CustodyAssumption DEF Init, TypeOK, States, Phases, Items, Wires, Lates
<1>2. Lives
  BY DEF Init, Lives, Life, Own
<1>3. Timely
  BY DEF Init, Timely, Working
<1>4. GrantedLogged /\ AcceptedLogged
  BY DEF Init, GrantedLogged, AcceptedLogged
<1> QED
  BY <1>1, <1>2, <1>3, <1>4 DEF Inv

(* Every step keeps the invariant.                                            *)
LEMMA InvStep == Inv /\ [Next]_vars => Inv'
<1> SUFFICES ASSUME Inv, [Next]_vars PROVE Inv'
  OBVIOUS
<1>0. TypeOK /\ Lives /\ Timely /\ GrantedLogged /\ AcceptedLogged
  BY DEF Inv
<1>1. TypeOK'
  BY <1>0, TypeStep
<1>2. Lives'
  BY <1>0, LifeStep
<1>3. Timely'
  BY <1>0, TimelyStep
<1>4. ASSUME NEW d \in Calls, NEW f \in EventIds, item'[d][f] \in {"same", "stored"}
      PROVE  InLog(f, ask[d][f])'
  <2>1. InLog(f, ask'[d][f])
    BY <1>0, <1>4, Granting DEF GrantedLogged
  <2> QED
    BY <1>0, <2>1, InLogKept
<1>5. ASSUME NEW f \in EventIds, state'[f] = "accepted"
      PROVE  InLog(f, print[f])'
  <2>1. InLog(f, print'[f])
    BY <1>0, <1>5, Acceptance DEF AcceptedLogged
  <2> QED
    BY <1>0, <2>1, InLogKept
<1> QED
  BY <1>1, <1>2, <1>3, <1>4, <1>5 DEF Inv, GrantedLogged, AcceptedLogged

(* Every reachable state satisfies the inductive invariant that the theorems  *)
(* below read off: what the producer and the registry agree on at every step. *)
THEOREM Invariance == Spec => []Inv
  BY InvInit, InvStep, PTL DEF Spec

(* A 202 is never false.  Whatever crashes, raises or is reported late,    *)
(* a call that answers 202 for an event answers for a record Kafka has,    *)
(* with the payload of that very call.                                     *)
THEOREM No202IsFalse == Spec => []NoFalse202
<1>1. Inv => NoFalse202
  BY DEF Inv, GrantedLogged, NoFalse202, Told
<1> QED
  BY <1>1, Invariance, PTL

(* A definite refusal is true: no record of that call is or will be in     *)
(* Kafka, so that a client may drop the event or send it again.            *)
THEOREM RefusalsAreTrue == Spec => []RefusalIsTrue
<1>1. Inv => RefusalIsTrue
  BY DEF Inv, Lives, Life, RefusalIsTrue, Refused, Own
<1> QED
  BY <1>1, Invariance, PTL

(* An accepted identity keeps its payload and its life until it expires.   *)
THEOREM AcceptedIsKept == Spec => AcceptedKept
<1>1. Inv /\ [Next]_vars =>
        [\A e \in EventIds : (state[e] = "accepted" /\ expiry[e] > now) =>
           state'[e] = "accepted" /\ print'[e] = print[e] /\ expiry'[e] = expiry[e]]_vars
  <2> SUFFICES ASSUME Inv, [Next]_vars, NEW e \in EventIds, state[e] = "accepted", expiry[e] > now
               PROVE  state'[e] = "accepted" /\ print'[e] = print[e] /\ expiry'[e] = expiry[e]
    OBVIOUS
  <2>1. TypeOK /\ now \in Nat /\ expiry[e] \in Nat
    BY DEF Inv, TypeOK
  <2> QED
    BY <2>1, Retention
<1> QED
  BY <1>1, Invariance, PTL DEF Spec, AcceptedKept

(***************************************************************************)
(* Custody implements its promise.                                         *)
(***************************************************************************)
LEMMA Durable == ASSUME NEW e, NEW p PROVE <<e, p>> \in DurableEvents <=> InLog(e, p)
  BY DEF DurableEvents, InLog

(* The empty registry is a registry that promises nothing.                    *)
LEMMA PromiseInitially == Init => Promise!PromiseInit
<1> SUFFICES ASSUME Init PROVE Promise!PromiseInit
  OBVIOUS
<1>1. now = 0
  BY DEF Init
<1>2. Remembered = [e \in EventIds |-> NoPrint] /\ RememberedUntil = [e \in EventIds |-> 0]
  BY DEF Init, Remembered, RememberedUntil
<1>3. DurableEvents = {}
  BY DEF Init, DurableEvents
<1>4. GrantedEvents = {}
  BY DEF Init, GrantedEvents
<1> QED
  BY <1>1, <1>2, <1>3, <1>4 DEF Promise!PromiseInit

(* Only the clock moves the clock, and it moves nothing else.              *)
LEMMA Clock ==
  ASSUME [Next]_vars
  PROVE  now' = now \/ Tick
<1>1. ASSUME NEW c \in Calls, ThreadStep(c) \/ FaultStep(c)
      PROVE  now' = now
  BY <1>1 DEF ThreadStep, FaultStep, Send, Timeout, StartWait, Classify, Finalize, FinalizeFails,
    Mark, MarkFails, Release, ReleaseFails
<1>2. ASSUME NEW c \in Calls, NEW f \in EventIds,
             KafkaStep(c, f) \/ PoolStep(c, f) \/ ReconcileFails(c, f)
      PROVE  now' = now
  BY <1>2 DEF KafkaStep, Append, ReportOk, ReportFail, PoolStep, ReconcileOk, ReconcileFail,
    ReconcileFails
<1>3. ASSUME NEW c \in Calls, NEW want, Claim(c, want) \/ ClaimFails(c, want)
      PROVE  now' = now
  BY <1>3 DEF Claim, ClaimFails
<1>4. CASE UNCHANGED vars \/ \E c \in Calls : Crash(c)
  BY <1>4 DEF Crash, vars
<1> QED
  BY <1>1, <1>2, <1>3, <1>4 DEF Next

(* Every step of the batcher, the producer and the clock is a step of the     *)
(* promised registry, or leaves it alone.                                     *)
LEMMA PromiseStep ==
  ASSUME Inv, [Next]_vars
  PROVE  Promise!PromiseNext \/ UNCHANGED Promise!promiseVars
<1>inv. TypeOK /\ Lives /\ AcceptedLogged
  BY DEF Inv
<1>1. CASE Tick
  <2>1. now' = now + 1 /\ UNCHANGED <<state, print, expiry, ask, item, log>>
    BY <1>1 DEF Tick, registry, threads, kafka
  <2>2. Remembered' = Remembered /\ RememberedUntil' = RememberedUntil
    BY <2>1 DEF Remembered, RememberedUntil
  <2>3. DurableEvents' = DurableEvents
    BY <2>1 DEF DurableEvents
  <2>4. GrantedEvents' = GrantedEvents
    BY <2>1 DEF GrantedEvents
  <2> QED
    BY <2>1, <2>2, <2>3, <2>4 DEF Promise!PromiseNext, Promise!Advance
<1>2. CASE now' = now
  <2>1. DurableEvents \subseteq DurableEvents'
    <3>1. ASSUME NEW r \in log
          PROVE  <<r.event, ask[r.call][r.event]>> \in DurableEvents'
      <4>1. PICK e, p : e = r.event /\ p = ask[r.call][r.event]
        OBVIOUS
      <4>2. InLog(e, p)
        BY <4>1 DEF InLog
      <4>3. InLog(e, p)'
        BY <1>inv, <4>2, InLogKept
      <4>4. <<e, p>> \in DurableEvents'
        BY <4>3 DEF DurableEvents, InLog
      <4> QED
        BY <4>1, <4>4
    <3> QED
      BY <3>1 DEF DurableEvents
  <2>2. ASSUME NEW e \in EventIds
        PROVE  Promise!Keep(e) \/ Promise!Remember(e) \/ Promise!Forget(e)
    <3>1. CASE state[e] # "accepted" /\ state'[e] # "accepted"
      BY <3>1 DEF Promise!Keep, Remembered, RememberedUntil
    <3>2. CASE state[e] # "accepted" /\ state'[e] = "accepted"
      <4>1. InLog(e, print'[e]) /\ expiry'[e] = now + AcceptedTTL
        BY <1>inv, <3>2, Acceptance
      <4>2. <<e, print'[e]>> \in DurableEvents
        BY <4>1 DEF DurableEvents, InLog
      <4> QED
        BY <3>2, <4>1, <4>2 DEF Promise!Remember, Remembered, RememberedUntil
    <3>3. CASE state[e] = "accepted" /\ state'[e] = "accepted"
      <4>1. print'[e] = print[e] /\ expiry'[e] = expiry[e]
        BY <1>inv, <3>3, Acceptance
      <4> QED
        BY <3>3, <4>1 DEF Promise!Keep, Remembered, RememberedUntil
    <3>4. CASE state[e] = "accepted" /\ state'[e] # "accepted"
      <4>1. expiry[e] <= now
        BY <1>inv, <3>4, Retention
      <4> QED
        BY <3>4, <4>1 DEF Promise!Forget, Remembered, RememberedUntil
    <3> QED
      BY <3>1, <3>2, <3>3, <3>4
  <2>3. GrantedEvents \subseteq GrantedEvents'
    <3>1. ASSUME NEW g \in GrantedEvents
          PROVE  g \in GrantedEvents'
      <4>1. /\ g \in Calls \X EventIds \X Prints /\ g[1] \in Calls /\ g[2] \in EventIds
            /\ item[g[1]][g[2]] \in {"same", "stored"} /\ ask[g[1]][g[2]] = g[3]
        BY DEF GrantedEvents
      <4>2. item'[g[1]][g[2]] = item[g[1]][g[2]] /\ ask'[g[1]][g[2]] = ask[g[1]][g[2]]
        BY <1>inv, <4>1, Granting
      <4> QED
        BY <4>1, <4>2 DEF GrantedEvents
    <3> QED
      BY <3>1
  <2>4. ASSUME NEW g \in GrantedEvents' \ GrantedEvents
        PROVE  Remembered'[g[2]] = g[3] /\ <<g[2], g[3]>> \in DurableEvents
    <3>1. /\ g \in Calls \X EventIds \X Prints /\ g[1] \in Calls /\ g[2] \in EventIds
          /\ item'[g[1]][g[2]] \in {"same", "stored"} /\ ask'[g[1]][g[2]] = g[3]
      BY DEF GrantedEvents
    <3>2. ~ (item[g[1]][g[2]] \in {"same", "stored"} /\ ask[g[1]][g[2]] = g[3])
      BY <3>1 DEF GrantedEvents
    <3>3. item[g[1]][g[2]] \notin {"same", "stored"}
      BY <1>inv, <3>1, <3>2, Granting
    <3>4. /\ InLog(g[2], g[3])
          /\ state'[g[2]] = "accepted" /\ print'[g[2]] = g[3]
      BY <1>inv, <3>1, <3>3, Granting
    <3> QED
      BY <3>1, <3>4, Durable DEF Remembered
  <2> QED
    BY <1>2, <2>1, <2>2, <2>3, <2>4 DEF Promise!PromiseNext, Promise!Serve
<1> QED
  BY <1>1, <1>2, Clock

(* Every behaviour of the code, with its faults and crashes, is one its    *)
(* clients may rely on as CustodyPromise states it.                        *)
THEOREM CustodyKeepsPromise == Spec => KeepsPromise
<1>1. Inv /\ [Next]_vars => [Promise!PromiseNext]_(Promise!promiseVars)
  BY PromiseStep
<1> QED
  BY <1>1, PromiseInitially, Invariance, PTL DEF Spec, KeepsPromise, Promise!PromiseSpec

(***************************************************************************)
(* Runs without faults: one record per identity, and always covered.       *)
(***************************************************************************)
\* Nothing raises or dies, a failure report is certain and cannot race the
\* classification, and the run is shorter than the life of an acceptance.
Quiet ==
  /\ MaxFaults = 0 /\ MaxCrashes = 0 /\ ~ OutcomeRace /\ ~ AmbiguousFailure
  /\ DeliveryTimeout < UncertainTTL /\ MaxNow < AcceptedTTL

\* Stages of an event without faults; only the producer's own deadline ends a wait.
Calm(c, e) ==
  /\ phase[c] \notin {"error", "crashed"}
  /\ item[c][e] = "owned" => phase[c] = "sending"
  /\ item[c][e] = "sent" => wire[c][e] \in {"queued", "appended"}
  /\ item[c][e] = "acked" => phase[c] \in {"sending", "waiting", "finalizing"}
  /\ item[c][e] = "unsure" => phase[c] \notin {"new", "sending"}
  /\ late[c][e] # "none" => item[c][e] = "unsure" /\ wire[c][e] \notin {"queued", "appended"}
  /\ item[c][e] = "unsure" /\ late[c][e] = "none" => wire[c][e] \in {"queued", "appended"}
  /\ late[c][e] = "fail" => ~ Own(c, e)
  /\ wire[c][e] \in {"queued", "appended"} \/ late[c][e] \in {"ok", "fail"}
       => now <= sentAt[c] + DeliveryTimeout

Calms == now <= MaxNow /\ \A c \in Calls, e \in EventIds : Calm(c, e)

\* The call answers for the identity of the event.
Claims(c, e) ==
  \/ item[c][e] \in {"owned", "sent", "acked"}
  \/ item[c][e] = "failed" /\ phase[c] # "done"
  \/ item[c][e] = "unsure" /\ late[c][e] # "done"

\* Then the field is claimed for its payload, for long enough.
Holding(c, e) ==
  /\ print[e] = ask[c][e]
  /\ \/ /\ state[e] = "pending" /\ expiry[e] = sentAt[c] + PendingTTL
        /\ item[c][e] = "unsure" => phase[c] \in {"waiting", "finalizing", "marking"}
     \/ state[e] = "uncertain" /\ expiry[e] >= sentAt[c] + UncertainTTL

Held == \A c \in Calls, e \in EventIds : Claims(c, e) => Holding(c, e)

Sole == \A c, d \in Calls, e \in EventIds : Claims(c, e) /\ Claims(d, e) => c = d

\* A record is a call's to answer for until its identity is accepted for good.
Settled(c, e) == state[e] = "accepted" /\ print[e] = ask[c][e] /\ expiry[e] > MaxNow

Recorded == \A r \in log : Claims(r.call, r.event) \/ Settled(r.call, r.event)

Keeping == Held /\ Sole /\ Recorded /\ PublishedOnce

QuietInv == Inv /\ Calms /\ Keeping

(* Without faults no Redis call raises and no process dies.                *)
LEMMA NoFaults ==
  ASSUME Quiet, TypeOK
  PROVE  ~ Fault /\ ~ \E c \in Calls : Crash(c)
BY DEF Quiet, TypeOK, Fault, Crash

(* What is left of the next-state relation.                                *)
LEMMA QuietNext ==
  ASSUME Quiet, TypeOK, [Next]_vars
  PROVE  \/ \E c \in Calls :
              \/ \E want \in [EventIds -> Prints \cup {NoPrint}] : Claim(c, want)
              \/ ThreadStep(c)
              \/ \E e \in EventIds : KafkaStep(c, e) \/ PoolStep(c, e)
         \/ Tick \/ UNCHANGED vars
<1>1. ~ Fault /\ ~ \E c \in Calls : Crash(c)
  BY NoFaults
<1>2. \A c \in Calls : ~ FaultStep(c)
  BY <1>1 DEF FaultStep, FinalizeFails, MarkFails, ReleaseFails
<1>3. \A c \in Calls, e \in EventIds : ~ ReconcileFails(c, e)
  BY <1>1 DEF ReconcileFails
<1>4. \A c \in Calls : \A want : ~ ClaimFails(c, want)
  BY <1>1 DEF ClaimFails
<1> QED
  BY <1>1, <1>2, <1>3, <1>4 DEF Next

(* A field that a call answers for has not expired, and is not accepted.   *)
LEMMA StillHeld ==
  ASSUME Quiet, QuietInv, NEW c \in Calls, NEW e \in EventIds, Claims(c, e)
  PROVE  /\ expiry[e] > now /\ state[e] \in {"pending", "uncertain"} /\ print[e] = ask[c][e]
         /\ MayAccept(c, e) /\ MayRelease(c, e) /\ sentAt[c] <= now
<1>1. /\ now \in Nat /\ sentAt[c] \in Nat /\ expiry[e] \in Nat /\ phase[c] \in Phases
      /\ item[c][e] \in Items /\ wire[c][e] \in Wires /\ late[c][e] \in Lates
  BY DEF QuietInv, Inv, TypeOK
<1>2. /\ sentAt[c] <= now /\ (phase[c] \in Working => now <= sentAt[c] + AckTimeout)
      /\ Life(c, e) /\ Calm(c, e) /\ Holding(c, e)
  BY DEF QuietInv, Keeping, Inv, Timely, Lives, Calms, Held
<1>3. /\ AckTimeout \in Nat /\ DeliveryTimeout \in Nat /\ PendingTTL \in Nat /\ UncertainTTL \in Nat
      /\ AckTimeout < PendingTTL /\ AckTimeout < DeliveryTimeout /\ DeliveryTimeout < UncertainTTL
  BY CustodyAssumption DEF Quiet
<1>4. item[c][e] # "unsure" => phase[c] \in Working
  BY <1>1, <1>2 DEF Claims, Calm, Life, Working, Phases
<1>5. item[c][e] = "unsure" => now <= sentAt[c] + DeliveryTimeout
  <2>1. late[c][e] = "done" \/ late[c][e] \in {"ok", "fail"} \/ late[c][e] = "none"
    BY <1>1 DEF Lates
  <2> QED
    BY <1>2, <2>1 DEF Claims, Calm
<1>6. now <= sentAt[c] + DeliveryTimeout
  BY <1>1, <1>2, <1>3, <1>4, <1>5
<1>7. print[e] = ask[c][e]
  BY <1>2 DEF Holding
<1>8. ASSUME state[e] = "pending" /\ expiry[e] = sentAt[c] + PendingTTL
             /\ (item[c][e] = "unsure" => phase[c] \in {"waiting", "finalizing", "marking"})
      PROVE  expiry[e] > now
  <2>1. phase[c] \in Working
    BY <1>4, <1>8 DEF Working
  <2> QED
    BY <1>1, <1>2, <1>3, <1>8, <2>1
<1>9. ASSUME state[e] = "uncertain" /\ expiry[e] >= sentAt[c] + UncertainTTL
      PROVE  expiry[e] > now
  BY <1>1, <1>3, <1>6, <1>9
<1>10. state[e] \in {"pending", "uncertain"} /\ expiry[e] > now
  BY <1>2, <1>8, <1>9 DEF Holding
<1>11. MayAccept(c, e) /\ MayRelease(c, e)
  BY <1>7, <1>10 DEF MayAccept, MayRelease, Holds
<1> QED
  BY <1>2, <1>7, <1>10, <1>11

(* So custody finds every acknowledged event of a batch as it left it, ... *)
LEMMA AllMatched ==
  ASSUME Quiet, QuietInv, NEW c \in Calls, NEW e \in Having(c, {"acked"})
  PROVE  MayAccept(c, e) /\ Accepts(c, e)
<1>1. e \in EventIds /\ Claims(c, e)
  BY DEF Having, Claims
<1> QED
  BY <1>1, StillHeld DEF MayAccept, Accepts, Holds

(* An event that a step leaves alone stays in its stage.                   *)
LEMMA CalmKept ==
  ASSUME NEW d, NEW f, Calm(d, f), now' = now, sentAt'[d] = sentAt[d], phase'[d] = phase[d],
         item'[d][f] = item[d][f], wire'[d][f] = wire[d][f], late'[d][f] = late[d][f],
         Own(d, f)' <=> Own(d, f)
  PROVE  Calm(d, f)'
BY DEF Calm

(* Neither the registry nor the threads' steps add records, so ...         *)
LEMMA SameLog == ASSUME log' = log, NEW d, NEW f PROVE Own(d, f)' <=> Own(d, f)
BY DEF Own

(* ... the steps of a call's own thread leave its events in calm stages.   *)
LEMMA CalmThread ==
  ASSUME Quiet, QuietInv, NEW c \in Calls, ThreadStep(c), NEW d \in Calls, NEW f \in EventIds
  PROVE  Calm(d, f)'
<1>0. /\ phase \in [Calls -> Phases] /\ item \in [Calls -> [EventIds -> Items]]
      /\ wire \in [Calls -> [EventIds -> Wires]] /\ late \in [Calls -> [EventIds -> Lates]]
  BY DEF QuietInv, Inv, TypeOK
<1>1. Calm(d, f) /\ Life(d, f) /\ sentAt[d] <= now
      /\ (phase[d] \in Working => now <= sentAt[d] + AckTimeout)
  BY DEF QuietInv, Calms, Inv, Lives, Timely
<1>2. log' = log /\ sentAt' = sentAt /\ now' = now
  BY DEF ThreadStep, Send, Timeout, StartWait, Classify, Finalize, Mark, Release, kafka
<1>3. Own(d, f)' <=> Own(d, f)
  BY <1>2, SameLog
<1>4. phase[d] \in Working => now <= sentAt[d] + DeliveryTimeout
  <2>1. now \in Nat /\ sentAt[d] \in Nat /\ AckTimeout \in Nat /\ DeliveryTimeout \in Nat
        /\ AckTimeout < DeliveryTimeout
    BY CustodyAssumption DEF QuietInv, Inv, TypeOK
  <2> QED
    BY <1>1, <2>1
<1>5. ASSUME NEW e \in EventIds, Send(c, e) PROVE Calm(d, f)'
  <2>1. phase' = phase /\ late' = late /\ phase[c] = "sending" /\ item[c][e] = "owned"
    BY <1>5 DEF Send
  <2>2. CASE d = c /\ f = e
    <3>1. \/ item'[d][f] = "sent" /\ wire'[d][f] = "queued"
          \/ item'[d][f] = "failed" /\ wire'[d][f] = wire[d][f]
      BY <1>5, <2>2, <1>0 DEF Send
    <3>2. now <= sentAt[d] + DeliveryTimeout
      BY <1>4, <2>1, <2>2 DEF Working
    <3>3. wire[d][f] = "idle" /\ late[d][f] = "none"
      BY <1>0, <1>1, <2>1, <2>2 DEF Life, Calm
    <3> QED
      BY <1>1, <1>2, <1>3, <2>1, <2>2, <3>1, <3>2, <3>3 DEF Calm
  <2>3. CASE ~ (d = c /\ f = e)
    <3>1. item'[d][f] = item[d][f]
      BY <1>5, <2>3, <1>0 DEF Send
    <3>2. wire'[d][f] = wire[d][f]
      BY <1>5, <2>3, <1>0 DEF Send
    <3> QED
      BY <1>1, <1>2, <1>3, <2>1, <3>1, <3>2, CalmKept
  <2> QED
    BY <2>2, <2>3
<1>6. ASSUME NEW e \in EventIds, Timeout(c, e) PROVE Calm(d, f)'
  <2>1. phase' = phase /\ wire' = wire /\ phase[c] = "waiting" /\ late[c][e] = "none"
        /\ item[c][e] \in {"sent", "acked", "failed"}
    BY <1>6 DEF Timeout
  <2>2. CASE d = c /\ f = e
    <3>1. item'[d][f] = "unsure"
      BY <1>6, <2>2, <1>0 DEF Timeout
    <3>2. \/ item[d][f] = "sent" /\ late'[d][f] = "none"
          \/ item[d][f] = "acked" /\ late'[d][f] = "ok"
          \/ item[d][f] = "failed" /\ late'[d][f] = "fail"
      BY <1>6, <2>2, <1>0 DEF Timeout
    <3>3. now <= sentAt[d] + DeliveryTimeout
      BY <1>4, <2>1, <2>2 DEF Working
    <3>4. CASE item[d][f] = "sent" /\ late'[d][f] = "none"
      BY <1>1, <1>2, <1>3, <2>1, <2>2, <3>1, <3>3, <3>4 DEF Calm
    <3>5. CASE item[d][f] = "acked" /\ late'[d][f] = "ok"
      <4>1. wire[d][f] \notin {"queued", "appended"}
        BY <1>1, <3>5 DEF Life
      <4> QED
        BY <1>1, <1>2, <1>3, <2>1, <2>2, <3>1, <3>3, <3>5, <4>1 DEF Calm
    <3>6. CASE item[d][f] = "failed" /\ late'[d][f] = "fail"
      <4>1. wire[d][f] \notin {"queued", "appended"} /\ ~ Own(d, f)
        BY <1>1, <3>6 DEF Life
      <4> QED
        BY <1>1, <1>2, <1>3, <2>1, <2>2, <3>1, <3>3, <3>6, <4>1 DEF Calm
    <3> QED
      BY <3>2, <3>4, <3>5, <3>6
  <2>3. CASE ~ (d = c /\ f = e)
    <3>1. item'[d][f] = item[d][f]
      BY <1>6, <2>3, <1>0 DEF Timeout
    <3>2. late'[d][f] = late[d][f]
      BY <1>6, <2>3, <1>0 DEF Timeout
    <3> QED
      BY <1>1, <1>2, <1>3, <2>1, <3>1, <3>2, CalmKept
  <2> QED
    BY <2>2, <2>3
<1>7. CASE StartWait(c) \/ Classify(c)
  <2>1. item' = item /\ wire' = wire /\ late' = late
    BY <1>7 DEF StartWait, Classify, kafka
  <2>2. CASE d = c
    <3>1. \/ phase[d] = "sending" /\ phase'[d] = "waiting" /\ item[d][f] # "owned"
          \/ phase[d] = "waiting" /\ phase'[d] = "finalizing"
      BY <1>7, <2>2, <1>0 DEF StartWait, Classify, Having
    <3> QED
      BY <1>1, <1>2, <1>3, <2>1, <3>1 DEF Calm
  <2>3. CASE d # c
    <3>1. phase'[d] = phase[d]
      BY <1>7, <2>3, <1>0 DEF StartWait, Classify
    <3> QED
      BY <1>1, <1>2, <1>3, <2>1, <3>1, CalmKept
  <2> QED
    BY <2>2, <2>3
<1>8. CASE Finalize(c)
  <2>1. wire' = wire /\ late' = late /\ phase[c] = "finalizing"
    BY <1>8 DEF Finalize, kafka
  <2>2. \A e \in Having(c, {"acked"}) : Accepts(c, e)
    BY AllMatched
  <2>3. item' = [item EXCEPT ![c] = [e \in EventIds |->
                    IF item[c][e] = "acked" THEN "stored" ELSE item[c][e]]]
    BY <1>8, <2>2 DEF Finalize, Conclude
  <2>4. CASE d = c
    <3>1. item'[d][f] = (IF item[d][f] = "acked" THEN "stored" ELSE item[d][f]) /\ phase'[d] = "marking"
      BY <1>8, <2>3, <2>4, <1>0 DEF Finalize
    <3>2. item[d][f] = "acked" => late[d][f] = "none" /\ wire[d][f] \notin {"queued", "appended"}
      BY <1>0, <1>1 DEF Life, Calm
    <3> QED
      BY <1>1, <1>2, <1>3, <2>1, <2>4, <3>1, <3>2 DEF Calm
  <2>5. CASE d # c
    <3>1. item'[d] = item[d] /\ phase'[d] = phase[d]
      BY <1>8, <2>3, <2>5, <1>0 DEF Finalize
    <3> QED
      BY <1>1, <1>2, <1>3, <2>1, <3>1, CalmKept
  <2> QED
    BY <2>4, <2>5
<1>9. CASE Mark(c) \/ Release(c)
  <2>1. item' = item /\ wire' = wire /\ late' = late
    BY <1>9 DEF Mark, Release, kafka
  <2>2. CASE d = c
    <3>1. phase[d] \in {"marking", "releasing"} /\ phase'[d] \in {"releasing", "done"}
      BY <1>9, <2>2, <1>0 DEF Mark, Release
    <3> QED
      BY <1>1, <1>2, <1>3, <2>1, <3>1 DEF Calm
  <2>3. CASE d # c
    <3>1. phase'[d] = phase[d]
      BY <1>9, <2>3, <1>0 DEF Mark, Release
    <3> QED
      BY <1>1, <1>2, <1>3, <2>1, <3>1, CalmKept
  <2> QED
    BY <2>2, <2>3
<1> QED
  BY <1>5, <1>6, <1>7, <1>8, <1>9 DEF ThreadStep

(* A new call starts with what it has claimed.                             *)
LEMMA CalmClaim ==
  ASSUME QuietInv, NEW c \in Calls, NEW want \in [EventIds -> Prints \cup {NoPrint}],
         Claim(c, want), NEW d \in Calls, NEW f \in EventIds
  PROVE  Calm(d, f)'
<1>0. /\ phase \in [Calls -> Phases] /\ item \in [Calls -> [EventIds -> Items]]
      /\ sentAt \in [Calls -> Nat] /\ late \in [Calls -> [EventIds -> Lates]]
  BY DEF QuietInv, Inv, TypeOK
<1>1. Calm(d, f) /\ Life(d, f)
  BY DEF QuietInv, Calms, Inv, Lives
<1>2. log' = log /\ wire' = wire /\ late' = late /\ now' = now /\ phase[c] = "new"
  BY DEF Claim, kafka
<1>3. Own(d, f)' <=> Own(d, f)
  BY <1>2, SameLog
<1>4. PICK won \in SUBSET EventIds :
        /\ item' = [item EXCEPT ![c] = [e \in EventIds |->
                      IF e \notin Wanted(want) THEN "out"
                      ELSE IF e \in won THEN "owned" ELSE ClaimReply(e, want[e])]]
        /\ phase' = [phase EXCEPT ![c] = IF won = {} THEN "done" ELSE "sending"]
  BY DEF Claim, Wanted
<1>5. CASE d = c
  <2>1. /\ phase'[d] = IF won = {} THEN "done" ELSE "sending"
        /\ item'[d][f] = IF f \notin Wanted(want) THEN "out"
                         ELSE IF f \in won THEN "owned" ELSE ClaimReply(f, want[f])
    BY <1>0, <1>4, <1>5
  <2>2. ClaimReply(f, want[f]) \in {"conflict", "same", "pending", "uncertain", "absent"}
    BY DEF ClaimReply, QuietInv, Inv, TypeOK, States
  <2>3. wire[d][f] = "idle" /\ late[d][f] = "none"
    BY <1>1, <1>2, <1>5 DEF Life
  <2> QED
    BY <1>2, <1>3, <2>1, <2>2, <2>3 DEF Calm
<1>6. CASE d # c
  <2>1. item'[d] = item[d] /\ phase'[d] = phase[d] /\ sentAt'[d] = sentAt[d]
    BY <1>0, <1>4, <1>6 DEF Claim
  <2> QED
    BY <1>1, <1>2, <1>3, <2>1, CalmKept
<1> QED
  BY <1>5, <1>6

(* Without ambiguity a failure is reported for what the broker never got.  *)
LEMMA CalmKafka ==
  ASSUME Quiet, QuietInv, NEW c \in Calls, NEW e \in EventIds, KafkaStep(c, e),
         NEW d \in Calls, NEW f \in EventIds
  PROVE  Calm(d, f)'
<1>0. /\ item \in [Calls -> [EventIds -> Items]] /\ wire \in [Calls -> [EventIds -> Wires]]
      /\ late \in [Calls -> [EventIds -> Lates]]
  BY DEF QuietInv, Inv, TypeOK
<1>1. Calm(d, f) /\ Life(d, f) /\ (phase[d] \in Working => now <= sentAt[d] + AckTimeout)
  BY DEF QuietInv, Calms, Inv, Lives, Timely
<1>2. sentAt' = sentAt /\ now' = now /\ phase' = phase
  BY DEF KafkaStep, Append, ReportOk, ReportFail, threads
<1>3. CASE Append(c, e)
  <2>1. item' = item /\ late' = late /\ wire[c][e] = "queued"
    BY <1>3 DEF Append, threads
  <2>2. CASE d = c /\ f = e
    <3>1. wire'[d][f] = "appended"
      BY <1>0, <1>3, <2>2 DEF Append
    <3>2. late[d][f] = "none"
      BY <1>1, <2>1, <2>2 DEF Calm
    <3> QED
      BY <1>1, <1>2, <2>1, <2>2, <3>1, <3>2 DEF Calm
  <2>3. CASE ~ (d = c /\ f = e)
    <3>1. wire'[d][f] = wire[d][f]
      BY <1>0, <1>3, <2>3 DEF Append
    <3>2. log' = log \cup {Record(c, e)}
      BY <1>3 DEF Append
    <3>3. Own(d, f)' <=> Own(d, f)
      BY <2>3, <3>2 DEF Own, Record
    <3> QED
      BY <1>1, <1>2, <2>1, <3>1, <3>3, CalmKept
  <2> QED
    BY <2>2, <2>3
<1>4. ASSUME log' = log, wire[c][e] \in {"queued", "appended"},
             wire' = [wire EXCEPT ![c][e] = "reported"],
             \/ /\ item[c][e] = "sent" /\ late' = late
                /\ \E x \in {"acked", "failed"} : item' = [item EXCEPT ![c][e] = x]
             \/ /\ item[c][e] # "sent" /\ item' = item
                /\ \E x \in {"ok", "fail"} : /\ late' = [late EXCEPT ![c][e] = x]
                                             /\ x = "fail" => wire[c][e] = "queued"
      PROVE  Calm(d, f)'
  <2>1. Own(d, f)' <=> Own(d, f)
    BY <1>4, SameLog
  <2>2. CASE d = c /\ f = e
    <3>1. /\ wire'[d][f] = "reported" /\ late[d][f] = "none"
          /\ now <= sentAt[d] + DeliveryTimeout
      BY <1>0, <1>1, <1>4, <2>2 DEF Calm
    <3>2. CASE item[c][e] = "sent"
      <4>1. late'[d][f] = "none" /\ item'[d][f] \in {"acked", "failed"}
        BY <1>0, <1>4, <2>2, <3>1, <3>2
      <4>2. phase[d] \in {"sending", "waiting"}
        BY <1>1, <2>2, <3>2 DEF Life, Calm
      <4> QED
        BY <1>2, <3>1, <4>1, <4>2 DEF Calm
    <3>3. CASE item[c][e] # "sent"
      <4>1. item'[d][f] = "unsure"
        BY <1>1, <1>4, <2>2, <3>3 DEF Life
      <4>2. late'[d][f] \in {"ok", "fail"} /\ (late'[d][f] = "fail" => wire[d][f] = "queued")
        BY <1>0, <1>4, <2>2, <3>3
      <4>3. wire[d][f] = "queued" => ~ Own(d, f)
        BY <1>1 DEF Life
      <4>4. phase[d] \notin {"new", "sending", "error", "crashed"}
        BY <1>1, <1>4, <2>2, <3>3, <4>1 DEF Calm
      <4> QED
        BY <1>2, <2>1, <3>1, <4>1, <4>2, <4>3, <4>4 DEF Calm
    <3> QED
      BY <3>2, <3>3
  <2>3. CASE ~ (d = c /\ f = e)
    <3>1. wire'[d][f] = wire[d][f]
      BY <1>0, <1>4, <2>3
    <3>2. item'[d][f] = item[d][f] /\ late'[d][f] = late[d][f]
      BY <1>0, <1>4, <2>3
    <3> QED
      BY <1>1, <1>2, <2>1, <3>1, <3>2, CalmKept
  <2> QED
    BY <2>2, <2>3
<1>5. CASE ReportOk(c, e)
  <2>1. item[c][e] = "sent" => late' = late /\ item' = [item EXCEPT ![c][e] = "acked"]
    BY <1>5 DEF ReportOk
  <2>2. item[c][e] # "sent" => item' = item /\ late' = [late EXCEPT ![c][e] = "ok"]
    BY <1>5 DEF ReportOk
  <2>3. log' = log /\ wire[c][e] \in {"queued", "appended"} /\ wire' = [wire EXCEPT ![c][e] = "reported"]
    BY <1>5 DEF ReportOk
  <2> QED
    BY <2>1, <2>2, <2>3, <1>4
<1>6. CASE ReportFail(c, e)
  <2>1. item[c][e] = "sent" => late' = late /\ item' = [item EXCEPT ![c][e] = "failed"]
    BY <1>6 DEF ReportFail
  <2>2. item[c][e] # "sent" => item' = item /\ late' = [late EXCEPT ![c][e] = "fail"]
    BY <1>6 DEF ReportFail, Quiet
  <2>3. log' = log /\ wire[c][e] = "queued" /\ wire' = [wire EXCEPT ![c][e] = "reported"]
    BY <1>6 DEF ReportFail, Undelivered, Quiet
  <2> QED
    BY <2>1, <2>2, <2>3, <1>4
<1> QED
  BY <1>3, <1>5, <1>6 DEF KafkaStep

(* Every step leaves every event in a calm stage.                          *)
LEMMA CalmStep ==
  ASSUME Quiet, QuietInv, [Next]_vars
  PROVE  Calms'
<1>0. /\ TypeOK /\ now \in Nat /\ MaxNow \in Nat /\ now <= MaxNow
      /\ \A c \in Calls, e \in EventIds : Calm(c, e)
  BY CustodyAssumption DEF QuietInv, Inv, TypeOK, Calms
<1>1. now' <= MaxNow
  <2>1. \A c \in Calls : \A want : Claim(c, want) => now' = now
    BY DEF Claim
  <2>2. \A c \in Calls : ThreadStep(c) => now' = now
    BY DEF ThreadStep, Send, Timeout, StartWait, Classify, Finalize, Mark, Release
  <2>3. \A c \in Calls, e \in EventIds : KafkaStep(c, e) \/ PoolStep(c, e) => now' = now
    BY DEF KafkaStep, PoolStep, Append, ReportOk, ReportFail, ReconcileOk, ReconcileFail
  <2>4. now' = now \/ Tick
    BY <1>0, <2>1, <2>2, <2>3, QuietNext DEF vars
  <2> QED
    BY <1>0, <2>4 DEF Tick
<1>2. ASSUME NEW d \in Calls, NEW f \in EventIds PROVE Calm(d, f)'
  <2>1. CASE UNCHANGED vars
    <3>1. UNCHANGED <<now, sentAt, phase, item, wire, late, log>>
      BY <2>1 DEF vars, threads, kafka
    <3> QED
      BY <1>0, <3>1, SameLog, CalmKept
  <2>2. CASE Tick
    <3>1. UNCHANGED <<sentAt, phase, item, wire, late, log>> /\ now' = now + 1
      BY <2>2 DEF Tick, threads, kafka
    <3>2. /\ late[d][f] \notin {"ok", "fail"}
          /\ wire[d][f] \in {"queued", "appended"} => now < sentAt[d] + DeliveryTimeout
      BY <2>2 DEF Tick
    <3>3. sentAt[d] \in Nat /\ DeliveryTimeout \in Nat
      BY CustodyAssumption DEF QuietInv, Inv, TypeOK
    <3>4. wire[d][f] \in {"queued", "appended"} => now + 1 <= sentAt[d] + DeliveryTimeout
      BY <1>0, <3>2, <3>3
    <3>5. Own(d, f)' <=> Own(d, f)
      BY <3>1, SameLog
    <3>6. Calm(d, f)
      BY <1>0
    <3> QED
      BY <3>1, <3>2, <3>4, <3>5, <3>6 DEF Calm
  <2>3. ASSUME NEW c \in Calls, NEW e \in EventIds, PoolStep(c, e) PROVE Calm(d, f)'
    <3>1. /\ UNCHANGED <<now, sentAt, phase, item, wire, log>> /\ late[c][e] \in {"ok", "fail"}
          /\ late' = [late EXCEPT ![c][e] = "done"]
      BY <2>3 DEF PoolStep, ReconcileOk, ReconcileFail, threads
    <3>2. late \in [Calls -> [EventIds -> Lates]] /\ Calm(d, f)
      BY <1>0 DEF TypeOK
    <3>3. Own(d, f)' <=> Own(d, f)
      BY <3>1, SameLog
    <3>4. CASE d = c /\ f = e
      <4>1. late'[d][f] = "done" /\ late[d][f] # "none"
        BY <3>1, <3>2, <3>4
      <4> QED
        BY <3>1, <3>2, <3>3, <4>1 DEF Calm
    <3>5. CASE ~ (d = c /\ f = e)
      <4>1. late'[d][f] = late[d][f]
        BY <3>1, <3>2, <3>5
      <4> QED
        BY <3>1, <3>2, <3>3, <4>1, CalmKept
    <3> QED
      BY <3>4, <3>5
  <2> QED
    BY <1>0, <2>1, <2>2, <2>3, QuietNext, CalmThread, CalmClaim, CalmKafka
<1> QED
  BY <1>1, <1>2 DEF Calms

(* The registry's side.  Fields a step gives up were its call's to give up:   *)
(* their records are settled by it, or there are none.                        *)
LEMMA Giving ==
  ASSUME Quiet, QuietInv, NEW c \in Calls, NEW S \in SUBSET EventIds,
         UNCHANGED <<log, ask, sentAt>>,
         \A f \in EventIds \ S : state'[f] = state[f] /\ print'[f] = print[f] /\ expiry'[f] = expiry[f],
         \A f \in S : Claims(c, f) /\ ~ Claims(c, f)' /\ (Settled(c, f)' \/ ~ Own(c, f)),
         \A d \in Calls, f \in EventIds : ~ (d = c /\ f \in S) => (Claims(d, f)' <=> Claims(d, f)),
         \A d \in Calls, f \in EventIds :
           Claims(d, f) /\ item'[d][f] = "unsure" /\ state[f] = "pending"
             => phase'[d] \in {"waiting", "finalizing", "marking"}
  PROVE  Keeping'
<1>0. Held /\ Sole /\ Recorded /\ PublishedOnce
  BY DEF QuietInv, Keeping
<1>1. \A d \in Calls, f \in EventIds : Claims(d, f)' => Claims(d, f) /\ f \notin S
  BY <1>0 DEF Sole
<1>2. ASSUME NEW d \in Calls, NEW f \in EventIds, Claims(d, f)' PROVE Holding(d, f)'
  <2>1. Claims(d, f) /\ f \in EventIds \ S
    BY <1>1, <1>2
  <2>2. Holding(d, f)
    BY <1>0, <2>1 DEF Held
  <2>3. /\ state'[f] = state[f] /\ print'[f] = print[f] /\ expiry'[f] = expiry[f]
        /\ ask' = ask /\ sentAt' = sentAt
    BY <2>1
  <2>4. item'[d][f] = "unsure" /\ state[f] = "pending" => phase'[d] \in {"waiting", "finalizing", "marking"}
    BY <2>1
  <2> QED
    BY <2>2, <2>3, <2>4 DEF Holding
<1>3. Sole'
  BY <1>0, <1>1 DEF Sole
<1>4. ASSUME NEW r \in log PROVE Claims(r.call, r.event)' \/ Settled(r.call, r.event)'
  <2>1. r.call \in Calls /\ r.event \in EventIds
    BY DEF QuietInv, Inv, TypeOK, Records
  <2>2. Claims(r.call, r.event) \/ Settled(r.call, r.event)
    BY <1>0 DEF Recorded
  <2>3. CASE r.event \in S
    <3>1. Claims(c, r.event) /\ state[r.event] # "accepted"
      BY <2>1, <2>3, StillHeld
    <3>2. r.call = c
      BY <1>0, <2>1, <2>2, <3>1 DEF Sole, Settled
    <3>3. Own(c, r.event)
      BY <3>2 DEF Own
    <3> QED
      BY <2>3, <3>2, <3>3
  <2>4. CASE r.event \notin S
    <3>1. Claims(r.call, r.event) => Claims(r.call, r.event)'
      BY <2>1, <2>4
    <3>2. Settled(r.call, r.event) => Settled(r.call, r.event)'
      BY <2>1, <2>4 DEF Settled
    <3> QED
      BY <2>2, <3>1, <3>2
  <2> QED
    BY <2>3, <2>4
<1>5. PublishedOnce' /\ Recorded'
  BY <1>0, <1>4 DEF PublishedOnce, Recorded
<1> QED
  BY <1>2, <1>3, <1>5 DEF Keeping, Held

(* What is accepted now stays accepted for longer than the run.            *)
LEMMA Settling ==
  ASSUME Quiet, QuietInv, NEW c \in Calls, NEW S \in SUBSET EventIds, NEW f \in S, Claims(c, f),
         Transition(S, "accepted", AcceptedTTL), ask' = ask
  PROVE  Settled(c, f)'
<1>1. f \in EventIds /\ print[f] = ask[c][f]
  BY StillHeld
<1>2. state'[f] = "accepted" /\ expiry'[f] = now + AcceptedTTL /\ print' = print
  BY <1>1 DEF Transition
<1>3. now \in Nat /\ MaxNow \in Nat /\ AcceptedTTL \in Nat /\ MaxNow < AcceptedTTL
  BY CustodyAssumption DEF QuietInv, Inv, TypeOK, Quiet
<1>4. now + AcceptedTTL > MaxNow
  BY <1>3
<1> QED
  BY <1>1, <1>2, <1>4 DEF Settled

(* A step that neither touches the registry nor what a call answers for.   *)
LEMMA Passing ==
  ASSUME Quiet, QuietInv, NEW c \in Calls, UNCHANGED <<registry, log, ask, sentAt>>,
         \A d \in Calls, f \in EventIds : Claims(d, f)' <=> Claims(d, f),
         \A d \in Calls, f \in EventIds :
           Claims(d, f) /\ item'[d][f] = "unsure" /\ state[f] = "pending"
             => phase'[d] \in {"waiting", "finalizing", "marking"}
  PROVE  Keeping'
<1>1. UNCHANGED <<state, print, expiry, log, ask, sentAt>>
  BY DEF registry
<1> DEFINE S == {}
<1>2. S \in SUBSET EventIds /\ UNCHANGED <<log, ask, sentAt>>
  BY <1>1
<1>3. \A f \in EventIds \ S : state'[f] = state[f] /\ print'[f] = print[f] /\ expiry'[f] = expiry[f]
  BY <1>1
<1>4. \A f \in S : Claims(c, f) /\ ~ Claims(c, f)' /\ (Settled(c, f)' \/ ~ Own(c, f))
  OBVIOUS
<1>5. \A d \in Calls, f \in EventIds : ~ (d = c /\ f \in S) => (Claims(d, f)' <=> Claims(d, f))
  OBVIOUS
<1> HIDE DEF S
<1> QED
  BY <1>2, <1>3, <1>4, <1>5, Giving

(* A pending field of an event in doubt waits for its mark.                *)
LEMMA Doubting ==
  ASSUME QuietInv, NEW d \in Calls, NEW f \in EventIds, Claims(d, f), item[d][f] = "unsure",
         state[f] = "pending"
  PROVE  phase[d] \in {"waiting", "finalizing", "marking"}
BY DEF QuietInv, Keeping, Held, Holding

(* The call's thread.                                                      *)
LEMMA KeepingThread ==
  ASSUME Quiet, QuietInv, NEW c \in Calls, ThreadStep(c)
  PROVE  Keeping'
<1>0. /\ phase \in [Calls -> Phases] /\ item \in [Calls -> [EventIds -> Items]]
      /\ late \in [Calls -> [EventIds -> Lates]]
  BY DEF QuietInv, Inv, TypeOK
<1>1. \A d \in Calls, f \in EventIds : Calm(d, f) /\ Life(d, f)
  BY DEF QuietInv, Calms, Inv, Lives
<1>2. ASSUME NEW e \in EventIds, Send(c, e) PROVE Keeping'
  <2>1. /\ UNCHANGED <<registry, log, ask, sentAt>> /\ phase' = phase /\ late' = late
        /\ phase[c] = "sending" /\ item[c][e] = "owned"
    BY <1>2 DEF Send
  <2>2. ASSUME NEW d \in Calls, NEW f \in EventIds
        PROVE  /\ Claims(d, f)' <=> Claims(d, f)
               /\ item'[d][f] = "unsure" => item[d][f] = "unsure"
    <3>1. CASE d = c /\ f = e
      <4>1. item'[d][f] \in {"sent", "failed"}
        BY <1>0, <1>2, <3>1 DEF Send
      <4> QED
        BY <2>1, <3>1, <4>1 DEF Claims
    <3>2. CASE ~ (d = c /\ f = e)
      <4>1. item'[d][f] = item[d][f]
        BY <1>0, <1>2, <3>2 DEF Send
      <4> QED
        BY <2>1, <4>1 DEF Claims
    <3> QED
      BY <3>1, <3>2
  <2> QED
    BY <2>1, <2>2, Doubting, Passing
<1>3. ASSUME NEW e \in EventIds, Timeout(c, e) PROVE Keeping'
  <2>1. /\ UNCHANGED <<registry, log, ask, sentAt>> /\ phase' = phase /\ phase[c] = "waiting"
        /\ item[c][e] \in {"sent", "acked", "failed"}
    BY <1>3 DEF Timeout
  <2>2. ASSUME NEW d \in Calls, NEW f \in EventIds
        PROVE  /\ Claims(d, f)' <=> Claims(d, f)
               /\ item'[d][f] = "unsure" => item[d][f] = "unsure" \/ phase[d] = "waiting"
    <3>1. CASE d = c /\ f = e
      <4>1. item'[d][f] = "unsure"
        BY <1>0, <1>3, <3>1 DEF Timeout
      <4>2. late'[d][f] \in {"none", "ok", "fail"}
        BY <1>0, <1>3, <3>1 DEF Timeout
      <4> QED
        BY <2>1, <3>1, <4>1, <4>2 DEF Claims
    <3>2. CASE ~ (d = c /\ f = e)
      <4>1. item'[d][f] = item[d][f]
        BY <1>0, <1>3, <3>2 DEF Timeout
      <4>2. late'[d][f] = late[d][f]
        BY <1>0, <1>3, <3>2 DEF Timeout
      <4> QED
        BY <2>1, <4>1, <4>2 DEF Claims
    <3> QED
      BY <3>1, <3>2
  <2> QED
    BY <2>1, <2>2, Doubting, Passing
<1>4. CASE StartWait(c) \/ Classify(c)
  <2>1. UNCHANGED <<registry, log, ask, sentAt, item, late>>
    BY <1>4 DEF StartWait, Classify, kafka
  <2>2. \A d \in Calls :
          \/ phase'[d] = phase[d]
          \/ phase[d] \in {"sending", "waiting"} /\ phase'[d] \in {"waiting", "finalizing"}
    BY <1>0, <1>4 DEF StartWait, Classify
  <2>3. \A d \in Calls, f \in EventIds : Claims(d, f)' <=> Claims(d, f)
    BY <2>1, <2>2 DEF Claims
  <2> QED
    BY <2>1, <2>2, <2>3, Doubting, Passing
<1>5. CASE Finalize(c)
  <2> DEFINE S == Having(c, {"acked"})
  <2>1. \A e \in S : MayAccept(c, e) /\ Accepts(c, e) /\ Claims(c, e)
    BY AllMatched DEF Having, Claims
  <2>2. /\ item' = [item EXCEPT ![c] = [e \in EventIds |->
                       IF item[c][e] = "acked" THEN "stored" ELSE item[c][e]]]
        /\ UNCHANGED <<log, ask, sentAt, late>> /\ phase[c] = "finalizing"
        /\ phase' = [phase EXCEPT ![c] = "marking"]
    BY <1>5, <2>1 DEF Finalize, Conclude, kafka
  <2>3. {e \in S : MayAccept(c, e)} = S
    BY <2>1
  <2>4. Transition(S, "accepted", AcceptedTTL) /\ S \in SUBSET EventIds
    BY <1>5, <2>3 DEF Finalize, Having
  <2>5. \A f \in EventIds \ S : state'[f] = state[f] /\ print'[f] = print[f] /\ expiry'[f] = expiry[f]
    BY <2>4 DEF Transition
  <2>6. \A f \in S : Settled(c, f)'
    BY <2>1, <2>2, <2>4, Settling
  <2>7. \A d \in Calls, f \in EventIds :
          /\ phase'[d] = IF d = c THEN "marking" ELSE phase[d]
          /\ item'[d][f] = IF d = c /\ f \in S THEN "stored" ELSE item[d][f]
    BY <1>0, <2>2 DEF Having
  <2>8. \A f \in S : ~ Claims(c, f)'
    BY <2>4, <2>7 DEF Claims
  <2>9. \A d \in Calls, f \in EventIds : ~ (d = c /\ f \in S) => (Claims(d, f)' <=> Claims(d, f))
    BY <2>2, <2>7 DEF Claims
  <2>10. \A d \in Calls, f \in EventIds :
           Claims(d, f) /\ item'[d][f] = "unsure" /\ state[f] = "pending"
             => phase'[d] \in {"waiting", "finalizing", "marking"}
    BY <2>7, Doubting
  <2> HIDE DEF S
  <2> QED
    BY <2>1, <2>2, <2>4, <2>5, <2>6, <2>8, <2>9, <2>10, Giving
<1>6. CASE Release(c)
  <2> DEFINE S == Having(c, {"failed"})
  <2>1. UNCHANGED <<log, ask, sentAt, late, item>> /\ phase[c] = "releasing"
        /\ phase' = [phase EXCEPT ![c] = "done"]
    BY <1>6 DEF Release, kafka
  <2>2. \A e \in S : Claims(c, e) /\ MayRelease(c, e) /\ ~ Own(c, e)
    BY <1>1, <2>1, StillHeld DEF Having, Claims, Life
  <2>3. {e \in S : MayRelease(c, e)} = S
    BY <2>2
  <2>4. Drop(S) /\ S \in SUBSET EventIds
    BY <1>6, <2>3 DEF Release, Having
  <2>5. \A f \in EventIds \ S : state'[f] = state[f] /\ print'[f] = print[f] /\ expiry'[f] = expiry[f]
    BY <2>4 DEF Drop
  <2>6. \A d \in Calls : phase'[d] = IF d = c THEN "done" ELSE phase[d]
    BY <1>0, <2>1
  <2>7. \A f \in S : ~ Claims(c, f)'
    BY <2>1, <2>6 DEF Claims, Having
  <2>8. \A d \in Calls, f \in EventIds : ~ (d = c /\ f \in S) => (Claims(d, f)' <=> Claims(d, f))
    BY <2>1, <2>6 DEF Claims, Having
  <2>9. \A d \in Calls, f \in EventIds :
           Claims(d, f) /\ item'[d][f] = "unsure" /\ state[f] = "pending"
             => phase'[d] \in {"waiting", "finalizing", "marking"}
    BY <2>1, <2>6, Doubting
  <2> HIDE DEF S
  <2> QED
    BY <2>1, <2>2, <2>4, <2>5, <2>7, <2>8, <2>9, Giving
<1>7. CASE Mark(c)
  <2> DEFINE S == {e \in Having(c, {"unsure"}) : MayDoubt(c, e)}
  <2>1. UNCHANGED <<log, ask, sentAt, late, item>> /\ phase[c] = "marking"
        /\ phase' = [phase EXCEPT ![c] = "releasing"] /\ Transition(S, "uncertain", UncertainTTL)
    BY <1>7 DEF Mark, kafka
  <2>2. \A d \in Calls : phase'[d] = IF d = c THEN "releasing" ELSE phase[d]
    BY <1>0, <2>1
  <2>3. \A d \in Calls, f \in EventIds : Claims(d, f)' <=> Claims(d, f)
    BY <2>1, <2>2 DEF Claims
  <2>4. \A f \in EventIds : /\ print'[f] = print[f]
                            /\ f \in S => state'[f] = "uncertain" /\ expiry'[f] = now + UncertainTTL
                            /\ f \notin S => state'[f] = state[f] /\ expiry'[f] = expiry[f]
    BY <2>1 DEF Transition
  <2>5. \A f \in S : state[f] = "pending"
    BY DEF MayDoubt, Holds
  <2>6. ASSUME NEW d \in Calls, NEW f \in EventIds, Claims(d, f) PROVE Holding(d, f)'
    <3>1. Holding(d, f) /\ sentAt[d] <= now /\ now \in Nat /\ sentAt[d] \in Nat /\ UncertainTTL \in Nat
      BY <2>6, CustodyAssumption DEF QuietInv, Keeping, Held, Inv, Timely, TypeOK
    <3>2. CASE f \in S
      <4>1. now + UncertainTTL >= sentAt[d] + UncertainTTL
        BY <3>1
      <4> QED
        BY <2>1, <2>4, <3>1, <3>2, <4>1 DEF Holding
    <3>3. CASE f \notin S
      <4>1. ~ (d = c /\ item[d][f] = "unsure" /\ state[f] = "pending")
        BY <3>1, <3>3 DEF Having, MayDoubt, Holds, Holding
      <4>2. item[d][f] = "unsure" /\ state[f] = "pending" => phase'[d] \in {"waiting", "finalizing", "marking"}
        BY <2>2, <2>6, <4>1, Doubting
      <4>3. state'[f] = state[f] /\ print'[f] = print[f] /\ expiry'[f] = expiry[f]
        BY <2>4, <3>3
      <4> QED
        BY <2>1, <3>1, <4>2, <4>3 DEF Holding
    <3> QED
      BY <3>2, <3>3
  <2>7. ASSUME NEW r \in log PROVE Claims(r.call, r.event)' \/ Settled(r.call, r.event)'
    <3>1. r.call \in Calls /\ r.event \in EventIds
      BY DEF QuietInv, Inv, TypeOK, Records
    <3>2. Claims(r.call, r.event) \/ Settled(r.call, r.event)
      BY DEF QuietInv, Keeping, Recorded
    <3>3. Settled(r.call, r.event) => Settled(r.call, r.event)'
      BY <2>1, <2>4, <2>5, <3>1 DEF Settled
    <3> QED
      BY <2>3, <3>1, <3>2, <3>3
  <2>8. Sole' /\ Recorded' /\ PublishedOnce'
    <3>1. Sole'
      BY <2>3 DEF QuietInv, Keeping, Sole
    <3>2. Recorded'
      BY <2>1, <2>7 DEF Recorded
    <3>3. PublishedOnce'
      BY <2>1 DEF QuietInv, Keeping, PublishedOnce
    <3> QED
      BY <3>1, <3>2, <3>3
  <2>9. Held'
    BY <2>3, <2>6 DEF Held
  <2> QED
    BY <2>8, <2>9 DEF Keeping
<1> QED
  BY <1>2, <1>3, <1>4, <1>5, <1>6, <1>7 DEF ThreadStep

(* The producer.  The one record of an identity is that of the call that   *)
(* answers for it, and is appended while it does.                          *)
LEMMA KeepingKafka ==
  ASSUME Quiet, QuietInv, NEW c \in Calls, NEW e \in EventIds, KafkaStep(c, e)
  PROVE  Keeping'
<1>0. /\ item \in [Calls -> [EventIds -> Items]] /\ late \in [Calls -> [EventIds -> Lates]]
      /\ Held /\ Sole /\ Recorded /\ PublishedOnce
  BY DEF QuietInv, Keeping, Inv, TypeOK
<1>1. Calm(c, e) /\ Life(c, e)
  BY DEF QuietInv, Calms, Inv, Lives
<1>2. UNCHANGED <<registry, ask, sentAt, phase>> /\ wire[c][e] \in {"queued", "appended"}
  BY DEF KafkaStep, Append, ReportOk, ReportFail, Undelivered, threads
<1>3. /\ item[c][e] \in {"sent", "unsure"} /\ late[c][e] = "none" /\ Claims(c, e)
      /\ item[c][e] = "sent" => phase[c] \in {"sending", "waiting"}
  BY <1>1, <1>2 DEF Life, Calm, Claims
<1>4. CASE Append(c, e)
  <2>1. log' = log \cup {Record(c, e)} /\ UNCHANGED <<item, late, state, print, expiry>> /\ wire[c][e] = "queued"
    BY <1>4 DEF Append, threads, registry
  <2>2. \A d \in Calls, f \in EventIds : (Claims(d, f)' <=> Claims(d, f)) /\ (Holding(d, f)' <=> Holding(d, f))
    BY <1>2, <2>1 DEF Claims, Holding
  <2>3. ASSUME NEW r \in log, r.event = e PROVE FALSE
    <3>1. r.call \in Calls
      BY DEF QuietInv, Inv, TypeOK, Records
    <3>2. Claims(r.call, e)
      BY <1>0, <1>3, <2>3, StillHeld DEF Recorded, Settled
    <3>3. r.call = c
      BY <1>0, <1>3, <3>1, <3>2 DEF Sole
    <3> QED
      BY <1>1, <2>1, <2>3, <3>3 DEF Life, Own
  <2>4. ASSUME NEW r \in log' PROVE Claims(r.call, r.event)' \/ Settled(r.call, r.event)'
    <3>1. CASE r \in log
      <4>1. r.call \in Calls /\ r.event \in EventIds
        BY <3>1 DEF QuietInv, Inv, TypeOK, Records
      <4>2. Settled(r.call, r.event) => Settled(r.call, r.event)'
        BY <1>2, <2>1 DEF Settled
      <4> QED
        BY <1>0, <2>2, <3>1, <4>1, <4>2 DEF Recorded
    <3>2. CASE r = Record(c, e)
      BY <1>3, <2>2, <3>2 DEF Record
    <3> QED
      BY <2>1, <3>1, <3>2
  <2>5. Held' /\ Sole'
    BY <1>0, <2>2 DEF Held, Sole
  <2>6. PublishedOnce'
    <3> SUFFICES ASSUME NEW r1 \in log', NEW r2 \in log', r1.event = r2.event PROVE r1 = r2
      BY DEF PublishedOnce
    <3>1. r1 \in log /\ r2 \in log => r1 = r2
      BY <1>0 DEF PublishedOnce
    <3>2. r1 \in log /\ r2 = Record(c, e) => FALSE
      BY <2>3 DEF Record
    <3>3. r2 \in log /\ r1 = Record(c, e) => FALSE
      BY <2>3 DEF Record
    <3> QED
      BY <2>1, <3>1, <3>2, <3>3
  <2>7. Recorded'
    BY <2>4 DEF Recorded
  <2> QED
    BY <2>5, <2>6, <2>7 DEF Keeping
<1>5. CASE ReportOk(c, e) \/ ReportFail(c, e)
  <2>1. /\ log' = log
        /\ item[c][e] = "sent" => late' = late
             /\ (item' = [item EXCEPT ![c][e] = "acked"] \/ item' = [item EXCEPT ![c][e] = "failed"])
        /\ item[c][e] # "sent" => item' = item
             /\ (late' = [late EXCEPT ![c][e] = "ok"] \/ late' = [late EXCEPT ![c][e] = "fail"])
    BY <1>5 DEF ReportOk, ReportFail, Quiet
  <2>2. ASSUME NEW d \in Calls, NEW f \in EventIds
        PROVE  /\ Claims(d, f)' <=> Claims(d, f)
               /\ item'[d][f] = "unsure" => item[d][f] = "unsure"
    <3>1. CASE d = c /\ f = e
      <4>1. CASE item[c][e] = "sent"
        <5>1. item'[d][f] \in {"acked", "failed"}
          BY <1>0, <2>1, <3>1, <4>1
        <5> QED
          BY <1>2, <1>3, <3>1, <4>1, <5>1 DEF Claims
      <4>2. CASE item[c][e] # "sent"
        <5>1. late'[d][f] \in {"ok", "fail"} /\ item'[d][f] = item[d][f]
          BY <1>0, <2>1, <3>1, <4>2
        <5> QED
          BY <1>3, <3>1, <4>2, <5>1 DEF Claims
      <4> QED
        BY <4>1, <4>2
    <3>2. CASE ~ (d = c /\ f = e)
      <4>1. item'[d][f] = item[d][f]
        BY <1>0, <2>1, <3>2
      <4>2. late'[d][f] = late[d][f]
        BY <1>0, <2>1, <3>2
      <4> QED
        BY <1>2, <4>1, <4>2 DEF Claims
    <3> QED
      BY <3>1, <3>2
  <2> QED
    BY <1>2, <2>1, <2>2, Doubting, Passing
<1> QED
  BY <1>4, <1>5 DEF KafkaStep

(* Reconciliation ends what the call answers for.                          *)
LEMMA KeepingPool ==
  ASSUME Quiet, QuietInv, NEW c \in Calls, NEW e \in EventIds, PoolStep(c, e)
  PROVE  Keeping'
<1> DEFINE S == {e}
<1>1. /\ late[c][e] \in {"ok", "fail"} /\ UNCHANGED <<log, ask, sentAt, phase, item>>
      /\ late' = [late EXCEPT ![c][e] = "done"]
  BY DEF PoolStep, ReconcileOk, ReconcileFail, threads
<1>2. Calm(c, e) /\ late \in [Calls -> [EventIds -> Lates]]
  BY DEF QuietInv, Calms, Inv, TypeOK
<1>3. item[c][e] = "unsure" /\ Claims(c, e)
  BY <1>1, <1>2 DEF Calm, Claims
<1>4. MayAccept(c, e) /\ MayRelease(c, e) /\ S \in SUBSET EventIds
  BY <1>3, StillHeld
<1>5. \A d \in Calls, f \in EventIds : late'[d][f] = IF d = c /\ f = e THEN "done" ELSE late[d][f]
  BY <1>1, <1>2
<1>6. Transition(S, "accepted", AcceptedTTL) \/ (Drop(S) /\ late[c][e] = "fail")
  BY <1>4 DEF PoolStep, ReconcileOk, ReconcileFail
<1>7. \A f \in EventIds \ S : state'[f] = state[f] /\ print'[f] = print[f] /\ expiry'[f] = expiry[f]
  BY <1>6 DEF Transition, Drop
<1>8. ~ Claims(c, e)'
  BY <1>1, <1>3, <1>5 DEF Claims
<1>9. Settled(c, e)' \/ ~ Own(c, e)
  <2>1. Drop(S) /\ late[c][e] = "fail" => ~ Own(c, e)
    BY <1>2 DEF Calm
  <2>2. Transition(S, "accepted", AcceptedTTL) => Settled(c, e)'
    BY <1>1, <1>3, <1>4, Settling
  <2> QED
    BY <1>6, <2>1, <2>2
<1>10. \A d \in Calls, f \in EventIds : ~ (d = c /\ f \in S) => (Claims(d, f)' <=> Claims(d, f))
  BY <1>1, <1>5 DEF Claims
<1>11. \A d \in Calls, f \in EventIds :
         Claims(d, f) /\ item'[d][f] = "unsure" /\ state[f] = "pending"
           => phase'[d] \in {"waiting", "finalizing", "marking"}
  BY <1>1, Doubting
<1>12. \A f \in S : Claims(c, f) /\ ~ Claims(c, f)' /\ (Settled(c, f)' \/ ~ Own(c, f))
  BY <1>3, <1>8, <1>9
<1> HIDE DEF S
<1> QED
  BY <1>1, <1>4, <1>7, <1>10, <1>11, <1>12, Giving

(* A claim wins identities that nobody answers for and that have no record.*)
LEMMA KeepingClaim ==
  ASSUME Quiet, QuietInv, NEW c \in Calls, NEW want \in [EventIds -> Prints \cup {NoPrint}],
         Claim(c, want)
  PROVE  Keeping'
<1>0. /\ phase \in [Calls -> Phases] /\ item \in [Calls -> [EventIds -> Items]]
      /\ sentAt \in [Calls -> Nat] /\ ask \in [Calls -> [EventIds -> Prints \cup {NoPrint}]]
      /\ now \in Nat /\ MaxNow \in Nat /\ expiry \in [EventIds -> Nat]
  BY CustodyAssumption DEF QuietInv, Inv, TypeOK
<1>1. Held /\ Sole /\ Recorded /\ PublishedOnce /\ now <= MaxNow
  BY DEF QuietInv, Keeping, Calms
<1>2. phase[c] = "new" /\ UNCHANGED <<now, late, log>>
      /\ ask' = [ask EXCEPT ![c] = want] /\ sentAt' = [sentAt EXCEPT ![c] = now]
  BY DEF Claim, kafka
<1>3. PICK gone \in Cleanable(want) :
        LET won == {e \in Wanted(want) : state[e] = "absent" \/ e \in gone}
        IN  /\ ClaimFields(gone, won, want)
            /\ item' = [item EXCEPT ![c] = [e \in EventIds |->
                          IF e \notin Wanted(want) THEN "out"
                          ELSE IF e \in won THEN "owned" ELSE ClaimReply(e, want[e])]]
            /\ phase' = [phase EXCEPT ![c] = IF won = {} THEN "done" ELSE "sending"]
  BY DEF Claim
<1> DEFINE won == {e \in Wanted(want) : state[e] = "absent" \/ e \in gone}
           touched == gone \cup won
<1>4. /\ won \in SUBSET EventIds /\ gone \in SUBSET EventIds
      /\ \A f \in touched : state[f] = "absent" \/ expiry[f] <= now
  BY DEF Cleanable, Wanted, Expired
<1>5. /\ \A f \in EventIds \ touched : state'[f] = state[f] /\ print'[f] = print[f] /\ expiry'[f] = expiry[f]
      /\ \A f \in won : state'[f] = "pending" /\ print'[f] = want[f] /\ expiry'[f] = now + PendingTTL
  BY <1>3, <1>4 DEF ClaimFields
<1>6. \A f \in EventIds : /\ item'[c][f] = (IF f \in won THEN "owned" ELSE IF f \in Wanted(want)
                                           THEN ClaimReply(f, want[f]) ELSE "out")
                          /\ ~ Claims(c, f) /\ ~ Own(c, f)
  <2>1. \A f \in EventIds : Life(c, f)
    BY DEF QuietInv, Inv, Lives
  <2>2. \A f \in EventIds : ~ Claims(c, f) /\ ~ Own(c, f)
    BY <1>2, <2>1 DEF Life, Claims
  <2>3. item'[c] = [e \in EventIds |->
                      IF e \notin Wanted(want) THEN "out"
                      ELSE IF e \in won THEN "owned" ELSE ClaimReply(e, want[e])]
    BY <1>0, <1>3
  <2> QED
    BY <2>2, <2>3
<1>7. \A d \in Calls \ {c} : /\ item'[d] = item[d] /\ phase'[d] = phase[d]
                             /\ ask'[d] = ask[d] /\ sentAt'[d] = sentAt[d]
  BY <1>0, <1>2, <1>3
<1>8. ask'[c] = want /\ sentAt'[c] = now
  BY <1>0, <1>2
<1> HIDE DEF won
<1>9. \A f \in EventIds : Claims(c, f)' => f \in won
  <2>1. \A f \in EventIds : ClaimReply(f, want[f]) \in {"conflict", "same", "pending", "uncertain", "absent"}
    BY DEF ClaimReply, QuietInv, Inv, TypeOK, States
  <2> QED
    BY <1>6, <2>1 DEF Claims
<1>10. \A d \in Calls \ {c}, f \in EventIds : Claims(d, f)' <=> Claims(d, f)
  BY <1>2, <1>7 DEF Claims
<1>11. \A d \in Calls, f \in EventIds : Claims(d, f) => f \notin touched
  <2> SUFFICES ASSUME NEW d \in Calls, NEW f \in EventIds, Claims(d, f) PROVE f \notin touched
    OBVIOUS
  <2>1. expiry[f] > now /\ state[f] # "absent"
    BY StillHeld
  <2>2. expiry[f] \in Nat
    BY <1>0
  <2> QED
    BY <1>0, <1>4, <2>1, <2>2
<1>12. \A d \in Calls, f \in EventIds : Settled(d, f) => f \notin touched
  <2> SUFFICES ASSUME NEW d \in Calls, NEW f \in EventIds, Settled(d, f) PROVE f \notin touched
    OBVIOUS
  <2>1. expiry[f] > MaxNow /\ state[f] # "absent" /\ expiry[f] \in Nat
    BY <1>0 DEF Settled
  <2> QED
    BY <1>0, <1>1, <1>4, <2>1
<1>13. ASSUME NEW d \in Calls, NEW f \in EventIds, Claims(d, f)' PROVE Holding(d, f)'
  <2>1. CASE d = c
    <3>1. f \in won /\ item'[d][f] = "owned"
      BY <1>6, <1>9, <1>13, <2>1
    <3>2. print'[f] = ask'[d][f] /\ state'[f] = "pending" /\ expiry'[f] = sentAt'[d] + PendingTTL
      BY <1>5, <1>8, <2>1, <3>1
    <3> QED
      BY <3>1, <3>2 DEF Holding
  <2>2. CASE d # c
    <3>1. Claims(d, f) /\ d \in Calls \ {c}
      BY <1>10, <1>13, <2>2
    <3>2. Holding(d, f) /\ f \in EventIds \ touched
      BY <1>1, <1>11, <3>1 DEF Held
    <3>3. /\ state'[f] = state[f] /\ print'[f] = print[f] /\ expiry'[f] = expiry[f]
          /\ item'[d] = item[d] /\ phase'[d] = phase[d] /\ ask'[d] = ask[d] /\ sentAt'[d] = sentAt[d]
      BY <1>5, <1>7, <3>1, <3>2
    <3> QED
      BY <3>2, <3>3 DEF Holding
  <2> QED
    BY <2>1, <2>2
<1>14. ASSUME NEW d1 \in Calls, NEW d2 \in Calls, NEW f \in EventIds, Claims(d1, f)', Claims(d2, f)'
       PROVE  d1 = d2
  <2>1. d1 # c /\ d2 # c => d1 = d2
    BY <1>1, <1>10, <1>14 DEF Sole
  <2>2. \A d \in Calls \ {c} : Claims(d, f)' => ~ Claims(c, f)'
    BY <1>9, <1>10, <1>11
  <2> QED
    BY <1>14, <2>1, <2>2
<1>15. ASSUME NEW r \in log PROVE Claims(r.call, r.event)' \/ Settled(r.call, r.event)'
  <2>1. r.call \in Calls /\ r.event \in EventIds
    BY DEF QuietInv, Inv, TypeOK, Records
  <2>2. r.call # c
    BY <1>6, <2>1 DEF Own
  <2>3. Claims(r.call, r.event) \/ Settled(r.call, r.event)
    BY <1>1 DEF Recorded
  <2>4. Claims(r.call, r.event) => Claims(r.call, r.event)'
    BY <1>10, <2>1, <2>2
  <2>5. Settled(r.call, r.event) => Settled(r.call, r.event)'
    <3> SUFFICES ASSUME Settled(r.call, r.event) PROVE Settled(r.call, r.event)'
      OBVIOUS
    <3>1. r.event \in EventIds \ touched
      BY <1>12, <2>1
    <3>2. /\ state'[r.event] = state[r.event] /\ print'[r.event] = print[r.event]
          /\ expiry'[r.event] = expiry[r.event] /\ ask'[r.call] = ask[r.call]
      BY <1>5, <1>7, <2>1, <2>2, <3>1
    <3> QED
      BY <3>2 DEF Settled
  <2> QED
    BY <2>3, <2>4, <2>5
<1>16. Held' /\ Sole'
  BY <1>13, <1>14 DEF Held, Sole
<1>17. Recorded' /\ PublishedOnce'
  BY <1>1, <1>2, <1>15 DEF Recorded, PublishedOnce
<1> QED
  BY <1>16, <1>17 DEF Keeping

(* The inductive invariant of runs without faults.                         *)
LEMMA QuietStep ==
  ASSUME Quiet
  PROVE  QuietInv /\ [Next]_vars => QuietInv'
<1> SUFFICES ASSUME QuietInv, [Next]_vars PROVE QuietInv'
  OBVIOUS
<1>1. Inv' /\ Calms' /\ TypeOK
  BY InvStep, CalmStep DEF QuietInv, Inv
<1>2. CASE Tick \/ UNCHANGED vars
  <2>1. UNCHANGED <<registry, log, ask, sentAt, item, phase, late>>
    BY <1>2 DEF Tick, vars, threads, kafka
  <2>2. UNCHANGED <<state, print, expiry>>
    BY <2>1 DEF registry
  <2>3. Keeping
    BY DEF QuietInv
  <2> QED
    BY <1>1, <2>1, <2>2, <2>3
       DEF QuietInv, Keeping, Held, Sole, Recorded, PublishedOnce, Claims, Holding, Settled
<1>3. ASSUME Keeping' PROVE QuietInv'
  BY <1>1, <1>3 DEF QuietInv
<1> QED
  BY <1>1, <1>2, <1>3, QuietNext, KeepingThread, KeepingClaim, KeepingKafka, KeepingPool

(* No identity is claimed and no record produced at the start.             *)
LEMMA QuietInit == Init => QuietInv
<1> SUFFICES ASSUME Init PROVE QuietInv
  OBVIOUS
<1>1. Inv
  BY InvInit
<1>2. Calms
  BY CustodyAssumption DEF Init, Calms, Calm, Own
<1>3. Keeping
  BY DEF Init, Keeping, Held, Sole, Recorded, PublishedOnce, Claims
<1> QED
  BY <1>1, <1>2, <1>3 DEF QuietInv

(* Every reachable state of a run without faults satisfies it.             *)
LEMMA QuietInvariance ==
  ASSUME Quiet
  PROVE  Spec => []QuietInv
BY QuietInit, QuietStep, PTL DEF Spec

(* Neither the retries of a client, nor its timeouts, nor the reports that     *)
(* come after them let a second call publish an identity, if nothing raises or *)
(* dies and no acceptance expires.  The life of an uncertain identity has to   *)
(* outlast the delivery timeout by itself: a retry's claim may be marked       *)
(* uncertain by the first call as soon as it is made.                          *)
THEOREM PublishedAtMostOnce ==
  ASSUME Quiet
  PROVE  Spec => []PublishedOnce
<1>1. QuietInv => PublishedOnce
  BY DEF QuietInv, Keeping
<1> QED
  BY <1>1, QuietInvariance, PTL

(* And whoever gets to the registry first, call, late report or other calls:   *)
(* an identity that has a record is claimed or accepted for its payload.       *)
THEOREM RecordsAreCovered ==
  ASSUME Quiet
  PROVE  Spec => []RecordCovered
<1>1. ASSUME Quiet, QuietInv PROVE RecordCovered
  <2> SUFFICES ASSUME NEW r \in log
               PROVE  Holds(r.event, ask[r.call][r.event], {"pending", "uncertain", "accepted"})
    BY DEF RecordCovered
  <2>1. r.call \in Calls /\ r.event \in EventIds
    BY <1>1 DEF QuietInv, Inv, TypeOK, Records
  <2>2. Claims(r.call, r.event) \/ Settled(r.call, r.event)
    BY <1>1 DEF QuietInv, Keeping, Recorded
  <2>3. CASE Claims(r.call, r.event)
    BY <1>1, <2>1, <2>3, StillHeld DEF Holds
  <2>4. CASE Settled(r.call, r.event)
    BY <2>4 DEF Settled, Holds
  <2> QED
    BY <2>2, <2>3, <2>4
<1> QED
  BY <1>1, QuietInvariance, PTL
==============================================================================
