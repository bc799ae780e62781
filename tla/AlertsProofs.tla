----------------------------- MODULE AlertsProofs -----------------------------
(***************************************************************************)
(* Alerts for any number of workers, windows, alerts and faults: whatever  *)
(* is queued or delivered was raised, and no alert is posted again once a  *)
(* worker has read that the endpoint accepted it.                          *)
(* The bounds of the model appear only as bounds of its counters.          *)
(***************************************************************************)
EXTENDS Alerts, SequenceTheorems, FiniteSetTheorems, TLAPS

Controls == {"idle", "processing", "delivering", "failed", "processed", "replaying", "popping"}

(* The sink's alerts, the outbox and the topic hold what was raised.          *)
Queues ==
  /\ raised \subseteq Kinds \X Nat
  /\ emitting \in Seq(raised) /\ pending \in Seq(raised) /\ topic \in Seq(raised)

Counters ==
  /\ balance \in Nat /\ windows \in 0..MaxWindows /\ faults \in 0..MaxFaults
  /\ start \in 0..windows

(* The offset of the group is behind its position, and that is in the topic   *)
(* or at its end.                                                             *)
Offsets ==
  /\ holder \in Workers /\ committed \in Nat /\ position \in Nat
  /\ committed < position /\ position <= Len(topic) + 1

Working ==
  /\ worker \in [Workers -> Controls] /\ alert \in [Workers -> raised \cup {Nothing}]
  /\ \A w \in Workers : worker[w] = "idle" <=> alert[w] = Nothing
  /\ tries \in [Workers -> 0..MaxRetries-1]

Outcomes ==
  /\ transition \subseteq raised /\ accepted \subseteq raised
  /\ unheard \subseteq raised /\ lost \subseteq raised

\* From its claim to the end of its delivery a worker answers for the marker.
Trying == {"delivering", "failed"}

(* Who delivers an alert, or failed to, holds its marker, alone, ...          *)
Marked ==
  /\ \A w \in Workers : worker[w] \in Trying => alert[w] \in transition
  /\ \A v, w \in Workers :
       worker[v] \in Trying /\ worker[w] \in Trying /\ alert[v] = alert[w] => v = w

(* ... and no worker has read that the endpoint accepted it, since then the   *)
(* marker stays.                                                              *)
Fresh ==
  /\ accepted \subseteq transition
  /\ \A w \in Workers : worker[w] \in Trying => alert[w] \notin accepted

Inv == Queues /\ Counters /\ Offsets /\ Working /\ Outcomes /\ Marked /\ Fresh

(***************************************************************************)
(* Sequences.                                                              *)
(***************************************************************************)
(* What is raised later does not disturb a queue.                             *)
LEMMA SeqGrows ==
  ASSUME NEW S, NEW T, S \subseteq T, NEW s \in Seq(S)
  PROVE  s \in Seq(T)
OBVIOUS

(* Reading a queue gives what it holds; so does cutting it.                   *)
LEMMA HeadOf ==
  ASSUME NEW S, NEW s \in Seq(S), s # <<>>
  PROVE  Head(s) \in S /\ Tail(s) \in Seq(S) /\ Len(s) \in Nat /\ 1 <= Len(s)
BY HeadTailProperties

(* What a sequence holds after one more element is appended.                  *)
LEMMA Appended ==
  ASSUME NEW S, NEW s \in Seq(S), NEW x \in S
  PROVE  Append(s, x) \in Seq(S) /\ Len(Append(s, x)) = Len(s) + 1
OBVIOUS

(* Every element of a sequence over S is in S.                                *)
LEMMA Element ==
  ASSUME NEW S, NEW s \in Seq(S)
  PROVE  Len(s) \in Nat /\ \A i \in 1..Len(s) : s[i] \in S
OBVIOUS

(* So is the set of its elements.                                             *)
LEMMA Elements ==
  ASSUME NEW S, NEW s \in Seq(S)
  PROVE  ToSet(s) \subseteq S
BY DEF ToSet

(* A part of a sequence over S is a sequence over S.                          *)
LEMMA Cut ==
  ASSUME NEW S, NEW s \in Seq(S), NEW m \in 1..(Len(s) + 1), NEW n \in 0..Len(s)
  PROVE  SubSeq(s, m, n) \in Seq(S)
<1>1. m \in Int /\ n \in Int /\ Len(s) \in Nat
  BY Element
<1>2. \A i \in m..n : s[i] \in S
  BY Element
<1> QED
  BY <1>1, <1>2, SubSeqProperties

(* The order of a set of alerts is a sequence of its members.                 *)
LEMMA Ordered ==
  ASSUME NEW S, IsFiniteSet(S)
  PROVE  SetToSeq(S) \in Seq(S)
<1> DEFINE n == Cardinality(S)
<1>1. n \in Nat /\ ExistsBijection(1..n, S)
  BY FS_CardinalityType
<1>2. \E f \in [1..n -> S] : IsInjective(f)
  BY <1>1 DEF ExistsBijection, Bijection, Injection
<1>3. SetToSeq(S) \in [1..n -> S]
  BY <1>2 DEF SetToSeq
<1> HIDE DEF n
<1> QED
  BY <1>1, <1>3

(***************************************************************************)
(* The sink.                                                               *)
(***************************************************************************)
(* The crossings of a deduction are few, and of the known kinds.              *)
LEMMA CrossingsTyped ==
  ASSUME NEW before, NEW after
  PROVE  Crossings(before, after) \subseteq Kinds /\ IsFiniteSet(Crossings(before, after))
<1>1. Crossings(before, after) \subseteq Kinds
  BY DEF Crossings, Kinds
<1>2. IsFiniteSet(Kinds)
  <2>1. Kinds = {} \cup {"warn70"} \cup {"warn90"} \cup {"low"} \cup {"exhausted"}
    BY DEF Kinds
  <2> QED
    BY <2>1, FS_EmptySet, FS_AddElement
<1> QED
  BY <1>1, <1>2, FS_Subset

(* Nothing is raised, published, marked or delivered at the start.            *)
LEMMA InvInit == Init => Inv
<1> SUFFICES ASSUME Init PROVE Inv
  OBVIOUS
<1>1. Queues
  BY DEF Init, Queues
<1>2. Counters
  BY AlertsAssumption DEF Init, Counters
<1>3. Offsets
  BY DEF Init, Offsets
<1>4. Working
  <2>1. 0 \in 0..MaxRetries-1
    BY AlertsAssumption
  <2> QED
    BY <2>1 DEF Init, Working, Controls
<1>5. Outcomes /\ Marked /\ Fresh
  BY DEF Init, Outcomes, Marked, Fresh, Trying
<1> QED
  BY <1>1, <1>2, <1>3, <1>4, <1>5 DEF Inv

(* Deducting raises alerts, and queues them in some order.                    *)
LEMMA DeductRaises ==
  ASSUME Inv, NEW cost \in Costs, Deduct(cost)
  PROVE  /\ raised \subseteq raised' /\ raised' \subseteq Kinds \X Nat
         /\ emitting' \in Seq(raised') /\ balance' \in Nat /\ windows' \in 0..MaxWindows
         /\ start' \in 0..windows'
<1> DEFINE after == Deducted(cost)
           due == Crossings(balance, after) \X {start'}
<1>1. /\ windows < MaxWindows /\ windows' = windows + 1
      /\ start' = 0 \/ start' = start \/ start' = start + 1
      /\ balance' = after /\ emitting' = SetToSeq(due) /\ raised' = raised \cup due
  BY DEF Deduct
<1>2. /\ balance \in Nat /\ windows \in 0..MaxWindows /\ raised \subseteq Kinds \X Nat /\ MaxWindows \in Nat
      /\ start \in 0..windows
  BY AlertsAssumption DEF Inv, Counters, Queues
<1>3. cost \in Nat
  BY AlertsAssumption
<1>4. after \in Nat
  BY <1>2, <1>3 DEF Deducted
<1>a. start' \in 0..windows' /\ start' \in Nat
  BY <1>1, <1>2
<1>5. due \subseteq Kinds \X Nat
  BY <1>a, CrossingsTyped
<1>6. IsFiniteSet(due)
  <2>1. IsFiniteSet({start'})
    BY FS_Singleton
  <2> QED
    BY <2>1, CrossingsTyped, FS_Product
<1> HIDE DEF after, due
<1>7. SetToSeq(due) \in Seq(due)
  BY <1>6, Ordered
<1>8. emitting' \in Seq(raised')
  BY <1>1, <1>7, SeqGrows
<1> QED
  BY <1>1, <1>2, <1>4, <1>5, <1>8, <1>a

(* What the outbox and the topic get was raised; nothing leaves the topic.    *)
LEMMA QueuesStep ==
  ASSUME Inv, Next
  PROVE  Queues' /\ raised \subseteq raised' /\ topic' \in Seq(raised') /\ Len(topic) <= Len(topic')
<1>0. /\ raised \subseteq Kinds \X Nat
      /\ emitting \in Seq(raised) /\ pending \in Seq(raised) /\ topic \in Seq(raised)
  BY DEF Inv, Queues
<1>1. Len(topic) \in Nat /\ Len(topic) <= Len(topic)
  BY <1>0, Element
<1>2. \A a \in raised : Append(topic, a) \in Seq(raised) /\ Len(topic) <= Len(Append(topic, a))
  BY <1>0, <1>1, Appended
<1>3. \A a \in raised : Append(pending, a) \in Seq(raised)
  BY <1>0, Appended
<1>4. emitting # <<>> => Head(emitting) \in raised /\ Tail(emitting) \in Seq(raised)
  BY <1>0, HeadOf
<1>5. pending # <<>> => Tail(pending) \in Seq(raised)
  BY <1>0, HeadOf
<1>6. \A w \in Workers : worker[w] # "idle" => alert[w] \in raised
  BY DEF Inv, Working
<1>7. ASSUME NEW cost \in Costs, Deduct(cost)
      PROVE  Queues' /\ raised \subseteq raised' /\ topic' \in Seq(raised') /\ Len(topic) <= Len(topic')
  <2>1. raised \subseteq raised' /\ raised' \subseteq Kinds \X Nat /\ emitting' \in Seq(raised')
    BY <1>7, DeductRaises
  <2>2. pending' = pending /\ topic' = topic
    BY <1>7 DEF Deduct
  <2>3. pending' \in Seq(raised') /\ topic' \in Seq(raised')
    BY <1>0, <2>1, <2>2, SeqGrows
  <2> QED
    BY <1>1, <2>1, <2>2, <2>3 DEF Queues
<1>8. CASE Emit
  BY <1>0, <1>2, <1>4, <1>8 DEF Emit, Queues, history
<1>9. CASE EmitLater
  BY <1>0, <1>1, <1>2, <1>3, <1>4, <1>9 DEF EmitLater, Queues, history
<1>10. CASE EmitNever
  <2>1. PICK n \in {1, Len(emitting)} : emitting' = SubSeq(emitting, n + 1, Len(emitting))
    BY <1>10 DEF EmitNever
  <2>2. Len(emitting) \in Nat /\ 1 <= Len(emitting)
    BY <1>0, <1>10, HeadOf DEF EmitNever
  <2>3. n + 1 \in 1..(Len(emitting) + 1) /\ Len(emitting) \in 0..Len(emitting)
    BY <2>2
  <2>4. emitting' \in Seq(raised)
    BY <1>0, <2>1, <2>3, Cut
  <2>5. raised' = raised /\ pending' = pending /\ topic' = topic
    BY <1>10 DEF EmitNever
  <2> QED
    BY <1>0, <1>1, <2>4, <2>5 DEF Queues
<1>11. ASSUME NEW w \in Workers, Produce(w)
       PROVE  Queues' /\ raised \subseteq raised' /\ topic' \in Seq(raised') /\ Len(topic) <= Len(topic')
  <2>1. alert[w] \in raised
    BY <1>6, <1>11 DEF Produce
  <2>2. topic' = topic \/ topic' = Append(topic, alert[w])
    BY <1>11 DEF Produce
  <2>3. topic' \in Seq(raised) /\ Len(topic) <= Len(topic')
    BY <1>0, <1>1, <1>2, <2>1, <2>2
  <2>4. raised' = raised /\ emitting' = emitting /\ pending' = pending
    BY <1>11 DEF Produce, sink, history
  <2> QED
    BY <1>0, <2>3, <2>4 DEF Queues
<1>12. ASSUME NEW w \in Workers, PopPending(w)
       PROVE  Queues' /\ raised \subseteq raised' /\ topic' \in Seq(raised') /\ Len(topic) <= Len(topic')
  BY <1>0, <1>1, <1>5, <1>12 DEF PopPending, sink, Queues
<1>13. CASE UNCHANGED <<raised, emitting, pending, topic>>
  BY <1>0, <1>1, <1>13 DEF Queues
<1>14. ASSUME NEW w \in Workers,
              \/ Poll(w) \/ ClaimTransition(w) \/ Accept(w) \/ Fail(w)
              \/ ClaimRaises(w) \/ SettingsRaise(w) \/ PostFails(w) \/ Refused(w)
              \/ Commit(w) \/ PeekPending(w) \/ Die(w)
       PROVE  UNCHANGED <<raised, emitting, pending, topic>>
  BY <1>14 DEF Poll, ClaimTransition, ClaimRaises, SettingsRaise, Accept, PostFails, Refused, Fail, Commit,
               PeekPending, Die, sink, history
<1>15. ASSUME NEW cost \in Costs, TopUp(cost)
       PROVE  UNCHANGED <<raised, emitting, pending, topic>>
  BY <1>15 DEF TopUp, history
<1> QED
  BY <1>7, <1>8, <1>9, <1>10, <1>11, <1>12, <1>13, <1>14, <1>15 DEF Next, WorkerStep

(* The balance stays above zero, and the counters within their bounds.        *)
LEMMA CountersStep ==
  ASSUME Inv, Next
  PROVE  Counters'
<1>0. /\ balance \in Nat /\ windows \in 0..MaxWindows /\ faults \in 0..MaxFaults /\ MaxWindows \in Nat /\ MaxFaults \in Nat
      /\ start \in 0..windows
  BY AlertsAssumption DEF Inv, Counters
<1>1. ASSUME Fault PROVE faults' \in 0..MaxFaults
  BY <1>0, <1>1 DEF Fault
<1>2. faults' \in 0..MaxFaults
  <2>1. faults' = faults \/ Fault
    BY DEF Next, WorkerStep, Deduct, TopUp, Emit, EmitLater, EmitNever, Poll, ClaimTransition, ClaimRaises,
           SettingsRaise, Accept, PostFails, Refused, Fail, Commit, PeekPending, Produce, PopPending, Die
  <2> QED
    BY <1>0, <1>1, <2>1
<1>3. balance' \in Nat /\ windows' \in 0..MaxWindows /\ start' \in 0..windows'
  <2>1. ASSUME NEW cost \in Costs, Deduct(cost)
        PROVE  balance' \in Nat /\ windows' \in 0..MaxWindows /\ start' \in 0..windows'
    BY <2>1, DeductRaises
  <2>2. ASSUME NEW cost \in Costs, TopUp(cost)
        PROVE  balance' \in Nat /\ windows' \in 0..MaxWindows /\ start' \in 0..windows'
    <3>1. cost \in Nat
      BY AlertsAssumption
    <3> QED
      BY <1>0, <2>2, <3>1 DEF TopUp
  <2>3. CASE Emit \/ EmitLater \/ EmitNever
    BY <1>0, <2>3 DEF Emit, EmitLater, EmitNever
  <2>4. ASSUME NEW w \in Workers, WorkerStep(w) \/ Die(w)
        PROVE  balance' = balance /\ windows' = windows /\ start' = start
    BY <2>4 DEF WorkerStep, Poll, ClaimTransition, ClaimRaises, SettingsRaise, Accept, PostFails, Refused, Fail, Commit,
                PeekPending, Produce, PopPending, Die, sink
  <2> QED
    BY <1>0, <2>1, <2>2, <2>3, <2>4 DEF Next
<1> QED
  BY <1>2, <1>3 DEF Counters

(* A member reads on, commits what it has read, or resumes after a death.     *)
LEMMA OffsetsStep ==
  ASSUME Inv, Next
  PROVE  Offsets'
<1>0. /\ holder \in Workers /\ committed \in Nat /\ position \in Nat
      /\ committed < position /\ position <= Len(topic) + 1
  BY DEF Inv, Offsets
<1>1. Len(topic) \in Nat /\ Len(topic') \in Nat /\ Len(topic) <= Len(topic')
  BY QueuesStep, Element DEF Inv, Queues
<1>2. ASSUME NEW w \in Workers, Poll(w) PROVE Offsets'
  BY <1>0, <1>1, <1>2 DEF Poll, Offsets
<1>3. ASSUME NEW w \in Workers, Commit(w) PROVE Offsets'
  BY <1>0, <1>1, <1>3 DEF Commit, Offsets
<1>4. ASSUME NEW w \in Workers, Die(w) PROVE Offsets'
  <2>1. Resume \in Nat /\ committed < Resume /\ Resume <= Len(topic) + 1
    BY <1>0, <1>1 DEF Resume
  <2>2. committed' = committed /\ topic' = topic
    BY <1>4 DEF Die
  <2>3. \/ holder' \in Workers /\ position' = Resume
        \/ UNCHANGED <<holder, position>>
    BY <1>4 DEF Die
  <2> QED
    BY <1>0, <2>1, <2>2, <2>3 DEF Offsets
<1>5. CASE UNCHANGED group
  BY <1>0, <1>1, <1>5 DEF group, Offsets
<1>6. ASSUME NEW cost \in Costs, Deduct(cost) \/ TopUp(cost) PROVE UNCHANGED group
  BY <1>6 DEF Deduct, TopUp
<1>7. ASSUME Emit \/ EmitLater \/ EmitNever PROVE UNCHANGED group
  BY <1>7 DEF Emit, EmitLater, EmitNever
<1>8. ASSUME NEW w \in Workers,
             \/ ClaimTransition(w) \/ ClaimRaises(w) \/ SettingsRaise(w)
             \/ Accept(w) \/ PostFails(w) \/ Refused(w) \/ Fail(w)
             \/ PeekPending(w) \/ Produce(w) \/ PopPending(w)
      PROVE  UNCHANGED group
  BY <1>8 DEF ClaimTransition, ClaimRaises, SettingsRaise, Accept, PostFails, Refused, Fail,
              PeekPending, Produce, PopPending
<1> QED
  BY <1>2, <1>3, <1>4, <1>5, <1>6, <1>7, <1>8 DEF Next, WorkerStep

(***************************************************************************)
(* The workers.                                                            *)
(***************************************************************************)
(* An alert is not no alert.                                                  *)
LEMMA SomeAlert ==
  ASSUME Inv
  PROVE  Nothing \notin raised
BY AlertsAssumption DEF Inv, Queues

(* A worker goes to another step with an alert that was raised, or rests.     *)
LEMMA GotoTyped ==
  ASSUME Inv, raised \subseteq raised', NEW w \in Workers, NEW to \in Controls, NEW a, Goto(w, to, a),
         (to = "idle" /\ a = Nothing) \/ (to # "idle" /\ a \in raised)
  PROVE  /\ worker' \in [Workers -> Controls] /\ alert' \in [Workers -> raised' \cup {Nothing}]
         /\ \A v \in Workers : worker'[v] = "idle" <=> alert'[v] = Nothing
         /\ tries' \in [Workers -> 0..MaxRetries-1]
<1>1. /\ worker \in [Workers -> Controls] /\ alert \in [Workers -> raised \cup {Nothing}]
      /\ \A v \in Workers : worker[v] = "idle" <=> alert[v] = Nothing
  BY DEF Inv, Working
<1>2. worker' = [worker EXCEPT ![w] = to] /\ alert' = [alert EXCEPT ![w] = a]
  BY DEF Goto
<1>3. Nothing \notin raised
  BY SomeAlert
<1>4. worker' \in [Workers -> Controls]
  BY <1>1, <1>2
<1>5. alert' \in [Workers -> raised' \cup {Nothing}]
  BY <1>1, <1>2
<1>6. \A v \in Workers : worker'[v] = "idle" <=> alert'[v] = Nothing
  BY <1>1, <1>2, <1>3
<1>7. tries' \in [Workers -> 0..MaxRetries-1]
  <2>1. 0 \in 0..MaxRetries-1
    BY AlertsAssumption
  <2>2. tries \in [Workers -> 0..MaxRetries-1] /\ tries' = [tries EXCEPT ![w] = 0]
    BY DEF Inv, Working, Goto
  <2> QED
    BY <2>1, <2>2
<1> QED
  BY <1>4, <1>5, <1>6, <1>7

(* A worker has an alert exactly while it is busy.                            *)
LEMMA WorkingStep ==
  ASSUME Inv, Next
  PROVE  Working'
<1>0. raised \subseteq raised'
  BY QueuesStep
<1>1. /\ worker \in [Workers -> Controls] /\ alert \in [Workers -> raised \cup {Nothing}]
      /\ \A v \in Workers : worker[v] = "idle" <=> alert[v] = Nothing
      /\ tries \in [Workers -> 0..MaxRetries-1]
  BY DEF Inv, Working
<1>2. \A v \in Workers : worker[v] # "idle" => alert[v] \in raised
  BY <1>1
<1>3. CASE UNCHANGED process
  BY <1>0, <1>1, <1>3 DEF process, Working
<1>4. ASSUME NEW w \in Workers, NEW to \in Controls, NEW a, Goto(w, to, a),
             (to = "idle" /\ a = Nothing) \/ (to # "idle" /\ a \in raised)
      PROVE  Working'
  BY <1>0, <1>4, GotoTyped DEF Working
<1>5. "idle" \in Controls /\ "processing" \in Controls /\ "delivering" \in Controls /\ "failed" \in Controls
      /\ "processed" \in Controls /\ "replaying" \in Controls /\ "popping" \in Controls
  BY DEF Controls
<1>6. ASSUME NEW w \in Workers, Poll(w) PROVE Working'
  <2>1. topic[position] \in raised
    <3>1. topic \in Seq(raised) /\ position \in 1..Len(topic)
      <4>1. position \in Nat /\ committed \in Nat /\ committed < position /\ topic \in Seq(raised)
        BY DEF Inv, Offsets, Queues
      <4>2. position <= Len(topic) /\ Len(topic) \in Nat
        BY <1>6, <4>1, Element DEF Poll
      <4> QED
        BY <4>1, <4>2
    <3> QED
      BY <3>1, Element
  <2>2. Goto(w, "processing", topic[position])
    BY <1>6 DEF Poll
  <2> QED
    BY <1>4, <1>5, <2>1, <2>2
<1>7. ASSUME NEW w \in Workers, ClaimTransition(w) PROVE Working'
  <2>1. alert[w] \in raised
    BY <1>2, <1>7 DEF ClaimTransition
  <2>2. Goto(w, "processed", alert[w]) \/ Goto(w, "delivering", alert[w])
    BY <1>7 DEF ClaimTransition
  <2>3. CASE Goto(w, "processed", alert[w])
    BY <1>4, <1>5, <2>1, <2>3
  <2>4. CASE Goto(w, "delivering", alert[w])
    BY <1>4, <1>5, <2>1, <2>4
  <2> QED
    BY <2>2, <2>3, <2>4
<1>8. ASSUME NEW w \in Workers, Accept(w) PROVE Working'
  <2>1. alert[w] \in raised /\ Goto(w, "processed", alert[w])
    BY <1>2, <1>8 DEF Accept
  <2> QED
    BY <1>4, <1>5, <2>1
<1>9. ASSUME NEW w \in Workers, ClaimRaises(w) \/ SettingsRaise(w) \/ Fail(w) \/ Commit(w) \/ PopPending(w) \/ Die(w)
      PROVE  Working'
  <2>1. Goto(w, "idle", Nothing)
    BY <1>9 DEF ClaimRaises, SettingsRaise, Fail, Give, Commit, PopPending, Die
  <2> QED
    BY <1>4, <1>5, <2>1
<1>a. ASSUME NEW w \in Workers, Refused(w) PROVE Working'
  <2>1. alert[w] \in raised /\ Goto(w, "failed", alert[w])
    BY <1>2, <1>a DEF Refused
  <2> QED
    BY <1>4, <1>5, <2>1
<1>b. ASSUME NEW w \in Workers, PostFails(w) PROVE Working'
  <2>1. alert[w] \in raised
    BY <1>2, <1>b DEF PostFails
  <2>2. CASE Goto(w, "failed", alert[w])
    BY <1>4, <1>5, <2>1, <2>2
  <2>3. CASE tries[w] + 1 < MaxRetries /\ tries' = [tries EXCEPT ![w] = tries[w] + 1] /\ UNCHANGED <<worker, alert>>
    <3>1. tries[w] + 1 \in 0..MaxRetries-1
      BY <1>1, <2>3, AlertsAssumption
    <3>2. tries' \in [Workers -> 0..MaxRetries-1]
      BY <1>1, <2>3, <3>1
    <3> QED
      BY <1>0, <1>1, <2>3, <3>2 DEF Working
  <2> QED
    BY <1>b, <2>2, <2>3 DEF PostFails
<1>10. ASSUME NEW w \in Workers, PeekPending(w) PROVE Working'
  <2>1. pending \in Seq(raised) /\ pending # <<>>
    BY <1>10 DEF Inv, Queues, PeekPending
  <2>2. Head(pending) \in raised /\ Goto(w, "replaying", Head(pending))
    BY <1>10, <2>1, HeadOf DEF PeekPending
  <2> QED
    BY <1>4, <1>5, <2>2
<1>11. ASSUME NEW w \in Workers, Produce(w) PROVE Working'
  <2>1. alert[w] \in raised
    BY <1>2, <1>11 DEF Produce
  <2>2. Goto(w, "popping", alert[w]) \/ Goto(w, "idle", Nothing)
    BY <1>11 DEF Produce
  <2>3. CASE Goto(w, "popping", alert[w])
    BY <1>4, <1>5, <2>1, <2>3
  <2>4. CASE Goto(w, "idle", Nothing)
    BY <1>4, <1>5, <2>4
  <2> QED
    BY <2>2, <2>3, <2>4
<1>12. ASSUME NEW cost \in Costs, Deduct(cost) \/ TopUp(cost) PROVE UNCHANGED process
  BY <1>12 DEF Deduct, TopUp
<1>13. ASSUME Emit \/ EmitLater \/ EmitNever PROVE UNCHANGED process
  BY <1>13 DEF Emit, EmitLater, EmitNever
<1> QED
  BY <1>3, <1>6, <1>7, <1>8, <1>9, <1>a, <1>b, <1>10, <1>11, <1>12, <1>13 DEF Next, WorkerStep

(* Markers, acceptances and losses are of alerts that were raised.            *)
LEMMA OutcomesStep ==
  ASSUME Inv, Next
  PROVE  Outcomes'
<1>0. /\ raised \subseteq raised' /\ transition \subseteq raised /\ accepted \subseteq raised
      /\ unheard \subseteq raised /\ lost \subseteq raised
      /\ emitting \in Seq(raised) /\ pending \in Seq(raised) /\ topic \in Seq(raised)
  BY QueuesStep DEF Inv, Outcomes, Queues
<1>1. \A w \in Workers : worker[w] # "idle" => alert[w] \in raised
  BY DEF Inv, Working
<1>2. CASE UNCHANGED <<transition, accepted, unheard, lost>>
  BY <1>0, <1>2 DEF Outcomes
<1>3. CASE EmitNever
  <2>1. PICK n \in {1, Len(emitting)} : lost' = lost \cup ToSet(SubSeq(emitting, 1, n))
    BY <1>3 DEF EmitNever
  <2>2. Len(emitting) \in Nat /\ 1 <= Len(emitting)
    BY <1>0, <1>3, HeadOf DEF EmitNever
  <2>3. SubSeq(emitting, 1, n) \in Seq(raised)
    <3>1. 1 \in 1..(Len(emitting) + 1) /\ n \in 0..Len(emitting)
      BY <2>2
    <3> QED
      BY <1>0, <3>1, Cut
  <2>4. ToSet(SubSeq(emitting, 1, n)) \subseteq raised
    BY <2>3, Elements
  <2> QED
    BY <1>0, <1>3, <2>1, <2>4 DEF EmitNever, Outcomes
<1>4. ASSUME NEW w \in Workers,
             \/ ClaimTransition(w) \/ ClaimRaises(w) \/ SettingsRaise(w)
             \/ Accept(w) \/ PostFails(w) \/ Fail(w)
      PROVE  Outcomes'
  BY <1>0, <1>1, <1>4 DEF ClaimTransition, ClaimRaises, SettingsRaise, Accept, PostFails, Fail, Give, Outcomes, history
<1>5. ASSUME NEW w \in Workers, PopPending(w)
      PROVE  Outcomes'
  <2>1. pending # <<>> => Head(pending) \in raised
    BY <1>0, HeadOf
  <2> QED
    BY <1>0, <1>5, <2>1 DEF PopPending, Outcomes
<1>6. ASSUME NEW w \in Workers, Die(w)
      PROVE  Outcomes'
  <2>1. ToSet(topic) \subseteq raised
    BY <1>0, Elements
  <2>2. worker[w] \in {"delivering", "failed"} => alert[w] \in raised
    BY <1>1
  <2>3. lost' \subseteq raised
    BY <1>0, <1>6, <2>1, <2>2 DEF Die
  <2> QED
    BY <1>0, <1>6, <2>3 DEF Die, Outcomes
<1>7. ASSUME NEW w \in Workers, Poll(w) \/ Refused(w) \/ Commit(w) \/ PeekPending(w) \/ Produce(w)
      PROVE  UNCHANGED <<transition, accepted, unheard, lost>>
  BY <1>7 DEF Poll, Refused, Commit, PeekPending, Produce, history
<1>8. ASSUME NEW cost \in Costs, Deduct(cost) \/ TopUp(cost)
      PROVE  UNCHANGED <<transition, accepted, unheard, lost>>
  BY <1>8 DEF Deduct, TopUp, history
<1>9. ASSUME Emit \/ EmitLater PROVE UNCHANGED <<transition, accepted, unheard, lost>>
  BY <1>9 DEF Emit, EmitLater, history
<1> QED
  BY <1>2, <1>3, <1>4, <1>5, <1>6, <1>7, <1>8, <1>9 DEF Next, WorkerStep

(* Who begins a delivery set the marker, so nobody else delivers that alert   *)
(* nor has the endpoint accepted it; who fails clears only its own.           *)
LEMMA MarkStep ==
  ASSUME Inv, Next
  PROVE  Marked' /\ Fresh'
<1>0. /\ worker \in [Workers -> Controls] /\ alert \in [Workers -> raised \cup {Nothing}]
      /\ \A w \in Workers : worker[w] \in Trying => alert[w] \in transition /\ alert[w] \notin accepted
      /\ \A v, w \in Workers :
           worker[v] \in Trying /\ worker[w] \in Trying /\ alert[v] = alert[w] => v = w
      /\ accepted \subseteq transition
  BY DEF Inv, Working, Marked, Fresh
<1>1. ASSUME NEW w \in Workers, NEW to, NEW a, Goto(w, to, a)
      PROVE  /\ worker'[w] = to /\ alert'[w] = a
             /\ \A v \in Workers : v # w => worker'[v] = worker[v] /\ alert'[v] = alert[v]
  BY <1>0, <1>1 DEF Goto
<1>2. CASE UNCHANGED <<worker, alert, transition, accepted>>
  BY <1>0, <1>2 DEF Marked, Fresh
<1>3. ASSUME NEW w \in Workers, NEW to, NEW a, Goto(w, to, a), to \notin Trying,
             transition \subseteq transition', accepted' = accepted
      PROVE  Marked' /\ Fresh'
  BY <1>0, <1>1, <1>3 DEF Marked, Fresh
<1>4. ASSUME NEW w \in Workers,
             \/ Poll(w) \/ ClaimRaises(w) \/ SettingsRaise(w) \/ Commit(w)
             \/ PeekPending(w) \/ Produce(w) \/ PopPending(w) \/ Die(w)
      PROVE  Marked' /\ Fresh'
  <2>1. \E to, a : Goto(w, to, a) /\ to \notin Trying
    BY <1>4 DEF Poll, ClaimRaises, SettingsRaise, Give, Commit, PeekPending, Produce, PopPending, Die, Trying
  <2>2. transition \subseteq transition' /\ accepted' = accepted
    BY <1>4 DEF Poll, ClaimRaises, SettingsRaise, Give, Commit, PeekPending, Produce, PopPending, Die, history
  <2> QED
    BY <1>3, <2>1, <2>2
<1>5. ASSUME NEW w \in Workers, ClaimTransition(w)
      PROVE  Marked' /\ Fresh'
  <2>1. transition' = transition \cup {alert[w]} /\ accepted' = accepted
    BY <1>5 DEF ClaimTransition, history
  <2>2. \A v \in Workers : v # w => worker'[v] = worker[v] /\ alert'[v] = alert[v]
    BY <1>1, <1>5 DEF ClaimTransition
  <2>3. alert'[w] = alert[w]
    BY <1>1, <1>5 DEF ClaimTransition
  <2>4. worker'[w] \in Trying => alert[w] \notin transition
    BY <1>1, <1>5 DEF ClaimTransition, Trying
  <2> QED
    BY <1>0, <2>1, <2>2, <2>3, <2>4 DEF Marked, Fresh
<1>6. ASSUME NEW w \in Workers, Accept(w)
      PROVE  Marked' /\ Fresh'
  <2>1. worker[w] \in Trying /\ accepted' = accepted \cup {alert[w]} /\ transition' = transition
    BY <1>6 DEF Accept, Trying
  <2>2. worker'[w] \notin Trying /\ \A v \in Workers : v # w => worker'[v] = worker[v] /\ alert'[v] = alert[v]
    BY <1>1, <1>6 DEF Accept, Trying
  <2> QED
    BY <1>0, <2>1, <2>2 DEF Marked, Fresh
<1>7. ASSUME NEW w \in Workers, Fail(w)
      PROVE  Marked' /\ Fresh'
  <2>1. worker[w] \in Trying /\ accepted' = accepted
        /\ (transition' = transition \/ transition' = transition \ {alert[w]})
    BY <1>7 DEF Fail, Trying
  <2>2. worker'[w] \notin Trying /\ \A v \in Workers : v # w => worker'[v] = worker[v] /\ alert'[v] = alert[v]
    BY <1>1, <1>7 DEF Fail, Give, Trying
  <2> QED
    BY <1>0, <2>1, <2>2 DEF Marked, Fresh
<1>8. ASSUME NEW w \in Workers, PostFails(w) \/ Refused(w)
      PROVE  Marked' /\ Fresh'
  <2>1. worker[w] \in Trying /\ UNCHANGED <<transition, accepted>>
    BY <1>8 DEF PostFails, Refused, Trying, history
  <2>2. CASE Goto(w, "failed", alert[w])
    BY <1>0, <1>1, <2>1, <2>2 DEF Marked, Fresh
  <2>3. CASE UNCHANGED <<worker, alert>>
    BY <1>2, <2>1, <2>3
  <2> QED
    BY <1>8, <2>2, <2>3 DEF PostFails, Refused
<1>9. ASSUME NEW cost \in Costs, Deduct(cost) \/ TopUp(cost)
      PROVE  UNCHANGED <<worker, alert, transition, accepted>>
  BY <1>9 DEF Deduct, TopUp, process, history
<1>10. ASSUME Emit \/ EmitLater \/ EmitNever PROVE UNCHANGED <<worker, alert, transition, accepted>>
  BY <1>10 DEF Emit, EmitLater, EmitNever, process, history
<1> QED
  BY <1>2, <1>4, <1>5, <1>6, <1>7, <1>8, <1>9, <1>10 DEF Next, WorkerStep

(***************************************************************************)
(* Theorems.                                                               *)
(***************************************************************************)
(* One step of the sink or of a worker keeps the invariant.                   *)
LEMMA InvStep == Inv /\ [Next]_vars => Inv'
<1>1. ASSUME Inv, Next PROVE Inv'
  BY <1>1, QueuesStep, CountersStep, OffsetsStep, WorkingStep, OutcomesStep, MarkStep DEF Inv
<1>2. ASSUME Inv, UNCHANGED vars PROVE Inv'
  BY <1>2 DEF Inv, Queues, Counters, Offsets, Working, Outcomes, Marked, Fresh,
              vars, sink, group, process, history
<1> QED
  BY <1>1, <1>2

(* Every reachable state satisfies the inductive invariant.                   *)
LEMMA InvariantHolds == Spec => []Inv
BY InvInit, InvStep, PTL DEF Spec

(* The budget stays at zero or above, the group's offset stays behind its     *)
(* position, and the outbox, the topic, the workers, the markers and the      *)
(* history hold only alerts that were raised.                                 *)
THEOREM Typed == Spec => []TypeOK
<1>1. Inv => TypeOK
  <2> SUFFICES ASSUME Inv PROVE TypeOK
    OBVIOUS
  <2>1. balance \in Nat /\ windows <= MaxWindows /\ faults <= MaxFaults /\ start \in 0..windows
    BY AlertsAssumption DEF Inv, Counters
  <2>2. ToSet(emitting) \cup ToSet(pending) \cup ToSet(topic) \subseteq raised
    BY Elements DEF Inv, Queues
  <2>3. transition \cup accepted \cup unheard \cup lost \cup {alert[w] : w \in Workers} \subseteq raised \cup {Nothing}
    BY DEF Inv, Outcomes, Working
  <2> QED
    BY <2>1, <2>2, <2>3 DEF TypeOK, Inv, Offsets, Working, Controls
<1> QED
  BY <1>1, InvariantHolds, PTL

(* However a record is redelivered, replayed from the outbox or processed by  *)
(* two workers at once, and whatever Redis, Kafka and the endpoint raise, an  *)
(* alert whose acceptance a worker has read is not posted again: only         *)
(* acceptances that a timeout or a 5xx hid can be more than one.              *)
THEOREM AlertsAcceptedOnce == Spec => []AcceptedOnce
<1>1. Inv => AcceptedOnce
  BY DEF Inv, Fresh, AcceptedOnce, Trying
<1> QED
  BY <1>1, InvariantHolds, PTL
==============================================================================
