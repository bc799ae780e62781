-------------------------- MODULE DispatcherProofs ---------------------------
(***************************************************************************)
(* The two threads of Dispatcher for any number of messages and slots: the *)
(* semaphore is conserved, and a message that timed out is reconciled at   *)
(* most once, with the broker's verdict.                                   *)
(***************************************************************************)
EXTENDS Dispatcher, FiniteSetTheorems, TLAPS

Holders == {m \in Msgs : HoldsSlot(m)}

(* The semaphore; with infinitely many messages, too, finitely many hold a    *)
(* slot at a time.                                                            *)
Slots == IsFiniteSet(Holders) /\ SlotsConserved

(* The polling thread runs one callback at a time.                            *)
Polling == \A m \in Msgs : callback[m] \in {"store", "signal", "slot", "check"} => poller = m

(* A message whose produce() was not called has no trace of a report.         *)
Unsent(m) ==
  waiter[m] \in {"start", "produce"}
  => /\ callback[m] = "idle" /\ outcome[m] = "none"
     /\ ~delivered[m] /\ ~timedOut[m] /\ ~dispatched[m]

\* The request thread has looked for a timeout, and flagged it.
Flagged == {"flagged", "raceRead", "guessRead", "overwritten"}

Flags(m) ==
  /\ waiter[m] = "wait" => ~timedOut[m]
  /\ waiter[m] \in Flagged => timedOut[m]

(* What outcomes[index] says while the request thread has not overwritten it: *)
(* refused, or in flight, or the verdict.                                     *)
Reported(m) ==
  waiter[m] \in {"wait", "flagged", "raceRead", "guessRead"}
  => /\ callback[m] = "idle" => delivered[m] /\ outcome[m] \in {"error", "overloaded"}
     /\ callback[m] \in {"inflight", "store"} => ~delivered[m] /\ outcome[m] = "none"
     /\ callback[m] = "signal" => ~delivered[m]
     /\ callback[m] \in {"signal", "slot", "check", "end"}
        => (outcome[m] = "none" <=> verdict[m] = "ok")

Verdicts(m) == verdict[m] = "unknown" <=> callback[m] \in {"idle", "inflight"}

(* What the request thread has read: that the report was there, and which.    *)
Race(m) ==
  /\ waiter[m] \in {"raceRead", "guessRead", "overwritten"} /\ raced[m]
     => callback[m] \notin {"inflight", "store", "signal"}
  /\ waiter[m] \in {"guessRead", "overwritten"} /\ raced[m]
     => lateGuess[m] = (verdict[m] = "ok")

(* Who has dispatched, has dispatched the truth.                              *)
Dispatches(m) ==
  /\ ~dispatched[m] => reconciled[m] = <<>>
  /\ dispatched[m] => /\ reconciled[m] = <<verdict[m] = "ok">>
                      /\ callback[m] \notin {"inflight", "store", "signal"}

Life(m) == Unsent(m) /\ Flags(m) /\ Reported(m) /\ Verdicts(m) /\ Race(m) /\ Dispatches(m)

Inv == TypeOK /\ Slots /\ Polling /\ \A m \in Msgs : Life(m)

(***************************************************************************)
(* A step of a message touches nothing of another one.                     *)
(***************************************************************************)
Own(n) ==
  <<waiter[n], callback[n], verdict[n], outcome[n], delivered[n], timedOut[n],
    raced[n], lateGuess[n], dispatched[n], reconciled[n]>>

(* Both threads index every list of the batch by the message at hand.          *)
LEMMA OthersKept ==
  ASSUME TypeOK, NEW m \in Msgs, RequestThread(m) \/ PollThread(m),
         NEW n \in Msgs, n # m
  PROVE  Own(n)' = Own(n)
<1> USE DEF TypeOK, Step, Own, DispatchLate, threadVars, pollVars
<1>1. CASE AcquireSlot(m)
  BY <1>1 DEF AcquireSlot
<1>2. CASE NoSlot(m)
  BY <1>2 DEF NoSlot
<1>3. CASE Produce(m)
  BY <1>3 DEF Produce
<1>4. CASE ProduceRaises(m)
  BY <1>4 DEF ProduceRaises
<1>5. CASE InTime(m)
  BY <1>5 DEF InTime
<1>6. CASE TimesOut(m)
  BY <1>6 DEF TimesOut
<1>7. CASE ReadDelivered(m)
  BY <1>7 DEF ReadDelivered
<1>8. CASE ReadOutcome(m)
  BY <1>8 DEF ReadOutcome
<1>9. CASE StoreUncertain(m)
  BY <1>9 DEF StoreUncertain
<1>10. CASE DispatchIfRaced(m)
  BY <1>10 DEF DispatchIfRaced
<1>11. CASE Classify(m)
  BY <1>11 DEF Classify
<1>12. CASE Report(m)
  BY <1>12 DEF Report
<1>13. CASE StoreError(m)
  BY <1>13 DEF StoreError
<1>14. CASE SignalDelivered(m)
  BY <1>14 DEF SignalDelivered
<1>15. CASE ReleaseSlot(m)
  BY <1>15 DEF ReleaseSlot
<1>16. CASE CheckTimedOut(m)
  BY <1>16 DEF CheckTimedOut
<1>17. QED
  BY <1>1, <1>2, <1>3, <1>4, <1>5, <1>6, <1>7, <1>8, <1>9, <1>10, <1>11, <1>12, <1>13, <1>14, <1>15, <1>16 DEF RequestThread, PollThread







(***************************************************************************)
(* The semaphore.                                                          *)
(***************************************************************************)
(* The capacity splits into the free slots and the finitely many taken ones.   *)
LEMMA SlotsCount == Slots <=> IsFiniteSet(Holders) /\ slots + Cardinality(Holders) = MaxInflight
BY DEF Slots, SlotsConserved, Holders

(* Messages take a slot with produce ahead of them, pass it to the report,    *)
(* and give it back where produce() raises or the report releases it.         *)
LEMMA SlotStep ==
  ASSUME TypeOK, Slots, NEW m \in Msgs, Life(m), RequestThread(m) \/ PollThread(m)
  PROVE  Slots'
<1>0. /\ slots \in Nat /\ IsFiniteSet(Holders) /\ Cardinality(Holders) \in Nat
      /\ slots + Cardinality(Holders) = MaxInflight /\ MaxInflight \in Nat
  BY SlotsCount, FS_CardinalityType, DispatcherAssumption DEF TypeOK
<1> USE DEF TypeOK, Step, HoldsSlot, threadVars, pollVars
<1>a. ASSUME IsFiniteSet(Holders'), slots' + Cardinality(Holders') = MaxInflight PROVE Slots'
  BY <1>a DEF Slots, SlotsConserved, Holders
<1>1. CASE AcquireSlot(m)
  <2>1. Holders' = Holders \cup {m} /\ m \notin Holders /\ slots' = slots - 1
    BY <1>1 DEF AcquireSlot, Life, Unsent, Holders
  <2>2. IsFiniteSet(Holders') /\ Cardinality(Holders') = Cardinality(Holders) + 1
    BY <1>0, <2>1, FS_AddElement
  <2>3. QED
    BY <1>0, <2>1, <2>2, <1>a
<1>2. CASE ProduceRaises(m) \/ ReleaseSlot(m)
  <2>1. Holders' = Holders \ {m} /\ m \in Holders /\ slots' = slots + 1
    BY <1>2 DEF ProduceRaises, ReleaseSlot, Life, Unsent, Holders
  <2>2. IsFiniteSet(Holders') /\ Cardinality(Holders') = Cardinality(Holders) - 1
    BY <1>0, <2>1, FS_RemoveElement
  <2>3. QED
    BY <1>0, <2>1, <2>2, <1>a
<1>3. ASSUME Holders' = Holders, slots' = slots PROVE Slots'
  BY <1>0, <1>3, <1>a
<1>4. CASE NoSlot(m)
  BY <1>4, <1>3 DEF NoSlot, Holders
<1>5. CASE Produce(m)
  BY <1>5, <1>3 DEF Produce, Holders
<1>6. CASE InTime(m)
  BY <1>6, <1>3 DEF InTime, Holders
<1>7. CASE TimesOut(m)
  BY <1>7, <1>3 DEF TimesOut, Holders
<1>8. CASE ReadDelivered(m)
  BY <1>8, <1>3 DEF ReadDelivered, Holders
<1>9. CASE ReadOutcome(m)
  BY <1>9, <1>3 DEF ReadOutcome, Holders
<1>10. CASE StoreUncertain(m)
  BY <1>10, <1>3 DEF StoreUncertain, Holders
<1>11. CASE DispatchIfRaced(m)
  BY <1>11, <1>3 DEF DispatchIfRaced, Holders
<1>12. CASE Classify(m)
  BY <1>12, <1>3 DEF Classify, Holders
<1>13. CASE Report(m)
  BY <1>13, <1>3 DEF Report, Holders
<1>14. CASE StoreError(m)
  BY <1>14, <1>3 DEF StoreError, Holders
<1>15. CASE SignalDelivered(m)
  BY <1>15, <1>3 DEF SignalDelivered, Holders
<1>16. CASE CheckTimedOut(m)
  BY <1>16, <1>3 DEF CheckTimedOut, Holders
<1>17. QED
  BY <1>1, <1>2, <1>4, <1>5, <1>6, <1>7, <1>8, <1>9, <1>10, <1>11, <1>12, <1>13, <1>14, <1>15, <1>16 DEF RequestThread, PollThread

(***************************************************************************)
(* Types.                                                                  *)
(***************************************************************************)
(* Reconciliation is handed truth values.                                      *)
LEMMA DispatchTyped ==
  ASSUME TypeOK, NEW m \in Msgs, NEW b \in BOOLEAN, DispatchLate(m, b)
  PROVE  dispatched' \in [Msgs -> BOOLEAN] /\ reconciled' \in [Msgs -> Seq(BOOLEAN)]
BY DEF TypeOK, DispatchLate

(* The semaphore bounds its own counter; everything else is read off the code. *)
LEMMA TypeStep ==
  ASSUME TypeOK, Slots', NEW m \in Msgs, RequestThread(m) \/ PollThread(m)
  PROVE  TypeOK'
<1> USE DEF TypeOK, Step, Waiters, Callbacks, Outcomes, threadVars, pollVars
<1>0. ASSUME slots' \in Nat PROVE slots' \in 0..MaxInflight
  <2>1. IsFiniteSet(Holders') /\ slots' + Cardinality(Holders') = MaxInflight
    BY DEF Slots, SlotsConserved, Holders
  <2>2. Cardinality(Holders') \in Nat
    BY <2>1, FS_CardinalityType
  <2>3. QED
    BY <1>0, <2>1, <2>2, DispatcherAssumption
<1>1. CASE AcquireSlot(m)
  BY <1>0, <1>1 DEF AcquireSlot
<1>2. CASE NoSlot(m)
  BY <1>0, <1>2 DEF NoSlot
<1>3. CASE Produce(m)
  BY <1>0, <1>3 DEF Produce
<1>4. CASE ProduceRaises(m)
  BY <1>0, <1>4 DEF ProduceRaises
<1>5. CASE InTime(m)
  BY <1>0, <1>5 DEF InTime
<1>6. CASE TimesOut(m)
  BY <1>0, <1>6 DEF TimesOut
<1>7. CASE ReadDelivered(m)
  BY <1>0, <1>7 DEF ReadDelivered
<1>8. CASE ReadOutcome(m)
  BY <1>0, <1>8 DEF ReadOutcome
<1>9. CASE StoreUncertain(m)
  BY <1>0, <1>9 DEF StoreUncertain
<1>10. CASE DispatchIfRaced(m)
  <2>1. dispatched' \in [Msgs -> BOOLEAN] /\ reconciled' \in [Msgs -> Seq(BOOLEAN)]
    <3>1. CASE raced[m]
      <4>1. (lateGuess[m]) \in BOOLEAN
        OBVIOUS
      <4>2. DispatchLate(m, lateGuess[m])
        BY <1>10, <3>1 DEF DispatchIfRaced
      <4>3. QED
        BY <4>1, <4>2, DispatchTyped
    <3>2. CASE ~raced[m]
      BY <1>10, <3>2 DEF DispatchIfRaced
    <3>3. QED
      BY <3>1, <3>2
  <2>2. QED
    BY <1>0, <1>10, <2>1 DEF DispatchIfRaced
<1>11. CASE Classify(m)
  BY <1>0, <1>11 DEF Classify
<1>12. CASE Report(m)
  BY <1>0, <1>12 DEF Report
<1>13. CASE StoreError(m)
  BY <1>0, <1>13 DEF StoreError
<1>14. CASE SignalDelivered(m)
  BY <1>0, <1>14 DEF SignalDelivered
<1>15. CASE ReleaseSlot(m)
  BY <1>0, <1>15 DEF ReleaseSlot
<1>16. CASE CheckTimedOut(m)
  <2>1. dispatched' \in [Msgs -> BOOLEAN] /\ reconciled' \in [Msgs -> Seq(BOOLEAN)]
    <3>1. CASE timedOut[m]
      <4>1. (verdict[m] = "ok") \in BOOLEAN
        OBVIOUS
      <4>2. DispatchLate(m, verdict[m] = "ok")
        BY <1>16, <3>1 DEF CheckTimedOut
      <4>3. QED
        BY <4>1, <4>2, DispatchTyped
    <3>2. CASE ~timedOut[m]
      BY <1>16, <3>2 DEF CheckTimedOut
    <3>3. QED
      BY <3>1, <3>2
  <2>2. QED
    BY <1>0, <1>16, <2>1 DEF CheckTimedOut
<1>17. QED
  BY <1>1, <1>2, <1>3, <1>4, <1>5, <1>6, <1>7, <1>8, <1>9, <1>10, <1>11, <1>12, <1>13, <1>14, <1>15, <1>16 DEF RequestThread, PollThread

(***************************************************************************)
(* The life of a message.                                                  *)
(***************************************************************************)
(* What one thread has read of a message stays true under the other thread.   *)
LEMMA LifeStep ==
  ASSUME TypeOK, NEW m \in Msgs, Life(m), RequestThread(m) \/ PollThread(m)
  PROVE  Life(m)'
<1> USE DEF TypeOK, Step, DispatchLate, Flagged, Life, Unsent, Flags, Reported, Verdicts, Race,
            Dispatches, threadVars, pollVars
<1>1. CASE AcquireSlot(m)
  BY <1>1 DEF AcquireSlot
<1>2. CASE NoSlot(m)
  BY <1>2 DEF NoSlot
<1>3. CASE Produce(m)
  BY <1>3 DEF Produce
<1>4. CASE ProduceRaises(m)
  BY <1>4 DEF ProduceRaises
<1>5. CASE InTime(m)
  BY <1>5 DEF InTime
<1>6. CASE TimesOut(m)
  BY <1>6 DEF TimesOut
<1>7. CASE ReadDelivered(m)
  BY <1>7 DEF ReadDelivered
<1>8. CASE ReadOutcome(m)
  <2>1. lateGuess'[m] = (outcome[m] = "none")
    BY <1>8, Zenon DEF ReadOutcome
  <2>2. /\ waiter[m] = "raceRead"
        /\ waiter'[m] = "guessRead"
        /\ UNCHANGED <<raced[m], callback, verdict, outcome, delivered, timedOut, dispatched, reconciled>>
    BY <1>8 DEF ReadOutcome
  <2>3. raced[m] => (outcome[m] = "none" <=> verdict[m] = "ok")
    BY <2>2 DEF Callbacks
  <2>4. raced[m] => lateGuess'[m] = (verdict[m] = "ok")
    BY <2>1, <2>3
  <2>5. QED
    BY <2>2, <2>4
<1>9. CASE StoreUncertain(m)
  BY <1>9 DEF StoreUncertain
<1>10. CASE DispatchIfRaced(m)
  BY <1>10 DEF DispatchIfRaced
<1>11. CASE Classify(m)
  BY <1>11 DEF Classify
<1>12. CASE Report(m)
  BY <1>12 DEF Report
<1>13. CASE StoreError(m)
  BY <1>13 DEF StoreError
<1>14. CASE SignalDelivered(m)
  BY <1>14 DEF SignalDelivered
<1>15. CASE ReleaseSlot(m)
  BY <1>15 DEF ReleaseSlot
<1>16. CASE CheckTimedOut(m)
  BY <1>16 DEF CheckTimedOut
<1>17. QED
  BY <1>1, <1>2, <1>3, <1>4, <1>5, <1>6, <1>7, <1>8, <1>9, <1>10, <1>11, <1>12, <1>13, <1>14, <1>15, <1>16 DEF RequestThread, PollThread

(* Only the polling thread moves a callback beyond its message's delivery.    *)
LEMMA PollingStep ==
  ASSUME TypeOK, Polling, \A n \in Msgs : Life(n), NEW m \in Msgs, RequestThread(m) \/ PollThread(m)
  PROVE  Polling'
<1> USE DEF TypeOK, Polling, Step, threadVars, pollVars
<1>1. CASE AcquireSlot(m)
  BY <1>1 DEF AcquireSlot
<1>2. CASE NoSlot(m)
  BY <1>2 DEF NoSlot
<1>3. CASE Produce(m)
  BY <1>3 DEF Produce, Life, Unsent
<1>4. CASE ProduceRaises(m)
  BY <1>4 DEF ProduceRaises
<1>5. CASE InTime(m)
  BY <1>5 DEF InTime
<1>6. CASE TimesOut(m)
  BY <1>6 DEF TimesOut
<1>7. CASE ReadDelivered(m)
  BY <1>7 DEF ReadDelivered
<1>8. CASE ReadOutcome(m)
  BY <1>8 DEF ReadOutcome
<1>9. CASE StoreUncertain(m)
  BY <1>9 DEF StoreUncertain
<1>10. CASE DispatchIfRaced(m)
  BY <1>10 DEF DispatchIfRaced, DispatchLate
<1>11. CASE Classify(m)
  BY <1>11 DEF Classify
<1>12. CASE Report(m)
  BY <1>12, DispatcherAssumption DEF Report
<1>13. CASE StoreError(m)
  BY <1>13 DEF StoreError
<1>14. CASE SignalDelivered(m)
  BY <1>14 DEF SignalDelivered
<1>15. CASE ReleaseSlot(m)
  BY <1>15 DEF ReleaseSlot
<1>16. CASE CheckTimedOut(m)
  BY <1>16 DEF CheckTimedOut, DispatchLate
<1>17. QED
  BY <1>1, <1>2, <1>3, <1>4, <1>5, <1>6, <1>7, <1>8, <1>9, <1>10, <1>11, <1>12, <1>13, <1>14, <1>15, <1>16 DEF RequestThread, PollThread

(***************************************************************************)
(* The inductive invariant.                                                *)
(***************************************************************************)
(* No message has a slot, a timeout or a report before the batch is handed in. *)
LEMMA InvInit == Init => Inv
<1> SUFFICES ASSUME Init PROVE Inv
  OBVIOUS
<1> USE DEF Init
<1>1. TypeOK
  BY DispatcherAssumption DEF TypeOK, Waiters, Callbacks, Outcomes
<1>2. Slots
  <2>1. Holders = {}
    BY DEF Holders, HoldsSlot
  <2>2. QED
    BY <2>1, FS_EmptySet, SlotsCount, DispatcherAssumption
<1>3. Polling /\ \A m \in Msgs : Life(m)
  BY DEF Polling, Life, Unsent, Flags, Flagged, Reported, Verdicts, Race, Dispatches
<1>4. QED
  BY <1>1, <1>2, <1>3 DEF Inv

(* One message moves; the rest are as they were.                               *)
LEMMA InvStep == Inv /\ [Next]_vars => Inv'
<1> SUFFICES ASSUME Inv, [Next]_vars PROVE Inv'
  OBVIOUS
<1>1. CASE UNCHANGED vars
  BY <1>1 DEF Inv, TypeOK, Slots, SlotsConserved, Holders, HoldsSlot, Polling, Life, Unsent, Flags,
     Reported, Verdicts, Race, Dispatches, vars, threadVars, pollVars
<1>2. ASSUME NEW m \in Msgs, RequestThread(m) \/ PollThread(m) PROVE Inv'
  <2>1. Slots' /\ TypeOK' /\ Polling'
    BY <1>2, SlotStep, TypeStep, PollingStep DEF Inv
  <2>2. Life(m)'
    BY <1>2, LifeStep DEF Inv
  <2>3. ASSUME NEW n \in Msgs, n # m PROVE Life(n)'
    <3>1. Own(n)' = Own(n) /\ Life(n)
      BY <1>2, <2>3, OthersKept DEF Inv
    <3>2. QED
      BY <3>1 DEF Own, Life, Unsent, Flags, Reported, Verdicts, Race, Dispatches
  <2>4. QED
    BY <2>1, <2>2, <2>3 DEF Inv
<1>3. QED
  BY <1>1, <1>2 DEF Next

(* So the invariant holds of every run of the two threads.                     *)
LEMMA InvariantHolds == Spec => []Inv
<1>1. QED
  BY InvInit, InvStep, PTL DEF Spec

(* The variables of publish_batch_and_wait keep their types; the free slots   *)
(* stay between zero and the capacity of the semaphore.                       *)
THEOREM Typed == Spec => []TypeOK
<1>1. Inv => TypeOK
  BY DEF Inv
<1>2. QED
  BY <1>1, InvariantHolds, PTL

(* _inflight_slots neither leaks nor overflows, whichever of the two threads  *)
(* gives the slot back and whether the report comes before the timeout, after *)
(* it or never.                                                               *)
THEOREM SlotsAreConserved == Spec => []SlotsConserved
<1>1. Inv => SlotsConserved
  BY DEF Inv, Slots
<1>2. QED
  BY <1>1, InvariantHolds, PTL

(* dispatch_late hands at most one verdict of a message to reconciliation,    *)
(* and the broker's, though the waiting thread guesses it from outcomes[index] *)
(* and the polling thread knows it.                                           *)
THEOREM ReconciledAtMostOnce == Spec => []ReconciledOnce
<1>1. ASSUME Inv, NEW m \in Msgs
      PROVE  /\ Len(reconciled[m]) <= 1
             /\ \A i \in DOMAIN reconciled[m] : reconciled[m][i] = (verdict[m] = "ok")
  <2>1. CASE dispatched[m]
    <3>1. ASSUME NEW b, reconciled[m] = <<b>>
          PROVE  Len(reconciled[m]) <= 1 /\ \A i \in DOMAIN reconciled[m] : reconciled[m][i] = b
      BY <3>1
    <3>2. reconciled[m] = <<verdict[m] = "ok">>
      BY <1>1, <2>1 DEF Inv, Life, Dispatches
    <3>3. QED
      BY <3>1, <3>2, Zenon
  <2>2. CASE ~dispatched[m]
    BY <1>1, <2>2 DEF Inv, Life, Dispatches
  <2>3. QED
    BY <2>1, <2>2
<1>2. Inv => ReconciledOnce
  BY <1>1 DEF ReconciledOnce
<1>3. QED
  BY <1>2, InvariantHolds, PTL
==============================================================================
