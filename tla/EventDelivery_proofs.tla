------------------------ MODULE EventDelivery_proofs ------------------------
(***************************************************************************)
(* Proofs about the delivery of events, for any events, any length of the  *)
(* partition and any number of restarts and rebalances.                    *)
(***************************************************************************)
EXTENDS EventDelivery, FiniteSetTheorems, TLAPS

Bounds == MaxStored \in Nat /\ MaxResumptions \in Nat

\* Only messages that are stored have a handler; those before the committed
\* offset have been marked; those past the counting have been counted.
HandlingInv ==
  \A n \in 1..MaxStored :
    /\ handling[n] # "waiting" => n \in DOMAIN partition
    /\ n <= committed => handling[n] = "marked"
    /\ handling[n] \in {"counted", "marked"} => n \in counted

IInv == TypeOK /\ HandlingInv

LEMMA InitInv == ASSUME Bounds PROVE Init => IInv
<1> SUFFICES ASSUME Init PROVE IInv
  OBVIOUS
<1> USE DEF Init, Bounds, Nothing
<1>1. partition \in Seq(Events) /\ Len(partition) = 0
  OBVIOUS
<1>2. TypeOK
  <2>1. handling \in [1..MaxStored -> Stages]
    BY DEF Stages
  <2>2. committed \in 0..Len(partition) /\ first \in 0..committed /\ resumptions \in 0..MaxResumptions
    BY <1>1
  <2>3. outbox \in SUBSET Events /\ counted \subseteq 1..Len(partition) /\ redelivered \in BOOLEAN
    OBVIOUS
  <2>4. Len(partition) <= MaxStored /\ successful \in Nat /\ unsuccessful \in Nat
    BY <1>1
  <2> QED
    BY <1>1, <2>1, <2>2, <2>3, <2>4 DEF TypeOK
<1>3. HandlingInv
  BY DEF HandlingInv
<1> QED
  BY <1>2, <1>3 DEF IInv

\* Sending and storing events leaves the handlers alone.
LEMMA StoreInv ==
  ASSUME Bounds, IInv, NEW e \in Events,
         ConsumeMessage(e) \/ Store(e, TRUE) \/ Store(e, FALSE) \/ EndRequestWithError(e)
  PROVE  IInv'
<1> USE DEF IInv, Bounds, TypeOK, counters, topic
<1>1. CASE ConsumeMessage(e) \/ EndRequestWithError(e)
  BY <1>1 DEF ConsumeMessage, EndRequestWithError, HandlingInv
<1>2. CASE Store(e, TRUE) \/ Store(e, FALSE)
  <2>1. /\ partition' = Append(partition, e) /\ Len(partition) < MaxStored
        /\ outbox' \subseteq outbox
        /\ UNCHANGED <<committed, first, handling, counters, counted, resumptions, redelivered>>
    BY <1>2 DEF Store
  <2>2. partition' \in Seq(Events) /\ Len(partition') = Len(partition) + 1
    BY <2>1
  <2>3. 1..Len(partition) \subseteq 1..Len(partition')
    BY <2>2
  <2>4. TypeOK'
    BY <2>1, <2>2, <2>3
  <2>5. DOMAIN partition \subseteq DOMAIN partition'
    BY <2>2, <2>3
  <2>6. HandlingInv'
    BY <2>1, <2>5 DEF HandlingInv
  <2> QED
    BY <2>4, <2>6
<1> QED
  BY <1>1, <1>2

LEMMA HandleInv ==
  ASSUME Bounds, IInv, NEW n \in 1..MaxStored, Handle(n)
  PROVE  IInv'
<1> USE DEF IInv, Bounds, TypeOK, Stages, counters, topic
<1>1. CASE Deliver(n)
  <2>1. /\ n \in DOMAIN partition /\ n > committed /\ handling[n] = "waiting"
        /\ handling' = [handling EXCEPT ![n] = "delivered"]
        /\ UNCHANGED <<topic, committed, first, counters, counted, resumptions, redelivered>>
    BY <1>1 DEF Deliver, Advance
  <2>2. TypeOK'
    BY <2>1
  <2>3. HandlingInv'
    BY <2>1 DEF HandlingInv
  <2> QED
    BY <2>2, <2>3
<1>2. CASE Count(n)
  <2>1. /\ n \in DOMAIN partition /\ handling[n] = "delivered"
        /\ handling' = [handling EXCEPT ![n] = "counted"]
        /\ counted' = counted \cup {n}
        /\ UNCHANGED <<topic, committed, first, resumptions, redelivered>>
    BY <1>2 DEF Count, Advance
  <2>2. successful' \in Nat /\ unsuccessful' \in Nat
    BY <1>2 DEF Count
  <2>3. TypeOK'
    BY <2>1, <2>2
  <2>4. HandlingInv'
    BY <2>1 DEF HandlingInv
  <2> QED
    BY <2>3, <2>4
<1>3. CASE Mark(n)
  <2>1. /\ handling[n] = "counted"
        /\ handling' = [handling EXCEPT ![n] = "marked"]
        /\ UNCHANGED <<topic, committed, first, counters, counted, resumptions, redelivered>>
    BY <1>3 DEF Mark, Advance
  <2>2. TypeOK'
    BY <2>1
  <2>3. HandlingInv'
    BY <2>1 DEF HandlingInv
  <2> QED
    BY <2>2, <2>3
<1>4. CASE Commit(n)
  <2>1. /\ n \in DOMAIN partition /\ n > committed /\ committed' = n
        /\ \A k \in (committed + 1)..n : handling[k] = "marked"
        /\ UNCHANGED <<topic, first, handling, counters, counted, resumptions, redelivered>>
    BY <1>4 DEF Commit
  <2>2. TypeOK'
    BY <2>1
  <2>3. \A k \in 1..MaxStored : k <= committed' => handling'[k] = "marked"
    <3>1. ASSUME NEW k \in 1..MaxStored, k <= n PROVE handling[k] = "marked"
      <4>1. k <= committed \/ k \in (committed + 1)..n
        BY <3>1
      <4> QED
        BY <4>1, <2>1 DEF HandlingInv
    <3> QED
      BY <3>1, <2>1
  <2>4. HandlingInv'
    BY <2>1, <2>3 DEF HandlingInv
  <2> QED
    BY <2>2, <2>4
<1> QED
  BY <1>1, <1>2, <1>3, <1>4 DEF Handle

\* Delivery resumes behind what is committed.
LEMMA ResumeInv ==
  ASSUME Bounds, IInv, Restart \/ Rebalance
  PROVE  IInv'
<1> USE DEF IInv, Bounds, TypeOK, Stages, counters, topic
<1>1. /\ resumptions < MaxResumptions /\ resumptions' = resumptions + 1
      /\ handling' = [k \in 1..MaxStored |-> IF k > committed THEN "waiting" ELSE handling[k]]
      /\ UNCHANGED <<topic, committed, counted>>
  BY DEF Restart, Rebalance, Resume
<1>2. /\ first' \in 0..committed' /\ redelivered' \in BOOLEAN
      /\ successful' \in Nat /\ unsuccessful' \in Nat
  <2>1. CASE Restart
    <3>1. first' = committed /\ redelivered' = FALSE /\ successful' = 0 /\ unsuccessful' = 0
      BY <2>1 DEF Restart
    <3>2. committed' = committed /\ committed \in Nat
      BY <1>1
    <3>3. redelivered' \in BOOLEAN
      BY <3>1
    <3> QED
      BY <3>1, <3>2, <3>3
  <2>2. CASE Rebalance
    BY <1>1, <2>2 DEF Rebalance
  <2> QED
    BY <2>1, <2>2
<1>3. TypeOK'
  BY <1>1, <1>2
<1>4. HandlingInv'
  BY <1>1 DEF HandlingInv
<1> QED
  BY <1>3, <1>4

LEMMA NextInv == ASSUME Bounds PROVE IInv /\ [Next]_vars => IInv'
<1> SUFFICES ASSUME IInv, [Next]_vars PROVE IInv'
  OBVIOUS
<1>1. CASE UNCHANGED vars
  BY <1>1 DEF IInv, TypeOK, HandlingInv, vars, counters
<1>2. CASE \E e \in Events :
             ConsumeMessage(e) \/ Store(e, TRUE) \/ Store(e, FALSE) \/ EndRequestWithError(e)
  BY <1>2, StoreInv
<1>3. CASE \E n \in 1..MaxStored : Handle(n)
  BY <1>3, HandleInv
<1>4. CASE Restart \/ Rebalance
  BY <1>4, ResumeInv
<1> QED
  BY <1>1, <1>2, <1>3, <1>4 DEF Next, Step

LEMMA SpecInv == ASSUME Bounds PROVE Spec => []IInv
<1>1. Init => IInv
  BY InitInv
<1>2. IInv /\ [Next]_vars => IInv'
  BY NextInv
<1> QED
  BY <1>1, <1>2, PTL DEF Spec

\* Type correctness of the delivery, whatever is lost, repeated or restarted.
THEOREM DeliveryTypeCorrect == ASSUME Bounds PROVE Spec => []TypeOK
<1>1. IInv => TypeOK
  BY DEF IInv
<1> QED
  BY <1>1, SpecInv, PTL

\* A message that will not be delivered again has been counted: no restart or
\* rebalance between the counting, the marking and the commit loses one.
THEOREM CommittedAreCounted == ASSUME Bounds PROVE Spec => []CommittedWereCounted
<1>1. ASSUME IInv PROVE CommittedWereCounted
  <2>1. 1..committed \subseteq 1..MaxStored
    BY <1>1 DEF IInv, TypeOK, Bounds
  <2> QED
    BY <1>1, <2>1 DEF IInv, HandlingInv, CommittedWereCounted
<1> QED
  BY <1>1, SpecInv, PTL

-----------------------------------------------------------------------------
(* The counters *)

\* A set of handled messages is finite, and one more or fewer of them changes
\* its cardinality as expected.
LEMMA HandledIsFinite ==
  ASSUME IInv, NEW S
  PROVE  IsFiniteSet(PassedIn(S)) /\ Cardinality(PassedIn(S)) \in Nat
<1>1. PassedIn(S) \subseteq 1..Len(partition) /\ Len(partition) \in Nat
  BY DEF PassedIn, IInv, TypeOK
<1>2. IsFiniteSet(1..Len(partition))
  BY <1>1, FS_Interval
<1>3. IsFiniteSet(PassedIn(S))
  BY <1>1, <1>2, FS_Subset
<1> QED
  BY <1>3, FS_CardinalityType

\* A step that neither stores, counts nor resumes leaves what has been handled.
LEMMA StoredKeepsHandled ==
  ASSUME Bounds, IInv, NEW S, NEW e \in Events, Len(partition) < MaxStored,
         partition' = Append(partition, e), UNCHANGED <<first, handling>>
  PROVE  PassedIn(S)' = PassedIn(S)
<1>1. partition \in Seq(Events) /\ handling[Len(partition) + 1] = "waiting"
  BY DEF IInv, TypeOK, HandlingInv, Bounds
<1>2. DOMAIN partition' = DOMAIN partition \cup {Len(partition) + 1}
  BY <1>1
<1>3. \A n \in DOMAIN partition : partition'[n] = partition[n]
  BY <1>1
<1> QED
  BY <1>1, <1>2, <1>3 DEF PassedIn, Passed

LEMMA CountAddsOne ==
  ASSUME Bounds, IInv, NEW n \in 1..MaxStored, Count(n), NEW S
  PROVE  /\ partition[n] \in S =>
              Cardinality(PassedIn(S)') = Cardinality(PassedIn(S)) + 1
         /\ partition[n] \notin S => PassedIn(S)' = PassedIn(S)
<1>1. /\ n \in DOMAIN partition /\ handling[n] = "delivered"
      /\ handling' = [handling EXCEPT ![n] = "counted"]
      /\ UNCHANGED <<partition, first>>
  BY DEF Count, Advance, topic
<1>2. n > first /\ n \notin PassedIn(S)
  BY <1>1 DEF IInv, TypeOK, HandlingInv, PassedIn, Passed
<1>3. \A k \in DOMAIN partition : Passed(k)' <=> k = n \/ Passed(k)
  BY <1>1, <1>2 DEF IInv, TypeOK, Passed
<1>4. CASE partition[n] \in S
  <2>1. PassedIn(S)' = PassedIn(S) \cup {n}
    BY <1>1, <1>3, <1>4 DEF PassedIn
  <2> QED
    BY <1>2, <1>4, <2>1, HandledIsFinite, FS_AddElement
<1>5. CASE partition[n] \notin S
  BY <1>1, <1>3, <1>5 DEF PassedIn
<1> QED
  BY <1>4, <1>5

CounterInv == IInv /\ CountersMatchDeliveries

LEMMA CountersHold == ASSUME Bounds PROVE CounterInv /\ [Next]_vars => CounterInv'
<1> SUFFICES ASSUME CounterInv, [Next]_vars PROVE CounterInv'
  OBVIOUS
<1> DEFINE others == Events \ Confirmed
<1> USE DEF CounterInv
<1>0. IInv'
  BY NextInv
<1>1. CASE /\ UNCHANGED <<successful, unsuccessful, redelivered>>
           /\ PassedIn(Confirmed)' = PassedIn(Confirmed)
           /\ PassedIn(others)' = PassedIn(others)
  BY <1>0, <1>1 DEF CountersMatchDeliveries
<1>2. CASE UNCHANGED <<partition, first, handling, successful, unsuccessful, redelivered>>
  BY <1>1, <1>2 DEF PassedIn, Passed
<1>3. CASE UNCHANGED vars
  BY <1>2, <1>3 DEF vars
<1>4. ASSUME NEW e \in Events, ConsumeMessage(e) \/ EndRequestWithError(e)
      PROVE  CounterInv'
  BY <1>2, <1>4 DEF ConsumeMessage, EndRequestWithError, counters
<1>5. ASSUME NEW e \in Events, Store(e, TRUE) \/ Store(e, FALSE)
      PROVE  CounterInv'
  <2>1. /\ Len(partition) < MaxStored /\ partition' = Append(partition, e)
        /\ UNCHANGED <<first, handling>>
        /\ UNCHANGED <<successful, unsuccessful, redelivered>>
    BY <1>5 DEF Store, counters
  <2>2. PassedIn(Confirmed)' = PassedIn(Confirmed) /\ PassedIn(others)' = PassedIn(others)
    BY <2>1, StoredKeepsHandled
  <2> QED
    BY <1>1, <2>1, <2>2
<1>6. ASSUME NEW n \in 1..MaxStored, Handle(n)
      PROVE  CounterInv'
  <2>1. CASE Commit(n)
    BY <1>2, <2>1 DEF Commit, topic, counters
  <2>2. CASE Deliver(n) \/ Mark(n)
    <3>1. /\ UNCHANGED <<partition, first, successful, unsuccessful, redelivered>>
          /\ \A k \in 1..MaxStored : Passed(k)' <=> Passed(k)
      BY <2>2 DEF Deliver, Mark, Advance, topic, counters, IInv, TypeOK, Passed
    <3>2. DOMAIN partition \subseteq 1..MaxStored
      BY DEF IInv, TypeOK, Bounds
    <3>3. \A S : PassedIn(S)' = PassedIn(S)
      BY <3>1, <3>2 DEF PassedIn
    <3> QED
      BY <1>1, <3>1, <3>3
  <2>3. CASE Count(n)
    <3>1. partition[n] \in Events /\ UNCHANGED redelivered
      BY <2>3 DEF Count, IInv, TypeOK
    <3>2. CASE partition[n] \in Confirmed
      <4>1. successful' = successful + 1 /\ unsuccessful' = unsuccessful
        BY <2>3, <3>2 DEF Count
      <4>2. Cardinality(PassedIn(Confirmed)') = Cardinality(PassedIn(Confirmed)) + 1
        BY <2>3, <3>2, CountAddsOne
      <4>3. PassedIn(others)' = PassedIn(others)
        BY <2>3, <3>2, CountAddsOne
      <4>4. successful \in Nat /\ Cardinality(PassedIn(Confirmed)) \in Nat
        BY HandledIsFinite DEF IInv, TypeOK
      <4> QED
        BY <1>0, <3>1, <4>1, <4>2, <4>3, <4>4 DEF CountersMatchDeliveries
    <3>3. CASE partition[n] \notin Confirmed
      <4>1. unsuccessful' = unsuccessful + 1 /\ successful' = successful
        BY <2>3, <3>3 DEF Count
      <4>2. Cardinality(PassedIn(others)') = Cardinality(PassedIn(others)) + 1
        BY <2>3, <3>1, <3>3, CountAddsOne
      <4>3. PassedIn(Confirmed)' = PassedIn(Confirmed)
        BY <2>3, <3>3, CountAddsOne
      <4>4. unsuccessful \in Nat /\ Cardinality(PassedIn(others)) \in Nat
        BY HandledIsFinite DEF IInv, TypeOK
      <4> QED
        BY <1>0, <3>1, <4>1, <4>2, <4>3, <4>4 DEF CountersMatchDeliveries
    <3> QED
      BY <3>2, <3>3
  <2> QED
    BY <1>6, <2>1, <2>2, <2>3 DEF Handle
<1>7. CASE Restart
  <2>1. successful' = 0 /\ unsuccessful' = 0 /\ first' = committed /\ partition' = partition
    BY <1>7 DEF Restart, Resume, topic
  <2>2. handling' = [k \in 1..MaxStored |-> IF k > committed THEN "waiting" ELSE handling[k]]
    BY <1>7 DEF Restart, Resume
  <2>3. DOMAIN partition \subseteq 1..MaxStored
    BY DEF IInv, TypeOK, Bounds
  <2>4. \A k \in DOMAIN partition : ~Passed(k)'
    BY <2>1, <2>2, <2>3 DEF Passed
  <2>5. PassedIn(Confirmed)' = {} /\ PassedIn(others)' = {}
    BY <2>1, <2>4 DEF PassedIn
  <2>6. Cardinality({}) = 0
    BY FS_EmptySet
  <2> QED
    BY <1>0, <2>1, <2>5, <2>6 DEF CountersMatchDeliveries
<1>8. CASE Rebalance
  <2>1. UNCHANGED <<first, partition, successful, unsuccessful>> /\ redelivered' = TRUE
    BY <1>8 DEF Rebalance, Resume, topic, counters
  <2>2. handling' = [k \in 1..MaxStored |-> IF k > committed THEN "waiting" ELSE handling[k]]
    BY <1>8 DEF Rebalance, Resume
  <2>3. DOMAIN partition \subseteq 1..MaxStored
    BY DEF IInv, TypeOK, Bounds
  <2>4. \A k \in DOMAIN partition : Passed(k)' => Passed(k)
    BY <2>1, <2>2, <2>3 DEF Passed
  <2>5. PassedIn(Confirmed)' \subseteq PassedIn(Confirmed) /\ PassedIn(others)' \subseteq PassedIn(others)
    BY <2>1, <2>4 DEF PassedIn
  <2>6. /\ Cardinality(PassedIn(Confirmed)') <= Cardinality(PassedIn(Confirmed))
        /\ Cardinality(PassedIn(others)') <= Cardinality(PassedIn(others))
    BY <2>5, HandledIsFinite, FS_Subset
  <2>7. /\ Cardinality(PassedIn(Confirmed)') \in Nat /\ Cardinality(PassedIn(Confirmed)) \in Nat
        /\ Cardinality(PassedIn(others)') \in Nat /\ Cardinality(PassedIn(others)) \in Nat
    BY <2>5, HandledIsFinite, FS_Subset, FS_CardinalityType
  <2>8. successful \in Nat /\ unsuccessful \in Nat
    BY DEF IInv, TypeOK
  <2> QED
    BY <1>0, <2>1, <2>6, <2>7, <2>8 DEF CountersMatchDeliveries
<1> QED
  BY <1>3, <1>4, <1>5, <1>6, <1>7, <1>8 DEF Next, Step

\* The counters are exact until a rebalance redelivers, and never too low:
\* nothing is counted twice, missed, or under the wrong status.
THEOREM CountersAreExact == ASSUME Bounds PROVE Spec => []CountersMatchDeliveries
<1>1. Init => CounterInv
  <2> SUFFICES ASSUME Init PROVE CounterInv
    OBVIOUS
  <2>1. PassedIn(Confirmed) = {} /\ PassedIn(Events \ Confirmed) = {}
    BY DEF Init, PassedIn
  <2>2. Cardinality({}) = 0 /\ successful = 0 /\ unsuccessful = 0
    BY FS_EmptySet DEF Init
  <2>3. CountersMatchDeliveries
    BY <2>1, <2>2 DEF CountersMatchDeliveries
  <2> QED
    BY <2>3, InitInv DEF CounterInv
<1>2. CounterInv /\ [Next]_vars => CounterInv'
  BY CountersHold
<1>3. CounterInv => CountersMatchDeliveries
  BY DEF CounterInv
<1> QED
  BY <1>1, <1>2, <1>3, PTL DEF Spec
=============================================================================
