------------------------- MODULE BoundedQueueProofs -------------------------
(***************************************************************************)
(* BoundedQueue, for any finite sets of producers and consumers, any       *)
(* constructor argument and any number of values: no value is lost or      *)
(* duplicated, no wake-up is lost, a worker leaves only a drained queue,   *)
(* and the queue implements the channel of module WorkChannel.             *)
(***************************************************************************)
EXTENDS BoundedQueue, FiniteSetTheorems, SequenceTheorems, TLAPS

(* A thread that has not returned from push() still has a value to push. *)
CallsLeft == \A p \in Producers : pc[p] \in {"push", "wait"} => sent[p] < Items

(* push() never lets the queue outgrow its capacity. *)
WithinBound == Len(queue) <= Bound

(* closed_ is set by the first step of close() and never reset. *)
ClosedByOwner == closed <=> owner # "open"

(* The two invariants about lost wake-ups need no strengthening beyond     *)
(* ClosedByOwner; the type invariant needs CallsLeft.                      *)
IInv ==
    /\ TypeOK
    /\ CallsLeft
    /\ WithinBound
    /\ ClosedByOwner
    /\ ExactlyOnceInOrder
    /\ DrainedBeforeEnd
    /\ NoStrandedItem
    /\ NoStrandedRoom

-----------------------------------------------------------------------------
(* The capacity in force is at least one, whatever the constructor got.    *)
LEMMA BoundPositive == Bound \in Nat \ {0}
BY QueueAssumption DEF Bound

(* The sets whose sizes the wake-up invariants count are finite. *)
LEMMA WakersFinite ==
    /\ IsFiniteSet(ItemWakers) /\ Cardinality(ItemWakers) \in Nat
    /\ IsFiniteSet(RoomWakers) /\ Cardinality(RoomWakers) \in Nat
<1>1. IsFiniteSet(Producers \cup Consumers)
  BY QueueAssumption, FS_Union
<1>2. ItemWakers \subseteq Producers \cup Consumers
  BY DEF ItemWakers
<1>3. RoomWakers \subseteq Producers \cup Consumers
  BY DEF RoomWakers
<1>4. IsFiniteSet(ItemWakers) /\ IsFiniteSet(RoomWakers)
  BY <1>1, <1>2, <1>3, FS_Subset
<1>. QED
  BY <1>4, FS_CardinalityType

LEMMA WakersFiniteNext ==
    /\ IsFiniteSet(ItemWakers') /\ Cardinality(ItemWakers') \in Nat
    /\ IsFiniteSet(RoomWakers') /\ Cardinality(RoomWakers') \in Nat
<1>1. IsFiniteSet(Producers \cup Consumers)
  BY QueueAssumption, FS_Union
<1>2. ItemWakers' \subseteq Producers \cup Consumers
  BY DEF ItemWakers
<1>3. RoomWakers' \subseteq Producers \cup Consumers
  BY DEF RoomWakers
<1>4. IsFiniteSet(ItemWakers') /\ IsFiniteSet(RoomWakers')
  BY <1>1, <1>2, <1>3, FS_Subset
<1>. QED
  BY <1>4, FS_CardinalityType

(* Counting: losing at most one member costs at most one. *)
LEMMA CountWithout ==
    ASSUME NEW S, NEW T, NEW x, IsFiniteSet(S), IsFiniteSet(T), S \ {x} \subseteq T
    PROVE  Cardinality(S) <= Cardinality(T) + 1
<1>1. /\ IsFiniteSet(S \ {x})
      /\ Cardinality(S \ {x}) = IF x \in S THEN Cardinality(S) - 1 ELSE Cardinality(S)
  BY FS_RemoveElement
<1>2. Cardinality(S \ {x}) <= Cardinality(T)
  BY FS_Subset
<1>3. Cardinality(S) \in Nat /\ Cardinality(T) \in Nat /\ Cardinality(S \ {x}) \in Nat
  BY <1>1, FS_CardinalityType
<1>. QED
  BY <1>1, <1>2, <1>3

(* Counting: one member gained and none lost. *)
LEMMA CountWith ==
    ASSUME NEW S, NEW T, NEW x, IsFiniteSet(S), IsFiniteSet(T),
           S \subseteq T, x \in T, x \notin S
    PROVE  Cardinality(S) + 1 <= Cardinality(T)
<1>1. IsFiniteSet(S \cup {x}) /\ Cardinality(S \cup {x}) = Cardinality(S) + 1
  BY FS_AddElement
<1>2. Cardinality(S \cup {x}) <= Cardinality(T)
  BY FS_Subset, <1>1
<1>. QED
  BY <1>1, <1>2

(* Counting: one member replaced by one that was outside. *)
LEMMA CountReplaced ==
    ASSUME NEW S, NEW T, NEW x, NEW y, IsFiniteSet(S), IsFiniteSet(T),
           S \ {x} \subseteq T, y \in T, y \notin S
    PROVE  Cardinality(S) <= Cardinality(T)
<1>1. /\ IsFiniteSet(S \ {x})
      /\ Cardinality(S \ {x}) = IF x \in S THEN Cardinality(S) - 1 ELSE Cardinality(S)
  BY FS_RemoveElement
<1>2. Cardinality(S \ {x}) + 1 <= Cardinality(T)
  BY <1>1, CountWith
<1>3. Cardinality(S) \in Nat /\ Cardinality(T) \in Nat /\ Cardinality(S \ {x}) \in Nat
  BY <1>1, FS_CardinalityType
<1>. QED
  BY <1>1, <1>2, <1>3

-----------------------------------------------------------------------------
(* Type correctness, with the fact that makes sent stay in range. *)
LEMMA TypeInit == Init => TypeOK /\ CallsLeft
<1>. SUFFICES ASSUME Init PROVE TypeOK /\ CallsLeft
  OBVIOUS
<1>1. 0 \in 0..Items
  BY QueueAssumption
<1>2. <<>> \in Seq(Values)
  BY EmptySeq
<1>3. /\ pc \in [Threads -> {"push", "pop", "wait", "notify", "done"}]
      /\ \A p \in Producers : pc[p] # "pop" /\ (pc[p] \in {"push", "wait"} => Items # 0)
      /\ \A c \in Consumers : pc[c] # "push"
  BY QueueAssumption DEF Init, Threads
<1>4. sent \in [Producers -> 0..Items] /\ \A p \in Producers : sent[p] = 0
  BY <1>1 DEF Init
<1>5. CallsLeft
  BY <1>3, <1>4, QueueAssumption DEF CallsLeft
<1>. QED
  BY <1>2, <1>3, <1>4, <1>5 DEF Init, TypeOK

LEMMA NextValueType ==
    ASSUME TypeOK, CallsLeft, NEW p \in Producers, pc[p] \in {"push", "wait"}
    PROVE  sent[p] + 1 \in 1..Items /\ NextValue(p) \in Values
<1>1. sent[p] \in 0..Items /\ sent[p] < Items
  BY DEF TypeOK, CallsLeft
<1>2. sent[p] + 1 \in 1..Items
  BY <1>1, QueueAssumption
<1>. QED
  BY <1>2 DEF NextValue, Values

LEMMA TypeStep == TypeOK /\ CallsLeft /\ [Next]_vars => TypeOK' /\ CallsLeft'
<1>. SUFFICES ASSUME TypeOK, CallsLeft, [Next]_vars PROVE TypeOK' /\ CallsLeft'
  OBVIOUS
<1>. USE DEF TypeOK, CallsLeft
<1>a. Producers \subseteq Threads /\ Consumers \subseteq Threads
  BY DEF Threads
<1>b. Producers \cap Consumers = {} /\ Items \in Nat
  BY QueueAssumption
<1>1. ASSUME NEW p \in Producers, PushWaits(p) PROVE TypeOK' /\ CallsLeft'
  BY <1>1, <1>a, <1>b DEF PushWaits
<1>2. ASSUME NEW p \in Producers, PushRefused(p) PROVE TypeOK' /\ CallsLeft'
  <2>1. sent[p] + 1 \in 0..Items
    BY <1>2, <1>b, NextValueType DEF PushRefused
  <2>2. sent' \in [Producers -> 0..Items] /\ sent'[p] = sent[p] + 1
    BY <1>2, <2>1 DEF PushRefused
  <2>3. AfterPush(p) = "push" => sent'[p] < Items
    BY DEF AfterPush
  <2>4. AfterPush(p) \in {"push", "done"}
    BY DEF AfterPush
  <2>. QED
    BY <1>2, <2>2, <2>3, <2>4, <1>a, <1>b DEF PushRefused
<1>3. ASSUME NEW p \in Producers, PushEnqueues(p) PROVE TypeOK' /\ CallsLeft'
  <2>1. sent[p] + 1 \in 0..Items /\ NextValue(p) \in Values
    BY <1>3, <1>b, NextValueType DEF PushEnqueues
  <2>2. sent' \in [Producers -> 0..Items]
    BY <1>3, <2>1 DEF PushEnqueues
  <2>3. queue' \in Seq(Values) /\ accepted' \in Seq(Values)
    BY <1>3, <2>1, AppendProperties DEF PushEnqueues
  <2>4. pc' \in [Threads -> {"push", "pop", "wait", "notify", "done"}]
    BY <1>3, <1>a DEF PushEnqueues
  <2>5. \A q \in Producers : pc'[q] \in {"push", "wait"} => sent'[q] < Items
    BY <1>3, <1>a DEF PushEnqueues
  <2>. QED
    BY <1>3, <2>2, <2>3, <2>4, <2>5, <1>a, <1>b DEF PushEnqueues
<1>4. ASSUME NEW p \in Producers, PushNotifies(p) PROVE TypeOK' /\ CallsLeft'
  <2>. DEFINE goOn == [pc EXCEPT ![p] = IF sent[p] < Items THEN "push" ELSE "done"]
  <2>1. /\ goOn \in [Threads -> {"push", "pop", "wait", "notify", "done"}]
        /\ \A q \in Producers : goOn[q] # "pop"
        /\ \A c \in Consumers : goOn[c] # "push"
        /\ \A q \in Producers : goOn[q] \in {"push", "wait"} => sent[q] < Items
    BY <1>a, <1>b
  <2>2. CASE pc' = goOn
    BY <1>4, <2>1, <2>2 DEF PushNotifies
  <2>3. ASSUME NEW c \in NotEmptyWaiters, pc' = [goOn EXCEPT ![c] = "pop"]
        PROVE  TypeOK' /\ CallsLeft'
    <3>1. c \in Consumers /\ c \in Threads /\ c \notin Producers
      BY <1>a, <1>b DEF NotEmptyWaiters
    <3>. HIDE DEF goOn
    <3>. QED
      BY <1>4, <2>1, <2>3, <3>1, <1>a, <1>b DEF PushNotifies
  <2>. QED
    BY <1>4, <2>2, <2>3 DEF PushNotifies
<1>5. ASSUME NEW c \in Consumers, PopWaits(c) PROVE TypeOK' /\ CallsLeft'
  BY <1>5, <1>a, <1>b DEF PopWaits
<1>6. ASSUME NEW c \in Consumers, PopEnds(c) PROVE TypeOK' /\ CallsLeft'
  BY <1>6, <1>a, <1>b DEF PopEnds
<1>7. ASSUME NEW c \in Consumers, PopDequeues(c) PROVE TypeOK' /\ CallsLeft'
  <2>1. Head(queue) \in Values /\ queue' \in Seq(Values)
    BY <1>7, HeadTailProperties DEF PopDequeues
  <2>2. taken' \in Seq(Values)
    BY <1>7, <2>1, AppendProperties DEF PopDequeues
  <2>3. pc' \in [Threads -> {"push", "pop", "wait", "notify", "done"}]
    BY <1>7, <1>a DEF PopDequeues
  <2>. QED
    BY <1>7, <2>1, <2>2, <2>3, <1>a, <1>b DEF PopDequeues
<1>8. ASSUME NEW c \in Consumers, PopNotifies(c) PROVE TypeOK' /\ CallsLeft'
  <2>. DEFINE goOn == [pc EXCEPT ![c] = "pop"]
  <2>1. /\ goOn \in [Threads -> {"push", "pop", "wait", "notify", "done"}]
        /\ \A q \in Producers : goOn[q] = pc[q]
        /\ \A d \in Consumers : goOn[d] # "push"
    BY <1>a, <1>b
  <2>2. CASE pc' = goOn
    BY <1>8, <2>1, <2>2 DEF PopNotifies
  <2>3. ASSUME NEW p \in NotFullWaiters, pc' = [goOn EXCEPT ![p] = "push"]
        PROVE  TypeOK' /\ CallsLeft'
    <3>1. p \in Producers /\ p \in Threads /\ p \notin Consumers /\ pc[p] = "wait"
      BY <1>a, <1>b DEF NotFullWaiters
    <3>. HIDE DEF goOn
    <3>. QED
      BY <1>8, <2>1, <2>3, <3>1, <1>a, <1>b DEF PopNotifies
  <2>. QED
    BY <1>8, <2>2, <2>3 DEF PopNotifies
<1>9. ASSUME Close PROVE TypeOK' /\ CallsLeft'
  BY <1>9 DEF Close
<1>10. ASSUME WakeConsumers PROVE TypeOK' /\ CallsLeft'
  BY <1>10, <1>a, <1>b DEF WakeConsumers, NotEmptyWaiters
<1>11. ASSUME WakeProducers PROVE TypeOK' /\ CallsLeft'
  BY <1>11, <1>a, <1>b DEF WakeProducers, NotFullWaiters
<1>12. ASSUME NEW t \in Threads, SpuriousWake(t) PROVE TypeOK' /\ CallsLeft'
  BY <1>12, <1>a, <1>b DEF SpuriousWake, Threads
<1>13. CASE UNCHANGED vars
  BY <1>13 DEF vars
<1>. QED
  BY <1>1, <1>2, <1>3, <1>4, <1>5, <1>6, <1>7, <1>8, <1>9, <1>10, <1>11, <1>12, <1>13
     DEF Next, Push, Pop, Closing, Finished

(* The variables stay in their types for every number of threads. *)
THEOREM TypeCorrect == Spec => []TypeOK
<1>1. TypeOK /\ CallsLeft /\ [Next]_vars => (TypeOK /\ CallsLeft)'
  BY TypeStep
<1>. QED
  BY <1>1, TypeInit, PTL DEF Spec

-----------------------------------------------------------------------------
(* Which actions change the queue and the histories. *)
LEMMA QueueStep ==
    ASSUME TypeOK, [Next]_vars
    PROVE  \/ UNCHANGED <<queue, accepted, taken>>
           \/ \E p \in Producers : PushEnqueues(p)
           \/ \E c \in Consumers : PopDequeues(c)
BY DEF Next, vars, Push, PushWaits, PushRefused, PushNotifies, Pop, PopWaits, PopEnds,
       PopNotifies, Close, Closing, WakeConsumers, WakeProducers, SpuriousWake, Finished

LEMMA BoundStep ==
    ASSUME TypeOK, WithinBound, [Next]_vars
    PROVE  WithinBound'
<1>. USE BoundPositive DEF WithinBound
<1>0. Bound' = Bound
  BY DEF Bound
<1>1. CASE UNCHANGED <<queue, accepted, taken>>
  BY <1>0, <1>1
<1>2. ASSUME NEW p \in Producers, PushEnqueues(p) PROVE WithinBound'
  <2>1. Len(queue') = Len(queue) + 1 /\ Len(queue) \in Nat
    BY <1>2 DEF TypeOK, PushEnqueues
  <2>. QED
    BY <1>0, <1>2, <2>1 DEF PushEnqueues
<1>3. ASSUME NEW c \in Consumers, PopDequeues(c) PROVE WithinBound'
  <2>1. Len(queue') = Len(queue) - 1 /\ Len(queue) \in Nat
    BY <1>3, HeadTailProperties, LenProperties DEF TypeOK, PopDequeues
  <2>. QED
    BY <1>0, <1>3, <2>1
<1>. QED
  BY <1>1, <1>2, <1>3, QueueStep

LEMMA OwnerStep ==
    ASSUME TypeOK, ClosedByOwner, [Next]_vars
    PROVE  ClosedByOwner'
BY DEF ClosedByOwner, TypeOK, Next, vars, Push, PushWaits, PushRefused, PushEnqueues,
       PushNotifies, Pop, PopWaits, PopEnds, PopDequeues, PopNotifies, Close, Closing,
       WakeConsumers, WakeProducers, SpuriousWake, Finished

LEMMA OrderStep ==
    ASSUME TypeOK, CallsLeft, ExactlyOnceInOrder, [Next]_vars
    PROVE  ExactlyOnceInOrder'
<1>. USE DEF ExactlyOnceInOrder
<1>a. queue \in Seq(Values) /\ accepted \in Seq(Values) /\ taken \in Seq(Values)
  BY DEF TypeOK
<1>1. CASE UNCHANGED <<queue, accepted, taken>>
  BY <1>1
<1>2. ASSUME NEW p \in Producers, PushEnqueues(p) PROVE ExactlyOnceInOrder'
  <2>. DEFINE v == NextValue(p)
  <2>1. v \in Values
    BY <1>2, NextValueType DEF PushEnqueues
  <2>. HIDE DEF v
  <2>2. Append(taken \o queue, v) = (taken \o queue) \o <<v>>
    BY <1>a, <2>1, AppendIsConcat, ConcatProperties
  <2>3. (taken \o queue) \o <<v>> = taken \o (queue \o <<v>>)
    BY <1>a, <2>1, ConcatAssociative
  <2>4. queue \o <<v>> = Append(queue, v)
    BY <1>a, <2>1, AppendIsConcat
  <2>5. accepted' = Append(accepted, v) /\ queue' = Append(queue, v) /\ taken' = taken
    BY <1>2 DEF PushEnqueues, v
  <2>. QED
    BY <2>2, <2>3, <2>4, <2>5
<1>3. ASSUME NEW c \in Consumers, PopDequeues(c) PROVE ExactlyOnceInOrder'
  <2>. DEFINE v == Head(queue)
  <2>1. /\ v \in Values
        /\ Tail(queue) \in Seq(Values)
        /\ queue = <<v>> \o Tail(queue)
    <3>1. queue # <<>>
      BY <1>3 DEF PopDequeues
    <3>2. v \in Values /\ Tail(queue) \in Seq(Values)
      BY <1>a, <3>1, HeadTailProperties
    <3>. QED
      BY <1>a, <3>1, <3>2
  <2>2. taken' = Append(taken, v) /\ queue' = Tail(queue) /\ accepted' = accepted
    BY <1>3 DEF PopDequeues
  <2>. HIDE DEF v
  <2>3. Append(taken, v) = taken \o <<v>>
    BY <1>a, <2>1, AppendIsConcat
  <2>4. (taken \o <<v>>) \o Tail(queue) = taken \o (<<v>> \o Tail(queue))
    BY <1>a, <2>1, ConcatAssociative
  <2>. QED
    BY <2>1, <2>2, <2>3, <2>4
<1>. QED
  BY <1>1, <1>2, <1>3, QueueStep

LEMMA DrainedStep ==
    ASSUME TypeOK, DrainedBeforeEnd, [Next]_vars
    PROVE  DrainedBeforeEnd'
<1>. USE DEF DrainedBeforeEnd
<1>a. /\ Producers \subseteq Threads /\ Consumers \subseteq Threads
      /\ Producers \cap Consumers = {}
      /\ pc \in [Threads -> {"push", "pop", "wait", "notify", "done"}]
  BY QueueAssumption DEF Threads, TypeOK
<1>1. ASSUME NEW p \in Producers, Push(p) PROVE DrainedBeforeEnd'
  <2>1. ASSUME NEW c \in Consumers, pc'[c] = "done" PROVE pc[c] = "done"
    BY <1>1, <2>1, <1>a
       DEF Push, PushWaits, PushRefused, PushEnqueues, PushNotifies, NotEmptyWaiters
  <2>. QED
    BY <1>1, <2>1 DEF Push, PushWaits, PushRefused, PushEnqueues, PushNotifies
<1>2. ASSUME NEW c \in Consumers, Pop(c) PROVE DrainedBeforeEnd'
  <2>1. CASE PopEnds(c)
    BY <2>1 DEF PopEnds
  <2>2. CASE PopDequeues(c)
    BY <2>2, <1>a DEF PopDequeues
  <2>3. CASE PopWaits(c)
    BY <2>3, <1>a DEF PopWaits
  <2>4. CASE PopNotifies(c)
    <3>1. ASSUME NEW d \in Consumers, pc'[d] = "done" PROVE pc[d] = "done"
      BY <2>4, <3>1, <1>a DEF PopNotifies, NotFullWaiters
    <3>. QED
      BY <2>4, <3>1 DEF PopNotifies
  <2>. QED
    BY <1>2, <2>1, <2>2, <2>3, <2>4 DEF Pop
<1>3. CASE Close
  BY <1>3 DEF Close
<1>4. CASE Closing
  BY <1>4, <1>a DEF Closing, WakeConsumers, WakeProducers
<1>5. ASSUME NEW t \in Threads, SpuriousWake(t) PROVE DrainedBeforeEnd'
  BY <1>5, <1>a DEF SpuriousWake
<1>6. CASE UNCHANGED vars
  BY <1>6 DEF vars
<1>. QED
  BY <1>1, <1>2, <1>3, <1>4, <1>5, <1>6 DEF Next, Finished

-----------------------------------------------------------------------------
(* No lost wake-up on not_empty_: each action either keeps the number of   *)
(* wakers at least as large as the number of queued values, or leaves no   *)
(* sleeping worker.                                                        *)
LEMMA ItemStep ==
    ASSUME TypeOK, ClosedByOwner, NoStrandedItem, [Next]_vars
    PROVE  NoStrandedItem'
<1>. DEFINE W == ItemWakers
            W2 == ItemWakers'
            N == NotEmptyWaiters
            N2 == NotEmptyWaiters'
<1>a. /\ Producers \subseteq Threads /\ Consumers \subseteq Threads
      /\ Producers \cap Consumers = {}
      /\ pc \in [Threads -> {"push", "pop", "wait", "notify", "done"}]
      /\ Len(queue) \in Nat
  BY QueueAssumption, LenProperties DEF Threads, TypeOK
<1>f. /\ IsFiniteSet(W) /\ Cardinality(W) \in Nat
      /\ IsFiniteSet(W2) /\ Cardinality(W2) \in Nat
  BY WakersFinite, WakersFiniteNext
(* The common case: no fewer wakers, no more sleepers, no more values. *)
<1>k. ASSUME N2 \subseteq N, closed' = closed, owner' = owner,
             Len(queue') <= Len(queue), Len(queue') \in Nat,
             Cardinality(W) <= Cardinality(W2)
      PROVE  NoStrandedItem'
  BY <1>k, <1>a, <1>f DEF NoStrandedItem
<1>1. ASSUME NEW p \in Producers, PushWaits(p) PROVE NoStrandedItem'
  <2>1. W \subseteq W2 /\ N2 \subseteq N
    BY <1>1, <1>a DEF PushWaits, ItemWakers, NotEmptyWaiters
  <2>. QED
    BY <1>1, <2>1, <1>a, <1>f, <1>k, FS_Subset DEF PushWaits
<1>2. ASSUME NEW p \in Producers, PushRefused(p) PROVE NoStrandedItem'
  <2>1. N2 \subseteq N
    BY <1>2, <1>a DEF PushRefused, NotEmptyWaiters
  <2>. QED
    BY <1>2, <2>1 DEF PushRefused, NoStrandedItem
<1>3. ASSUME NEW p \in Producers, PushEnqueues(p) PROVE NoStrandedItem'
  <2>1. W \subseteq W2 /\ p \in W2 /\ p \notin W /\ N2 = N
    BY <1>3, <1>a DEF PushEnqueues, ItemWakers, NotEmptyWaiters
  <2>2. Cardinality(W) + 1 <= Cardinality(W2)
    BY <2>1, <1>f, CountWith
  <2>3. Len(queue') = Len(queue) + 1
    BY <1>3, <1>a DEF PushEnqueues, TypeOK
  <2>. QED
    BY <1>3, <2>1, <2>2, <2>3, <1>a, <1>f DEF PushEnqueues, NoStrandedItem
<1>4. ASSUME NEW p \in Producers, PushNotifies(p) PROVE NoStrandedItem'
  <2>1. CASE N = {}
    <3>1. N2 = {}
      BY <1>4, <2>1, <1>a DEF PushNotifies, NotEmptyWaiters
    <3>. QED
      BY <3>1 DEF NoStrandedItem
  <2>2. ASSUME NEW c \in N,
               pc' = [[pc EXCEPT ![p] = IF sent[p] < Items THEN "push" ELSE "done"]
                        EXCEPT ![c] = "pop"]
        PROVE  NoStrandedItem'
    <3>1. c \in Consumers /\ pc[c] = "wait"
      BY DEF NotEmptyWaiters
    <3>2. W \ {p} \subseteq W2 /\ c \in W2 /\ c \notin W /\ N2 \subseteq N
      BY <2>2, <3>1, <1>a DEF ItemWakers, NotEmptyWaiters
    <3>3. Cardinality(W) <= Cardinality(W2)
      BY <3>2, <1>f, CountReplaced
    <3>. QED
      BY <1>4, <3>2, <3>3, <1>a, <1>k DEF PushNotifies
  <2>. QED
    BY <1>4, <2>1, <2>2 DEF PushNotifies
<1>5. ASSUME NEW c \in Consumers, PopWaits(c) PROVE NoStrandedItem'
  <2>1. Len(queue') = 0 /\ ~closed'
    BY <1>5 DEF PopWaits
  <2>. QED
    BY <2>1, <1>f DEF NoStrandedItem
<1>6. ASSUME NEW c \in Consumers, PopEnds(c) PROVE NoStrandedItem'
  <2>1. N2 \subseteq N
    BY <1>6, <1>a DEF PopEnds, NotEmptyWaiters
  <2>. QED
    BY <1>6, <2>1 DEF PopEnds, NoStrandedItem
<1>7. ASSUME NEW c \in Consumers, PopDequeues(c) PROVE NoStrandedItem'
  <2>1. W \ {c} \subseteq W2 /\ N2 \subseteq N
    BY <1>7, <1>a DEF PopDequeues, ItemWakers, NotEmptyWaiters
  <2>2. Cardinality(W) <= Cardinality(W2) + 1
    BY <2>1, <1>f, CountWithout
  <2>3. Len(queue') = Len(queue) - 1
    BY <1>7, HeadTailProperties DEF PopDequeues, TypeOK
  <2>. QED
    BY <1>7, <2>1, <2>2, <2>3, <1>a, <1>f DEF PopDequeues, NoStrandedItem
<1>8. ASSUME NEW c \in Consumers, PopNotifies(c) PROVE NoStrandedItem'
  <2>1. W \subseteq W2 /\ N2 \subseteq N
    BY <1>8, <1>a DEF PopNotifies, ItemWakers, NotEmptyWaiters, NotFullWaiters
  <2>. QED
    BY <1>8, <2>1, <1>a, <1>f, <1>k, FS_Subset DEF PopNotifies
<1>9. ASSUME Close PROVE NoStrandedItem'
  BY <1>9 DEF Close, NoStrandedItem
<1>10. ASSUME WakeConsumers PROVE NoStrandedItem'
  <2>1. N2 = {}
    BY <1>10, <1>a DEF WakeConsumers, NotEmptyWaiters
  <2>. QED
    BY <2>1 DEF NoStrandedItem
<1>11. ASSUME WakeProducers PROVE NoStrandedItem'
  <2>1. N2 \subseteq N /\ closed /\ owner # "wakeConsumers"
    BY <1>11, <1>a DEF WakeProducers, NotEmptyWaiters, NotFullWaiters, ClosedByOwner
  <2>2. N2 = {}
    BY <2>1 DEF NoStrandedItem
  <2>. QED
    BY <2>2 DEF NoStrandedItem
<1>12. ASSUME NEW t \in Threads, SpuriousWake(t) PROVE NoStrandedItem'
  <2>1. W \subseteq W2 /\ N2 \subseteq N
    BY <1>12, <1>a DEF SpuriousWake, ItemWakers, NotEmptyWaiters, Threads
  <2>. QED
    BY <1>12, <2>1, <1>a, <1>f, <1>k, FS_Subset DEF SpuriousWake
<1>13. CASE UNCHANGED vars
  <2>1. W2 = W /\ N2 = N
    BY <1>13 DEF vars, ItemWakers, NotEmptyWaiters
  <2>. QED
    BY <1>13, <2>1, <1>a, <1>f, <1>k DEF vars
<1>. QED
  BY <1>1, <1>2, <1>3, <1>4, <1>5, <1>6, <1>7, <1>8, <1>9, <1>10, <1>11, <1>12, <1>13
     DEF Next, Push, Pop, Closing, Finished

-----------------------------------------------------------------------------
(* No lost wake-up on not_full_, counting free slots instead of values. *)
LEMMA RoomStep ==
    ASSUME TypeOK, ClosedByOwner, NoStrandedRoom, [Next]_vars
    PROVE  NoStrandedRoom'
<1>. DEFINE W == RoomWakers
            W2 == RoomWakers'
            N == NotFullWaiters
            N2 == NotFullWaiters'
<1>a. /\ Producers \subseteq Threads /\ Consumers \subseteq Threads
      /\ Producers \cap Consumers = {}
      /\ pc \in [Threads -> {"push", "pop", "wait", "notify", "done"}]
      /\ Len(queue) \in Nat
  BY QueueAssumption, LenProperties DEF Threads, TypeOK
<1>b. Bound \in Nat /\ Bound' = Bound
  BY BoundPositive DEF Bound
<1>f. /\ IsFiniteSet(W) /\ Cardinality(W) \in Nat
      /\ IsFiniteSet(W2) /\ Cardinality(W2) \in Nat
  BY WakersFinite, WakersFiniteNext
<1>k. ASSUME N2 \subseteq N, closed' = closed, owner' = owner,
             Len(queue') = Len(queue), Cardinality(W) <= Cardinality(W2)
      PROVE  NoStrandedRoom'
  BY <1>k, <1>a, <1>b, <1>f DEF NoStrandedRoom
<1>1. ASSUME NEW p \in Producers, PushWaits(p) PROVE NoStrandedRoom'
  <2>1. Bound <= Len(queue') /\ ~closed'
    BY <1>1, <1>a, <1>b DEF PushWaits
  <2>2. Len(queue') \in Nat
    BY <1>1, <1>a DEF PushWaits
  <2>. QED
    BY <2>1, <2>2, <1>b, <1>f DEF NoStrandedRoom
<1>2. ASSUME NEW p \in Producers, PushRefused(p) PROVE NoStrandedRoom'
  <2>1. N2 \subseteq N
    BY <1>2, <1>a DEF PushRefused, AfterPush, NotFullWaiters
  <2>. QED
    BY <1>2, <2>1 DEF PushRefused, NoStrandedRoom
<1>3. ASSUME NEW p \in Producers, PushEnqueues(p) PROVE NoStrandedRoom'
  <2>1. W \ {p} \subseteq W2 /\ N2 \subseteq N
    BY <1>3, <1>a DEF PushEnqueues, RoomWakers, NotFullWaiters
  <2>2. Cardinality(W) <= Cardinality(W2) + 1
    BY <2>1, <1>f, CountWithout
  <2>3. Len(queue') = Len(queue) + 1
    BY <1>3, <1>a DEF PushEnqueues, TypeOK
  <2>. QED
    BY <1>3, <2>1, <2>2, <2>3, <1>a, <1>b, <1>f DEF PushEnqueues, NoStrandedRoom
<1>4. ASSUME NEW p \in Producers, PushNotifies(p) PROVE NoStrandedRoom'
  <2>1. W \subseteq W2 /\ N2 \subseteq N
    BY <1>4, <1>a DEF PushNotifies, RoomWakers, NotFullWaiters, NotEmptyWaiters
  <2>. QED
    BY <1>4, <2>1, <1>f, <1>k, FS_Subset DEF PushNotifies
<1>5. ASSUME NEW c \in Consumers, PopWaits(c) PROVE NoStrandedRoom'
  <2>1. W \subseteq W2 /\ N2 \subseteq N
    BY <1>5, <1>a DEF PopWaits, RoomWakers, NotFullWaiters
  <2>. QED
    BY <1>5, <2>1, <1>f, <1>k, FS_Subset DEF PopWaits
<1>6. ASSUME NEW c \in Consumers, PopEnds(c) PROVE NoStrandedRoom'
  <2>1. N2 \subseteq N
    BY <1>6, <1>a DEF PopEnds, NotFullWaiters
  <2>. QED
    BY <1>6, <2>1 DEF PopEnds, NoStrandedRoom
<1>7. ASSUME NEW c \in Consumers, PopDequeues(c) PROVE NoStrandedRoom'
  <2>1. W \subseteq W2 /\ c \in W2 /\ c \notin W /\ N2 = N
    BY <1>7, <1>a DEF PopDequeues, RoomWakers, NotFullWaiters
  <2>2. Cardinality(W) + 1 <= Cardinality(W2)
    BY <2>1, <1>f, CountWith
  <2>3. Len(queue') = Len(queue) - 1
    BY <1>7, HeadTailProperties DEF PopDequeues, TypeOK
  <2>. QED
    BY <1>7, <2>1, <2>2, <2>3, <1>a, <1>b, <1>f DEF PopDequeues, NoStrandedRoom
<1>8. ASSUME NEW c \in Consumers, PopNotifies(c) PROVE NoStrandedRoom'
  <2>1. CASE N = {}
    <3>1. N2 = {}
      BY <1>8, <2>1, <1>a DEF PopNotifies, NotFullWaiters
    <3>. QED
      BY <3>1 DEF NoStrandedRoom
  <2>2. ASSUME NEW p \in N, pc' = [[pc EXCEPT ![c] = "pop"] EXCEPT ![p] = "push"]
        PROVE  NoStrandedRoom'
    <3>1. p \in Producers /\ pc[p] = "wait"
      BY DEF NotFullWaiters
    <3>2. W \ {c} \subseteq W2 /\ p \in W2 /\ p \notin W /\ N2 \subseteq N
      BY <2>2, <3>1, <1>a DEF RoomWakers, NotFullWaiters
    <3>3. Cardinality(W) <= Cardinality(W2)
      BY <3>2, <1>f, CountReplaced
    <3>. QED
      BY <1>8, <3>2, <3>3, <1>k DEF PopNotifies
  <2>. QED
    BY <1>8, <2>1, <2>2 DEF PopNotifies
<1>9. ASSUME Close PROVE NoStrandedRoom'
  BY <1>9 DEF Close, NoStrandedRoom
<1>10. ASSUME WakeConsumers PROVE NoStrandedRoom'
  BY <1>10 DEF WakeConsumers, NoStrandedRoom, ClosedByOwner
<1>11. ASSUME WakeProducers PROVE NoStrandedRoom'
  <2>1. N2 = {}
    BY <1>11, <1>a DEF WakeProducers, NotFullWaiters
  <2>. QED
    BY <2>1 DEF NoStrandedRoom
<1>12. ASSUME NEW t \in Threads, SpuriousWake(t) PROVE NoStrandedRoom'
  <2>1. W \subseteq W2 /\ N2 \subseteq N
    BY <1>12, <1>a DEF SpuriousWake, RoomWakers, NotFullWaiters, Threads
  <2>. QED
    BY <1>12, <2>1, <1>f, <1>k, FS_Subset DEF SpuriousWake
<1>13. CASE UNCHANGED vars
  <2>1. W2 = W /\ N2 = N
    BY <1>13 DEF vars, RoomWakers, NotFullWaiters
  <2>. QED
    BY <1>13, <2>1, <1>f, <1>k DEF vars
<1>. QED
  BY <1>1, <1>2, <1>3, <1>4, <1>5, <1>6, <1>7, <1>8, <1>9, <1>10, <1>11, <1>12, <1>13
     DEF Next, Push, Pop, Closing, Finished

-----------------------------------------------------------------------------
LEMMA InitIInv == Init => IInv
<1>. SUFFICES ASSUME Init PROVE IInv
  OBVIOUS
<1>1. TypeOK /\ CallsLeft
  BY TypeInit
<1>2. queue = <<>> /\ accepted = <<>> /\ taken = <<>> /\ closed = FALSE /\ owner = "open"
  BY DEF Init
<1>3. \A t \in Threads : pc[t] # "wait"
  BY DEF Init
<1>4. \A c \in Consumers : pc[c] # "done"
  BY DEF Init, Threads
<1>5. NotEmptyWaiters = {} /\ NotFullWaiters = {}
  BY <1>3 DEF NotEmptyWaiters, NotFullWaiters, Threads
<1>6. WithinBound
  BY <1>2, BoundPositive DEF WithinBound
<1>7. ExactlyOnceInOrder
  BY <1>2 DEF ExactlyOnceInOrder
<1>. QED
  BY <1>1, <1>2, <1>4, <1>5, <1>6, <1>7
     DEF IInv, ClosedByOwner, DrainedBeforeEnd, NoStrandedItem, NoStrandedRoom

LEMMA NextIInv == IInv /\ [Next]_vars => IInv'
BY TypeStep, BoundStep, OwnerStep, OrderStep, DrainedStep, ItemStep, RoomStep DEF IInv

(* IInv is an invariant of the queue. *)
THEOREM InductiveInvariant == Spec => []IInv
BY InitIInv, NextIInv, PTL DEF Spec

(* push() and pop() lose no value, invent none and keep the order, however *)
(* many threads call them and whenever close() comes.                      *)
THEOREM NothingLost == Spec => []ExactlyOnceInOrder
<1>1. IInv => ExactlyOnceInOrder
  BY DEF IInv
<1>. QED
  BY <1>1, InductiveInvariant, PTL

(* Neither notify_one() after the unlock loses a wake-up. *)
THEOREM NoLostWakeup == Spec => [](NoStrandedItem /\ NoStrandedRoom)
<1>1. IInv => NoStrandedItem /\ NoStrandedRoom
  BY DEF IInv
<1>. QED
  BY <1>1, InductiveInvariant, PTL

(* A worker loop ends only when the queue is closed and drained. *)
THEOREM WorkersLeaveNothing == Spec => []DrainedBeforeEnd
<1>1. IInv => DrainedBeforeEnd
  BY DEF IInv
<1>. QED
  BY <1>1, InductiveInvariant, PTL

-----------------------------------------------------------------------------
(* Refinement: enqueueing is Put, dequeueing is Take, the first step of    *)
(* close() is Shut, a nullopt is End; every other step is invisible.       *)
LEMMA ChannelInit == Init => Channel!Init
BY DEF Init, Channel!Init, Threads

LEMMA ChannelStep ==
    ASSUME TypeOK, CallsLeft, [Next]_vars
    PROVE  [Channel!Next]_(Channel!channelVars)
<1>. DEFINE Ended == {c \in Consumers : pc[c] = "done"}
<1>a. /\ Producers \subseteq Threads /\ Consumers \subseteq Threads
      /\ Producers \cap Consumers = {}
      /\ pc \in [Threads -> {"push", "pop", "wait", "notify", "done"}]
  BY QueueAssumption DEF Threads, TypeOK
<1>. USE DEF Channel!channelVars
<1>1. ASSUME NEW p \in Producers, Push(p) PROVE [Channel!Next]_(Channel!channelVars)
  <2>1. Ended' = Ended
    <3>1. CASE PushNotifies(p)
      <4>1. ASSUME NEW c \in Consumers PROVE pc'[c] = "done" <=> pc[c] = "done"
        BY <3>1, <1>a DEF PushNotifies, NotEmptyWaiters
      <4>. QED
        BY <4>1
    <3>2. CASE PushWaits(p) \/ PushRefused(p) \/ PushEnqueues(p)
      <4>1. ASSUME NEW c \in Consumers PROVE pc'[c] = pc[c]
        BY <3>2, <1>a DEF PushWaits, PushRefused, PushEnqueues
      <4>. QED
        BY <4>1
    <3>. QED
      BY <1>1, <3>1, <3>2 DEF Push
  <2>2. CASE PushEnqueues(p)
    <3>1. NextValue(p) \in Values
      BY <2>2, NextValueType DEF PushEnqueues
    <3>2. Channel!Put(NextValue(p))
      BY <2>1, <2>2 DEF PushEnqueues, Channel!Put
    <3>. QED
      BY <3>1, <3>2 DEF Channel!Next
  <2>3. CASE PushWaits(p) \/ PushRefused(p) \/ PushNotifies(p)
    BY <2>1, <2>3 DEF PushWaits, PushRefused, PushNotifies
  <2>. QED
    BY <1>1, <2>2, <2>3 DEF Push
<1>2. ASSUME NEW c \in Consumers, Pop(c) PROVE [Channel!Next]_(Channel!channelVars)
  <2>1. CASE PopEnds(c)
    <3>1. Ended' = Ended \cup {c}
      BY <2>1, <1>a DEF PopEnds
    <3>2. Channel!End(c)
      BY <2>1, <3>1 DEF PopEnds, Channel!End
    <3>. QED
      BY <3>2 DEF Channel!Next
  <2>2. CASE PopDequeues(c)
    <3>1. Ended' = Ended
      BY <2>2, <1>a DEF PopDequeues
    <3>2. Channel!Take
      BY <2>2, <3>1 DEF PopDequeues, Channel!Take
    <3>. QED
      BY <3>2 DEF Channel!Next
  <2>3. CASE PopWaits(c)
    <3>1. Ended' = Ended
      BY <2>3, <1>a DEF PopWaits
    <3>. QED
      BY <2>3, <3>1 DEF PopWaits
  <2>4. CASE PopNotifies(c)
    <3>1. Ended' = Ended
      BY <2>4, <1>a DEF PopNotifies, NotFullWaiters
    <3>. QED
      BY <2>4, <3>1 DEF PopNotifies
  <2>. QED
    BY <1>2, <2>1, <2>2, <2>3, <2>4 DEF Pop
<1>3. CASE Close
  <2>1. Channel!Shut
    BY <1>3 DEF Close, Channel!Shut
  <2>. QED
    BY <2>1 DEF Channel!Next
<1>4. CASE Closing
  <2>1. Ended' = Ended
    <3>1. ASSUME NEW c \in Consumers PROVE pc'[c] = "done" <=> pc[c] = "done"
      BY <1>4, <1>a
         DEF Closing, WakeConsumers, WakeProducers, NotEmptyWaiters, NotFullWaiters
    <3>. QED
      BY <3>1
  <2>. QED
    BY <1>4, <2>1 DEF Closing, WakeConsumers, WakeProducers
<1>5. ASSUME NEW t \in Threads, SpuriousWake(t) PROVE [Channel!Next]_(Channel!channelVars)
  <2>1. Ended' = Ended
    BY <1>5, <1>a DEF SpuriousWake
  <2>. QED
    BY <1>5, <2>1 DEF SpuriousWake
<1>6. CASE UNCHANGED vars
  BY <1>6 DEF vars
<1>. QED
  BY <1>1, <1>2, <1>3, <1>4, <1>5, <1>6 DEF Next, Finished

(* The queue's safety part of ImplementsChannel: the mutex, the condition  *)
(* variables and the notifications after the unlock are invisible to the   *)
(* walker and the workers.                                                 *)
THEOREM QueueIsAChannel == Spec => Channel!Spec
<1>1. TypeOK /\ CallsLeft /\ [Next]_vars => [Channel!Next]_(Channel!channelVars)
  BY ChannelStep
<1>2. Spec => [](TypeOK /\ CallsLeft)
  <2>1. IInv => TypeOK /\ CallsLeft
    BY DEF IInv
  <2>. QED
    BY <2>1, InductiveInvariant, PTL
<1>. QED
  BY <1>1, <1>2, ChannelInit, PTL DEF Spec, Channel!Spec
=============================================================================
