---------------------------- MODULE BoundedQueue ----------------------------
(***************************************************************************)
(* The scanner's work queue (src/scan/bounded_queue.hpp): a bounded,       *)
(* blocking, closable queue built from one mutex and two condition         *)
(* variables.  A critical section is one action, because everything in it  *)
(* happens with the mutex held; what a thread does after lock.unlock(),    *)
(* the notify_one() of push and pop and the two notify_all() of close, is  *)
(* an action of its own, since any thread may run in between.              *)
(*                                                                         *)
(* A thread waiting on a condition variable has pc = "wait".  A notified   *)
(* thread goes back to the lock and evaluates its predicate again, exactly *)
(* as a thread that has just called; the standard also lets a waiter wake  *)
(* for no reason (SpuriousWake).                                           *)
(***************************************************************************)
EXTENDS Naturals, Sequences, FiniteSets

CONSTANTS Producers,   \* threads that push (the scanner has one, the walker)
          Consumers,   \* threads that pop (the scanner's workers)
          Capacity,    \* the constructor's argument
          Items        \* how many values each producer pushes

ASSUME QueueAssumption ==
    /\ Producers \cap Consumers = {}
    /\ IsFiniteSet(Producers)
    /\ IsFiniteSet(Consumers)
    /\ Capacity \in Nat
    /\ Items \in Nat

VARIABLES queue,      \* queue_
          closed,     \* closed_
          pc,         \* where each pushing or popping thread is
          owner,      \* where the thread that calls close() is
          sent,       \* how many of its values each producer has pushed
          accepted,   \* history: the values push() enqueued, in that order
          taken       \* history: the values pop() returned, in that order

vars == <<queue, closed, pc, owner, sent, accepted, taken>>

Threads == Producers \cup Consumers

(* A value is named by its producer and its number there. *)
Values == Producers \X (1..Items)

(* capacity_(capacity ? capacity : 1) *)
Bound == IF Capacity = 0 THEN 1 ELSE Capacity

NotFullWaiters  == {p \in Producers : pc[p] = "wait"}
NotEmptyWaiters == {c \in Consumers : pc[c] = "wait"}

Init ==
    /\ queue = <<>>
    /\ closed = FALSE
    /\ pc = [t \in Threads |->
               IF t \in Consumers THEN "pop" ELSE IF Items = 0 THEN "done" ELSE "push"]
    /\ owner = "open"
    /\ sent = [p \in Producers |-> 0]
    /\ accepted = <<>>
    /\ taken = <<>>

-----------------------------------------------------------------------------
(* push() *)

NextValue(p) == <<p, sent[p] + 1>>

(* Mutant: one value more than the producer has. *)
AfterPushOneMore(p) == IF sent'[p] <= Items THEN "push" ELSE "done"

AfterPush(p) == IF sent'[p] < Items THEN "push" ELSE "done"

(* The predicate of not_full_.wait is false: the producer waits. *)
PushWaits(p) ==
    /\ pc[p] = "push"
    /\ ~(Len(queue) < Bound \/ closed)
    /\ pc' = [pc EXCEPT ![p] = "wait"]
    /\ UNCHANGED <<queue, closed, owner, sent, accepted, taken>>

(* if (closed_) return false;  the walker ignores the result and goes on. *)
PushRefused(p) ==
    /\ pc[p] = "push"
    /\ closed
    /\ sent' = [sent EXCEPT ![p] = @ + 1]
    /\ pc' = [pc EXCEPT ![p] = AfterPush(p)]
    /\ UNCHANGED <<queue, closed, owner, accepted, taken>>

(* Mutant: closed_ is not looked at again after the wait. *)
PushEnqueuesClosed(p) ==
    /\ pc[p] = "push"
    /\ Len(queue) < Bound
    /\ queue' = Append(queue, NextValue(p))
    /\ accepted' = Append(accepted, NextValue(p))
    /\ sent' = [sent EXCEPT ![p] = @ + 1]
    /\ pc' = [pc EXCEPT ![p] = "notify"]
    /\ UNCHANGED <<closed, owner, taken>>

PushEnqueues(p) ==
    /\ pc[p] = "push"
    /\ Len(queue) < Bound
    /\ ~closed
    /\ queue' = Append(queue, NextValue(p))
    /\ accepted' = Append(accepted, NextValue(p))
    /\ sent' = [sent EXCEPT ![p] = @ + 1]
    /\ pc' = [pc EXCEPT ![p] = "notify"]
    /\ UNCHANGED <<closed, owner, taken>>

(* Mutant: notify only when the queue was empty. *)
PushNotifiesFirst(p) ==
    /\ pc[p] = "notify"
    /\ LET goOn == [pc EXCEPT ![p] = IF sent[p] < Items THEN "push" ELSE "done"]
       IN  \/ /\ NotEmptyWaiters = {} \/ Len(queue) # 1
              /\ pc' = goOn
           \/ /\ Len(queue) = 1
              /\ \E c \in NotEmptyWaiters : pc' = [goOn EXCEPT ![c] = "pop"]
    /\ UNCHANGED <<queue, closed, owner, sent, accepted, taken>>

(* After lock.unlock(): not_empty_.notify_one(), then the caller's next push. *)
PushNotifies(p) ==
    /\ pc[p] = "notify"
    /\ LET goOn == [pc EXCEPT ![p] = IF sent[p] < Items THEN "push" ELSE "done"]
       IN  \/ /\ NotEmptyWaiters = {}
              /\ pc' = goOn
           \/ \E c \in NotEmptyWaiters : pc' = [goOn EXCEPT ![c] = "pop"]
    /\ UNCHANGED <<queue, closed, owner, sent, accepted, taken>>

-----------------------------------------------------------------------------
(* pop(), called in a loop that ends at the first nullopt *)

PopWaits(c) ==
    /\ pc[c] = "pop"
    /\ queue = <<>>
    /\ ~closed
    /\ pc' = [pc EXCEPT ![c] = "wait"]
    /\ UNCHANGED <<queue, closed, owner, sent, accepted, taken>>

(* if (queue_.empty()) return std::nullopt;  closed and drained. *)
PopEnds(c) ==
    /\ pc[c] = "pop"
    /\ closed
    /\ queue = <<>>
    /\ pc' = [pc EXCEPT ![c] = "done"]
    /\ UNCHANGED <<queue, closed, owner, sent, accepted, taken>>

(* Mutant: the front is returned and stays where it is. *)
PopCopies(c) ==
    /\ pc[c] = "pop"
    /\ queue # <<>>
    /\ taken' = Append(taken, Head(queue))
    /\ pc' = [pc EXCEPT ![c] = "notify"]
    /\ UNCHANGED <<queue, closed, owner, sent, accepted>>

PopDequeues(c) ==
    /\ pc[c] = "pop"
    /\ queue # <<>>
    /\ taken' = Append(taken, Head(queue))
    /\ queue' = Tail(queue)
    /\ pc' = [pc EXCEPT ![c] = "notify"]
    /\ UNCHANGED <<closed, owner, sent, accepted>>

(* Mutant: the other condition variable. *)
PopNotifiesWorkers(c) ==
    /\ pc[c] = "notify"
    /\ LET goOn == [pc EXCEPT ![c] = "pop"]
       IN  \/ /\ NotEmptyWaiters = {}
              /\ pc' = goOn
           \/ \E d \in NotEmptyWaiters : pc' = [goOn EXCEPT ![d] = "pop"]
    /\ UNCHANGED <<queue, closed, owner, sent, accepted, taken>>

(* After lock.unlock(): not_full_.notify_one(), then the worker loops. *)
PopNotifies(c) ==
    /\ pc[c] = "notify"
    /\ LET goOn == [pc EXCEPT ![c] = "pop"]
       IN  \/ /\ NotFullWaiters = {}
              /\ pc' = goOn
           \/ \E p \in NotFullWaiters : pc' = [goOn EXCEPT ![p] = "push"]
    /\ UNCHANGED <<queue, closed, owner, sent, accepted, taken>>

-----------------------------------------------------------------------------
(* close() *)

Close ==
    /\ owner = "open"
    /\ closed' = TRUE
    /\ owner' = "wakeConsumers"
    /\ UNCHANGED <<queue, pc, sent, accepted, taken>>

(* not_empty_.notify_all() *)
WakeConsumers ==
    /\ owner = "wakeConsumers"
    /\ pc' = [t \in Threads |-> IF t \in NotEmptyWaiters THEN "pop" ELSE pc[t]]
    /\ owner' = "wakeProducers"
    /\ UNCHANGED <<queue, closed, sent, accepted, taken>>

(* not_full_.notify_all() *)
WakeProducers ==
    /\ owner = "wakeProducers"
    /\ pc' = [t \in Threads |-> IF t \in NotFullWaiters THEN "push" ELSE pc[t]]
    /\ owner' = "closed"
    /\ UNCHANGED <<queue, closed, sent, accepted, taken>>

-----------------------------------------------------------------------------
(* A condition variable may release a waiter that nobody notified. *)
SpuriousWake(t) ==
    /\ pc[t] = "wait"
    /\ pc' = [pc EXCEPT ![t] = IF t \in Producers THEN "push" ELSE "pop"]
    /\ UNCHANGED <<queue, closed, owner, sent, accepted, taken>>

(* Every call has returned: the system may stop here and nowhere else. *)
Finished ==
    /\ owner = "closed"
    /\ \A t \in Threads : pc[t] = "done"
    /\ UNCHANGED vars

Push(p) == PushWaits(p) \/ PushRefused(p) \/ PushEnqueues(p) \/ PushNotifies(p)
Pop(c)  == PopWaits(c) \/ PopEnds(c) \/ PopDequeues(c) \/ PopNotifies(c)
Closing == WakeConsumers \/ WakeProducers

Next ==
    \/ \E p \in Producers : Push(p)
    \/ \E c \in Consumers : Pop(c)
    \/ Close
    \/ Closing
    \/ \E t \in Threads : SpuriousWake(t)
    \/ Finished

Spec == Init /\ [][Next]_vars

(* A thread that can run does run.  Nobody is obliged to call close(), but *)
(* a close() that was called completes.                                    *)
FairSpec ==
    /\ Spec
    /\ \A p \in Producers : WF_vars(Push(p))
    /\ \A c \in Consumers : WF_vars(Pop(c))
    /\ WF_vars(Closing)

-----------------------------------------------------------------------------
TypeOK ==
    /\ queue \in Seq(Values)
    /\ closed \in BOOLEAN
    /\ pc \in [Threads -> {"push", "pop", "wait", "notify", "done"}]
    /\ \A p \in Producers : pc[p] # "pop"
    /\ \A c \in Consumers : pc[c] # "push"
    /\ owner \in {"open", "wakeConsumers", "wakeProducers", "closed"}
    /\ sent \in [Producers -> 0..Items]
    /\ accepted \in Seq(Values)
    /\ taken \in Seq(Values)

(* Every value push() accepted was either returned by exactly one pop() or *)
(* is still queued, and values leave in the order they entered; the walk   *)
(* loses no path and no path is handed to two workers.                     *)
ExactlyOnceInOrder == accepted = taken \o queue

(* Threads that will look at the queue again without being notified, or    *)
(* that are about to notify one that will.                                 *)
ItemWakers == {c \in Consumers : pc[c] = "pop"} \cup {p \in Producers : pc[p] = "notify"}
RoomWakers == {p \in Producers : pc[p] = "push"} \cup {c \in Consumers : pc[c] = "notify"}

(* No lost wake-up, consumers' side: while a worker sleeps on not_empty_,  *)
(* every queued value has a thread of its own that will take it or will    *)
(* wake somebody to take it, although notify_one() runs after the unlock   *)
(* and the woken worker may find the value gone; once closed, the          *)
(* notify_all() that releases the sleeper is still to come.                *)
NoStrandedItem ==
    NotEmptyWaiters # {} =>
        IF closed THEN owner = "wakeConsumers"
                  ELSE Len(queue) <= Cardinality(ItemWakers)

(* No lost wake-up, producers' side: while a producer sleeps on not_full_, *)
(* every free slot has a thread that will use it or wake somebody for it.  *)
NoStrandedRoom ==
    NotFullWaiters # {} =>
        IF closed THEN owner \in {"wakeConsumers", "wakeProducers"}
                  ELSE Bound <= Len(queue) + Cardinality(RoomWakers)

(* A worker that got nullopt and left cannot leave work behind, even when  *)
(* close() overtakes blocked producers: nothing is queued any more.        *)
DrainedBeforeEnd ==
    (\E c \in Consumers : pc[c] = "done") => closed /\ queue = <<>>

(* The queue is a bounded channel, and with fair threads it delivers what  *)
(* it accepted and releases every worker once it is closed and drained.    *)
Channel == INSTANCE WorkChannel WITH
    Workers <- Consumers,
    buffer  <- queue,
    shut    <- closed,
    ended   <- {c \in Consumers : pc[c] = "done"}

ImplementsChannel == Channel!FairSpec

(* A walker that blocks on a full queue is always let go in the end, by a  *)
(* worker or by close(): every producer gets all its calls answered.       *)
PushesReturn == <>[](\A p \in Producers : pc[p] = "done")
=============================================================================
