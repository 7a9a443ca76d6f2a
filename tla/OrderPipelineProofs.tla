------------------------- MODULE OrderPipelineProofs -------------------------
(***************************************************************************)
(* Proofs about OrderPipeline, for any orders, endpoints, workers, batch,  *)
(* times and faults, whether queue, lambda or both are subscribed.         *)
(***************************************************************************)
EXTENDS OrderPipeline, FiniteSetTheorems, TLAPS

-----------------------------------------------------------------------------
(* The inductive invariant *)

\* The payment slots in use can be counted.
SlotsCounted == IsFiniteSet(Paying)

\* A goroutine that has paid has paid its order, and so has a 200.
PaidMeansPaid ==
    /\ \A s \in Slots : paid[s] => slot[s] # None /\ payments[slot[s]] > 0
    /\ \A o \in Orders : answer[o] = "200" => payments[o] > 0

\* SNS and the lambda's events have orders of the asynchronous endpoint only.
TopicAsync == \A o \in topic \cup events : route[o] = "async"

\* AWS runs the lambda only for orders it has not given up, each once at a time,
\* and for none that was not published.
Retrying ==
    \A o \in Orders :
        /\ answer[o] = "none" =>
              died[o] = 0 /\ o \notin events /\ (route[o] = "async" => run[o] = "none")
        /\ o \in events => run[o] = "none"
        /\ o \in events \/ (route[o] = "async" /\ run[o] # "none") => died[o] <= LambdaRetries

IInv == TypeOK /\ SlotsCounted /\ TopicAsync /\ Retrying /\ PaidMeansPaid /\ AcceptedNotLost

\* Payments are never forgotten, and one more is at least one.
LEMMA PaymentsGrow ==
    ASSUME TypeOK, NEW o \in Orders
    PROVE  /\ PaidOnceMore(o) \in [Orders -> 0..2]
           /\ PaidOnceMore(o)[o] > 0
           /\ \A x \in Orders : payments[x] > 0 => PaidOnceMore(o)[x] > 0
BY DEF TypeOK, PaidOnceMore

\* The orders that are not at the receiver do not count against its slots.
LEMMA PayingUnmoved ==
    ASSUME IInv, UNCHANGED <<route, run>>
    PROVE  SlotsCounted' /\ Cardinality(Paying') <= PaymentSlots
BY DEF IInv, TypeOK, SlotsCounted, Paying

-----------------------------------------------------------------------------
(* The receiver *)

\* A customer who waits has no slot.
LEMMA WaitPreserves ==
    ASSUME IInv, NEW o \in Orders, Wait(o)
    PROVE  IInv'
<1> USE DEF TypeOK, deployment, lambdaVars, queueVars, processorVars, failureVars
<1>1. /\ route[o] = "sync" /\ run[o] = "none" /\ run' = [run EXCEPT ![o] = "waiting"]
      /\ UNCHANGED <<deployment, answer, timer, topic, lambdaVars, queueVars, processorVars, payments, failureVars>>
    BY DEF Wait
<1>2. Paying' = Paying
    BY <1>1 DEF IInv, Paying
<1>3. TypeOK'
    BY <1>1, <1>2 DEF IInv
<1>4. SlotsCounted' /\ TopicAsync' /\ Retrying' /\ PaidMeansPaid' /\ AcceptedNotLost'
    BY <1>1, <1>2 DEF IInv, SlotsCounted, TopicAsync, Retrying, PaidMeansPaid, AcceptedNotLost, GivenUp
<1> QED
    BY <1>3, <1>4 DEF IInv

\* The channel takes a token only when it has room.
LEMMA TakeSlotPreserves ==
    ASSUME IInv, NEW o \in Orders, TakeSlot(o)
    PROVE  IInv'
<1> USE SizesAssumption DEF TypeOK, deployment, lambdaVars, queueVars, processorVars, failureVars
<1>1. /\ run[o] = "waiting" /\ Cardinality(Paying) < PaymentSlots
      /\ run' = [run EXCEPT ![o] = "paying"] /\ timer' = [timer EXCEPT ![o] = Work]
      /\ UNCHANGED <<deployment, answer, topic, lambdaVars, queueVars, processorVars, payments, failureVars>>
    BY DEF TakeSlot
<1>2. IsFiniteSet(Paying') /\ Cardinality(Paying') <= PaymentSlots
  <2>1. CASE route[o] = "sync"
    <3>1. Paying' = Paying \cup {o} /\ o \notin Paying
      BY <1>1, <2>1 DEF IInv, Paying
    <3>2. /\ IsFiniteSet(Paying') /\ Cardinality(Paying') = Cardinality(Paying) + 1
          /\ Cardinality(Paying) \in Nat
      BY <3>1, FS_AddElement, FS_CardinalityType DEF IInv, SlotsCounted
    <3> QED
      BY <1>1, <3>2
  <2>2. CASE route[o] # "sync"
    <3>1. Paying' = Paying
      BY <1>1, <2>2 DEF IInv, Paying
    <3> QED
      BY <3>1 DEF IInv, SlotsCounted
  <2> QED
    BY <2>1, <2>2
<1>3. TypeOK'
    BY <1>1, <1>2 DEF IInv
<1>4. SlotsCounted' /\ TopicAsync' /\ Retrying' /\ PaidMeansPaid' /\ AcceptedNotLost'
    BY <1>1, <1>2 DEF IInv, SlotsCounted, TopicAsync, Retrying, PaidMeansPaid, AcceptedNotLost, GivenUp
<1> QED
    BY <1>3, <1>4 DEF IInv

\* Orders that leave the receiver only free slots.
LEMMA FewerPaying ==
    ASSUME IInv, route' = route, NEW S \in SUBSET Orders, Paying' = Paying \ S
    PROVE  IsFiniteSet(Paying') /\ Cardinality(Paying') <= PaymentSlots
<1>1. Paying' \in SUBSET Paying /\ IsFiniteSet(Paying) /\ Cardinality(Paying) <= PaymentSlots
    BY DEF IInv, SlotsCounted, TypeOK
<1>2. IsFiniteSet(Paying') /\ Cardinality(Paying') <= Cardinality(Paying)
    BY <1>1, FS_Subset
<1>3. Cardinality(Paying') \in Nat /\ Cardinality(Paying) \in Nat
    BY <1>1, <1>2, FS_CardinalityType
<1> QED
    BY <1>1, <1>2, <1>3, SizesAssumption

\* The answer is sent after the payment.
LEMMA AnswerPreserves ==
    ASSUME IInv, NEW o \in Orders, Answer(o)
    PROVE  IInv'
<1> USE DEF TypeOK, deployment, lambdaVars, queueVars, processorVars, failureVars
<1>1. /\ o \in Paying
      /\ run' = [run EXCEPT ![o] = "none"] /\ answer' = [answer EXCEPT ![o] = "200"]
      /\ payments' = PaidOnceMore(o)
      /\ UNCHANGED <<deployment, timer, topic, lambdaVars, queueVars, processorVars, failureVars>>
    BY DEF Answer
<1>2. /\ payments' \in [Orders -> 0..2] /\ payments'[o] > 0
      /\ \A x \in Orders : payments[x] > 0 => payments'[x] > 0
    BY <1>1, PaymentsGrow DEF IInv
<1>3. IsFiniteSet(Paying') /\ Cardinality(Paying') <= PaymentSlots
  <2>1. Paying' = Paying \ {o}
    BY <1>1 DEF IInv, Paying
  <2> QED
    BY <1>1, <2>1, FewerPaying
<1>4. TypeOK'
  <2>1. \A x \in Orders : answer'[x] # IF route[x] = "sync" THEN "202" ELSE "200"
    BY <1>1 DEF IInv, Paying
  <2> QED
    BY <1>1, <1>2, <1>3, <2>1 DEF IInv
<1>5. SlotsCounted' /\ TopicAsync' /\ Retrying' /\ PaidMeansPaid'
    BY <1>1, <1>2, <1>3 DEF IInv, SlotsCounted, TopicAsync, Retrying, PaidMeansPaid
<1>6. AcceptedNotLost'
    BY <1>1, <1>2 DEF IInv, AcceptedNotLost, GivenUp
<1> QED
    BY <1>4, <1>5, <1>6 DEF IInv

\* Customers of a receiver that dies are told nothing of acceptance.
LEMMA CrashReceiverPreserves ==
    ASSUME IInv, CrashReceiver
    PROVE  IInv'
<1> USE SizesAssumption DEF TypeOK, deployment, lambdaVars, queueVars, processorVars
<1> DEFINE S == {o \in Orders : route[o] = "sync"}
<1>1. /\ answer' = [o \in Orders |-> IF route[o] = "sync" /\ run[o] # "none"
                                     THEN "500" ELSE answer[o]]
      /\ run' = [o \in Orders |-> IF route[o] = "sync" THEN "none" ELSE run[o]]
      /\ timer' = [o \in Orders |-> IF route[o] = "sync" THEN 0 ELSE timer[o]]
      /\ failures' = failures + 1 /\ failures < MaxFailures
      /\ UNCHANGED <<deployment, topic, lambdaVars, queueVars, processorVars, payments, paidOnly, late>>
    BY DEF CrashReceiver
<1>2. IsFiniteSet(Paying') /\ Cardinality(Paying') <= PaymentSlots
  <2>1. Paying' = Paying \ S
    BY <1>1 DEF IInv, Paying
  <2> QED
    BY <1>1, <2>1, FewerPaying
<1>3. TypeOK'
  <2>1. failures' \in 0..MaxFailures
    BY <1>1, FaultsAssumption DEF IInv
  <2>2. timer' \in [Orders -> 0..Work] /\ run' \in [Orders -> {"none", "waiting", "paying"}]
    BY <1>1 DEF IInv
  <2>3. /\ answer' \in [Orders -> {"none", "200", "202", "500"}]
        /\ \A x \in Orders : answer'[x] # IF route[x] = "sync" THEN "202" ELSE "200"
    BY <1>1 DEF IInv
  <2> QED
    BY <1>1, <1>2, <2>1, <2>2, <2>3 DEF IInv
<1>4. \A o \in Orders : answer'[o] \in {"200", "202"} =>
          answer'[o] = answer[o] /\ (answer[o] = "202" => run'[o] = run[o])
    BY <1>1 DEF IInv
<1>5. SlotsCounted' /\ TopicAsync' /\ Retrying' /\ PaidMeansPaid' /\ AcceptedNotLost'
    BY <1>1, <1>2, <1>4 DEF IInv, SlotsCounted, TopicAsync, Retrying, PaidMeansPaid, AcceptedNotLost, GivenUp
<1> QED
    BY <1>3, <1>5 DEF IInv

\* A 202 is given only when SNS has the order.
LEMMA PublishPreserves ==
    ASSUME IInv, NEW o \in Orders, Publish(o)
    PROVE  IInv'
<1> USE DEF TypeOK, deployment, lambdaVars, queueVars, processorVars, failureVars, runVars
<1>1. /\ route[o] = "async" /\ answer[o] = "none"
      /\ UNCHANGED <<deployment, runVars, died, queueVars, processorVars, payments, failureVars>>
    BY DEF Publish
<1>2. /\ topic \subseteq topic' /\ topic' \subseteq topic \cup {o}
      /\ events \subseteq events' /\ events' \subseteq events \cup {o}
      /\ \/ answer' = [answer EXCEPT ![o] = "202"] /\ o \in topic' \cup events'
         \/ answer' = [answer EXCEPT ![o] = "500"]
  <2>1. "queue" \in subscribers \/ "lambda" \in subscribers
    BY TopologyAssumption DEF IInv
  <2> QED
    BY <2>1 DEF Publish, Deliverable
<1>3. TypeOK'
  <2>1. /\ answer' \in [Orders -> {"none", "200", "202", "500"}]
        /\ \A x \in Orders : answer'[x] # IF route[x] = "sync" THEN "202" ELSE "200"
    BY <1>1, <1>2 DEF IInv
  <2>2. Cardinality(Paying') <= PaymentSlots
    BY <1>1, PayingUnmoved
  <2>3. topic' \subseteq Orders /\ events' \subseteq Orders
    BY <1>2 DEF IInv
  <2> QED
    BY <1>1, <2>1, <2>2, <2>3 DEF IInv
<1>4. SlotsCounted'
    BY <1>1, PayingUnmoved
<1>5. /\ answer'[o] = "500" \/ (answer'[o] = "202" /\ o \in topic' \cup events')
      /\ \A x \in Orders : x # o => answer'[x] = answer[x]
    BY <1>1, <1>2 DEF IInv
<1>6. TopicAsync'
    BY <1>1, <1>2 DEF IInv, TopicAsync
<1>7. PaidMeansPaid'
    BY <1>1, <1>5 DEF IInv, PaidMeansPaid
<1>9. Retrying'
  <2>1. died[o] = 0 /\ answer'[o] # "none" /\ 0 <= LambdaRetries
    BY <1>1, <1>5, FaultsAssumption DEF IInv, Retrying
  <2>2. \A x \in Orders : x # o => answer'[x] = answer[x] /\ (x \in events' => x \in events)
    BY <1>2, <1>5
  <2>3. UNCHANGED <<died, route, run>> /\ run[o] = "none"
    BY <1>1 DEF IInv, Retrying
  <2> QED
    BY <1>1, <2>1, <2>2, <2>3 DEF IInv, Retrying
<1>8. AcceptedNotLost'
  <2> SUFFICES ASSUME NEW x \in Orders, answer'[x] \in {"200", "202"}, payments[x] = 0
               PROVE  /\ answer'[x] = "202"
                      /\ \/ x \in topic' \cup events' \/ message[x] \in {"visible", "hidden"}
                         \/ run[x] = "paying" \/ died[x] > LambdaRetries
    BY <1>1 DEF AcceptedNotLost, GivenUp
  <2>1. CASE x = o
    BY <1>5, <2>1
  <2>2. CASE x # o
    BY <1>2, <1>5, <2>2 DEF IInv, AcceptedNotLost, GivenUp
  <2> QED
    BY <2>1, <2>2
<1> QED
    BY <1>3, <1>4, <1>6, <1>7, <1>8, <1>9 DEF IInv

-----------------------------------------------------------------------------
(* The topic and its subscriber *)

\* SNS hands an order to the queue.
LEMMA DeliverPreserves ==
    ASSUME IInv, NEW o \in Orders, Deliver(o)
    PROVE  IInv'
<1> USE DEF TypeOK, deployment, lambdaVars, processorVars, failureVars, runVars
<1>1. /\ topic' = topic \ {o} /\ message' = [message EXCEPT ![o] = "visible"]
      /\ UNCHANGED <<deployment, runVars, answer, lambdaVars, hidden, processorVars, payments, failureVars>>
    BY DEF Deliver
<1>2. SlotsCounted' /\ Cardinality(Paying') <= PaymentSlots
    BY <1>1, PayingUnmoved
<1>3. TypeOK'
    BY <1>1, <1>2 DEF IInv
<1>4. TopicAsync' /\ Retrying' /\ PaidMeansPaid' /\ AcceptedNotLost'
    BY <1>1 DEF IInv, TopicAsync, Retrying, PaidMeansPaid, AcceptedNotLost, GivenUp
<1> QED
    BY <1>2, <1>3, <1>4 DEF IInv

\* An order that SNS has was sent to the other endpoint.
LEMMA PayingApart ==
    ASSUME IInv, NEW o \in Orders, route[o] # "sync", route' = route, NEW r,
           run' = [run EXCEPT ![o] = r]
    PROVE  SlotsCounted' /\ Cardinality(Paying') <= PaymentSlots
<1>1. Paying' = Paying
    BY DEF IInv, TypeOK, Paying
<1> QED
    BY <1>1 DEF IInv, TypeOK, SlotsCounted

\* The lambda has the order that is no longer an event.
LEMMA InvokePreserves ==
    ASSUME IInv, NEW o \in Orders, Invoke(o)
    PROVE  IInv'
<1> USE SizesAssumption DEF TypeOK, deployment, lambdaVars, queueVars, processorVars, failureVars
<1>1. /\ o \in events /\ events' = events \ {o}
      /\ run' = [run EXCEPT ![o] = "paying"] /\ timer' = [timer EXCEPT ![o] = Work]
      /\ UNCHANGED <<deployment, answer, topic, died, queueVars, processorVars, payments, failureVars>>
    BY DEF Invoke
<1>2. SlotsCounted' /\ Cardinality(Paying') <= PaymentSlots
  <2>1. route[o] # "sync"
    BY <1>1 DEF IInv, TopicAsync
  <2> QED
    BY <1>1, <2>1, PayingApart
<1>3. TypeOK'
    BY <1>1, <1>2 DEF IInv
<1>4. TopicAsync' /\ Retrying' /\ PaidMeansPaid' /\ AcceptedNotLost'
    BY <1>1 DEF IInv, TopicAsync, Retrying, PaidMeansPaid, AcceptedNotLost, GivenUp
<1> QED
    BY <1>2, <1>3, <1>4 DEF IInv

\* The lambda returns when it has paid.
LEMMA CompletePreserves ==
    ASSUME IInv, NEW o \in Orders, Complete(o)
    PROVE  IInv'
<1> USE DEF TypeOK, deployment, lambdaVars, queueVars, processorVars, failureVars
<1>1. /\ route[o] = "async" /\ run' = [run EXCEPT ![o] = "none"]
      /\ payments' = PaidOnceMore(o)
      /\ UNCHANGED <<deployment, answer, timer, topic, lambdaVars, queueVars, processorVars, failureVars>>
    BY DEF Complete
<1>2. /\ payments' \in [Orders -> 0..2] /\ payments'[o] > 0
      /\ \A x \in Orders : payments[x] > 0 => payments'[x] > 0
    BY <1>1, PaymentsGrow DEF IInv
<1>3. SlotsCounted' /\ Cardinality(Paying') <= PaymentSlots
    BY <1>1, PayingApart
<1>4. TypeOK'
    BY <1>1, <1>2, <1>3 DEF IInv
<1>5. TopicAsync' /\ Retrying' /\ PaidMeansPaid' /\ AcceptedNotLost'
    BY <1>1, <1>2 DEF IInv, TopicAsync, Retrying, PaidMeansPaid, AcceptedNotLost, GivenUp
<1> QED
    BY <1>3, <1>4, <1>5 DEF IInv

\* The order of a lambda that died is an event again, or given up.
LEMMA CrashLambdaPreserves ==
    ASSUME IInv, NEW o \in Orders, CrashLambda(o)
    PROVE  IInv'
<1> USE SizesAssumption DEF TypeOK, deployment, lambdaVars, queueVars, processorVars
<1>1. /\ route[o] = "async" /\ failures < MaxFailures /\ failures' = failures + 1
      /\ run' = [run EXCEPT ![o] = "none"] /\ timer' = [timer EXCEPT ![o] = 0]
      /\ run[o] = "paying" /\ died' = [died EXCEPT ![o] = @ + 1]
      /\ events' = IF died[o] < LambdaRetries THEN events \cup {o} ELSE events
      /\ UNCHANGED <<deployment, answer, topic, queueVars, processorVars, late>>
      /\ paidOnly' \subseteq paidOnly \cup {o}
      /\ payments' = payments \/ payments' = PaidOnceMore(o)
    BY DEF CrashLambda
<1>2. /\ payments' \in [Orders -> 0..2]
      /\ \A x \in Orders : payments[x] > 0 => payments'[x] > 0
    BY <1>1, PaymentsGrow DEF IInv
<1>3. SlotsCounted' /\ Cardinality(Paying') <= PaymentSlots
    BY <1>1, PayingApart
<1>4. TypeOK'
  <2>1. failures' \in 0..MaxFailures
    BY <1>1, FaultsAssumption DEF IInv
  <2>2. timer' \in [Orders -> 0..Work]
    BY <1>1 DEF IInv
  <2>3. died' \in [Orders -> 0..(LambdaRetries + 1)] /\ events' \subseteq Orders
    BY <1>1, FaultsAssumption DEF IInv, Retrying
  <2> QED
    BY <1>1, <1>2, <1>3, <2>1, <2>2, <2>3 DEF IInv
<1>5. TopicAsync' /\ PaidMeansPaid'
    BY <1>1, <1>2 DEF IInv, TopicAsync, PaidMeansPaid
<1>6. /\ \A x \in Orders : x # o => /\ died'[x] = died[x] /\ run'[x] = run[x]
                                    /\ x \in events' => x \in events
                                    /\ x \in events => x \in events'
      /\ run'[o] = "none" /\ died'[o] = died[o] + 1 /\ answer[o] # "none"
      /\ o \in events' <=> died[o] < LambdaRetries
      /\ died[o] \in Nat /\ died[o] <= LambdaRetries /\ LambdaRetries \in Nat
    BY <1>1, FaultsAssumption DEF IInv, Retrying
<1>7. Retrying'
    BY <1>1, <1>6 DEF IInv, Retrying
<1>8. AcceptedNotLost'
  <2>1. \A x \in Orders : payments'[x] = 0 => payments[x] = 0
    BY <1>2 DEF IInv
  <2>2. o \in events' \/ died'[o] > LambdaRetries
    BY <1>6
  <2>3. UNCHANGED <<answer, topic, message>>
    BY <1>1
  <2> QED
    BY <1>6, <2>1, <2>2, <2>3 DEF IInv, AcceptedNotLost, GivenUp
<1> QED
    BY <1>3, <1>4, <1>5, <1>7, <1>8 DEF IInv

-----------------------------------------------------------------------------
(* The processor *)

\* A message that is received is only hidden.
LEMMA ReceivePreserves ==
    ASSUME IInv, NEW S \in SUBSET Orders, Receive(S)
    PROVE  IInv'
<1> USE SizesAssumption DEF TypeOK, deployment, lambdaVars, runVars, failureVars
<1>1. /\ message' = [o \in Orders |-> IF o \in S THEN "hidden" ELSE message[o]]
      /\ hidden' = [o \in Orders |-> IF o \in S THEN Visibility ELSE hidden[o]]
      /\ batch' \subseteq Orders
      /\ fresh' = [s \in Slots |-> fresh[s] /\ slot[s] \notin S]
      /\ UNCHANGED <<deployment, runVars, answer, topic, lambdaVars, slot, left, paid, payments, failureVars>>
    BY DEF Receive
<1>2. SlotsCounted' /\ Cardinality(Paying') <= PaymentSlots
    BY <1>1, PayingUnmoved
<1>3. TypeOK'
  <2>1. fresh' \in [Slots -> BOOLEAN]
    BY <1>1
  <2>2. hidden' \in [Orders -> 0..Visibility]
    BY <1>1 DEF IInv
  <2>3. message' \in [Orders -> {"none", "visible", "hidden", "gone"}]
    BY <1>1 DEF IInv
  <2> QED
    BY <1>1, <1>2, <2>1, <2>2, <2>3 DEF IInv
<1>4. TopicAsync' /\ Retrying' /\ PaidMeansPaid' /\ AcceptedNotLost'
    BY <1>1 DEF IInv, TopicAsync, Retrying, PaidMeansPaid, AcceptedNotLost, GivenUp
<1> QED
    BY <1>2, <1>3, <1>4 DEF IInv

\* A goroutine begins without having paid.
LEMMA DispatchPreserves ==
    ASSUME IInv, NEW o \in Orders, NEW s \in Slots, Dispatch(o, s)
    PROVE  IInv'
<1> USE SizesAssumption DEF TypeOK, deployment, lambdaVars, runVars, queueVars, failureVars
<1>1. /\ batch' = batch \ {o}
      /\ slot' = [slot EXCEPT ![s] = o] /\ left' = [left EXCEPT ![s] = Work]
      /\ paid' = [paid EXCEPT ![s] = FALSE] /\ fresh' = [fresh EXCEPT ![s] = TRUE]
      /\ UNCHANGED <<deployment, runVars, answer, topic, lambdaVars, queueVars, payments, failureVars>>
    BY DEF Dispatch
<1>2. SlotsCounted' /\ Cardinality(Paying') <= PaymentSlots
    BY <1>1, PayingUnmoved
<1>3. TypeOK'
    BY <1>1, <1>2 DEF IInv
<1>4. TopicAsync' /\ Retrying' /\ PaidMeansPaid' /\ AcceptedNotLost'
    BY <1>1 DEF IInv, TopicAsync, Retrying, PaidMeansPaid, AcceptedNotLost, GivenUp
<1> QED
    BY <1>2, <1>3, <1>4 DEF IInv

\* The goroutine's order is paid.
LEMMA PayPreserves ==
    ASSUME IInv, NEW s \in Slots, Pay(s)
    PROVE  IInv'
<1> USE DEF TypeOK, deployment, lambdaVars, runVars, queueVars, failureVars
<1>1. /\ slot[s] # None /\ paid' = [paid EXCEPT ![s] = TRUE]
      /\ payments' = PaidOnceMore(slot[s])
      /\ UNCHANGED <<deployment, runVars, answer, topic, lambdaVars, queueVars, batch, slot, left, fresh, failureVars>>
    BY DEF Pay
<1>2. /\ payments' \in [Orders -> 0..2] /\ payments'[slot[s]] > 0
      /\ \A x \in Orders : payments[x] > 0 => payments'[x] > 0
  <2>1. slot[s] \in Orders
    BY <1>1 DEF IInv
  <2> QED
    BY <1>1, <2>1, PaymentsGrow DEF IInv
<1>3. SlotsCounted' /\ Cardinality(Paying') <= PaymentSlots
    BY <1>1, PayingUnmoved
<1>4. TypeOK'
    BY <1>1, <1>2, <1>3 DEF IInv
<1>5. TopicAsync' /\ Retrying' /\ PaidMeansPaid'
    BY <1>1, <1>2 DEF IInv, TopicAsync, Retrying, PaidMeansPaid
<1>6. AcceptedNotLost'
  <2>1. \A x \in Orders : payments'[x] = 0 => payments[x] = 0
    BY <1>2 DEF IInv
  <2> QED
    BY <1>1, <2>1 DEF IInv, AcceptedNotLost, GivenUp
<1> QED
    BY <1>3, <1>4, <1>5, <1>6 DEF IInv

\* Only the message of an order that was paid is deleted, whatever receipt deletes it.
LEMMA DeletePreserves ==
    ASSUME IInv, NEW s \in Slots, Delete(s)
    PROVE  IInv'
<1> USE SizesAssumption, FaultsAssumption DEF TypeOK, deployment, lambdaVars, runVars, queueVars, failureVars
<1>1. /\ slot[s] # None /\ paid[s] /\ slot[s] \in Orders
      /\ slot' = [slot EXCEPT ![s] = None]
      /\ paid' = [paid EXCEPT ![s] = FALSE] /\ fresh' = [fresh EXCEPT ![s] = FALSE]
      /\ UNCHANGED <<deployment, runVars, answer, topic, lambdaVars, batch, left, payments, late>>
    BY DEF Delete, IInv
<1>2. /\ message' = message \/ message' = [message EXCEPT ![slot[s]] = "gone"]
      /\ hidden' = hidden \/ hidden' = [hidden EXCEPT ![slot[s]] = 0]
      /\ failures' = failures \/ (failures < MaxFailures /\ failures' = failures + 1)
      /\ paidOnly' \subseteq paidOnly \cup {slot[s]}
    BY DEF Delete
<1>3. SlotsCounted' /\ Cardinality(Paying') <= PaymentSlots
    BY <1>1, PayingUnmoved
<1>4. TypeOK'
  <2>1. failures' \in 0..MaxFailures
    BY <1>2 DEF IInv
  <2>2. message' \in [Orders -> {"none", "visible", "hidden", "gone"}]
    BY <1>2 DEF IInv
  <2>3. hidden' \in [Orders -> 0..Visibility]
    BY <1>2 DEF IInv
  <2>4. slot' \in [Slots -> Orders \cup {None}]
    BY <1>1 DEF IInv
  <2>5. paid' \in [Slots -> BOOLEAN] /\ fresh' \in [Slots -> BOOLEAN]
    BY <1>1 DEF IInv
  <2> QED
    BY <1>1, <1>2, <1>3, <2>1, <2>2, <2>3, <2>4, <2>5 DEF IInv
<1>5. TopicAsync' /\ Retrying' /\ PaidMeansPaid'
    BY <1>1 DEF IInv, TopicAsync, Retrying, PaidMeansPaid
<1>6. AcceptedNotLost'
  <2>1. payments[slot[s]] > 0
    BY <1>1 DEF IInv, PaidMeansPaid
  <2>2. \A x \in Orders : message'[x] = message[x] \/ x = slot[s]
    BY <1>2 DEF IInv
  <2> QED
    BY <1>1, <2>1, <2>2 DEF IInv, AcceptedNotLost, GivenUp
<1> QED
    BY <1>3, <1>4, <1>5, <1>6 DEF IInv

\* SQS knows nothing of a processor that dies.
LEMMA CrashPreserves ==
    ASSUME IInv, Crash
    PROVE  IInv'
<1> USE SizesAssumption, FaultsAssumption DEF TypeOK, deployment, lambdaVars, runVars, queueVars
<1>1. /\ batch' = {}
      /\ slot' = [s \in Slots |-> None] /\ paid' = [s \in Slots |-> FALSE]
      /\ left' = [s \in Slots |-> 0] /\ fresh' = [s \in Slots |-> FALSE]
      /\ failures < MaxFailures /\ failures' = failures + 1
      /\ UNCHANGED <<deployment, runVars, answer, topic, lambdaVars, queueVars, payments, late>>
    BY DEF Crash
<1>2. SlotsCounted' /\ Cardinality(Paying') <= PaymentSlots
    BY <1>1, PayingUnmoved
<1>3. paidOnly' \subseteq Orders
  <2>1. \A s \in Slots : paid[s] => slot[s] \in Orders
    BY DEF IInv, PaidMeansPaid
  <2> QED
    BY <2>1 DEF Crash, IInv
<1>4. TypeOK'
  <2>1. failures' \in 0..MaxFailures
    BY <1>1 DEF IInv
  <2> QED
    BY <1>1, <1>2, <1>3, <2>1 DEF IInv
<1>5. TopicAsync' /\ Retrying' /\ PaidMeansPaid' /\ AcceptedNotLost'
    BY <1>1 DEF IInv, TopicAsync, Retrying, PaidMeansPaid, AcceptedNotLost, GivenUp
<1> QED
    BY <1>2, <1>4, <1>5 DEF IInv

\* Time hides no message and forgets none.
LEMMA TickPreserves ==
    ASSUME IInv, Tick
    PROVE  IInv'
<1> USE SizesAssumption DEF TypeOK, deployment, lambdaVars
<1>1. /\ late' = (late \/ ~Settled)
      /\ timer' = [o \in Orders |-> IF timer[o] > 0 THEN timer[o] - 1 ELSE 0]
      /\ left' = [s \in Slots |-> IF left[s] > 0 THEN left[s] - 1 ELSE 0]
      /\ hidden' = [o \in Orders |-> IF hidden[o] > 0 THEN hidden[o] - 1 ELSE 0]
      /\ message' = [o \in Orders |-> IF message[o] = "hidden" /\ hidden[o] = 1
                                      THEN "visible" ELSE message[o]]
      /\ UNCHANGED <<deployment, run, answer, topic, lambdaVars, batch, slot, paid, fresh>>
      /\ UNCHANGED <<payments, failures, paidOnly>>
    BY DEF Tick
<1>2. SlotsCounted' /\ Cardinality(Paying') <= PaymentSlots
    BY <1>1, PayingUnmoved
<1>3. TypeOK'
  <2>1. timer' \in [Orders -> 0..Work] /\ left' \in [Slots -> 0..Work]
    BY <1>1 DEF IInv
  <2>2. hidden' \in [Orders -> 0..Visibility]
    BY <1>1 DEF IInv
  <2>3. message' \in [Orders -> {"none", "visible", "hidden", "gone"}]
    BY <1>1 DEF IInv
  <2>4. late' \in BOOLEAN
    BY <1>1
  <2> QED
    BY <1>1, <1>2, <2>1, <2>2, <2>3, <2>4 DEF IInv
<1>4. TopicAsync' /\ Retrying' /\ PaidMeansPaid' /\ AcceptedNotLost'
    BY <1>1 DEF IInv, TopicAsync, Retrying, PaidMeansPaid, AcceptedNotLost, GivenUp
<1> QED
    BY <1>2, <1>3, <1>4 DEF IInv

\* Every step preserves the invariant.
LEMMA NextPreserves == IInv /\ [Next]_vars => IInv'
<1> SUFFICES ASSUME IInv, [Next]_vars PROVE IInv'
    OBVIOUS
<1>1. CASE UNCHANGED vars
    BY <1>1 DEF vars, deployment, lambdaVars, runVars, queueVars, processorVars, failureVars, IInv, TypeOK,
        Paying, SlotsCounted, TopicAsync, Retrying, PaidMeansPaid, AcceptedNotLost, GivenUp
<1>2. CASE Next
    BY <1>2, WaitPreserves, TakeSlotPreserves, AnswerPreserves, CrashReceiverPreserves,
        PublishPreserves, DeliverPreserves, InvokePreserves, CompletePreserves,
        CrashLambdaPreserves, ReceivePreserves, DispatchPreserves, PayPreserves,
        DeletePreserves, CrashPreserves, TickPreserves DEF Next
<1> QED
    BY <1>1, <1>2

-----------------------------------------------------------------------------
(* The theorems *)

\* The invariant of receiver, topic, queue and processor.
THEOREM Invariant == Spec => []IInv
<1>1. Init => IInv
  <2> SUFFICES ASSUME Init PROVE IInv
    OBVIOUS
  <2>1. Paying = {} /\ IsFiniteSet(Paying) /\ Cardinality(Paying) = 0
    BY FS_EmptySet DEF Init, Paying
  <2>2. TypeOK
    <3>1. Cardinality(Paying) <= PaymentSlots /\ failures \in 0..MaxFailures
      BY <2>1, SizesAssumption, FaultsAssumption DEF Init
    <3>2. /\ timer \in [Orders -> 0..Work] /\ left \in [Slots -> 0..Work]
          /\ hidden \in [Orders -> 0..Visibility]
      BY SizesAssumption DEF Init
    <3>3. /\ route \in [Orders -> {"sync", "async"}] /\ subscribers \in Topologies
          /\ answer \in [Orders -> {"none", "200", "202", "500"}]
          /\ \A o \in Orders : answer[o] = "none"
      BY DEF Init
    <3>4. /\ run \in [Orders -> {"none", "waiting", "paying"}] /\ topic = {} /\ batch = {}
          /\ events = {} /\ died \in [Orders -> 0..(LambdaRetries + 1)]
          /\ message \in [Orders -> {"none", "visible", "hidden", "gone"}]
          /\ payments \in [Orders -> 0..2] /\ paidOnly = {}
      BY FaultsAssumption DEF Init
    <3>5. /\ slot \in [Slots -> Orders \cup {None}] /\ late \in BOOLEAN
          /\ paid \in [Slots -> BOOLEAN] /\ fresh \in [Slots -> BOOLEAN]
      BY DEF Init
    <3> QED
      BY <3>1, <3>2, <3>3, <3>4, <3>5 DEF TypeOK
  <2>3. SlotsCounted /\ TopicAsync /\ Retrying /\ PaidMeansPaid /\ AcceptedNotLost
    BY <2>1, FaultsAssumption DEF Init, SlotsCounted, TopicAsync, Retrying, PaidMeansPaid, AcceptedNotLost, GivenUp
  <2> QED
    BY <2>2, <2>3 DEF IInv
<1> QED
    BY <1>1, NextPreserves, PTL DEF Spec

\* Answers, messages and timers keep their types, and no more orders are paid by
\* waiting customers at a time than there are payment slots.
THEOREM TypeCorrect == Spec => []TypeOK
<1>1. IInv => TypeOK
    BY DEF IInv
<1> QED
    BY <1>1, Invariant, PTL

\* An order answered 202 is with SNS, the queue or a lambda until it is paid,
\* unless AWS gives up the lambda, and one answered 200 is paid, whatever crashes.
THEOREM NeverLost == Spec => []AcceptedNotLost
<1>1. IInv => AcceptedNotLost
    BY DEF IInv
<1> QED
    BY <1>1, Invariant, PTL

-----------------------------------------------------------------------------
(* No order is paid twice *)

\* A batch is paid, by so many rounds of all workers and the one that is still
\* running, before its messages are shown again.
FitsVisibility ==
    \E rounds \in Nat : Batch <= rounds * Workers /\ (rounds + 1) * Work < Visibility

\* The topic has one subscriber.
OneSubscriber == subscribers # {"queue", "lambda"}

\* An order is at one place of receiver, topic, queue and lambda at a time, and
\* unpaid as long as its customer has no answer.
Places ==
    \A o \in Orders :
        /\ o \in topic \cup events => message[o] = "none" /\ run[o] = "none"
        /\ o \in topic => o \notin events
        /\ message[o] # "none" => run[o] = "none"
        /\ o \in batch \/ (\E s \in Slots : slot[s] = o) => message[o] # "none"
        /\ answer[o] = "none" =>
              /\ payments[o] = 0 /\ o \notin topic \cup events /\ message[o] = "none"
              /\ route[o] = "async" => run[o] = "none"
        /\ route[o] = "sync" /\ run[o] # "none" => answer[o] = "none"

\* A goroutine pays when its time is over.
PaidIdle == \A s \in Slots : paid[s] => left[s] = 0

\* What goroutines and poll loop hold is hidden long enough, and held once.
Holding ==
    /\ \A s \in Slots : slot[s] # None =>
          /\ fresh[s] /\ message[slot[s]] = "hidden" /\ hidden[slot[s]] > left[s]
          /\ slot[s] \notin batch
    /\ \A r, s \in Slots : slot[s] # None /\ slot[r] = slot[s] => r = s
    /\ \A o \in batch : message[o] = "hidden"

\* The workers that take an order within t ticks.
Ready(t) == {s \in Slots : slot[s] = None \/ left[s] <= t}

\* The batch is handed out in t ticks and so many full rounds, and its messages
\* are hidden for that and one more payment.
Budget ==
    batch # {} => \E t \in 0..Work, rounds \in Nat :
        /\ Cardinality(batch) <= rounds * Workers + Cardinality(Ready(t))
        /\ \A o \in batch : hidden[o] > t + (rounds + 1) * Work

\* An order that is paid is nowhere any more, but for the goroutine that is to
\* delete its message.
PaidDone ==
    \A o \in Orders : payments[o] > 0 /\ o \notin paidOnly =>
        /\ o \notin topic \cup events /\ run[o] = "none" /\ answer[o] # "none"
        /\ o \notin batch /\ message[o] # "visible"
        /\ message[o] = "hidden" => \E s \in Slots : slot[s] = o
        /\ \A s \in Slots : slot[s] = o => paid[s]

InTime == ~late => Holding /\ Budget /\ PaidDone /\ PaidOnce

OnceInv == IInv /\ OneSubscriber /\ Places /\ PaidIdle /\ InTime

\* The workers can be counted, and so can those that are ready.
LEMMA SlotsFinite ==
    /\ IsFiniteSet(Slots) /\ Cardinality(Slots) = Workers
    /\ \A S \in SUBSET Slots : IsFiniteSet(S) /\ Cardinality(S) \in Nat
<1>1. IsFiniteSet(Slots) /\ Cardinality(Slots) = Workers
    BY SizesAssumption, FS_Interval DEF Slots
<1>2. ASSUME NEW S \in SUBSET Slots PROVE IsFiniteSet(S) /\ Cardinality(S) \in Nat
    BY <1>1, <1>2, FS_Subset, FS_CardinalityType
<1> QED
    BY <1>1, <1>2

\* One more round.
LEMMA OneMoreRound ==
    ASSUME NEW n \in Nat, NEW k \in Nat
    PROVE  /\ (n + 1) * k = n * k + k
           /\ n * k \in Nat
    OBVIOUS

\* Places say where an order is, whatever the times.
LEMMA PlacesPreserved ==
    ASSUME IInv, OneSubscriber, Places, Next
    PROVE  Places'
<1> USE FaultsAssumption DEF IInv, TypeOK, Places, PaidOnceMore, deployment, lambdaVars, runVars, queueVars, processorVars,
            failureVars
<1>1. ASSUME NEW o \in Orders, Wait(o) PROVE Places'
    BY <1>1 DEF Wait
<1>2. ASSUME NEW o \in Orders, TakeSlot(o) PROVE Places'
    BY <1>2 DEF TakeSlot
<1>3. ASSUME NEW o \in Orders, Answer(o) PROVE Places'
    BY <1>3 DEF Answer, Paying
<1>4. ASSUME CrashReceiver PROVE Places'
    BY <1>4 DEF CrashReceiver
<1>5. ASSUME NEW o \in Orders, Publish(o) PROVE Places'
  <2>1. ~("queue" \in subscribers /\ "lambda" \in subscribers)
    BY TopologyAssumption DEF OneSubscriber
  <2>2. /\ topic' = topic \/ topic' = topic \cup {o}
        /\ events' = events \/ events' = events \cup {o}
        /\ topic' = topic \/ events' = events
        /\ answer[o] = "none" /\ answer'[o] # "none" /\ route[o] = "async"
        /\ \A x \in Orders : x # o => answer'[x] = answer[x]
        /\ UNCHANGED <<route, run, message, batch, slot, payments>>
    BY <1>5, <2>1 DEF Publish, Deliverable
  <2> QED
    BY <2>2
<1>6. ASSUME NEW o \in Orders, Deliver(o) PROVE Places'
    BY <1>6 DEF Deliver
<1>7. ASSUME NEW o \in Orders, Invoke(o) PROVE Places'
    BY <1>7 DEF Invoke, TopicAsync
<1>8. ASSUME NEW o \in Orders, Complete(o) PROVE Places'
    BY <1>8 DEF Complete
<1>9. ASSUME NEW o \in Orders, CrashLambda(o) PROVE Places'
    BY <1>9 DEF CrashLambda
<1>10. ASSUME NEW S \in SUBSET Orders, Receive(S) PROVE Places'
    BY <1>10 DEF Receive
<1>11. ASSUME NEW o \in Orders, NEW s \in Slots, Dispatch(o, s) PROVE Places'
    BY <1>11 DEF Dispatch
<1>12. ASSUME NEW s \in Slots, Pay(s) PROVE Places'
    BY <1>12 DEF Pay
<1>13. ASSUME NEW s \in Slots, Delete(s) PROVE Places'
    BY <1>13 DEF Delete
<1>14. ASSUME Crash PROVE Places'
    BY <1>14 DEF Crash
<1>15. ASSUME Tick PROVE Places'
    BY <1>15 DEF Tick
<1> QED
    BY <1>1, <1>2, <1>3, <1>4, <1>5, <1>6, <1>7, <1>8, <1>9, <1>10, <1>11, <1>12, <1>13, <1>14,
       <1>15 DEF Next

\* Outside the processor nothing of what it holds changes.
LEMMA HoldingUnmoved ==
    ASSUME Holding, Budget, UNCHANGED <<hidden, processorVars>>,
           \A o \in Orders : message[o] = "hidden" => message'[o] = "hidden",
           TypeOK
    PROVE  Holding' /\ Budget'
<1>1. UNCHANGED <<hidden, batch, slot, left, paid, fresh>>
    BY DEF processorVars
<1>2. Holding'
    BY <1>1 DEF Holding, TypeOK
<1>3. Budget'
    BY <1>1 DEF Budget, Ready
<1> QED
    BY <1>2, <1>3

\* Receiver, SNS and lambda pay an order that was nowhere else.
LEMMA OutsideOnce ==
    ASSUME OnceInv, ~late', NEW o \in Orders,
           \/ Wait(o) \/ TakeSlot(o) \/ Answer(o) \/ CrashReceiver
           \/ Publish(o) \/ Deliver(o) \/ Invoke(o) \/ Complete(o) \/ CrashLambda(o)
    PROVE  Holding' /\ Budget' /\ PaidDone' /\ PaidOnce'
<1> USE FaultsAssumption
        DEF OnceInv, InTime, IInv, TypeOK, failureVars, deployment, lambdaVars, runVars, queueVars
<1>1. /\ UNCHANGED <<hidden, processorVars>> /\ ~late
      /\ \A x \in Orders : message[x] = "hidden" => message'[x] = "hidden"
    BY DEF Wait, TakeSlot, Answer, CrashReceiver, Publish, Deliver, Invoke, Complete, CrashLambda,
           Places
<1>2. Holding' /\ Budget'
    BY <1>1, HoldingUnmoved
<1> USE DEF PaidDone, PaidOnce, Holding, Places, PaidOnceMore, processorVars
<1>3. ASSUME Wait(o) \/ TakeSlot(o) PROVE PaidDone' /\ PaidOnce'
    BY <1>1, <1>3 DEF Wait, TakeSlot
<1>4. ASSUME Answer(o) PROVE PaidDone' /\ PaidOnce'
  <2>1. /\ answer[o] = "none" /\ payments[o] = 0 /\ o \notin topic \cup events /\ message[o] = "none"
        /\ o \notin batch /\ \A s \in Slots : slot[s] # o
    BY <1>4 DEF Answer, Paying
  <2>2. /\ UNCHANGED <<topic, events, message, batch, slot, paid, paidOnly, subscribers>>
        /\ answer' = [answer EXCEPT ![o] = "200"] /\ run' = [run EXCEPT ![o] = "none"]
        /\ payments'[o] = 1 /\ \A x \in Orders : x # o => payments'[x] = payments[x]
    BY <1>4, <2>1 DEF Answer
  <2> QED
    BY <1>1, <2>1, <2>2
<1>5. ASSUME CrashReceiver PROVE PaidDone' /\ PaidOnce'
    BY <1>1, <1>5 DEF CrashReceiver
<1>6. ASSUME Publish(o) PROVE PaidDone' /\ PaidOnce'
    BY <1>1, <1>6 DEF Publish, Deliverable
<1>7. ASSUME Deliver(o) PROVE PaidDone' /\ PaidOnce'
    BY <1>1, <1>7 DEF Deliver
<1>8. ASSUME Invoke(o) PROVE PaidDone' /\ PaidOnce'
    BY <1>1, <1>8 DEF Invoke
<1>9. ASSUME Complete(o) PROVE PaidDone' /\ PaidOnce'
  <2>1. /\ answer[o] # "none" /\ o \notin topic \cup events /\ message[o] = "none"
        /\ o \notin batch /\ \A s \in Slots : slot[s] # o
        /\ payments[o] = 0 \/ o \in paidOnly
    BY <1>1, <1>9 DEF Complete
  <2>2. /\ UNCHANGED <<topic, events, message, batch, slot, paid, paidOnly, answer, subscribers>>
        /\ run' = [run EXCEPT ![o] = "none"]
        /\ payments'[o] = 1 \/ o \in paidOnly
        /\ \A x \in Orders : x # o => payments'[x] = payments[x]
    BY <1>9, <2>1 DEF Complete
  <2> QED
    BY <1>1, <2>1, <2>2
<1>10. ASSUME CrashLambda(o) PROVE PaidDone' /\ PaidOnce'
    BY <1>1, <1>10 DEF CrashLambda
<1> QED
    BY <1>2, <1>3, <1>4, <1>5, <1>6, <1>7, <1>8, <1>9, <1>10

\* A batch is received when nobody holds its messages, and fits its time.
LEMMA ReceiveOnce ==
    ASSUME OnceInv, FitsVisibility, IsFiniteSet(Orders), ~late', NEW S \in SUBSET Orders, Receive(S)
    PROVE  Holding' /\ Budget' /\ PaidDone' /\ PaidOnce'
<1> USE DEF OnceInv, InTime, IInv, TypeOK, failureVars, deployment, lambdaVars, runVars
<1>1. /\ ~late /\ batch = {} /\ batch' \in {{}, S}
      /\ Cardinality(S) <= Batch /\ \A o \in S : message[o] = "visible"
      /\ message' = [o \in Orders |-> IF o \in S THEN "hidden" ELSE message[o]]
      /\ hidden' = [o \in Orders |-> IF o \in S THEN Visibility ELSE hidden[o]]
      /\ fresh' = [s \in Slots |-> fresh[s] /\ slot[s] \notin S]
      /\ UNCHANGED <<deployment, runVars, answer, topic, lambdaVars, slot, left, paid, payments, paidOnly>>
    BY DEF Receive
<1>2. \A s \in Slots : slot[s] # None => slot[s] \notin S /\ slot[s] \in Orders
    BY <1>1 DEF Holding
<1>3. Holding'
  <2>1. ASSUME NEW s \in Slots, slot'[s] # None
        PROVE  /\ fresh'[s] /\ message'[slot'[s]] = "hidden" /\ hidden'[slot'[s]] > left'[s]
               /\ slot'[s] \notin batch'
    BY <1>1, <1>2, <2>1 DEF Holding
  <2>2. \A r, s \in Slots : slot'[s] # None /\ slot'[r] = slot'[s] => r = s
    BY <1>1 DEF Holding
  <2>3. \A o \in batch' : message'[o] = "hidden"
    BY <1>1
  <2> QED
    BY <2>1, <2>2, <2>3 DEF Holding
<1>4. Budget'
  <2> SUFFICES ASSUME batch' = S PROVE Budget'
    BY <1>1 DEF Budget
  <2>1. PICK rounds \in Nat : Batch <= rounds * Workers /\ (rounds + 1) * Work < Visibility
    BY DEF FitsVisibility
  <2>2. rounds # 0
    BY <2>1, SizesAssumption
  <2>3. PICK n \in Nat : rounds = n + 1
    BY <2>2, rounds - 1 \in Nat, rounds = (rounds - 1) + 1
  <2>4. /\ rounds * Workers = n * Workers + Workers /\ n * Workers \in Nat
        /\ (rounds + 1) * Work = rounds * Work + Work
    BY <2>3, OneMoreRound, SizesAssumption
  <2>5. Ready(Work)' = Slots
    BY <1>1 DEF Ready
  <2>6. Cardinality(batch') <= n * Workers + Cardinality(Ready(Work)')
    <3>1. Cardinality(batch') \in Nat
      BY FS_Subset, FS_CardinalityType
    <3>2. Cardinality(batch') <= Batch /\ Batch <= n * Workers + Workers
      BY <1>1, <2>1, <2>4
    <3>3. Cardinality(Ready(Work)') = Workers
      BY <2>5, SlotsFinite
    <3> QED
      BY <2>4, <3>1, <3>2, <3>3, SizesAssumption
  <2>7. \A o \in batch' : hidden'[o] > Work + (n + 1) * Work
    <3>1. Visibility > Work + rounds * Work
      <4>1. Visibility > rounds * Work + Work
        BY <2>1, <2>4
      <4>2. rounds * Work \in Nat
        BY OneMoreRound, SizesAssumption
      <4> QED
        BY <4>1, <4>2, SizesAssumption
    <3> QED
      BY <1>1, <2>3, <3>1
  <2>8. Work \in 0..Work
    BY SizesAssumption
  <2> QED
    BY <2>6, <2>7, <2>8 DEF Budget
<1>5. PaidDone' /\ PaidOnce'
    BY <1>1 DEF PaidDone, PaidOnce
<1> QED
    BY <1>3, <1>4, <1>5

\* A goroutine takes an order with a payment's time to spare, and the rest of
\* the batch has one worker less to wait for.
LEMMA DispatchOnce ==
    ASSUME OnceInv, IsFiniteSet(Orders), ~late', NEW o \in Orders, NEW s \in Slots, Dispatch(o, s)
    PROVE  Holding' /\ Budget' /\ PaidDone' /\ PaidOnce'
<1> USE SizesAssumption, FaultsAssumption
        DEF OnceInv, InTime, IInv, TypeOK, failureVars, deployment, lambdaVars, runVars, queueVars
<1>1. /\ ~late /\ o \in batch /\ slot[s] = None /\ batch' = batch \ {o}
      /\ slot' = [slot EXCEPT ![s] = o]
      /\ left' = [left EXCEPT ![s] = Work]
      /\ paid' = [paid EXCEPT ![s] = FALSE]
      /\ fresh' = [fresh EXCEPT ![s] = TRUE]
      /\ UNCHANGED <<deployment, runVars, answer, topic, lambdaVars, message, hidden, payments, paidOnly>>
    BY DEF Dispatch, Free
<1>2. PICK t \in 0..Work, rounds \in Nat :
         /\ Cardinality(batch) <= rounds * Workers + Cardinality(Ready(t))
         /\ \A x \in batch : hidden[x] > t + (rounds + 1) * Work
    BY <1>1 DEF Budget
<1>3. hidden[o] > Work
  <2>1. (rounds + 1) * Work = rounds * Work + Work /\ rounds * Work \in Nat
    BY OneMoreRound
  <2>2. hidden[o] > t + (rounds * Work + Work) /\ hidden[o] \in Nat
    BY <1>1, <1>2, <2>1
  <2> QED
    BY <2>1, <2>2
<1>4. Holding'
  <2>1. \A r \in Slots : slot[r] # o
    BY <1>1 DEF Holding
  <2>2. ASSUME NEW r \in Slots, slot'[r] # None
        PROVE  /\ fresh'[r] /\ message'[slot'[r]] = "hidden" /\ hidden'[slot'[r]] > left'[r]
               /\ slot'[r] \notin batch'
    <3>1. CASE r = s
      BY <1>1, <1>3, <3>1 DEF Holding
    <3>2. CASE r # s
      BY <1>1, <2>2, <3>2 DEF Holding
    <3> QED
      BY <3>1, <3>2
  <2>3. \A q, r \in Slots : slot'[r] # None /\ slot'[q] = slot'[r] => q = r
    BY <1>1, <2>1 DEF Holding
  <2>4. \A x \in batch' : message'[x] = "hidden"
    BY <1>1 DEF Holding
  <2> QED
    BY <2>2, <2>3, <2>4 DEF Holding
<1>5. Budget'
  <2>1. IsFiniteSet(batch) /\ Cardinality(batch) \in Nat
    BY FS_Subset, FS_CardinalityType
  <2>2. Cardinality(batch') = Cardinality(batch) - 1
    BY <1>1, <2>1, FS_RemoveElement
  <2>3. Ready(t) \in SUBSET Slots /\ Ready(t)' \in SUBSET Slots
    BY DEF Ready
  <2>4. /\ IsFiniteSet(Ready(t)) /\ Cardinality(Ready(t)) \in Nat
        /\ IsFiniteSet(Ready(t)') /\ Cardinality(Ready(t)') \in Nat
    BY <2>3, SlotsFinite
  <2>5. s \in Ready(t)
    BY <1>1 DEF Ready
  <2>6. Cardinality(Ready(t) \ {s}) = Cardinality(Ready(t)) - 1
    BY <2>4, <2>5, FS_RemoveElement
  <2>7. Ready(t) \ {s} \in SUBSET Ready(t)'
    BY <1>1 DEF Ready
  <2>8. Cardinality(Ready(t) \ {s}) <= Cardinality(Ready(t)')
    BY <2>4, <2>7, FS_Subset
  <2>9. Cardinality(batch') <= rounds * Workers + Cardinality(Ready(t)')
    <3>1. rounds * Workers \in Nat
      BY OneMoreRound
    <3> QED
      BY <1>2, <2>1, <2>2, <2>4, <2>6, <2>8, <3>1
  <2>10. \A x \in batch' : hidden'[x] > t + (rounds + 1) * Work
    BY <1>1, <1>2
  <2> QED
    BY <2>9, <2>10 DEF Budget
<1>6. PaidDone' /\ PaidOnce'
    BY <1>1 DEF PaidDone, PaidOnce
<1> QED
    BY <1>4, <1>5, <1>6

\* The order a goroutine pays was not paid before: nobody else holds it.
LEMMA PayOnce ==
    ASSUME OnceInv, ~late', NEW s \in Slots, Pay(s)
    PROVE  Holding' /\ Budget' /\ PaidDone' /\ PaidOnce'
<1> USE FaultsAssumption DEF OnceInv, InTime, IInv, TypeOK, failureVars, deployment, lambdaVars, runVars, queueVars
<1> DEFINE o == slot[s]
<1>1. /\ ~late /\ o # None /\ o \in Orders /\ ~paid[s]
      /\ paid' = [paid EXCEPT ![s] = TRUE] /\ payments' = PaidOnceMore(o)
      /\ UNCHANGED <<deployment, runVars, answer, topic, lambdaVars, message, hidden, batch, slot, left, fresh,
                     paidOnly>>
    BY DEF Pay
<1>2. Holding'
    BY <1>1 DEF Holding
<1>3. Budget'
    BY <1>1 DEF Budget, Ready
<1>4. payments[o] = 0 \/ o \in paidOnly
    BY <1>1 DEF PaidDone
<1>5. /\ \A x \in Orders : x # o => payments'[x] = payments[x]
      /\ o \in paidOnly \/ payments'[o] = 1
    BY <1>1, <1>4 DEF PaidOnceMore
<1>6. /\ message[o] = "hidden" /\ o \notin batch
      /\ \A r \in Slots : slot[r] = o => r = s
    BY <1>1 DEF Holding
<1>7. o \notin topic \cup events /\ run[o] = "none" /\ answer[o] # "none"
    BY <1>1, <1>6 DEF Places
<1>8. PaidDone'
    BY <1>1, <1>5, <1>6, <1>7 DEF PaidDone
<1>9. PaidOnce'
    BY <1>1, <1>5 DEF PaidOnce
<1> QED
    BY <1>2, <1>3, <1>8, <1>9

\* The message of a paid order goes, or the failure is on record.
LEMMA DeleteOnce ==
    ASSUME OnceInv, IsFiniteSet(Orders), ~late', NEW s \in Slots, Delete(s)
    PROVE  Holding' /\ Budget' /\ PaidDone' /\ PaidOnce'
<1> USE FaultsAssumption DEF OnceInv, InTime, IInv, TypeOK, failureVars, deployment, lambdaVars, runVars, queueVars
<1> DEFINE o == slot[s]
<1>1. /\ ~late /\ o # None /\ o \in Orders /\ paid[s]
      /\ slot' = [slot EXCEPT ![s] = None]
      /\ paid' = [paid EXCEPT ![s] = FALSE] /\ fresh' = [fresh EXCEPT ![s] = FALSE]
      /\ UNCHANGED <<deployment, runVars, answer, topic, lambdaVars, batch, left, payments>>
    BY DEF Delete
<1>2. \/ /\ message' = [message EXCEPT ![o] = "gone"] /\ hidden' = [hidden EXCEPT ![o] = 0]
         /\ paidOnly' = paidOnly
      \/ UNCHANGED <<message, hidden>> /\ paidOnly' = paidOnly \cup {o}
    BY <1>1 DEF Delete, Holding
<1>3. /\ o \notin batch
      /\ \A r \in Slots : r # s => slot[r] # o
    BY <1>1 DEF Holding
<1>4. \A x \in Orders : x # o => message'[x] = message[x] /\ hidden'[x] = hidden[x]
    BY <1>2
<1>5. Holding'
  <2>1. ASSUME NEW r \in Slots, slot'[r] # None
        PROVE  /\ fresh'[r] /\ message'[slot'[r]] = "hidden" /\ hidden'[slot'[r]] > left'[r]
               /\ slot'[r] \notin batch'
    <3>1. r # s /\ slot'[r] = slot[r] /\ fresh'[r] = fresh[r]
      BY <1>1, <2>1
    <3>2. slot[r] \in Orders /\ slot[r] # o
      BY <1>3, <2>1, <3>1
    <3> QED
      BY <1>1, <1>4, <2>1, <3>1, <3>2 DEF Holding
  <2>2. \A q, r \in Slots : slot'[r] # None /\ slot'[q] = slot'[r] => q = r
    BY <1>1 DEF Holding
  <2>3. \A x \in batch' : message'[x] = "hidden"
    BY <1>1, <1>3, <1>4 DEF Holding
  <2> QED
    BY <2>1, <2>2, <2>3 DEF Holding
<1>6. Budget'
  <2> SUFFICES ASSUME batch # {} PROVE Budget'
    BY <1>1 DEF Budget
  <2>1. PICK t \in 0..Work, rounds \in Nat :
           /\ Cardinality(batch) <= rounds * Workers + Cardinality(Ready(t))
           /\ \A x \in batch : hidden[x] > t + (rounds + 1) * Work
    BY <1>1 DEF Budget
  <2>2. Ready(t) \in SUBSET Ready(t)' /\ Ready(t)' \in SUBSET Slots
    BY <1>1 DEF Ready
  <2>3. Cardinality(Ready(t)) <= Cardinality(Ready(t)') /\ Cardinality(Ready(t)') \in Nat
        /\ Cardinality(Ready(t)) \in Nat
    BY <2>2, SlotsFinite, FS_Subset, FS_CardinalityType
  <2>4. Cardinality(batch) <= rounds * Workers + Cardinality(Ready(t)')
    <3>1. rounds * Workers \in Nat
      BY OneMoreRound, SizesAssumption
    <3>2. Cardinality(batch) \in Nat
      BY FS_Subset, FS_CardinalityType
    <3> QED
      BY <2>1, <2>3, <3>1, <3>2
  <2>5. \A x \in batch : hidden'[x] > t + (rounds + 1) * Work
    BY <1>3, <1>4, <2>1
  <2> QED
    BY <1>1, <2>4, <2>5 DEF Budget
<1>7. PaidDone'
  <2> SUFFICES ASSUME NEW x \in Orders, payments[x] > 0, x \notin paidOnly'
               PROVE  /\ x \notin topic \cup events /\ run[x] = "none" /\ answer[x] # "none"
                      /\ x \notin batch /\ message'[x] # "visible"
                      /\ message'[x] = "hidden" => \E r \in Slots : slot'[r] = x
                      /\ \A r \in Slots : slot'[r] = x => paid'[r]
    BY <1>1 DEF PaidDone
  <2>1. CASE x = o
    <3>1. message'[o] = "gone" /\ o \notin paidOnly
      BY <1>2, <2>1
    <3> QED
      BY <1>1, <1>3, <2>1, <3>1 DEF PaidDone
  <2>2. CASE x # o
    <3>1. x \notin paidOnly /\ message'[x] = message[x]
      BY <1>2, <1>4, <2>2
    <3>2. \A r \in Slots : slot[r] = x => slot'[r] = x /\ r # s
      BY <1>1, <2>2
    <3>3. \A r \in Slots : slot'[r] = x => slot[r] = x /\ (paid[r] => paid'[r])
      BY <1>1, <2>2
    <3> QED
      BY <3>1, <3>2, <3>3, <1>1 DEF PaidDone
  <2> QED
    BY <2>1, <2>2
<1>8. PaidOnce'
    BY <1>1, <1>2 DEF PaidOnce
<1> QED
    BY <1>5, <1>6, <1>7, <1>8

\* What the processor had paid and not deleted is on record when it dies.
LEMMA CrashOnce ==
    ASSUME OnceInv, ~late', Crash
    PROVE  Holding' /\ Budget' /\ PaidDone' /\ PaidOnce'
<1> USE FaultsAssumption DEF OnceInv, InTime, IInv, TypeOK, deployment, lambdaVars, runVars, queueVars
<1>1. /\ ~late /\ batch' = {} /\ slot' = [s \in Slots |-> None]
      /\ paidOnly' = paidOnly \cup {slot[s] : s \in {x \in Slots : paid[x]}}
      /\ UNCHANGED <<deployment, runVars, answer, topic, lambdaVars, message, hidden, payments>>
    BY DEF Crash
<1>2. Holding' /\ Budget'
    BY <1>1 DEF Holding, Budget
<1>3. \A x \in Orders : x \notin paidOnly' =>
         x \notin paidOnly /\ \A s \in Slots : paid[s] => slot[s] # x
    BY <1>1
<1>4. PaidDone'
    BY <1>1, <1>3 DEF PaidDone
<1>5. PaidOnce'
    BY <1>1, <1>3 DEF PaidOnce
<1> QED
    BY <1>2, <1>4, <1>5

\* Time takes as much from the payments as from the visibility: no message that
\* somebody holds is shown again.
LEMMA TickOnce ==
    ASSUME OnceInv, IsFiniteSet(Orders), ~late', Tick
    PROVE  Holding' /\ Budget' /\ PaidDone' /\ PaidOnce'
<1> USE SizesAssumption, FaultsAssumption DEF OnceInv, InTime, IInv, TypeOK, deployment, lambdaVars
<1>1. /\ ~late /\ Settled
      /\ left' = [s \in Slots |-> IF left[s] > 0 THEN left[s] - 1 ELSE 0]
      /\ hidden' = [o \in Orders |-> IF hidden[o] > 0 THEN hidden[o] - 1 ELSE 0]
      /\ message' = [o \in Orders |-> IF message[o] = "hidden" /\ hidden[o] = 1
                                      THEN "visible" ELSE message[o]]
      /\ UNCHANGED <<deployment, run, answer, topic, lambdaVars, batch, slot, paid, fresh>>
      /\ UNCHANGED <<payments, paidOnly>>
    BY DEF Tick
<1>2. \A s \in Slots : slot[s] # None =>
         /\ slot[s] \in Orders /\ left[s] > 0 /\ left'[s] = left[s] - 1
         /\ hidden[slot[s]] > left[s]
    BY <1>1 DEF Settled, Holding
<1>3. \A o \in Orders : hidden[o] > 1 =>
         hidden'[o] = hidden[o] - 1 /\ (message[o] = "hidden" => message'[o] = "hidden")
    BY <1>1
<1>4. \A s \in Slots : slot[s] # None => message'[slot[s]] = "hidden" /\ hidden'[slot[s]] > left'[s]
  <2> SUFFICES ASSUME NEW s \in Slots, slot[s] # None
               PROVE  message'[slot[s]] = "hidden" /\ hidden'[slot[s]] > left'[s]
    OBVIOUS
  <2>1. slot[s] \in Orders /\ hidden[slot[s]] \in Nat /\ left[s] \in Nat
    OBVIOUS
  <2>2. hidden[slot[s]] > 1
    BY <1>2, <2>1
  <2>3. hidden'[slot[s]] = hidden[slot[s]] - 1 /\ message'[slot[s]] = "hidden"
    BY <1>1, <1>3, <2>1, <2>2 DEF Holding
  <2> QED
    BY <1>2, <2>1, <2>3
<1>5. Holding' /\ Budget'
  <2>1. CASE batch = {}
    BY <1>1, <1>4, <2>1 DEF Holding, Budget
  <2>2. CASE batch # {}
    <3>1. PICK t \in 0..Work, rounds \in Nat :
             /\ Cardinality(batch) <= rounds * Workers + Cardinality(Ready(t))
             /\ \A x \in batch : hidden[x] > t + (rounds + 1) * Work
      BY <1>1, <2>2 DEF Budget
    <3>2. /\ (rounds + 1) * Work = rounds * Work + Work
          /\ rounds * Work \in Nat /\ rounds * Workers \in Nat
      BY OneMoreRound
    <3>3. \A x \in batch : hidden[x] > t + (rounds * Work + Work) /\ hidden[x] \in Nat
      BY <3>1, <3>2
    <3>4. \A x \in batch : hidden[x] > 1
      BY <3>2, <3>3
    <3>5. \A x \in batch : message'[x] = "hidden" /\ hidden'[x] = hidden[x] - 1
      BY <1>1, <1>3, <3>4 DEF Holding
    <3>6. \A s \in Slots : slot[s] # None /\ left[s] > 0 /\ left'[s] = left[s] - 1
      BY <1>1, <1>2, <2>2 DEF Settled, Free
    <3>7. Holding'
      <4>1. \A s \in Slots : slot[s] # None => fresh[s] /\ slot[s] \notin batch
        BY <1>1 DEF Holding
      <4>2. \A r, s \in Slots : slot[s] # None /\ slot[r] = slot[s] => r = s
        BY <1>1 DEF Holding
      <4>3. UNCHANGED <<slot, fresh, batch>>
        BY <1>1
      <4> QED
        BY <1>4, <3>5, <4>1, <4>2, <4>3 DEF Holding
    <3>8. CASE t > 0
      <4>1. Ready(t - 1)' = Ready(t)
        BY <1>1, <3>6 DEF Ready
      <4>2. \A x \in batch : hidden'[x] > (t - 1) + (rounds + 1) * Work
        BY <3>2, <3>3, <3>5
      <4> QED
        BY <1>1, <3>1, <3>7, <3>8, <4>1, <4>2, t - 1 \in 0..Work DEF Budget
    <3>9. CASE t = 0
      <4>1. Ready(0) = {}
        BY <3>6 DEF Ready
      <4>3. Cardinality(batch) \in Nat /\ Cardinality(batch) # 0
        <5>1. IsFiniteSet(batch)
          BY FS_Subset
        <5> QED
          BY <2>2, <5>1, FS_CardinalityType, FS_EmptySet
      <4>2. Cardinality(batch) <= rounds * Workers
        <5>1. Cardinality(Ready(t)) = 0
          BY <3>9, <4>1, FS_EmptySet
        <5> QED
          BY <3>1, <3>2, <4>3, <5>1
      <4>4. rounds # 0
        BY <4>2, <4>3
      <4>5. PICK n \in Nat : rounds = n + 1
        BY <4>4, rounds - 1 \in Nat, rounds = (rounds - 1) + 1
      <4>6. rounds * Workers = n * Workers + Workers
        BY <4>5, OneMoreRound
      <4>7. Ready(Work - 1)' = Slots
        BY <1>1, <3>6 DEF Ready
      <4>8. Cardinality(batch') <= n * Workers + Cardinality(Ready(Work - 1)')
        BY <1>1, <4>2, <4>6, <4>7, SlotsFinite
      <4>9. \A x \in batch' : hidden'[x] > (Work - 1) + (n + 1) * Work
        BY <1>1, <3>2, <3>3, <3>5, <3>9, <4>5
      <4> QED
        BY <3>7, <4>8, <4>9, Work - 1 \in 0..Work DEF Budget
    <3> QED
      BY <3>8, <3>9
  <2> QED
    BY <2>1, <2>2
<1>6. PaidDone'
  <2> SUFFICES ASSUME NEW o \in Orders, payments[o] > 0, o \notin paidOnly
               PROVE  /\ message'[o] # "visible"
                      /\ message'[o] = "hidden" => \E s \in Slots : slot[s] = o
    BY <1>1 DEF PaidDone
  <2>1. message[o] # "visible" /\ \A s \in Slots : slot[s] = o => paid[s]
    BY <1>1 DEF PaidDone
  <2>2. message[o] # "hidden"
    <3>1. \A s \in Slots : slot[s] # o
      BY <1>2, <2>1 DEF PaidIdle
    <3> QED
      BY <1>1, <3>1 DEF PaidDone
  <2> QED
    BY <1>1, <2>1, <2>2
<1>7. PaidOnce'
    BY <1>1 DEF PaidOnce
<1> QED
    BY <1>5, <1>6, <1>7

\* Nobody subscribes to the topic while it is in use.
LEMMA SubscribersStay ==
    ASSUME [Next]_vars
    PROVE  subscribers' = subscribers
BY DEF Next, Wait, TakeSlot, Answer, CrashReceiver, Publish, Deliver, Invoke, Complete, CrashLambda,
       Receive, Dispatch, Pay, Delete, Crash, Tick, vars, deployment

\* Every step preserves the invariant, if the batches fit.
LEMMA OncePreserved ==
    ASSUME FitsVisibility, IsFiniteSet(Orders), OnceInv, [Next]_vars
    PROVE  OnceInv'
<1>1. IInv' /\ OneSubscriber'
  <2>1. subscribers' = subscribers
    BY SubscribersStay
  <2> QED
    BY <2>1, NextPreserves DEF OnceInv, OneSubscriber
<1>2. CASE UNCHANGED vars
  <2>1. Places' /\ PaidIdle'
    BY <1>2 DEF OnceInv, Places, PaidIdle, vars, deployment, lambdaVars, runVars, queueVars, processorVars
  <2>2. InTime'
    BY <1>2 DEF OnceInv, InTime, Holding, Budget, Ready, PaidDone, PaidOnce, vars, deployment,
        lambdaVars, runVars, queueVars, processorVars, failureVars
  <2> QED
    BY <1>1, <2>1, <2>2 DEF OnceInv
<1>3. CASE Next
  <2>1. Places'
    BY <1>3, PlacesPreserved DEF OnceInv
  <2>2. PaidIdle'
    <3> USE DEF OnceInv, IInv, TypeOK, PaidIdle
    <3>1. ASSUME NEW o \in Orders, NEW s \in Slots, Dispatch(o, s) PROVE PaidIdle'
      BY <3>1 DEF Dispatch
    <3>2. ASSUME NEW s \in Slots, Pay(s) \/ Delete(s) PROVE PaidIdle'
      BY <3>2 DEF Pay, Delete
    <3>3. ASSUME Crash \/ Tick PROVE PaidIdle'
      BY <3>3 DEF Crash, Tick
    <3>4. ASSUME UNCHANGED <<left, paid>> PROVE PaidIdle'
      BY <3>4
    <3>5. ASSUME NEW S \in SUBSET Orders, Receive(S) PROVE UNCHANGED <<left, paid>>
      BY <3>5 DEF Receive
    <3>6. ASSUME NEW o \in Orders,
                 \/ Wait(o) \/ TakeSlot(o) \/ Answer(o) \/ CrashReceiver
                 \/ Publish(o) \/ Deliver(o) \/ Invoke(o) \/ Complete(o) \/ CrashLambda(o)
          PROVE  UNCHANGED <<left, paid>>
      BY <3>6 DEF Wait, TakeSlot, Answer, CrashReceiver, Publish, Deliver, Invoke, Complete,
          CrashLambda, processorVars
    <3>7. CrashReceiver => UNCHANGED <<left, paid>>
      BY DEF CrashReceiver, processorVars
    <3> QED
      BY <1>3, <3>1, <3>2, <3>3, <3>4, <3>5, <3>6, <3>7 DEF Next
  <2>3. InTime'
    <3> SUFFICES ASSUME ~late' PROVE Holding' /\ Budget' /\ PaidDone' /\ PaidOnce'
      BY DEF InTime
    <3>1. CrashReceiver => \E o \in Orders : TRUE
      BY DEF CrashReceiver
    <3> QED
      BY <1>3, <3>1, OutsideOnce, ReceiveOnce, DispatchOnce, PayOnce, DeleteOnce, CrashOnce,
         TickOnce DEF Next
  <2> QED
    BY <1>1, <2>1, <2>2, <2>3 DEF OnceInv
<1> QED
    BY <1>2, <1>3

\* If a full batch is paid before its messages are shown again, no order is paid
\* twice but for a failure on record or a processor that is late, for any number
\* of orders, workers and crashes, where the topic has one subscriber.
THEOREM NeverPaidTwice ==
    ASSUME FitsVisibility, IsFiniteSet(Orders)
    PROVE  Spec => []PaidOnce
<1>1. Init => Places /\ PaidIdle /\ InTime
  <2> SUFFICES ASSUME Init PROVE Places /\ PaidIdle /\ InTime
    OBVIOUS
  <2>1. Places /\ PaidIdle
    BY FaultsAssumption DEF Init, Places, PaidIdle
  <2>2. Holding /\ Budget /\ PaidDone /\ PaidOnce
    BY DEF Init, Holding, Budget, PaidDone, PaidOnce
  <2> QED
    BY <2>1, <2>2 DEF InTime
<1> DEFINE OnceOrBoth == OneSubscriber => OnceInv
<1>2. OnceOrBoth /\ [Next]_vars => OnceOrBoth'
  <2>1. [Next]_vars => (OneSubscriber <=> OneSubscriber')
    BY SubscribersStay DEF OneSubscriber
  <2>2. OnceInv /\ [Next]_vars => OnceInv'
    BY OncePreserved
  <2> QED
    BY <2>1, <2>2
<1>3. Init /\ IInv => OnceOrBoth
    BY <1>1 DEF OnceInv
<1>4. OnceOrBoth => PaidOnce
  <2>1. OnceInv /\ ~late => PaidOnce
    BY DEF OnceInv, InTime
  <2>2. late \/ ~OneSubscriber => PaidOnce
    BY DEF PaidOnce, OneSubscriber
  <2> QED
    BY <2>1, <2>2
<1> HIDE DEF OnceOrBoth
<1> QED
    BY <1>2, <1>3, <1>4, Invariant, PTL DEF Spec
=============================================================================
