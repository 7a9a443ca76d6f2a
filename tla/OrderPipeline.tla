---------------------------- MODULE OrderPipeline ----------------------------
(***************************************************************************)
(* Orders of homework7.  POST /orders/sync pays while the customer waits,  *)
(* a bounded number of orders at a time.  POST /orders/async publishes to  *)
(* SNS.  Subscribed are the SQS queue, which the order processor polls for *)
(* batches, paying each order in a goroutine, a bounded number of them at  *)
(* a time; or the lambda, run for each message; or both, as terraform has  *)
(* it, and then both get every order.                                      *)
(*                                                                         *)
(* SQS hides a message that was received for the visibility timeout and    *)
(* shows it again unless it was deleted.  An order stands for its message. *)
(* Time moves in ticks, and may move while the processor still has         *)
(* something to do that takes no time; it then is late.  Requests answered *)
(* at once (400, SNS not configured) and messages that do not parse, which *)
(* no receiver sends, are left out, and so is a second copy that SNS or    *)
(* SQS may make.                                                           *)
(***************************************************************************)
EXTENDS Naturals, FiniteSets

CONSTANTS
    Orders,
    Topologies,     \* the subscribers that the topic may have, "queue" and "lambda"
    PaymentSlots,   \* capacity of the receiver's channel, 5
    Workers,        \* WORKER_COUNT
    Batch,          \* MaxNumberOfMessages, 10
    Work,           \* ticks of a payment, 3 seconds
    Visibility,     \* ticks of the visibility timeout, 30 seconds
    Faults,         \* calls: "error" has no effect, "lost" has one; "crash" of a program
    MaxFailures,    \* bound on crashes and failed deletes
    LambdaRetries,  \* how often AWS runs a lambda again that died, 2
    None

ASSUME SizesAssumption ==
    /\ PaymentSlots \in Nat \ {0} /\ Workers \in Nat \ {0} /\ Batch \in Nat \ {0}
    /\ Work \in Nat \ {0} /\ Visibility \in Nat \ {0}
ASSUME TopologyAssumption == Topologies \subseteq {{"queue"}, {"lambda"}, {"queue", "lambda"}}
ASSUME FaultsAssumption ==
    /\ Faults \subseteq {"error", "lost", "crash"} /\ None \notin Orders
    /\ MaxFailures \in Nat /\ LambdaRetries \in Nat

VARIABLES
    route,      \* the endpoint each order is sent to
    subscribers,    \* of the topic
    answer,     \* the customer's
    run,        \* of an order in handleSyncOrder, or in the lambda
    timer,      \* its ticks left
    topic,      \* the orders SNS is to put into the queue
    events,     \* the orders the lambda is to be run for
    died,       \* how often it has died with each
    message,    \* the queue's messages
    hidden,     \* ticks until a received message is shown again
    batch,      \* received by the poll loop and not yet given to a goroutine
    slot,       \* the order of each goroutine, by slot of the semaphore
    left,       \* its ticks left
    paid,       \* whether it has paid and is to delete the message
    fresh,      \* whether its receipt is the last one of the message
    payments,   \* history: how often each order was paid, up to two
    failures,   \* history: how many crashes and failed deletes there were
    paidOnly,   \* history: the orders paid without their message being deleted
    late        \* history: whether the processor was late

deployment == <<route, subscribers>>
runVars == <<run, timer>>
lambdaVars == <<events, died>>
queueVars == <<message, hidden>>
processorVars == <<batch, slot, left, paid, fresh>>
failureVars == <<failures, paidOnly, late>>
vars == <<deployment, answer, runVars, topic, lambdaVars, queueVars, processorVars, payments, failureVars>>

Slots == 1..Workers
Free == {s \in Slots : slot[s] = None}

Init ==
    /\ route \in [Orders -> {"sync", "async"}] /\ subscribers \in Topologies
    /\ run = [o \in Orders |-> "none"] /\ timer = [o \in Orders |-> 0]
    /\ answer = [o \in Orders |-> "none"]
    /\ topic = {} /\ events = {} /\ died = [o \in Orders |-> 0]
    /\ message = [o \in Orders |-> "none"] /\ hidden = [o \in Orders |-> 0]
    /\ batch = {}
    /\ slot = [s \in Slots |-> None] /\ left = [s \in Slots |-> 0] /\ paid = [s \in Slots |-> FALSE]
    /\ fresh = [s \in Slots |-> FALSE]
    /\ payments = [o \in Orders |-> 0]
    /\ failures = 0 /\ paidOnly = {} /\ late = FALSE

-----------------------------------------------------------------------------
(* handleSyncOrder *)

Paying == {o \in Orders : route[o] = "sync" /\ run[o] = "paying"}
PaidOnceMore(o) == [payments EXCEPT ![o] = IF @ < 2 THEN @ + 1 ELSE @]

\* Until the channel takes the order's token.
Wait(o) ==
    /\ route[o] = "sync" /\ answer[o] = "none" /\ run[o] = "none"
    /\ run' = [run EXCEPT ![o] = "waiting"]
    /\ UNCHANGED <<deployment, answer, timer, topic, lambdaVars, queueVars, processorVars, payments, failureVars>>

TakeSlot(o) ==
    /\ run[o] = "waiting" /\ Cardinality(Paying) < PaymentSlots
    /\ run' = [run EXCEPT ![o] = "paying"]
    /\ timer' = [timer EXCEPT ![o] = Work]
    /\ UNCHANGED <<deployment, answer, topic, lambdaVars, queueVars, processorVars, payments, failureVars>>

\* The payment's sleep is over: the slot is released, then the answer sent.
Answer(o) ==
    /\ o \in Paying /\ timer[o] = 0
    /\ run' = [run EXCEPT ![o] = "none"]
    /\ answer' = [answer EXCEPT ![o] = "200"]
    /\ payments' = PaidOnceMore(o)
    /\ UNCHANGED <<deployment, timer, topic, lambdaVars, queueVars, processorVars, failureVars>>

\* The customers' connections break; the orders are nowhere else.
CrashReceiver ==
    /\ "crash" \in Faults /\ failures < MaxFailures
    /\ \E o \in Orders : route[o] = "sync" /\ run[o] # "none"
    /\ answer' = [o \in Orders |-> IF route[o] = "sync" /\ run[o] # "none"
                                   THEN "500" ELSE answer[o]]
    /\ run' = [o \in Orders |-> IF route[o] = "sync" THEN "none" ELSE run[o]]
    /\ timer' = [o \in Orders |-> IF route[o] = "sync" THEN 0 ELSE timer[o]]
    /\ failures' = failures + 1
    /\ UNCHANGED <<deployment, topic, lambdaVars, queueVars, processorVars, payments, paidOnly, late>>

-----------------------------------------------------------------------------
(* handleAsyncOrder, SNS *)

\* Every subscriber gets the message.
Deliverable(o) ==
    /\ topic' = IF "queue" \in subscribers THEN topic \cup {o} ELSE topic
    /\ events' = IF "lambda" \in subscribers THEN events \cup {o} ELSE events

\* Mutant: the answer of the synchronous handler.
PublishAsSync(o) ==
    /\ route[o] = "async" /\ answer[o] = "none"
    /\ Deliverable(o) /\ answer' = [answer EXCEPT ![o] = "200"]
    /\ UNCHANGED <<deployment, runVars, died, queueVars, processorVars, payments, failureVars>>

\* handleAsyncOrder: the answer follows the outcome of Publish.
Publish(o) ==
    /\ route[o] = "async" /\ answer[o] = "none"
    /\ \E outcome \in {"ok"} \cup (Faults \cap {"error", "lost"}) :
        /\ IF outcome = "error" THEN UNCHANGED <<topic, events>> ELSE Deliverable(o)
        /\ answer' = [answer EXCEPT ![o] = IF outcome = "ok" THEN "202" ELSE "500"]
    /\ UNCHANGED <<deployment, runVars, died, queueVars, processorVars, payments, failureVars>>

Deliver(o) ==
    /\ o \in topic
    /\ topic' = topic \ {o}
    /\ message' = [message EXCEPT ![o] = "visible"]
    /\ UNCHANGED <<deployment, runVars, answer, lambdaVars, hidden, processorVars, payments, failureVars>>

-----------------------------------------------------------------------------
(* The lambda: AWS runs it for every event, and again if it dies *)

Invoke(o) ==
    /\ o \in events
    /\ events' = events \ {o}
    /\ run' = [run EXCEPT ![o] = "paying"]
    /\ timer' = [timer EXCEPT ![o] = Work]
    /\ UNCHANGED <<deployment, answer, topic, died, queueVars, processorVars, payments, failureVars>>

\* The payment's sleep is over, and the handler returns.
Complete(o) ==
    /\ route[o] = "async" /\ run[o] = "paying" /\ timer[o] = 0
    /\ run' = [run EXCEPT ![o] = "none"]
    /\ payments' = PaidOnceMore(o)
    /\ UNCHANGED <<deployment, answer, timer, topic, lambdaVars, queueVars, processorVars, failureVars>>

\* It dies during the payment, or after it; AWS gives up after so many retries.
CrashLambda(o) ==
    /\ "crash" \in Faults /\ failures < MaxFailures
    /\ route[o] = "async" /\ run[o] = "paying"
    /\ run' = [run EXCEPT ![o] = "none"]
    /\ timer' = [timer EXCEPT ![o] = 0]
    /\ died' = [died EXCEPT ![o] = @ + 1]
    /\ events' = IF died[o] < LambdaRetries THEN events \cup {o} ELSE events
    /\ failures' = failures + 1
    /\ \/ UNCHANGED <<payments, paidOnly>>
       \/ /\ timer[o] = 0
          /\ payments' = PaidOnceMore(o) /\ paidOnly' = paidOnly \cup {o}
    /\ UNCHANGED <<deployment, answer, topic, queueVars, processorVars, late>>

-----------------------------------------------------------------------------
(* The processor *)

\* Mutant: messages are deleted when they are received.
ReceiveAndDelete(S) ==
    /\ batch = {}
    /\ S # {} /\ Cardinality(S) <= Batch /\ \A o \in S : message[o] = "visible"
    /\ message' = [o \in Orders |-> IF o \in S THEN "gone" ELSE message[o]]
    /\ batch' = S
    /\ UNCHANGED <<deployment, runVars, answer, topic, lambdaVars, hidden, slot, left, paid, fresh>>
    /\ UNCHANGED <<payments, failureVars>>

\* ReceiveMessage, once the batch before has been handed out.  When its answer
\* is lost the messages are hidden and nobody has them.
Receive(S) ==
    /\ batch = {}
    /\ S # {} /\ Cardinality(S) <= Batch /\ \A o \in S : message[o] = "visible"
    /\ message' = [o \in Orders |-> IF o \in S THEN "hidden" ELSE message[o]]
    /\ hidden' = [o \in Orders |-> IF o \in S THEN Visibility ELSE hidden[o]]
    /\ \/ batch' = S
       \/ "lost" \in Faults /\ batch' = {}
    /\ fresh' = [s \in Slots |-> fresh[s] /\ slot[s] \notin S]
    /\ UNCHANGED <<deployment, runVars, answer, topic, lambdaVars, slot, left, paid, payments, failureVars>>

\* A message of the batch gets a slot of the semaphore, which blocks the poll
\* loop until one is free, and a goroutine.
Dispatch(o, s) ==
    /\ o \in batch /\ s \in Free
    /\ batch' = batch \ {o}
    /\ slot' = [slot EXCEPT ![s] = o]
    /\ left' = [left EXCEPT ![s] = Work]
    /\ paid' = [paid EXCEPT ![s] = FALSE]
    /\ fresh' = [fresh EXCEPT ![s] = TRUE]
    /\ UNCHANGED <<deployment, runVars, answer, topic, lambdaVars, queueVars, payments, failureVars>>

\* The payment's sleep is over.
Pay(s) ==
    /\ slot[s] # None /\ left[s] = 0 /\ ~paid[s]
    /\ paid' = [paid EXCEPT ![s] = TRUE]
    /\ payments' = PaidOnceMore(slot[s])
    /\ UNCHANGED <<deployment, runVars, answer, topic, lambdaVars, queueVars, batch, slot, left, fresh, failureVars>>

\* Mutants: the message is not deleted; the semaphore is not released.
DeleteForgotten(s) ==
    /\ slot[s] # None /\ paid[s]
    /\ slot' = [slot EXCEPT ![s] = None] /\ paid' = [paid EXCEPT ![s] = FALSE]
    /\ UNCHANGED <<deployment, runVars, answer, topic, lambdaVars, queueVars, batch, left, fresh, payments, failureVars>>
DeleteKeepsSlot(s) ==
    /\ slot[s] # None /\ paid[s]
    /\ message' = [message EXCEPT ![slot[s]] = "gone"]
    /\ UNCHANGED <<deployment, runVars, answer, topic, lambdaVars, hidden, processorVars, payments, failureVars>>

\* DeleteMessage, then the slot is released.  The receipt of an older receive
\* may or may not delete the message; an error is only logged.
Delete(s) ==
    /\ slot[s] # None /\ paid[s]
    /\ \/ /\ message' = [message EXCEPT ![slot[s]] = "gone"]
          /\ hidden' = [hidden EXCEPT ![slot[s]] = 0]
          /\ UNCHANGED failureVars
       \/ ~fresh[s] /\ UNCHANGED <<queueVars, failureVars>>
       \/ /\ "error" \in Faults /\ failures < MaxFailures
          /\ failures' = failures + 1 /\ paidOnly' = paidOnly \cup {slot[s]}
          /\ UNCHANGED <<queueVars, late>>
    /\ slot' = [slot EXCEPT ![s] = None]
    /\ paid' = [paid EXCEPT ![s] = FALSE] /\ fresh' = [fresh EXCEPT ![s] = FALSE]
    /\ UNCHANGED <<deployment, runVars, answer, topic, lambdaVars, batch, left, payments>>

\* ECS starts the processor again; SQS knows nothing of it.
Crash ==
    /\ "crash" \in Faults /\ failures < MaxFailures
    /\ batch # {} \/ \E s \in Slots : slot[s] # None
    /\ batch' = {}
    /\ slot' = [s \in Slots |-> None] /\ paid' = [s \in Slots |-> FALSE]
    /\ left' = [s \in Slots |-> 0] /\ fresh' = [s \in Slots |-> FALSE]
    /\ failures' = failures + 1
    /\ paidOnly' = paidOnly \cup {slot[s] : s \in {x \in Slots : paid[x]}}
    /\ UNCHANGED <<deployment, runVars, answer, topic, lambdaVars, queueVars, payments, late>>

-----------------------------------------------------------------------------
(* The clock *)

\* Nothing is left for the processor to do that takes no time: whether its
\* goroutines keep pace with the clock, which no line of it promises.
Settled ==
    /\ \A s \in Slots : slot[s] # None => left[s] > 0
    /\ batch # {} => Free = {}

\* A message shown again is visible at the tick its timeout ends.
Tick ==
    /\ (\E o \in Orders : hidden[o] + timer[o] > 0) \/ (\E s \in Slots : left[s] > 0)
    /\ late' = (late \/ ~Settled)
    /\ timer' = [o \in Orders |-> IF timer[o] > 0 THEN timer[o] - 1 ELSE 0]
    /\ left' = [s \in Slots |-> IF left[s] > 0 THEN left[s] - 1 ELSE 0]
    /\ hidden' = [o \in Orders |-> IF hidden[o] > 0 THEN hidden[o] - 1 ELSE 0]
    /\ message' = [o \in Orders |-> IF message[o] = "hidden" /\ hidden[o] = 1
                                    THEN "visible" ELSE message[o]]
    /\ UNCHANGED <<deployment, run, answer, topic, lambdaVars, batch, slot, paid, fresh>>
    /\ UNCHANGED <<payments, failures, paidOnly>>

Next ==
    \/ \E o \in Orders : Wait(o) \/ TakeSlot(o) \/ Answer(o)
    \/ \E o \in Orders : Publish(o) \/ Deliver(o)
    \/ \E o \in Orders : Invoke(o) \/ Complete(o) \/ CrashLambda(o)
    \/ \E S \in SUBSET Orders : Receive(S)
    \/ \E o \in Orders, s \in Slots : Dispatch(o, s)
    \/ \E s \in Slots : Pay(s) \/ Delete(s)
    \/ CrashReceiver \/ Crash
    \/ Tick

\* The channel takes the tokens in turn, SNS delivers, the poll loop polls
\* again and again, goroutines run, time passes; a message that is shown again
\* and again is received.
Fairness ==
    /\ \A o \in Orders : WF_vars(TakeSlot(o)) /\ WF_vars(Answer(o))
    /\ \A o \in Orders : WF_vars(Deliver(o)) /\ WF_vars(Invoke(o)) /\ WF_vars(Complete(o))
    /\ \A o \in Orders : SF_vars(\E S \in SUBSET Orders : o \in S /\ Receive(S) /\ batch' = S)
    /\ WF_vars(\E o \in Orders, s \in Slots : Dispatch(o, s))
    /\ \A s \in Slots : WF_vars(Pay(s)) /\ WF_vars(Delete(s))
    /\ WF_vars(Tick)

Spec == Init /\ [][Next]_vars
FairSpec == Spec /\ Fairness

-----------------------------------------------------------------------------
(* Correctness *)

\* Answers are those of the endpoint, messages, slots and timers are within
\* their ranges.
TypeOK ==
    /\ route \in [Orders -> {"sync", "async"}] /\ subscribers \in Topologies
    /\ answer \in [Orders -> {"none", "200", "202", "500"}]
    /\ \A o \in Orders : answer[o] # IF route[o] = "sync" THEN "202" ELSE "200"
    /\ run \in [Orders -> {"none", "waiting", "paying"}] /\ timer \in [Orders -> 0..Work]
    /\ Cardinality(Paying) <= PaymentSlots
    /\ topic \subseteq Orders /\ batch \subseteq Orders
    /\ events \subseteq Orders /\ died \in [Orders -> 0..(LambdaRetries + 1)]
    /\ message \in [Orders -> {"none", "visible", "hidden", "gone"}]
    /\ hidden \in [Orders -> 0..Visibility]
    /\ slot \in [Slots -> Orders \cup {None}]
    /\ left \in [Slots -> 0..Work]
    /\ paid \in [Slots -> BOOLEAN] /\ fresh \in [Slots -> BOOLEAN]
    /\ payments \in [Orders -> 0..2]
    /\ failures \in 0..MaxFailures /\ paidOnly \subseteq Orders /\ late \in BOOLEAN

\* AWS has given up running the lambda for the order.
GivenUp(o) == died[o] > LambdaRetries

\* An order answered 202 is never lost: until it is paid, SNS, the queue or a
\* lambda has it, whatever crashes and whatever receipt deletes a message, but
\* for one the lambda died with again and again.  One answered 200 was paid.
AcceptedNotLost ==
    \A o \in Orders : answer[o] \in {"200", "202"} /\ payments[o] = 0 =>
        /\ answer[o] = "202"
        /\ \/ o \in topic \cup events \/ message[o] \in {"visible", "hidden"}
           \/ run[o] = "paying" \/ GivenUp(o)

\* No order is paid twice, unless a crash or an error has kept its message from
\* being deleted, or the lambda from returning, after the payment, or the
\* processor is late, or queue and lambda are both subscribed.
PaidOnce ==
    ~late /\ subscribers # {"queue", "lambda"} =>
        \A o \in Orders : payments[o] = 2 => o \in paidOnly

\* An accepted order is paid in the end, however late, and so is one whose
\* customer waits for a payment slot, unless the receiver dies or AWS gives up.
AcceptedPaid ==
    \A o \in Orders :
        answer[o] = "202" \/ run[o] = "waiting"
            ~> payments[o] > 0 \/ answer[o] = "500" \/ GivenUp(o)

\* The queue empties, unless the processor is late: no message is received and
\* paid again for ever.
Drained == \A o \in Orders : message[o] = "visible" ~> message[o] = "gone" \/ late
=============================================================================
