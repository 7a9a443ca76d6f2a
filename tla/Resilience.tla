----------------------------- MODULE Resilience -----------------------------
(***************************************************************************)
(* POST /orders of mid-term with resilience on: a fail-fast gate, then a   *)
(* bulkhead, then a circuit breaker, around the call of the downstream     *)
(* validation service.                                                     *)
(*                                                                         *)
(* A client sends one order after the other; its orders are served by      *)
(* handlers that run concurrently with those of other clients.  Time moves *)
(* in ticks.  A call that has timed out ends, its result is recorded, and  *)
(* a sleep that is over ends, before the next tick; anything else may take *)
(* any time.                                                               *)
(***************************************************************************)
EXTENDS Naturals, FiniteSets

CONSTANTS
    Clients,
    FailThreshold, HalfOpenMax,     \* NewCircuitBreaker(5, 10s, 3)
    Cooldown,                       \* in ticks, of the breaker and of the gate
    Timeout,                        \* in ticks, of the downstream call
    MaxConcurrent                   \* NewBulkhead(10)

ASSUME LimitsAssumption ==
    /\ FailThreshold \in Nat \ {0} /\ HalfOpenMax \in Nat \ {0}
    /\ MaxConcurrent \in Nat \ {0}
    /\ Cooldown \in Nat /\ Timeout \in Nat /\ Timeout <= Cooldown

VARIABLES
    state, failureCount, successCount,  \* the circuit breaker
    age,        \* ticks since lastFailTime, as far as they matter
    sem,        \* slots of the bulkhead in use
    healthy,    \* the gate
    sleeps,     \* how many goroutines will reopen the gate, by ticks left
    pc, left, fate,     \* each client's order: its call's ticks left and result
    probe,      \* history: whether an order was admitted in this HALF_OPEN phase
    mode        \* the downstream service

breakerVars == <<state, failureCount, successCount, age>>
orderVars == <<pc, left, fate>>
vars == <<breakerVars, sem, healthy, sleeps, orderVars, probe, mode>>

Modes == {"normal", "slow", "crash"}
Fates == {"ok", "500", "hang"}
Points == {"idle", "acquire", "allow", "call", "ok", "err", "check", "trip", "release"}

NewCircuitBreaker ==
    state = "CLOSED" /\ failureCount = 0 /\ successCount = 0 /\ age = Cooldown + 1
NewBulkhead == sem = 0
NewFailFast == healthy = TRUE

Init ==
    /\ NewCircuitBreaker /\ NewBulkhead /\ NewFailFast
    /\ sleeps = [k \in 0..Cooldown |-> 0]
    /\ pc = [c \in Clients |-> "idle"]
    /\ left = [c \in Clients |-> 0]
    /\ fate = [c \in Clients |-> "ok"]
    /\ probe = [c \in Clients |-> FALSE]
    /\ mode = "normal"

At(c, from, to) == pc[c] = from /\ pc' = [pc EXCEPT ![c] = to]

-----------------------------------------------------------------------------
(* createOrderWithResilience, in its order *)

\* An order that meets a closed gate is answered 503 and changes nothing.
Enter(c) ==
    /\ healthy
    /\ At(c, "idle", "acquire")
    /\ UNCHANGED <<breakerVars, sem, healthy, sleeps, left, fate, probe, mode>>

\* Mutant: takes a slot without looking whether one is free.
AcquireAlways(c) ==
    /\ At(c, "acquire", "allow")
    /\ sem' = sem + 1
    /\ UNCHANGED <<breakerVars, healthy, sleeps, left, fate, probe, mode>>

\* Bulkhead.Acquire never blocks: without a free slot the answer is 503.
Acquire(c) ==
    /\ \/ At(c, "acquire", "allow") /\ sem < MaxConcurrent /\ sem' = sem + 1
       \/ At(c, "acquire", "idle") /\ sem = MaxConcurrent /\ UNCHANGED sem
    /\ UNCHANGED <<breakerVars, healthy, sleeps, left, fate, probe, mode>>

\* What the downstream service does with a call, by its mode: "slow" takes
\* longer than the client's timeout, "crash" hangs or fails.
FatesOf(m) == CASE m = "normal" -> {"ok"} [] m = "slow" -> {"hang"} [] m = "crash" -> {"500", "hang"}

\* Mutant: an order that the open circuit turns away keeps its slot.
AllowWithoutRelease(c) ==
    /\ pc[c] = "allow"
    /\ \/ /\ state # "OPEN" \/ age > Cooldown
          /\ state' = IF state = "OPEN" THEN "HALF_OPEN" ELSE state
          /\ successCount' = IF state = "OPEN" THEN 0 ELSE successCount
          /\ pc' = [pc EXCEPT ![c] = "call"]
          /\ left' = [left EXCEPT ![c] = Timeout]
          /\ \E f \in FatesOf(mode) : fate' = [fate EXCEPT ![c] = f]
          /\ probe' = [probe EXCEPT ![c] = state # "CLOSED"]
       \/ /\ state = "OPEN" /\ age <= Cooldown
          /\ pc' = [pc EXCEPT ![c] = "idle"]
          /\ UNCHANGED <<state, successCount, left, fate, probe>>
    /\ UNCHANGED <<failureCount, age, sem, healthy, sleeps, mode>>

\* AllowRequest, then the call begins.
Allow(c) ==
    /\ pc[c] = "allow"
    /\ \/ /\ (state # "OPEN" \/ age > Cooldown)
          /\ state' = IF state = "OPEN" THEN "HALF_OPEN" ELSE state
          /\ successCount' = IF state = "OPEN" THEN 0 ELSE successCount
          /\ pc' = [pc EXCEPT ![c] = "call"]
          /\ left' = [left EXCEPT ![c] = Timeout]
          /\ \E f \in FatesOf(mode) : fate' = [fate EXCEPT ![c] = f]
          /\ probe' = [probe EXCEPT ![c] = state # "CLOSED"]
       \/ /\ state = "OPEN" /\ age <= Cooldown
          /\ pc' = [pc EXCEPT ![c] = "release"]
          /\ UNCHANGED <<state, successCount, left, fate, probe>>
    /\ UNCHANGED <<failureCount, age, sem, healthy, sleeps, mode>>

\* callDownstream ends with an answer, or with the timeout.
Return(c) ==
    /\ At(c, "call", IF fate[c] = "ok" THEN "ok" ELSE "err")
    /\ fate[c] = "hang" => left[c] = 0
    /\ left' = [left EXCEPT ![c] = 0] /\ fate' = [fate EXCEPT ![c] = "ok"]
    /\ UNCHANGED <<breakerVars, sem, healthy, sleeps, probe, mode>>

\* Mutant: enough successes do not close the circuit.
RecordSuccessStays(c) ==
    /\ At(c, "ok", "release")
    /\ successCount' = IF state = "HALF_OPEN" THEN successCount + 1 ELSE successCount
    /\ state = "HALF_OPEN" => successCount < HalfOpenMax
    /\ failureCount' = IF state = "CLOSED" THEN 0 ELSE failureCount
    /\ UNCHANGED <<state, age, sem, healthy, sleeps, left, fate, probe, mode>>

RecordSuccess(c) ==
    /\ At(c, "ok", "release")
    /\ LET enough == state = "HALF_OPEN" /\ successCount + 1 >= HalfOpenMax
       IN  /\ successCount' = IF state = "HALF_OPEN" THEN successCount + 1 ELSE successCount
           /\ failureCount' = IF enough \/ state = "CLOSED" THEN 0 ELSE failureCount
           /\ state' = IF enough THEN "CLOSED" ELSE state
           /\ probe' = [d \in Clients |-> probe[d] /\ d # c /\ ~enough]
    /\ UNCHANGED <<age, sem, healthy, sleeps, left, fate, mode>>

\* lastFailTime moves even while the circuit is open.
RecordFailure(c) ==
    /\ At(c, "err", "check")
    /\ age' = 0
    /\ failureCount' = IF state = "CLOSED" THEN failureCount + 1 ELSE failureCount
    /\ state' = IF \/ state = "HALF_OPEN"
                   \/ state = "CLOSED" /\ failureCount + 1 >= FailThreshold
                THEN "OPEN" ELSE state
    /\ probe' = [d \in Clients |-> probe[d] /\ d # c /\ state # "HALF_OPEN"]
    /\ UNCHANGED <<successCount, sem, healthy, sleeps, left, fate, mode>>

\* Status() is a second critical section.
Check(c) ==
    /\ At(c, "check", IF state = "OPEN" THEN "trip" ELSE "release")
    /\ UNCHANGED <<breakerVars, sem, healthy, sleeps, left, fate, probe, mode>>

\* Mutant: closes the gate and starts nothing.
TripForGood(c) ==
    /\ At(c, "trip", "release")
    /\ healthy' = FALSE
    /\ UNCHANGED <<breakerVars, sem, sleeps, left, fate, probe, mode>>

\* Close the gate and start a goroutine that reopens it.
Trip(c) ==
    /\ At(c, "trip", "release")
    /\ healthy' = FALSE
    /\ sleeps' = [sleeps EXCEPT ![Cooldown] = @ + 1]
    /\ UNCHANGED <<breakerVars, sem, left, fate, probe, mode>>

\* The deferred Bulkhead.Release of every path that had a slot.
Release(c) ==
    /\ At(c, "release", "idle")
    /\ sem' = sem - 1
    /\ UNCHANGED <<breakerVars, healthy, sleeps, left, fate, probe, mode>>

\* A goroutine's sleep is over: it does not look at the breaker.
Wake ==
    /\ sleeps[0] > 0
    /\ sleeps' = [sleeps EXCEPT ![0] = @ - 1]
    /\ healthy' = TRUE
    /\ UNCHANGED <<breakerVars, sem, orderVars, probe, mode>>

-----------------------------------------------------------------------------
(* The clock, and the downstream service's control endpoint *)

\* Mutant: the client's timeout does not end a call.
TickPastTimeout ==
    /\ sleeps[0] = 0
    /\ \A c \in Clients : pc[c] \notin {"ok", "err", "check", "trip"}
    /\ age' = IF age > Cooldown THEN age ELSE age + 1
    /\ sleeps' = [k \in 0..Cooldown |-> IF k = Cooldown THEN 0 ELSE sleeps[k + 1]]
    /\ left' = [c \in Clients |-> IF left[c] > 0 THEN left[c] - 1 ELSE 0]
    /\ UNCHANGED <<state, failureCount, successCount, sem, healthy, pc, fate, probe, mode>>

Tick ==
    /\ sleeps[0] = 0
    /\ \A c \in Clients : pc[c] \notin {"ok", "err", "check", "trip"}
    /\ \A c \in Clients : pc[c] = "call" => left[c] > 0
    /\ age' = IF age > Cooldown THEN age ELSE age + 1
    /\ sleeps' = [k \in 0..Cooldown |-> IF k = Cooldown THEN 0 ELSE sleeps[k + 1]]
    /\ left' = [c \in Clients |-> IF pc[c] = "call" THEN left[c] - 1 ELSE left[c]]
    /\ UNCHANGED <<state, failureCount, successCount, sem, healthy, pc, fate, probe, mode>>

SwitchMode(m) ==
    /\ mode # m
    /\ mode' = m
    /\ UNCHANGED <<breakerVars, sem, healthy, sleeps, orderVars, probe>>

Serve(c) ==
    Acquire(c) \/ Allow(c) \/ Return(c) \/ RecordSuccess(c) \/ RecordFailure(c)
        \/ Check(c) \/ Trip(c) \/ Release(c)

Next ==
    \/ \E c \in Clients : Enter(c) \/ Serve(c)
    \/ Wake \/ Tick
    \/ \E m \in Modes : SwitchMode(m)

Spec == Init /\ [][Next]_vars

\* Handlers run and sleeps end; time passes however often orders come and go.
Fairness == (\A c \in Clients : WF_vars(Serve(c))) /\ WF_vars(Wake) /\ SF_vars(Tick)
FairSpec == Spec /\ Fairness

\* Moreover every client keeps sending orders whenever the gate is open.
BusySpec == FairSpec /\ \A c \in Clients : SF_vars(Enter(c))

-----------------------------------------------------------------------------
(* Correctness *)

\* Counters are numbers, handlers at known points, sleeps within the cooldown.
TypeOK ==
    /\ state \in {"CLOSED", "OPEN", "HALF_OPEN"}
    /\ failureCount \in Nat /\ successCount \in Nat /\ age \in 0..(Cooldown + 1)
    /\ sem \in 0..MaxConcurrent
    /\ healthy \in BOOLEAN
    /\ sleeps \in [0..Cooldown -> Nat]
    /\ pc \in [Clients -> Points]
    /\ left \in [Clients -> 0..Timeout]
    /\ fate \in [Clients -> Fates]
    /\ probe \in [Clients -> BOOLEAN]
    /\ mode \in Modes

Holders == {c \in Clients : pc[c] \notin {"idle", "acquire"}}

\* Every path out of the handler gives its slot back exactly once: the slots in
\* use are those of the orders between Acquire and Release.
SlotsHeld == sem = Cardinality(Holders)

\* While the gate is closed some goroutine is going to open it.
GateReopens == ~healthy => \E k \in 0..Cooldown : sleeps[k] > 0

\* Only calls admitted by the half-open circuit decide its trial: the timeout
\* is short enough for older calls to have ended when the cooldown is over.
OnlyProbesDecide ==
    \A c \in Clients : state = "HALF_OPEN" /\ pc[c] \in {"call", "ok", "err"} => probe[c]

\* A downstream that stays well again is used again, if orders keep coming.
Recovers == <>[](mode = "normal") => <>[](state = "CLOSED" /\ healthy)
=============================================================================
