-------------------------- MODULE ResilienceProofs --------------------------
(***************************************************************************)
(* Proofs about Resilience, for any clients, thresholds, number of slots,  *)
(* cooldown and timeout of a call, as long as the timeout is no longer     *)
(* than the cooldown.                                                      *)
(***************************************************************************)
EXTENDS Resilience, FiniteSetTheorems, TLAPS

-----------------------------------------------------------------------------
(* The inductive invariant *)

\* As SlotsHeld, for a number of orders that can be counted.
SlotsCounted == IsFiniteSet(Holders) /\ SlotsHeld

\* A call that was out when the circuit opened ends within the timeout, counted
\* from the last failure.
OldCallsEnd ==
    state = "OPEN" => \A c \in Clients :
        pc[c] \in {"call", "ok", "err"} => age + left[c] <= Timeout

IInv == TypeOK /\ SlotsCounted /\ GateReopens /\ OnlyProbesDecide /\ OldCallsEnd

\* An order that is served by no slot changes the orders that hold one only by
\* itself.
LEMMA HoldersMove ==
    ASSUME TypeOK, NEW c \in Clients, NEW to \in Points, pc' = [pc EXCEPT ![c] = to]
    PROVE  Holders' = IF to \in {"idle", "acquire"} THEN Holders \ {c} ELSE Holders \cup {c}
BY DEF TypeOK, Holders

\* An order that keeps its slot, or goes on without one, leaves the count alone.
LEMMA SlotsUnmoved ==
    ASSUME TypeOK, SlotsCounted, NEW c \in Clients, NEW to \in Points,
           pc' = [pc EXCEPT ![c] = to], sem' = sem,
           (pc[c] \in {"idle", "acquire"}) <=> (to \in {"idle", "acquire"})
    PROVE  SlotsCounted'
<1>1. Holders' = Holders
    BY HoldersMove DEF Holders
<1> QED
    BY <1>1 DEF SlotsCounted, SlotsHeld

-----------------------------------------------------------------------------
(* Each action preserves it *)

\* A request behind the gate has no slot yet.
LEMMA EnterPreserves ==
    ASSUME IInv, NEW c \in Clients, Enter(c)
    PROVE  IInv'
<1>1. /\ pc[c] = "idle" /\ pc' = [pc EXCEPT ![c] = "acquire"]
      /\ UNCHANGED <<breakerVars, sem, healthy, sleeps, left, fate, probe, mode>>
    BY DEF Enter, At
<1>2. TypeOK'
    BY <1>1 DEF IInv, TypeOK, breakerVars, Points
<1>3. SlotsCounted'
    BY <1>1, SlotsUnmoved DEF IInv, Points
<1>4. GateReopens' /\ OnlyProbesDecide' /\ OldCallsEnd'
    BY <1>1 DEF IInv, TypeOK, GateReopens, OnlyProbesDecide, OldCallsEnd, breakerVars
<1> QED
    BY <1>2, <1>3, <1>4 DEF IInv

\* A slot is taken only if one is free, and is that order's.
LEMMA AcquirePreserves ==
    ASSUME IInv, NEW c \in Clients, Acquire(c)
    PROVE  IInv'
<1>1. /\ pc[c] = "acquire"
      /\ UNCHANGED <<breakerVars, healthy, sleeps, left, fate, probe, mode>>
      /\ \/ pc' = [pc EXCEPT ![c] = "allow"] /\ sem < MaxConcurrent /\ sem' = sem + 1
         \/ pc' = [pc EXCEPT ![c] = "idle"] /\ sem' = sem
    BY DEF Acquire, At
<1>2. TypeOK'
  <2>1. sem' \in 0..MaxConcurrent
    BY <1>1, LimitsAssumption DEF IInv, TypeOK
  <2>2. pc' \in [Clients -> Points]
    BY <1>1 DEF IInv, TypeOK, Points
  <2> QED
    BY <1>1, <2>1, <2>2 DEF IInv, TypeOK, breakerVars
<1>3. SlotsCounted'
  <2>1. CASE pc' = [pc EXCEPT ![c] = "idle"] /\ sem' = sem
    BY <1>1, <2>1, SlotsUnmoved DEF IInv, Points
  <2>2. CASE pc' = [pc EXCEPT ![c] = "allow"] /\ sem' = sem + 1
    <3>1. Holders' = Holders \cup {c} /\ c \notin Holders
      BY <1>1, <2>2, HoldersMove DEF IInv, Points, Holders
    <3>2. IsFiniteSet(Holders') /\ Cardinality(Holders') = Cardinality(Holders) + 1
      BY <3>1, FS_AddElement DEF IInv, SlotsCounted
    <3> QED
      BY <2>2, <3>2 DEF IInv, SlotsCounted, SlotsHeld
  <2> QED
    BY <1>1, <2>1, <2>2
<1>4. GateReopens' /\ OnlyProbesDecide' /\ OldCallsEnd'
    BY <1>1 DEF IInv, TypeOK, GateReopens, OnlyProbesDecide, OldCallsEnd, breakerVars
<1> QED
    BY <1>2, <1>3, <1>4 DEF IInv

\* The circuit becomes half open only when no call from before it opened is out.
LEMMA AllowPreserves ==
    ASSUME IInv, NEW c \in Clients, Allow(c)
    PROVE  IInv'
<1> USE LimitsAssumption DEF TypeOK
<1>1. /\ pc[c] = "allow"
      /\ UNCHANGED <<failureCount, age, sem, healthy, sleeps, mode>>
    BY DEF Allow
<1>2. CASE /\ state # "OPEN" \/ age > Cooldown
           /\ state' = IF state = "OPEN" THEN "HALF_OPEN" ELSE state
           /\ successCount' = IF state = "OPEN" THEN 0 ELSE successCount
           /\ pc' = [pc EXCEPT ![c] = "call"]
           /\ left' = [left EXCEPT ![c] = Timeout]
           /\ \E f \in FatesOf(mode) : fate' = [fate EXCEPT ![c] = f]
           /\ probe' = [probe EXCEPT ![c] = state # "CLOSED"]
  <2>1. FatesOf(mode) \subseteq Fates
    BY DEF IInv, FatesOf, Fates, Modes
  <2>2. TypeOK'
    BY <1>1, <1>2, <2>1 DEF IInv, Points
  <2>3. SlotsCounted'
    BY <1>1, <1>2, SlotsUnmoved DEF IInv, Points
  <2>4. OnlyProbesDecide'
    <3> SUFFICES ASSUME NEW d \in Clients, state' = "HALF_OPEN", pc'[d] \in {"call", "ok", "err"}
                 PROVE  probe'[d]
      BY DEF OnlyProbesDecide
    <3>1. CASE d = c
      BY <1>2, <3>1 DEF IInv
    <3>2. CASE d # c /\ state = "OPEN"
      <4>1. pc[d] \in {"call", "ok", "err"} /\ left[d] \in Nat /\ age \in Nat /\ age > Cooldown
        BY <1>2, <3>2 DEF IInv
      <4>2. age + left[d] <= Timeout
        BY <3>2, <4>1 DEF IInv, OldCallsEnd
      <4> QED
        BY <4>1, <4>2
    <3>3. CASE d # c /\ state # "OPEN"
      BY <1>2, <3>3 DEF IInv, OnlyProbesDecide
    <3> QED
      BY <3>1, <3>2, <3>3
  <2>5. GateReopens' /\ OldCallsEnd'
    BY <1>1, <1>2 DEF IInv, GateReopens, OldCallsEnd
  <2> QED
    BY <2>2, <2>3, <2>4, <2>5 DEF IInv
<1>3. CASE pc' = [pc EXCEPT ![c] = "release"] /\ UNCHANGED <<state, successCount, left, fate, probe>>
  <2>1. TypeOK'
    BY <1>1, <1>3 DEF IInv, Points
  <2>2. SlotsCounted'
    BY <1>1, <1>3, SlotsUnmoved DEF IInv, Points
  <2>3. GateReopens' /\ OnlyProbesDecide' /\ OldCallsEnd'
    BY <1>1, <1>3 DEF IInv, GateReopens, OnlyProbesDecide, OldCallsEnd
  <2> QED
    BY <2>1, <2>2, <2>3 DEF IInv
<1> QED
    BY <1>2, <1>3 DEF Allow

\* A result is as old as its call.
LEMMA ReturnPreserves ==
    ASSUME IInv, NEW c \in Clients, Return(c)
    PROVE  IInv'
<1> USE LimitsAssumption DEF TypeOK
<1>1. PICK to \in {"ok", "err"} : pc[c] = "call" /\ pc' = [pc EXCEPT ![c] = to]
    BY DEF Return, At
<1>2. /\ left' = [left EXCEPT ![c] = 0] /\ fate' = [fate EXCEPT ![c] = "ok"]
      /\ UNCHANGED <<breakerVars, sem, healthy, sleeps, probe, mode>>
    BY DEF Return
<1>3. TypeOK'
    BY <1>1, <1>2 DEF IInv, breakerVars, Points, Fates
<1>4. SlotsCounted'
    BY <1>1, <1>2, SlotsUnmoved DEF IInv, Points
<1>5. GateReopens' /\ OnlyProbesDecide'
    BY <1>1, <1>2 DEF IInv, GateReopens, OnlyProbesDecide, breakerVars
<1>6. OldCallsEnd'
    BY <1>1, <1>2 DEF IInv, OldCallsEnd, breakerVars
<1> QED
    BY <1>3, <1>4, <1>5, <1>6 DEF IInv

\* A success that does not close the circuit is the only one of its trial that
\* stops being a probe.
LEMMA RecordSuccessPreserves ==
    ASSUME IInv, NEW c \in Clients, RecordSuccess(c)
    PROVE  IInv'
<1> USE LimitsAssumption DEF TypeOK
<1> DEFINE enough == state = "HALF_OPEN" /\ successCount + 1 >= HalfOpenMax
<1>1. /\ pc[c] = "ok" /\ pc' = [pc EXCEPT ![c] = "release"]
      /\ successCount' = IF state = "HALF_OPEN" THEN successCount + 1 ELSE successCount
      /\ failureCount' = IF enough \/ state = "CLOSED" THEN 0 ELSE failureCount
      /\ state' = IF enough THEN "CLOSED" ELSE state
      /\ probe' = [d \in Clients |-> probe[d] /\ d # c /\ ~enough]
      /\ UNCHANGED <<age, sem, healthy, sleeps, left, fate, mode>>
    BY DEF RecordSuccess, At
<1>2. TypeOK'
    BY <1>1 DEF IInv, Points
<1>3. SlotsCounted'
    BY <1>1, SlotsUnmoved DEF IInv, Points
<1>4. GateReopens' /\ OldCallsEnd'
    BY <1>1 DEF IInv, GateReopens, OldCallsEnd
<1>5. OnlyProbesDecide'
    BY <1>1 DEF IInv, OnlyProbesDecide
<1> QED
    BY <1>2, <1>3, <1>4, <1>5 DEF IInv

\* A failure that opens the circuit, or comes when it is open, starts the clock
\* anew: no call that is out has more than the timeout left.
LEMMA RecordFailurePreserves ==
    ASSUME IInv, NEW c \in Clients, RecordFailure(c)
    PROVE  IInv'
<1> USE LimitsAssumption DEF TypeOK
<1>1. /\ pc[c] = "err" /\ pc' = [pc EXCEPT ![c] = "check"]
      /\ age' = 0
      /\ failureCount' = IF state = "CLOSED" THEN failureCount + 1 ELSE failureCount
      /\ state' = IF \/ state = "HALF_OPEN"
                     \/ state = "CLOSED" /\ failureCount + 1 >= FailThreshold
                  THEN "OPEN" ELSE state
      /\ probe' = [d \in Clients |-> probe[d] /\ d # c /\ state # "HALF_OPEN"]
      /\ UNCHANGED <<successCount, sem, healthy, sleeps, left, fate, mode>>
    BY DEF RecordFailure, At
<1>2. TypeOK'
    BY <1>1 DEF IInv, Points
<1>3. SlotsCounted'
    BY <1>1, SlotsUnmoved DEF IInv, Points
<1>4. GateReopens' /\ OldCallsEnd'
    BY <1>1 DEF IInv, GateReopens, OldCallsEnd
<1>5. OnlyProbesDecide'
    BY <1>1 DEF IInv, OnlyProbesDecide
<1> QED
    BY <1>2, <1>3, <1>4, <1>5 DEF IInv

\* Reading the state decides nothing but where the handler goes.
LEMMA CheckPreserves ==
    ASSUME IInv, NEW c \in Clients, Check(c)
    PROVE  IInv'
<1> USE DEF TypeOK
<1>1. PICK to \in {"trip", "release"} : pc[c] = "check" /\ pc' = [pc EXCEPT ![c] = to]
    BY DEF Check, At
<1>2. UNCHANGED <<breakerVars, sem, healthy, sleeps, left, fate, probe, mode>>
    BY DEF Check
<1>3. TypeOK'
    BY <1>1, <1>2 DEF IInv, breakerVars, Points
<1>4. SlotsCounted'
    BY <1>1, <1>2, SlotsUnmoved DEF IInv, Points
<1>5. GateReopens' /\ OnlyProbesDecide' /\ OldCallsEnd'
    BY <1>1, <1>2 DEF IInv, GateReopens, OnlyProbesDecide, OldCallsEnd, breakerVars
<1> QED
    BY <1>3, <1>4, <1>5 DEF IInv

\* Whoever closes the gate leaves a goroutine that reopens it.
LEMMA TripPreserves ==
    ASSUME IInv, NEW c \in Clients, Trip(c)
    PROVE  IInv'
<1> USE LimitsAssumption DEF TypeOK
<1>1. /\ pc[c] = "trip" /\ pc' = [pc EXCEPT ![c] = "release"]
      /\ healthy' = FALSE
      /\ sleeps' = [sleeps EXCEPT ![Cooldown] = sleeps[Cooldown] + 1]
      /\ UNCHANGED <<breakerVars, sem, left, fate, probe, mode>>
    BY DEF Trip, At
<1>2. TypeOK'
  <2>1. sleeps' \in [0..Cooldown -> Nat]
    BY <1>1 DEF IInv
  <2>2. pc' \in [Clients -> Points]
    BY <1>1 DEF IInv, Points
  <2> QED
    BY <1>1, <2>1, <2>2 DEF IInv, breakerVars
<1>3. SlotsCounted'
    BY <1>1, SlotsUnmoved DEF IInv, Points
<1>4. GateReopens'
  <2>1. Cooldown \in 0..Cooldown /\ sleeps'[Cooldown] > 0
    BY <1>1 DEF IInv
  <2> QED
    BY <2>1 DEF GateReopens
<1>5. OnlyProbesDecide' /\ OldCallsEnd'
    BY <1>1 DEF IInv, OnlyProbesDecide, OldCallsEnd, breakerVars
<1> QED
    BY <1>2, <1>3, <1>4, <1>5 DEF IInv

\* The slot that is given back is the order's own.
LEMMA ReleasePreserves ==
    ASSUME IInv, NEW c \in Clients, Release(c)
    PROVE  IInv'
<1> USE LimitsAssumption DEF TypeOK
<1>1. /\ pc[c] = "release" /\ pc' = [pc EXCEPT ![c] = "idle"]
      /\ sem' = sem - 1
      /\ UNCHANGED <<breakerVars, healthy, sleeps, left, fate, probe, mode>>
    BY DEF Release, At
<1>2. Holders' = Holders \ {c} /\ c \in Holders
    BY <1>1, HoldersMove DEF IInv, Points, Holders
<1>3. IsFiniteSet(Holders') /\ Cardinality(Holders') = Cardinality(Holders) - 1
    BY <1>2, FS_RemoveElement DEF IInv, SlotsCounted
<1>4. SlotsCounted'
    BY <1>1, <1>3 DEF IInv, SlotsCounted, SlotsHeld
<1>5. sem' \in 0..MaxConcurrent
  <2>1. sem' \in Nat
    BY <1>4, FS_CardinalityType DEF SlotsCounted, SlotsHeld
  <2> QED
    BY <1>1, <2>1 DEF IInv
<1>6. TypeOK'
    BY <1>1, <1>5 DEF IInv, breakerVars, Points
<1>7. GateReopens' /\ OnlyProbesDecide' /\ OldCallsEnd'
    BY <1>1 DEF IInv, GateReopens, OnlyProbesDecide, OldCallsEnd, breakerVars
<1> QED
    BY <1>4, <1>6, <1>7 DEF IInv

\* A goroutine that wakes opens the gate.
LEMMA WakePreserves ==
    ASSUME IInv, Wake
    PROVE  IInv'
<1> USE LimitsAssumption DEF TypeOK
<1>1. /\ sleeps[0] > 0 /\ sleeps' = [sleeps EXCEPT ![0] = sleeps[0] - 1]
      /\ healthy' = TRUE
      /\ UNCHANGED <<breakerVars, sem, orderVars, probe, mode>>
    BY DEF Wake
<1>2. TypeOK'
    BY <1>1 DEF IInv, breakerVars, orderVars
<1>3. SlotsCounted'
    BY <1>1 DEF IInv, SlotsCounted, SlotsHeld, Holders, orderVars
<1>4. GateReopens' /\ OnlyProbesDecide' /\ OldCallsEnd'
    BY <1>1 DEF IInv, GateReopens, OnlyProbesDecide, OldCallsEnd, breakerVars, orderVars
<1> QED
    BY <1>2, <1>3, <1>4 DEF IInv

\* A tick brings sleeping goroutines and calls nearer to their ends, and there is
\* none while a result waits to be recorded.
LEMMA TickPreserves ==
    ASSUME IInv, Tick
    PROVE  IInv'
<1> USE LimitsAssumption DEF TypeOK
<1>1. /\ sleeps[0] = 0
      /\ \A c \in Clients : pc[c] \notin {"ok", "err", "check", "trip"}
      /\ \A c \in Clients : pc[c] = "call" => left[c] > 0
      /\ age' = IF age > Cooldown THEN age ELSE age + 1
      /\ sleeps' = [k \in 0..Cooldown |-> IF k = Cooldown THEN 0 ELSE sleeps[k + 1]]
      /\ left' = [c \in Clients |-> IF pc[c] = "call" THEN left[c] - 1 ELSE left[c]]
      /\ UNCHANGED <<state, failureCount, successCount, sem, healthy, pc, fate, probe, mode>>
    BY DEF Tick
<1>2. TypeOK'
  <2>1. sleeps' \in [0..Cooldown -> Nat]
    BY <1>1 DEF IInv
  <2>2. left' \in [Clients -> 0..Timeout]
    BY <1>1 DEF IInv
  <2>3. age' \in 0..(Cooldown + 1)
    BY <1>1 DEF IInv
  <2> QED
    BY <1>1, <2>1, <2>2, <2>3 DEF IInv
<1>3. SlotsCounted'
    BY <1>1 DEF IInv, SlotsCounted, SlotsHeld, Holders
<1>4. GateReopens'
  <2> SUFFICES ASSUME ~healthy PROVE \E k \in 0..Cooldown : sleeps'[k] > 0
    BY <1>1 DEF GateReopens
  <2>1. PICK k \in 0..Cooldown : sleeps[k] > 0
    BY DEF IInv, GateReopens
  <2>2. k - 1 \in 0..Cooldown /\ sleeps'[k - 1] = sleeps[k]
    BY <1>1, <2>1 DEF IInv
  <2> QED
    BY <2>1, <2>2
<1>5. OnlyProbesDecide'
    BY <1>1 DEF IInv, OnlyProbesDecide
<1>6. OldCallsEnd'
  <2> SUFFICES ASSUME state = "OPEN", NEW c \in Clients, pc[c] = "call"
               PROVE  age' + left'[c] <= Timeout
    BY <1>1 DEF OldCallsEnd
  <2>1. age + left[c] <= Timeout /\ age \in Nat /\ left[c] \in Nat /\ left[c] > 0
    BY <1>1 DEF IInv, OldCallsEnd
  <2>2. age' = age + 1 /\ left'[c] = left[c] - 1
    BY <1>1, <2>1
  <2> QED
    BY <2>1, <2>2
<1> QED
    BY <1>2, <1>3, <1>4, <1>5, <1>6 DEF IInv

\* Every step preserves the invariant.
LEMMA NextPreserves == IInv /\ [Next]_vars => IInv'
<1> SUFFICES ASSUME IInv, [Next]_vars PROVE IInv'
    OBVIOUS
<1>1. CASE UNCHANGED vars
    BY <1>1 DEF vars, breakerVars, orderVars, IInv, TypeOK, SlotsCounted, SlotsHeld, Holders,
        GateReopens, OnlyProbesDecide, OldCallsEnd
<1>2. ASSUME NEW m \in Modes, SwitchMode(m) PROVE IInv'
    BY <1>2 DEF SwitchMode, breakerVars, orderVars, IInv, TypeOK, SlotsCounted, SlotsHeld, Holders,
        GateReopens, OnlyProbesDecide, OldCallsEnd
<1>3. CASE Next
    BY <1>2, <1>3, EnterPreserves, AcquirePreserves, AllowPreserves, ReturnPreserves,
        RecordSuccessPreserves, RecordFailurePreserves, CheckPreserves, TripPreserves,
        ReleasePreserves, WakePreserves, TickPreserves DEF Next, Serve
<1> QED
    BY <1>1, <1>3

-----------------------------------------------------------------------------
(* The theorems *)

\* The invariant of gate, bulkhead and breaker: what the others follow from.
THEOREM Invariant == Spec => []IInv
<1>1. Init => IInv
  <2> SUFFICES ASSUME Init PROVE IInv
    OBVIOUS
  <2>1. TypeOK
    BY LimitsAssumption DEF Init, NewCircuitBreaker, NewBulkhead, NewFailFast, TypeOK, Points,
        Fates, Modes
  <2>2. SlotsCounted
    BY FS_EmptySet DEF Init, NewBulkhead, SlotsCounted, SlotsHeld, Holders
  <2>3. GateReopens /\ OnlyProbesDecide /\ OldCallsEnd
    BY DEF Init, NewCircuitBreaker, NewFailFast, GateReopens, OnlyProbesDecide, OldCallsEnd
  <2> QED
    BY <2>1, <2>2, <2>3 DEF IInv
<1> QED
    BY <1>1, NextPreserves, PTL DEF Spec

\* Counters, handlers and sleeps keep their types; no more than MaxConcurrent
\* slots are ever in use, and none is given back that was not taken.
THEOREM TypeCorrect == Spec => []TypeOK
<1>1. IInv => TypeOK
    BY DEF IInv
<1> QED
    BY <1>1, Invariant, PTL

\* The slots in use are those of the orders between Acquire and Release.
THEOREM SlotsAlwaysHeld == Spec => []SlotsHeld
<1>1. IInv => SlotsHeld
    BY DEF IInv, SlotsCounted
<1> QED
    BY <1>1, Invariant, PTL

\* A closed gate has a goroutine that is going to open it.
THEOREM GateAlwaysReopens == Spec => []GateReopens
<1>1. IInv => GateReopens
    BY DEF IInv
<1> QED
    BY <1>1, Invariant, PTL

\* Only calls that the half-open circuit admitted decide its trial, whenever a
\* call's timeout is no longer than the cooldown.
THEOREM ProbesDecide == Spec => []OnlyProbesDecide
<1>1. IInv => OnlyProbesDecide
    BY DEF IInv
<1> QED
    BY <1>1, Invariant, PTL
=============================================================================
