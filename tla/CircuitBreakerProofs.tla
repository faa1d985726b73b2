------------------------- MODULE CircuitBreakerProofs --------------------------
(******************************************************************************)
(* The safety of CircuitBreaker for every threshold, cooldown, budget and     *)
(* set of calls; that the probe is alone, and with it the contract, where the *)
(* budget is shorter than the cooldown.                                       *)
(*                                                                            *)
(* LateCallsAreOut is not inductive.  The inductive invariant says that the   *)
(* breaker and the running calls are Sound; BreakerProofs shows, method by    *)
(* method, that they stay so.                                                 *)
(******************************************************************************)
EXTENDS CircuitBreaker, BreakerProofs

IInv == Running \subseteq Call /\ Sound(cb, calls, Timeout)

--------------------------------------------------------------------------------
(* What the inductive invariant says in the terms of CircuitBreaker.          *)
LEMMA IInvImplies ==
  ASSUME IInv
  PROVE  TypeOK /\ ClosedBelowThreshold /\ OpenOutlastsCalls /\ LateCallsAreOut
  BY DEF IInv, Sound, TypeOK, ClosedBelowThreshold, OpenOutlastsCalls,
         LateCallsAreOut, Running

LEMMA InitIInv == Init => IInv
<1> SUFFICES ASSUME Init PROVE IInv
  OBVIOUS
<1>1. DOMAIN calls = {} /\ calls \in [DOMAIN calls -> {}]
  BY DEF Init
<1>2. Sound(cb, calls, Timeout)
  BY <1>1, NewIsSound, BudgetAssumption DEF Init
<1> QED BY <1>1, <1>2 DEF IInv, Running

LEMMA NextKeeps == IInv /\ [Next]_vars => IInv'
<1> SUFFICES ASSUME IInv, [Next]_vars PROVE IInv'
  OBVIOUS
<1> USE BudgetAssumption DEF IInv, Running
<1>1. ASSUME NEW c \in Call, NEW left \in 0 .. Timeout, Start(c, left) PROVE IInv'
  BY <1>1, StartSound DEF Start
<1>2. ASSUME NEW c \in Call, Succeed(c) PROVE IInv'
  BY <1>2, SuccessSound DEF Succeed, Return
<1>3. ASSUME NEW c \in Call, Fail(c) PROVE IInv'
  BY <1>3, FailureSound DEF Fail, Return
<1>4. ASSUME NEW c \in Call, Cancel(c) PROVE IInv'
  BY <1>4, CancelSound DEF Cancel
<1>5. CASE Tick
  BY <1>5, TickSound DEF Tick
<1>6. CASE UNCHANGED vars
  BY <1>6 DEF vars
<1> QED BY <1>1, <1>2, <1>3, <1>4, <1>5, <1>6 DEF Next

--------------------------------------------------------------------------------
(* The strengthened invariant holds in every behaviour.                       *)
THEOREM SpecIInv == Spec => []IInv
  BY InitIInv, NextKeeps, PTL DEF Spec

(* Breaker and calls keep their types: counters stay in range, no call        *)
(* outlives its budget.                                                       *)
THEOREM SpecTypeOK == Spec => []TypeOK
<1>1. IInv => TypeOK
  BY IInvImplies
<1> QED BY <1>1, SpecIInv, PTL

(* A breaker is closed exactly while its failures are below the threshold     *)
(* (RecordFailure, RecordSuccess).                                            *)
THEOREM SpecClosedBelowThreshold == Spec => []ClosedBelowThreshold
<1>1. IInv => ClosedBelowThreshold
  BY IInvImplies
<1> QED BY <1>1, SpecIInv, PTL

(* An open breaker outlasts the calls it let in when it was closed            *)
(* (RecordFailure restarts the cooldown).                                     *)
THEOREM SpecOpenOutlastsCalls == Spec => []OpenOutlastsCalls
<1>1. IInv => OpenOutlastsCalls
  BY IInvImplies
<1> QED BY <1>1, SpecIInv, PTL

(* Whatever the budget, the order pool's included: beside the probe of a      *)
(* half-open breaker there are only calls whose time is up.                   *)
THEOREM SpecLateCallsAreOut == Spec => []LateCallsAreOut
<1>1. IInv => LateCallsAreOut
  BY IInvImplies
<1> QED BY <1>1, SpecIInv, PTL

(* The single probe, where the budget is shorter than the cooldown: while     *)
(* half-open, exactly one call is under way (Allow, "probe already in-flight"). *)
THEOREM SpecHalfOpenExclusive ==
  ASSUME Timeout < OpenDuration
  PROVE  Spec => []HalfOpenExclusive
<1>1. ASSUME IInv PROVE HalfOpenExclusive
  <2> SUFFICES ASSUME cb.state = "half-open"
               PROVE  \E c \in Call : Running = {c}
    BY DEF HalfOpenExclusive
  <2>1. PICK c : Running = {c}
    BY <1>1, SoundProbeIsAlone, BudgetAssumption DEF IInv, Running
  <2> QED BY <1>1, <2>1 DEF IInv
<1> QED BY <1>1, SpecIInv, PTL

--------------------------------------------------------------------------------
(* Every step of the breaker is a step of its contract, or no step of it.     *)
LEMMA StepRefines ==
  ASSUME Timeout < OpenDuration, IInv, [Next]_vars
  PROVE  [Contract!Next]_(Contract!vars)
<1>1. ASSUME NEW c \in Call, NEW left \in 0 .. Timeout, Start(c, left)
      PROVE  Contract!Next
  <2>0. /\ c \notin Running /\ Running' = Running \cup {c} /\ cb \in BreakerType
        /\ cb'.state = IF cb.state = "open" THEN "half-open" ELSE cb.state
    BY <1>1, AfterAllowKeepsCounts, IInvImplies DEF TypeOK, Start, Running
  <2>1. CASE cb.state = "closed"
    <3>1. Contract!Admit(c)
      BY <2>0, <2>1 DEF Contract!Admit
    <3> QED BY <3>1 DEF Contract!Next
  <2>2. CASE cb.state # "closed"
    <3>1. cb.state = "open" /\ Running = {}
      BY <1>1, <2>2, SoundProbeIsAlone, BudgetAssumption DEF IInv, Start, Allow, Running
    <3>2. Contract!Trial(c)
      BY <2>0, <3>1 DEF Contract!Trial
    <3> QED BY <3>2 DEF Contract!Next
  <2> QED BY <2>1, <2>2
<1>2. ASSUME NEW c \in Call, Succeed(c)
      PROVE  Contract!Next
  <2>1. cb'.state = "closed" /\ c \in Running /\ Running' = Running \ {c}
    BY <1>2, RecordSuccessCloses, IInvImplies DEF TypeOK, Succeed, Return, Running
  <2>2. Contract!Succeed(c)
    BY <2>1 DEF Contract!Succeed
  <2> QED BY <2>2 DEF Contract!Next
<1>3. ASSUME NEW c \in Call, Fail(c)
      PROVE  Contract!Next
  <2>1. c \in Running /\ Running' = Running \ {c}
    BY <1>3 DEF Fail, Return, Running
  <2>2. /\ cb \in BreakerType /\ cb' \in BreakerType
        /\ cb'.failures >= cb.failures
        /\ cb'.failures >= Threshold => cb'.state = "open"
        /\ cb'.failures < Threshold => cb'.state = cb.state
    BY <1>3, RecordFailureCounts, IInvImplies DEF TypeOK, Fail
  <2>3. cb.failures \in Nat /\ cb'.failures \in Nat /\ Threshold \in Nat
    BY <2>2, BreakerAssumption DEF BreakerType
  <2>4. cb.state # "closed" => cb'.failures >= Threshold
    BY <2>2, <2>3, IInvImplies DEF ClosedBelowThreshold
  <2>5. cb'.failures < Threshold \/ cb'.failures >= Threshold
    BY <2>3
  <2>6. Contract!Fail(c)
    BY <2>1, <2>2, <2>4, <2>5 DEF Contract!Fail
  <2> QED BY <2>6 DEF Contract!Next
<1>4. ASSUME NEW c \in Call, Cancel(c)
      PROVE  UNCHANGED Contract!vars
  BY <1>4 DEF Cancel, Running, Contract!vars
<1>5. CASE Tick
  BY <1>5, ElapseKeepsState, IInvImplies DEF Tick, Running, Contract!vars, TypeOK
<1>6. CASE UNCHANGED vars
  BY <1>6 DEF vars, Running, Contract!vars
<1> QED BY <1>1, <1>2, <1>3, <1>4, <1>5, <1>6 DEF Next

(* The breaker of the code, with its clock and its counter, keeps the         *)
(* clock-free promise of BreakerContract where the budget is shorter than the *)
(* cooldown.                                                                  *)
THEOREM SpecContract ==
  ASSUME Timeout < OpenDuration
  PROVE  Spec => ContractSpec
<1>1. Init => Contract!Init
  BY DEF Init, Contract!Init, NewCircuitBreaker, Running
<1>2. IInv /\ [Next]_vars => [Contract!Next]_(Contract!vars)
  BY StepRefines
<1> QED BY <1>1, <1>2, SpecIInv, PTL DEF Spec, ContractSpec, Contract!Spec

================================================================================
