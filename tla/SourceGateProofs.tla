-------------------------- MODULE SourceGateProofs --------------------------
(***************************************************************************)
(* The slots and the circuit of SourceGate, for any number of calls, any   *)
(* pacing and any cooldowns.                                               *)
(*                                                                         *)
(* SlotsSpaced is not inductive: that the slot drawn next is far enough    *)
(* from those already held follows from where the lease stands, which is   *)
(* past every slot that is held.  What circuitWait computes plays no part  *)
(* in that, so the health of the store keeps no shape in GateInv; HealthInv *)
(* says of it that an open circuit ends no later than one opened now by    *)
(* the same number of failures would, and that a wait never shrinks as     *)
(* failures add up.                                                        *)
(***************************************************************************)
EXTENDS SourceGate, FiniteSetTheorems, TLAPS

(* The part of TypeOK that the slots rest on.                              *)
SlotTypes ==
    /\ nextAllowed \in Nat
    /\ calls \in [Calls -> [step : Steps, attempt : Nat, slot : Nat, outcome : Outcomes]]
    /\ blind \in Nat
    /\ now \in Nat

LeasePastSlots ==
    blind = 0 => \A c \in Calls : HoldsSlot(c) => calls[c].slot + Pace <= nextAllowed

GateInv == SlotTypes /\ LeasePastSlots /\ SlotsSpaced

-----------------------------------------------------------------------------
(* What a step may do to the lease and the slots, all that the invariant   *)
(* needs to know of it.                                                    *)

(* No call gains a slot, no slot changes, and the lease only moves away.   *)
Holds ==
    /\ nextAllowed' \in Nat
    /\ calls' \in [Calls -> [step : Steps, attempt : Nat, slot : Nat, outcome : Outcomes]]
    /\ blind' \in Nat /\ blind' >= blind
    /\ now' \in Nat
    /\ blind' = 0 => nextAllowed' >= nextAllowed
    /\ \A c \in Calls :
        calls'[c].slot = calls[c].slot /\ (HoldsSlot(c)' => HoldsSlot(c))

(* One call draws the slot where the lease stands, or a later one.         *)
Draws(c) ==
    /\ nextAllowed' \in Nat
    /\ calls' \in [Calls -> [step : Steps, attempt : Nat, slot : Nat, outcome : Outcomes]]
    /\ blind' \in Nat /\ blind' >= blind
    /\ now' \in Nat
    /\ blind' = 0 => calls'[c].slot >= nextAllowed
    /\ nextAllowed' = calls'[c].slot + Pace
    /\ \A d \in Calls \ {c} : calls'[d] = calls[d]

(* Going to another step, unless it is one that holds a slot, does nothing *)
(* to the slots.                                                           *)
LEMMA GoesOnly ==
    ASSUME SlotTypes, NEW c \in Calls, NEW step \in Steps, Goes(c, step),
           step \in {"waiting", "sent"} => HoldsSlot(c)
    PROVE  /\ calls' \in [Calls -> [step : Steps, attempt : Nat, slot : Nat, outcome : Outcomes]]
           /\ \A d \in Calls :
                calls'[d].slot = calls[d].slot /\ (HoldsSlot(d)' => HoldsSlot(d))
<1>1. calls' = [d \in Calls |->
        IF d = c THEN [calls[c] EXCEPT !.step = step] ELSE calls[d]]
    BY DEF SlotTypes, Goes
<1> QED BY <1>1 DEF SlotTypes, HoldsSlot

(* Nor does what follows an attempt.                                       *)
LEMMA AttemptOnly ==
    ASSUME SlotTypes, NEW c \in Calls,
           \/ Goes(c, "over")
           \/ calls' = [calls EXCEPT ![c].step = "asking", ![c].attempt = @ + 1]
    PROVE  /\ calls' \in [Calls -> [step : Steps, attempt : Nat, slot : Nat, outcome : Outcomes]]
           /\ \A d \in Calls :
                calls'[d].slot = calls[d].slot /\ (HoldsSlot(d)' => HoldsSlot(d))
<1>1. CASE Goes(c, "over")
    BY <1>1, GoesOnly DEF Steps
<1>2. CASE calls' = [calls EXCEPT ![c].step = "asking", ![c].attempt = @ + 1]
    <2>4. PICK n \in Nat : n = calls[c].attempt + 1
        BY DEF SlotTypes
    <2> DEFINE next == [calls[c] EXCEPT !.step = "asking", !.attempt = n]
    <2>1. calls' = [calls EXCEPT ![c] = next]
        BY <1>2, <2>4 DEF SlotTypes
    <2>2. calls[c] \in [step : Steps, attempt : Nat, slot : Nat, outcome : Outcomes]
        BY DEF SlotTypes
    <2>3. /\ next \in [step : Steps, attempt : Nat, slot : Nat, outcome : Outcomes]
          /\ next.slot = calls[c].slot /\ next.step = "asking"
        BY <2>2 DEF Steps, Outcomes
    <2> HIDE DEF next
    <2> QED BY <2>1, <2>3 DEF SlotTypes, HoldsSlot
<1> QED BY <1>1, <1>2

(* The budget of failed reads is only spent.                               *)
LEMMA Budget ==
    ASSUME SlotTypes, Seen \/ Blind
    PROVE  blind' \in Nat /\ blind' >= blind /\ (Blind => blind' # 0)
BY GateAssumption DEF SlotTypes, Seen, Blind

-----------------------------------------------------------------------------
(* Every step holds the slots or draws one.                                *)
LEMMA SlotSteps ==
    ASSUME SlotTypes, [Next]_vars
    PROVE  Holds \/ \E c \in Calls : Draws(c)
<1> USE GateAssumption
<1>1. CASE UNCHANGED vars
    BY <1>1 DEF vars, SlotTypes, Holds, HoldsSlot
<1>2. ASSUME NEW c \in Calls, CheckCircuit(c) PROVE Holds
    <2>1. PICK step \in {"over", "reserving"} : Goes(c, step)
        BY <1>2 DEF CheckCircuit
    <2>2. nextAllowed' = nextAllowed /\ now' = now /\ (Seen \/ Blind)
        BY <1>2 DEF CheckCircuit
    <2> QED BY <2>1, <2>2, GoesOnly, Budget DEF Holds, SlotTypes, Steps
<1>3. ASSUME NEW c \in Calls, ReserveTraffic(c) PROVE Draws(c)
    <2>1. PICK slot \in {now, Later(now, nextAllowed)} :
            /\ \/ slot = Later(now, nextAllowed) /\ Seen
               \/ slot = now /\ Blind
            /\ nextAllowed' = slot + Pace
            /\ calls' = [calls EXCEPT ![c].step = "waiting", ![c].slot = slot]
        BY <1>3 DEF ReserveTraffic
    <2>2. slot \in Nat /\ now' = now
        BY <1>3, <2>1 DEF SlotTypes, Later, ReserveTraffic
    <2> DEFINE next == [calls[c] EXCEPT !.step = "waiting", !.slot = slot]
    <2>3. /\ calls' = [calls EXCEPT ![c] = next]
          /\ calls[c] \in [step : Steps, attempt : Nat, slot : Nat, outcome : Outcomes]
        BY <2>1 DEF SlotTypes
    <2>6. /\ next \in [step : Steps, attempt : Nat, slot : Nat, outcome : Outcomes]
          /\ next.slot = slot
        BY <2>2, <2>3 DEF Steps, Outcomes
    <2> HIDE DEF next
    <2>4. /\ calls' \in [Calls -> [step : Steps, attempt : Nat, slot : Nat, outcome : Outcomes]]
          /\ calls'[c].slot = slot
          /\ \A d \in Calls \ {c} : calls'[d] = calls[d]
        BY <2>3, <2>6 DEF SlotTypes
    <2>5. blind' = 0 => slot >= nextAllowed
        <3>1. CASE slot = Later(now, nextAllowed)
            BY <3>1 DEF SlotTypes, Later
        <3>2. CASE Blind
            BY <3>2, Budget
        <3> QED BY <2>1, <3>1, <3>2
    <2> QED BY <2>1, <2>2, <2>4, <2>5, Budget DEF Draws, SlotTypes
<1>4. ASSUME NEW c \in Calls, ReserveFails(c) PROVE Holds
    <2>1. /\ \/ Goes(c, "over")
             \/ calls' = [calls EXCEPT ![c].step = "asking", ![c].attempt = @ + 1]
          /\ UNCHANGED <<nextAllowed, health, blind, now>>
        BY <1>4 DEF ReserveFails, AfterAttempt
    <2> QED BY <2>1, AttemptOnly DEF Holds, SlotTypes
<1>5. ASSUME NEW c \in Calls, SendRequest(c) PROVE Holds
    <2>1. HoldsSlot(c) /\ Goes(c, "sent") /\ UNCHANGED <<nextAllowed, blind, now>>
        BY <1>5 DEF SendRequest, HoldsSlot
    <2> QED BY <2>1, GoesOnly DEF Holds, SlotTypes, Steps
<1>6. ASSUME NEW c \in Calls, NEW outcome \in Outcomes, Answer(c, outcome) PROVE Holds
    <2>1. PICK step \in {"delaying", "recording"} :
            calls' = [calls EXCEPT ![c].step = step, ![c].outcome = outcome]
        BY <1>6 DEF Answer
    <2> DEFINE next == [calls[c] EXCEPT !.step = step, !.outcome = outcome]
    <2>2. /\ calls' = [calls EXCEPT ![c] = next]
          /\ calls[c] \in [step : Steps, attempt : Nat, slot : Nat, outcome : Outcomes]
        BY <2>1 DEF SlotTypes
    <2>4. /\ next \in [step : Steps, attempt : Nat, slot : Nat, outcome : Outcomes]
          /\ next.slot = calls[c].slot /\ next.step = step
        BY <2>2 DEF Steps, Outcomes
    <2> HIDE DEF next
    <2>3. /\ calls' \in [Calls -> [step : Steps, attempt : Nat, slot : Nat, outcome : Outcomes]]
          /\ \A d \in Calls :
                calls'[d].slot = calls[d].slot /\ (HoldsSlot(d)' => HoldsSlot(d))
        BY <2>2, <2>4 DEF SlotTypes, HoldsSlot
    <2> QED BY <1>6, <2>3 DEF Answer, Holds, SlotTypes
<1>7. ASSUME NEW c \in Calls, DelaySource(c) PROVE Holds
    <2>1. Goes(c, "recording") /\ (Seen \/ Blind) /\ now' = now
        BY <1>7 DEF DelaySource
    <2>2. nextAllowed' \in Nat /\ (blind' = 0 => nextAllowed' >= nextAllowed)
        <3>1. CASE Seen
            BY <1>7, <3>1 DEF DelaySource, Seen, Blind, SlotTypes, Later
        <3>2. CASE Blind
            BY <1>7, <3>2, Budget DEF DelaySource, Seen, Blind, SlotTypes, Later
        <3> QED BY <2>1, <3>1, <3>2
    <2> QED BY <2>1, <2>2, GoesOnly, Budget DEF Holds, SlotTypes, Steps
<1>8. ASSUME NEW c \in Calls, RecordSource(c) PROVE Holds
    <2>1. /\ \/ Goes(c, "over")
             \/ calls' = [calls EXCEPT ![c].step = "asking", ![c].attempt = @ + 1]
          /\ Seen \/ Blind
          /\ UNCHANGED <<nextAllowed, now>>
        BY <1>8 DEF RecordSource, AfterAttempt
    <2> QED BY <2>1, AttemptOnly, Budget DEF Holds, SlotTypes
<1>9. ASSUME NEW c \in Calls, GiveUp(c) PROVE Holds
    BY <1>9, GoesOnly DEF GiveUp, Holds, SlotTypes, Steps
<1>10. CASE Tick
    BY <1>10 DEF Tick, Holds, SlotTypes, HoldsSlot
<1> QED
    BY <1>1, <1>2, <1>3, <1>4, <1>5, <1>6, <1>7, <1>8, <1>9, <1>10 DEF Next

-----------------------------------------------------------------------------
LEMMA GateInitial == Init => GateInv
BY DEF Init, GateInv, SlotTypes, LeasePastSlots, SlotsSpaced, HoldsSlot, Steps, Outcomes

LEMMA GatePreserved == GateInv /\ [Next]_vars => GateInv'
<1> SUFFICES ASSUME GateInv, [Next]_vars PROVE GateInv'
    OBVIOUS
<1> USE GateAssumption
<1>1. CASE Holds
    <2>1. SlotTypes'
        BY <1>1 DEF Holds, SlotTypes
    <2>2. LeasePastSlots'
        BY <1>1 DEF Holds, GateInv, LeasePastSlots, SlotTypes
    <2>3. SlotsSpaced'
        BY <1>1 DEF Holds, GateInv, SlotsSpaced, SlotTypes
    <2> QED BY <2>1, <2>2, <2>3 DEF GateInv
<1>2. ASSUME NEW c \in Calls, Draws(c) PROVE GateInv'
    <2>1. SlotTypes'
        BY <1>2 DEF Draws, SlotTypes
    <2>2. \A d \in Calls \ {c} : HoldsSlot(d)' => HoldsSlot(d) /\ calls'[d].slot = calls[d].slot
        BY <1>2 DEF Draws, HoldsSlot
    <2>3. \A d \in Calls : calls[d].slot \in Nat /\ calls'[d].slot \in Nat
        BY <2>1 DEF GateInv, SlotTypes
    <2>4. LeasePastSlots'
        BY <1>2, <2>2, <2>3 DEF Draws, GateInv, LeasePastSlots, SlotTypes
    <2>5. SlotsSpaced'
        BY <1>2, <2>2, <2>3 DEF Draws, GateInv, LeasePastSlots, SlotsSpaced, SlotTypes
    <2> QED BY <2>1, <2>4, <2>5 DEF GateInv
<1> QED BY <1>1, <1>2, SlotSteps DEF GateInv

LEMMA GateInductive == Spec => []GateInv
<1> QED BY GateInitial, GatePreserved, PTL DEF Spec

(* However many calls of however many processes ask one store, no two of   *)
(* them hold slots closer than the pacing (reserveTraffic), while the      *)
(* lease could be read.                                                    *)
THEOREM SlotsCorrect == Spec => []SlotsSpaced
<1>1. GateInv => SlotsSpaced
    BY DEF GateInv
<1> QED BY <1>1, GateInductive, PTL

(* The next turn of a store only moves away, whatever reservations and     *)
(* cooldowns meet (reserveTraffic, delaySource), while the lease could be  *)
(* read.                                                                   *)
THEOREM CloserCorrect == Spec => NeverCloser
<1>1. GateInv /\ [Next]_vars => (blind' = 0 => nextAllowed' >= nextAllowed)
    <2> SUFFICES ASSUME GateInv, [Next]_vars, blind' = 0 PROVE nextAllowed' >= nextAllowed
        OBVIOUS
    <2>1. CASE Holds
        BY <2>1 DEF Holds
    <2>2. ASSUME NEW c \in Calls, Draws(c) PROVE nextAllowed' >= nextAllowed
        BY <2>2, GateAssumption DEF Draws, GateInv, SlotTypes
    <2> QED BY <2>1, <2>2, SlotSteps DEF GateInv
<1>2. GateInv /\ [Next]_vars => [blind' = 0 => nextAllowed' >= nextAllowed]_vars
    BY <1>1
<1> QED BY <1>2, GateInductive, PTL DEF Spec, NeverCloser


-----------------------------------------------------------------------------
(* The circuit                                                             *)

(* A set with more elements has more subsets: powers of two are natural    *)
(* numbers that grow.                                                      *)
LEMMA Doublings ==
    ASSUME NEW n \in Nat, NEW m \in Nat, n <= m
    PROVE  2^n \in Nat /\ 2^m \in Nat /\ 2^n <= 2^m
<1>1. /\ IsFiniteSet(1..n) /\ Cardinality(1..n) = n
      /\ IsFiniteSet(1..m) /\ Cardinality(1..m) = m
    BY FS_Interval
<1>2. /\ IsFiniteSet(SUBSET (1..n)) /\ Cardinality(SUBSET (1..n)) = 2^n
      /\ IsFiniteSet(SUBSET (1..m)) /\ Cardinality(SUBSET (1..m)) = 2^m
    BY <1>1, FS_SUBSET
<1>3. SUBSET (1..n) \subseteq SUBSET (1..m)
    BY Z3
<1>4. Cardinality(SUBSET (1..n)) <= Cardinality(SUBSET (1..m))
    BY <1>2, <1>3, FS_Subset
<1>5. Cardinality(SUBSET (1..n)) \in Nat /\ Cardinality(SUBSET (1..m)) \in Nat
    BY <1>2, FS_CardinalityType
<1> QED BY <1>2, <1>4, <1>5

(* circuitWait is a wait, and one more failure never makes it shorter.     *)
LEMMA WaitGrows ==
    ASSUME NEW k \in Nat, k >= Threshold
    PROVE  /\ circuitWait(k) \in Nat /\ circuitWait(k + 1) \in Nat
           /\ circuitWait(k) <= circuitWait(k + 1)
<1> DEFINE low == Sooner(k - Threshold, MaxShift)
           high == Sooner((k + 1) - Threshold, MaxShift)
<1>1. low \in Nat /\ high \in Nat /\ low <= high
    BY GateAssumption DEF GateAssumption, Sooner
<1>2. 2^low \in Nat /\ 2^high \in Nat /\ 2^low <= 2^high
    BY <1>1, Doublings
<1>3. PICK p \in Nat, q \in Nat : p = 2^low /\ q = 2^high /\ p <= q
    BY <1>2
<1>4. CircuitCooldown \in Nat /\ Ceiling \in Nat
    BY GateAssumption DEF GateAssumption
<1>5. /\ CircuitCooldown * p \in Nat /\ CircuitCooldown * q \in Nat
      /\ CircuitCooldown * p <= CircuitCooldown * q
    BY <1>3, <1>4
<1>6. /\ circuitWait(k) = Sooner(CircuitCooldown * p, Ceiling)
      /\ circuitWait(k + 1) = Sooner(CircuitCooldown * q, Ceiling)
    BY <1>3 DEF circuitWait
<1>7. \A a, b \in Nat : a <= b =>
            /\ Sooner(a, Ceiling) \in Nat /\ Sooner(b, Ceiling) \in Nat
            /\ Sooner(a, Ceiling) <= Sooner(b, Ceiling)
    BY <1>4 DEF Sooner
<1> QED BY <1>5, <1>6, <1>7

(* A circuit was opened by enough failures, and ends no later than one     *)
(* that as many failures open now.                                         *)
OpenedAsTold(record) ==
    \/ record.openUntil = 0
    \/ /\ record.failures >= Threshold
       /\ record.openUntil <= now + circuitWait(record.failures)

Counted ==
    /\ blind \in 0..MaxBlind /\ now \in 0..MaxTime
    /\ \A c \in Calls : calls[c].attempt <= MaxAttempts[c]

HealthInv ==
    /\ health \in [failures : Nat, openUntil : Nat]
    /\ OpenedAsTold(health)
    /\ Counted

LEMMA HealthInitial == Init => HealthInv
BY GateAssumption DEF GateAssumption, Init, HealthInv, OpenedAsTold, Counted, Fresh

(* Nothing but the transaction of RecordSource writes the health.          *)
LEMMA HealthWrites ==
    [Next]_vars => health' = health \/ \E c \in Calls : RecordSource(c)
BY DEF Next, vars, CheckCircuit, ReserveTraffic, ReserveFails, SendRequest, Answer, DelaySource, GiveUp, Tick

(* What an answer makes of the health: it forgets it, leaves it, or counts *)
(* a failure.                                                              *)
LEMMA Recorded ==
    ASSUME now \in Nat, NEW was \in [failures : Nat, openUntil : Nat], OpenedAsTold(was),
           NEW outcome \in Outcomes, NEW is, is = updateSource(was, outcome)
    PROVE  /\ is \in [failures : Nat, openUntil : Nat] /\ OpenedAsTold(is)
           /\ is.openUntil < was.openUntil => outcome = "ok"
<1> USE GateAssumption DEF GateAssumption
<1>1. CASE outcome = "ok"
    BY <1>1 DEF updateSource, Fresh, OpenedAsTold
<1>2. CASE outcome = "throttled"
    BY <1>2 DEF updateSource
<1>3. CASE outcome \notin {"ok", "throttled"}
    <2> DEFINE failures == was.failures + 1
    <2>1. is = [failures |-> failures,
                openUntil |-> IF failures >= Threshold THEN now + circuitWait(failures)
                              ELSE was.openUntil]
        BY <1>3 DEF updateSource
    <2>2. was.failures \in Nat /\ failures \in Nat /\ was.openUntil \in Nat
        OBVIOUS
    <2>3. CASE failures >= Threshold
        <3>1. circuitWait(failures) \in Nat
            BY <2>2, <2>3, WaitGrows
        <3>2. is.failures = failures /\ is.openUntil = now + circuitWait(failures)
            BY <2>1, <2>3
        <3>3. is \in [failures : Nat, openUntil : Nat] /\ OpenedAsTold(is)
            BY <2>1, <2>2, <2>3, <3>1, <3>2 DEF OpenedAsTold
        <3>4. is.openUntil >= was.openUntil
            <4>1. CASE was.openUntil = 0
                BY <3>1, <3>2, <4>1
            <4>2. CASE was.failures >= Threshold /\ was.openUntil <= now + circuitWait(was.failures)
                <5>1. /\ circuitWait(was.failures) \in Nat
                      /\ circuitWait(was.failures) <= circuitWait(failures)
                    BY <2>2, <4>2, WaitGrows
                <5> QED BY <2>2, <3>1, <3>2, <4>2, <5>1
            <4> QED BY <4>1, <4>2 DEF OpenedAsTold
        <3> QED BY <2>2, <3>2, <3>3, <3>4
    <2>4. CASE ~(failures >= Threshold)
        <3>1. is = [failures |-> failures, openUntil |-> was.openUntil]
            BY <2>1, <2>4
        <3>2. was.openUntil = 0
            BY <2>2, <2>4 DEF OpenedAsTold
        <3> QED BY <2>2, <3>1, <3>2 DEF OpenedAsTold
    <2> QED BY <2>3, <2>4
<1> QED BY <1>1, <1>2, <1>3

(* The clock never turns back and stops at its bound.                      *)
LEMMA TimeGoesOn ==
    ASSUME [Next]_vars, now \in Nat
    PROVE  now' \in Nat /\ now <= now' /\ (now' \in 0..MaxTime \/ now' = now)
<1>1. now' = now \/ Tick
    BY DEF Next, vars, CheckCircuit, ReserveTraffic, ReserveFails, SendRequest, Answer, DelaySource,
        RecordSource, GiveUp
<1> QED BY <1>1, GateAssumption DEF GateAssumption, Tick

(* The clock and the failed reads keep their bounds, and no call makes more *)
(* attempts than it has.                                                   *)
LEMMA StillCounted ==
    ASSUME GateInv, Counted, [Next]_vars
    PROVE  Counted'
<1> USE GateAssumption DEF GateAssumption
<1>1. now' \in 0..MaxTime
    BY TimeGoesOn DEF Counted
<1>2. blind' \in 0..MaxBlind
    <2>1. Seen \/ Blind
        BY DEF Next, vars, CheckCircuit, ReserveTraffic, ReserveFails, SendRequest, Answer, DelaySource,
            RecordSource, GiveUp, Tick, Seen
    <2> QED BY <2>1 DEF Counted, Seen, Blind
<1>3. ASSUME NEW d \in Calls PROVE calls'[d].attempt <= MaxAttempts[d]
    <2>1. calls \in [Calls -> [step : Steps, attempt : Nat, slot : Nat, outcome : Outcomes]]
        BY DEF GateInv, SlotTypes
    <2>2. calls[d].attempt <= MaxAttempts[d] /\ calls[d].attempt \in Nat /\ MaxAttempts[d] \in Nat
        BY <2>1 DEF Counted
    <2>3. \/ calls'[d].attempt = calls[d].attempt
          \/ calls[d].attempt < MaxAttempts[d] /\ calls'[d].attempt = calls[d].attempt + 1
        <3>1. CASE \E c \in Calls : RecordSource(c) \/ ReserveFails(c)
            BY <2>1, <3>1 DEF RecordSource, ReserveFails, AfterAttempt, Goes
        <3>2. CASE \E c \in Calls : CheckCircuit(c) \/ SendRequest(c) \/ DelaySource(c) \/ GiveUp(c)
            BY <2>1, <3>2 DEF CheckCircuit, SendRequest, DelaySource, GiveUp, Goes
        <3>3. CASE \E c \in Calls : ReserveTraffic(c)
            <4>1. PICK c \in Calls : \E slot :
                    calls' = [calls EXCEPT ![c].step = "waiting", ![c].slot = slot]
                BY <3>3 DEF ReserveTraffic
            <4> QED BY <2>1, <4>1
        <3>4. CASE \E c \in Calls, outcome \in Outcomes : Answer(c, outcome)
            <4>1. PICK c \in Calls, outcome \in Outcomes : \E step :
                    calls' = [calls EXCEPT ![c].step = step, ![c].outcome = outcome]
                BY <3>4 DEF Answer
            <4> QED BY <2>1, <4>1
        <3>5. CASE Tick \/ UNCHANGED vars
            BY <3>5 DEF Tick, vars
        <3> QED BY <3>1, <3>2, <3>3, <3>4, <3>5 DEF Next
    <2> QED BY <2>2, <2>3
<1> QED BY <1>1, <1>2, <1>3 DEF Counted

(* The health keeps its shape, and only a success takes the end of an open *)
(* circuit back, as long as it could be read.                              *)
LEMMA HealthPreserved ==
    ASSUME GateInv, HealthInv, [Next]_vars
    PROVE  /\ HealthInv'
           /\ blind' = 0 /\ health'.openUntil < health.openUntil =>
                \E c \in Calls : calls[c].step = "recording" /\ calls[c].outcome = "ok"
<1>1. now \in Nat /\ now' \in Nat /\ now <= now'
    BY TimeGoesOn DEF GateInv, SlotTypes
<1>2. Counted'
    BY StillCounted DEF HealthInv
<1>3. ASSUME NEW record \in [failures : Nat, openUntil : Nat], OpenedAsTold(record)
      PROVE  OpenedAsTold(record)'
    <2>1. circuitWait(record.failures) \in Nat \/ ~(record.failures >= Threshold)
        BY WaitGrows
    <2> QED BY <1>1, <1>3, <2>1 DEF OpenedAsTold
<1>4. CASE health' = health
    <2>1. OpenedAsTold(health)'
        BY <1>3, <1>4 DEF HealthInv
    <2> QED BY <1>2, <1>4, <2>1 DEF HealthInv
<1>5. ASSUME NEW c \in Calls, RecordSource(c), health' # health
      PROVE  /\ HealthInv'
             /\ blind' = 0 /\ health'.openUntil < health.openUntil =>
                    calls[c].step = "recording" /\ calls[c].outcome = "ok"
    <2>1. calls[c].outcome \in Outcomes
        BY DEF GateInv, SlotTypes
    <2>2. /\ Fresh \in [failures : Nat, openUntil : Nat] /\ OpenedAsTold(Fresh)
          /\ health \in [failures : Nat, openUntil : Nat] /\ OpenedAsTold(health)
        BY DEF Fresh, OpenedAsTold, HealthInv
    <2>3. PICK was \in {health, Fresh} :
            /\ health' = updateSource(was, calls[c].outcome)
            /\ blind' = 0 => was = health
        BY <1>5, Budget DEF RecordSource, GateInv
    <2>4. /\ health' \in [failures : Nat, openUntil : Nat] /\ OpenedAsTold(health')
          /\ health'.openUntil < was.openUntil => calls[c].outcome = "ok"
        BY <1>1, <2>1, <2>2, <2>3, Recorded
    <2>5. OpenedAsTold(health)'
        <3>1. now' = now
            BY <1>5 DEF RecordSource
        <3> QED BY <2>4, <3>1 DEF OpenedAsTold
    <2>6. calls[c].step = "recording"
        BY <1>5 DEF RecordSource
    <2> QED BY <1>2, <2>3, <2>4, <2>5, <2>6 DEF HealthInv
<1> QED BY <1>4, <1>5, HealthWrites

LEMMA HealthInductive == Spec => [](GateInv /\ HealthInv)
<1>1. Init => HealthInv
    BY HealthInitial
<1>2. GateInv /\ HealthInv /\ [Next]_vars => HealthInv'
    BY HealthPreserved
<1> QED BY <1>1, <1>2, GateInductive, PTL DEF Spec

(* The documents and the calls keep their shape, no call makes more        *)
(* attempts than its client allows (FetchSource, SendSession), and how long *)
(* a circuit stays open is a number for any number of failures             *)
(* (circuitWait).                                                          *)
THEOREM GateTypeCorrect == Spec => []TypeOK
<1>1. GateInv /\ HealthInv => TypeOK
    BY DEF GateInv, SlotTypes, HealthInv, Counted, TypeOK
<1> QED BY <1>1, HealthInductive, PTL

(* A circuit that is open closes early only for a success: a failure that  *)
(* is recorded late, after others, never brings its end nearer             *)
(* (updateSource, circuitWait), while the health could be read.            *)
THEOREM CircuitCorrect == Spec => OnlySuccessCloses
<1>1. GateInv /\ HealthInv /\ [Next]_vars =>
        [ blind' = 0 /\ health'.openUntil < health.openUntil =>
            \E c \in Calls : calls[c].step = "recording" /\ calls[c].outcome = "ok" ]_vars
    BY HealthPreserved
<1> QED BY <1>1, HealthInductive, PTL DEF Spec, OnlySuccessCloses

=============================================================================
