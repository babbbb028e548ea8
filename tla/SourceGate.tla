----------------------------- MODULE SourceGate -----------------------------
(***************************************************************************)
(* How the program asks one store: internal/source/client.go makes the     *)
(* attempts of a call, and internal/repositories/source_store.go gives     *)
(* each attempt its slot, holds the store back after a 429 and opens the   *)
(* circuit of a store that keeps failing.  Both documents belong to one    *)
(* domain and every process of the program shares them; domains share      *)
(* nothing, so one is modelled.                                            *)
(*                                                                         *)
(* A request and its answer are data: what matters of an answer is whether *)
(* it succeeded, asked for room, fell over or refused.  The wait between   *)
(* two attempts has no length here: the next attempt may begin at any      *)
(* later time.                                                             *)
(***************************************************************************)
EXTENDS Integers, FiniteSets

CONSTANTS
    Calls,            \* calls of FetchSource or SendSession, of any process
    MaxAttempts,      \* MaxAttempts[c]: Client.MaxAttempts, or 1 for SendSession
    Pace,             \* sourcePacing
    ThrottleCooldown, \* throttleCooldown
    Threshold,        \* circuitThreshold
    CircuitCooldown,  \* circuitCooldown
    Ceiling,          \* circuitCeiling
    MaxShift,         \* the 16 of circuitWait: the most doublings
    MaxBlind,         \* bound: reads of a document that fail
    MaxTime           \* bound: the clock stops here

ASSUME GateAssumption ==
    /\ MaxAttempts \in [Calls -> Nat \ {0}]
    /\ Pace \in Nat
    /\ ThrottleCooldown \in Nat
    /\ Threshold \in Nat \ {0}
    /\ CircuitCooldown \in Nat
    /\ Ceiling \in Nat
    /\ MaxShift \in Nat
    /\ MaxBlind \in Nat
    /\ MaxTime \in Nat

VARIABLES
    nextAllowed, \* traffic_leases: NextAllowedAt, 0 while there is no document
    health,      \* source_health: [failures, openUntil], openUntil 0 for none
    calls,       \* what each call is doing
    blind,       \* how many reads failed
    now          \* the wall clock

vars == <<nextAllowed, health, calls, blind, now>>

Fresh == [failures |-> 0, openUntil |-> 0]

Outcomes == {"ok", "throttled", "fallen", "refused"}

Init ==
    /\ nextAllowed = 0
    /\ health = Fresh
    /\ calls = [c \in Calls |->
            [step |-> "asking", attempt |-> 1, slot |-> 0, outcome |-> "ok"]]
    /\ blind = 0
    /\ now = 0

Later(a, b) == IF a > b THEN a ELSE b
Sooner(a, b) == IF a < b THEN a ELSE b

(* A read that fails is taken for a document that does not exist, and what *)
(* was started goes on: the code tells the two apart nowhere here.         *)
Blind == blind < MaxBlind /\ blind' = blind + 1
Seen == UNCHANGED blind

Goes(c, step) == calls' = [calls EXCEPT ![c].step = step]

-----------------------------------------------------------------------------
(* AwaitSource: the circuit first, then the slot, then the wait            *)

CheckCircuit(c) ==
    /\ calls[c].step = "asking"
    /\ \/ Seen /\ Goes(c, IF health.openUntil > now THEN "over" ELSE "reserving")
       \/ Blind /\ Goes(c, "reserving")
    /\ UNCHANGED <<nextAllowed, health, now>>

(* Mutant: a slot that is free now does not move the lease.                *)
ReserveBusyOnly(c) ==
    /\ calls[c].step = "reserving"
    /\ Seen
    /\ LET slot == Later(now, nextAllowed) IN
       /\ nextAllowed' = IF slot = now THEN nextAllowed ELSE slot + Pace
       /\ calls' = [calls EXCEPT ![c].step = "waiting", ![c].slot = slot]
    /\ UNCHANGED <<health, now>>

(* reserveTraffic, one transaction.                                        *)
ReserveTraffic(c) ==
    /\ calls[c].step = "reserving"
    /\ \E slot \in {now, Later(now, nextAllowed)} :
        /\ \/ slot = Later(now, nextAllowed) /\ Seen
           \/ slot = now /\ Blind
        /\ nextAllowed' = slot + Pace
        /\ calls' = [calls EXCEPT ![c].step = "waiting", ![c].slot = slot]
    /\ UNCHANGED <<health, now>>

(* The timer of waitUntil fires and the request leaves.  The circuit is    *)
(* not looked at again.                                                    *)
SendRequest(c) ==
    /\ calls[c].step = "waiting"
    /\ now >= calls[c].slot
    /\ Goes(c, "sent")
    /\ UNCHANGED <<nextAllowed, health, blind, now>>

-----------------------------------------------------------------------------
(* The answer, and RecordSource                                            *)

Answer(c, outcome) ==
    /\ calls[c].step = "sent"
    /\ calls' = [calls EXCEPT
            ![c].step = IF outcome = "throttled" THEN "delaying" ELSE "recording",
            ![c].outcome = outcome]
    /\ UNCHANGED <<nextAllowed, health, blind, now>>

(* Mutant: the cooldown replaces whatever was reserved.                    *)
DelayFromNow(c) ==
    /\ calls[c].step = "delaying"
    /\ Seen
    /\ nextAllowed' = now + ThrottleCooldown
    /\ Goes(c, "recording")
    /\ UNCHANGED <<health, now>>

(* delaySource, one transaction; its failure is ignored.                   *)
DelaySource(c) ==
    /\ calls[c].step = "delaying"
    /\ \/ Seen /\ nextAllowed' = Later(nextAllowed, now + ThrottleCooldown)
       \/ Blind /\ nextAllowed' = now + ThrottleCooldown
       \/ Seen /\ UNCHANGED nextAllowed
    /\ Goes(c, "recording")
    /\ UNCHANGED <<health, now>>

(* Mutant: the shift is not capped, and wraps within a word of 2 bits.     *)
UncappedWait(failures) ==
    Sooner((CircuitCooldown * 2^(failures - Threshold)) % 4, Ceiling)

circuitWait(failures) ==
    Sooner(CircuitCooldown * 2^Sooner(failures - Threshold, MaxShift), Ceiling)

(* updateSource: a success forgives everything, a 429 counts for nothing.  *)
updateSource(was, outcome) ==
    LET failures == was.failures + 1 IN
    CASE outcome = "ok" -> Fresh
      [] outcome = "throttled" -> was
      [] OTHER -> [failures |-> failures,
                   openUntil |-> IF failures >= Threshold
                                 THEN now + circuitWait(failures)
                                 ELSE was.openUntil]

CanRetry(outcome) == outcome \in {"throttled", "fallen"}

(* Mutant: the attempts are not counted against their limit.               *)
RetryForEver(c, retriable) ==
    \/ Goes(c, "over")
    \/ /\ retriable
       /\ calls' = [calls EXCEPT ![c].step = "asking", ![c].attempt = @ + 1]

(* FetchSource after an attempt: it ends, or tries again unless the error  *)
(* is final, the attempts are spent or the wait asked for does not fit.    *)
AfterAttempt(c, retriable) ==
    \/ Goes(c, "over")
    \/ /\ retriable
       /\ calls[c].attempt < MaxAttempts[c]
       /\ calls' = [calls EXCEPT ![c].step = "asking", ![c].attempt = @ + 1]

(* The transaction of RecordSource; when it fails the answer is forgotten. *)
RecordSource(c) ==
    /\ calls[c].step = "recording"
    /\ \/ Seen /\ health' = updateSource(health, calls[c].outcome)
       \/ Blind /\ health' = updateSource(Fresh, calls[c].outcome)
       \/ Seen /\ UNCHANGED health
    /\ AfterAttempt(c, CanRetry(calls[c].outcome))
    /\ UNCHANGED <<nextAllowed, now>>

(* The transaction of reserveTraffic fails: nothing is recorded, and the   *)
(* error is one that may be retried.                                       *)
ReserveFails(c) ==
    /\ calls[c].step = "reserving"
    /\ AfterAttempt(c, TRUE)
    /\ UNCHANGED <<nextAllowed, health, blind, now>>

(* The caller's context ends, or its process dies.                         *)
GiveUp(c) ==
    /\ calls[c].step # "over"
    /\ Goes(c, "over")
    /\ UNCHANGED <<nextAllowed, health, blind, now>>

Tick ==
    /\ now < MaxTime
    /\ now' = now + 1
    /\ UNCHANGED <<nextAllowed, health, calls, blind>>

-----------------------------------------------------------------------------
Next ==
    \/ \E c \in Calls :
        \/ CheckCircuit(c)
        \/ ReserveTraffic(c)
        \/ ReserveFails(c)
        \/ SendRequest(c)
        \/ \E outcome \in Outcomes : Answer(c, outcome)
        \/ DelaySource(c)
        \/ RecordSource(c)
        \/ GiveUp(c)
    \/ Tick

Spec == Init /\ [][Next]_vars

-----------------------------------------------------------------------------
(* Properties                                                              *)

Steps == {"asking", "reserving", "waiting", "sent", "delaying", "recording", "over"}

(* The documents and the calls have their shape.                           *)
TypeOK ==
    /\ nextAllowed \in Nat
    /\ health \in [failures : Nat, openUntil : Nat]
    /\ calls \in [Calls -> [step : Steps, attempt : Nat, slot : Nat, outcome : Outcomes]]
    /\ \A c \in Calls : calls[c].attempt <= MaxAttempts[c]
    /\ blind \in 0..MaxBlind
    /\ now \in 0..MaxTime

HoldsSlot(c) == calls[c].step \in {"waiting", "sent"}

(* However many processes ask one store, and whichever of them were told   *)
(* to slow down, no two of them hold slots closer than the pacing          *)
(* (reserveTraffic), as long as no read of the lease failed.               *)
SlotsSpaced ==
    blind = 0 =>
        \A c, d \in Calls :
            c # d /\ HoldsSlot(c) /\ HoldsSlot(d) =>
                calls[c].slot + Pace <= calls[d].slot \/ calls[d].slot + Pace <= calls[c].slot

(* The next turn of a store only moves away: neither two answers of 429    *)
(* nor a reservation that races one shortens the wait the first one won    *)
(* (delaySource, reserveTraffic).                                          *)
NeverCloser == [][blind' = 0 => nextAllowed' >= nextAllowed]_vars

(* A circuit that is open closes early only for a success: a failure that  *)
(* is recorded late, after others, never brings its end nearer             *)
(* (updateSource, circuitWait).                                            *)
OnlySuccessCloses ==
    [][ blind' = 0 /\ health'.openUntil < health.openUntil =>
            \E c \in Calls : calls[c].step = "recording" /\ calls[c].outcome = "ok" ]_vars

=============================================================================
