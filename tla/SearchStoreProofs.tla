------------------------- MODULE SearchStoreProofs -------------------------
(***************************************************************************)
(* What SearchStore keeps for every number of searches, cards, calls and   *)
(* turns, and for every lease, expiry and parking: the theorems that its   *)
(* runs check on small instances.  The last one says that SearchStore      *)
(* implements SearchLog: seen through what a client can read, each         *)
(* transaction is one step of the log or none.                             *)
(***************************************************************************)
EXTENDS SearchStore, FiniteSetTheorems, TLAPS

-----------------------------------------------------------------------------
(* The inductive invariant, one conjunct per pair of collections that the  *)
(* code keeps in step.                                                     *)

(* An id nobody drew names no document.                                    *)
UndrawnIsAbsent ==
    \A s \in SearchIds : madeBy[s] = None =>
        /\ searches[s] = None
        /\ \A i \in ItemIds : i[1] = s => items[i] = None

(* A call that still writes is the only one that writes its search; it     *)
(* remembers what was saved, and no item exists where it has not been yet. *)
Active(c) == calls[c].step \in {"created", "writing"}

CallAgrees(c) ==
    LET call == calls[c]
        s == call.search
    IN
    /\ s \in SearchIds
    /\ madeBy[s] # None
    /\ searches[s] # None => call.total = searches[s].total
    /\ searches[s] # None /\ call.step = "writing" =>
           call.expiresAt = searches[s].expiresAt
    /\ \A i \in ItemIds : i[1] = s /\ call.next <= i[2] => items[i] = None
    /\ \A d \in Callers : Active(d) /\ calls[d].search = s => d = c

CallsAgree == \A c \in Callers : Active(c) => CallAgrees(c)

(* An item carries the expiry of its search and one of its positions; a    *)
(* finished one is parked beyond that expiry, beside its offers.           *)
ItemAgrees(i) ==
    /\ searches[i[1]] # None =>
           /\ items[i].expiresAt = searches[i[1]].expiresAt
           /\ i[2] < searches[i[1]].total
    /\ items[i].status \in Outcome =>
           /\ items[i].availableAt > items[i].expiresAt
           /\ \/ itemOffers[i] = items[i].expiresAt
              \/ itemOffers[i] = None /\ Lapsed(items[i].expiresAt)

ItemsAgree == \A i \in ItemIds : items[i] # None => ItemAgrees(i)

(* A readable search is finished exactly when its counter says so.         *)
StatusAgrees ==
    \A s \in SearchIds : Live(s) =>
        LET job == searches[s] IN
        job.status # "cancelled" =>
            /\ job.status \in FinishedStatus <=> job.processed = job.total
            /\ job.status = "completed_with_errors" <=>
                   job.processed = job.total /\ job.errors > 0

ProgressInv ==
    /\ TypeOK
    /\ UndrawnIsAbsent
    /\ CallsAgree
    /\ ItemsAgree
    /\ StatusAgrees
    /\ ProgressMatchesResults

-----------------------------------------------------------------------------
(* Types                                                                   *)

LEMMA InitType == Init => TypeOK
BY BoundsAssumption, NoneAssumption DEF Init, TypeOK, NewCall, IdleTurn, Call, Turn

(* One call moves: its new record decides whether the calls stay typed.    *)
LEMMA CallsType ==
    ASSUME TypeOK, NEW c \in Callers, NEW call \in Call,
           call.step \in {"created", "writing"} => call.search \in SearchIds,
           calls' = [calls EXCEPT ![c] = call]
    PROVE  /\ calls' \in [Callers -> Call]
           /\ \A d \in Callers : calls'[d].step \in {"created", "writing"} =>
                  calls'[d].search \in SearchIds
BY DEF TypeOK

LEMMA CallStepType ==
    ASSUME TypeOK, NEW c \in Callers, CallStep(c)
    PROVE  TypeOK'
<1> USE BoundsAssumption, DataAssumption DEF documents
<1>0. calls[c] \in Call
  BY DEF TypeOK
<1>1. ASSUME NEW k \in Keys, NEW p \in Payloads, OpenSearch(c, k, p)
      PROVE  TypeOK'
  <2>1. PICK s \in SearchIds :
          /\ searches' = [searches EXCEPT ![s] = NewSearch(p)]
          /\ requests' = [requests EXCEPT ![<<"create", k>>] =
                             [hash |-> p, resource |-> s, expiresAt |-> now + Ttl]]
          /\ madeBy' = [madeBy EXCEPT ![s] = k]
          /\ calls' = [calls EXCEPT ![c] =
                          [step |-> "created", search |-> s, total |-> Cards[p],
                           createdAt |-> now, expiresAt |-> 0, next |-> 0]]
    BY <1>1 DEF OpenSearch
  <2>2. NewSearch(p) \in Search
    BY DEF NewSearch, Search, JobStatus, OpenStatus, TypeOK
  <2>3. [hash |-> p, resource |-> s, expiresAt |-> now + Ttl] \in Request
    BY DEF Request, TypeOK
  <2>4. [step |-> "created", search |-> s, total |-> Cards[p],
         createdAt |-> now, expiresAt |-> 0, next |-> 0] \in Call
    BY DEF Call, TypeOK
  <2> QED BY <1>1, <2>1, <2>2, <2>3, <2>4, CallsType DEF OpenSearch, TypeOK
<1>2. ASSUME NEW k \in Keys, NEW p \in Payloads, RepeatSearch(c, k, p)
      PROVE  TypeOK'
  <2> DEFINE found == requests[<<"create", k>>].resource
             answered == [calls[c] EXCEPT !.step = "answered", !.search = found]
             failed == [calls[c] EXCEPT !.step = "failed"]
  <2>1. requests[<<"create", k>>] \in Request
    BY <1>2 DEF RepeatSearch, Remembered, RequestIds, TypeOK
  <2>2. found \in SearchIds
    BY <2>1 DEF Request
  <2>3. /\ answered \in Call /\ answered.step = "answered"
        /\ failed \in Call /\ failed.step = "failed"
    <3> HIDE DEF found
    <3> QED BY <1>0, <2>2 DEF Call
  <2>4. calls' = [calls EXCEPT ![c] = answered] \/ calls' = [calls EXCEPT ![c] = failed]
    BY <1>2 DEF RepeatSearch
  <2> HIDE DEF answered, failed
  <2> QED BY <1>2, <2>3, <2>4, CallsType DEF RepeatSearch, TypeOK
<1>3. CASE ReadSearch(c)
  <2> DEFINE s == calls[c].search
             expires == searches[s].expiresAt
             writing == [calls[c] EXCEPT !.step = "writing", !.expiresAt = expires]
             failed == [calls[c] EXCEPT !.step = "failed"]
  <2>1. s \in SearchIds
    BY <1>3 DEF ReadSearch, TypeOK
  <2>2. failed \in Call /\ failed.step = "failed"
    BY <1>0 DEF Call
  <2>3. CASE searches[s] # None
    <3>1. expires \in Nat
      BY <2>1, <2>3 DEF Search, TypeOK
    <3>2. writing \in Call /\ writing.search = s
      <4> HIDE DEF expires
      <4> QED BY <1>0, <3>1 DEF Call
    <3>3. calls' = [calls EXCEPT ![c] = writing]
      BY <1>3, <2>3 DEF ReadSearch
    <3> HIDE DEF writing
    <3> QED BY <1>3, <2>1, <3>2, <3>3, CallsType DEF ReadSearch, TypeOK
  <2>4. CASE searches[s] = None
    <3>1. calls' = [calls EXCEPT ![c] = failed]
      BY <1>3, <2>4 DEF ReadSearch
    <3> HIDE DEF failed
    <3> QED BY <1>3, <2>2, <3>1, CallsType DEF ReadSearch, TypeOK
  <2> QED BY <2>3, <2>4
<1>4. CASE WriteItems(c)
  <2> DEFINE until == calls[c].next + BatchSize
             call == [calls[c] EXCEPT !.next = until,
                        !.step = IF until < calls[c].total THEN "writing" ELSE "answered"]
  <2>1. calls' = [calls EXCEPT ![c] = call]
    BY <1>4 DEF WriteItems
  <2>2. until \in Nat
    BY <1>0 DEF Call
  <2>3. call \in Call /\ call.search = calls[c].search
    <3> HIDE DEF until
    <3> QED BY <1>0, <2>2 DEF Call
  <2>4. calls[c].search \in SearchIds
    BY <1>4 DEF WriteItems, TypeOK
  <2>5. items' \in [ItemIds -> Item \union {None}]
    BY <1>0, <1>4 DEF WriteItems, Call, Item, ItemStatus, TypeOK
  <2> HIDE DEF call
  <2> QED BY <1>4, <2>1, <2>3, <2>4, <2>5, CallsType DEF WriteItems, TypeOK
<1>5. CASE CallFails(c)
  <2> DEFINE failed == [calls[c] EXCEPT !.step = "failed"]
  <2>1. failed \in Call /\ failed.step = "failed"
    BY <1>0 DEF Call
  <2>2. calls' = [calls EXCEPT ![c] = failed]
    BY <1>5 DEF CallFails
  <2> HIDE DEF failed
  <2> QED BY <1>5, <2>1, <2>2, CallsType DEF CallFails, TypeOK
<1> QED BY <1>1, <1>2, <1>3, <1>4, <1>5 DEF CallStep

LEMMA CancelType ==
    ASSUME TypeOK, NEW k \in Keys, NEW s \in SearchIds, CancelSearch(k, s)
    PROVE  TypeOK'
<1> USE BoundsAssumption DEF documents
<1>1. searches[s] \in Search
  BY DEF CancelSearch, Live, TypeOK
<1>2. searches' = [searches EXCEPT ![s] = [searches[s] EXCEPT !.status = "cancelled"]]
  BY DEF CancelSearch
<1>3. [searches[s] EXCEPT !.status = "cancelled"] \in Search
  BY <1>1 DEF Search, JobStatus
<1>4. [hash |-> s, resource |-> s, expiresAt |-> now + Ttl] \in Request
  BY DEF Request, TypeOK
<1> QED BY <1>2, <1>3, <1>4 DEF CancelSearch, TypeOK

LEMMA ResultType ==
    ASSUME NEW job \in Search, NEW outcome \in Outcome
    PROVE  /\ AddResult(job, outcome) \in Search
           /\ AddResult(job, outcome).total = job.total
           /\ AddResult(job, outcome).expiresAt = job.expiresAt
           /\ AddResult(job, outcome).processed = job.processed + 1
           /\ AddResult(job, outcome).found = Tally(job.found, outcome = "found")
           /\ AddResult(job, outcome).notFound = Tally(job.notFound, outcome = "not_found")
           /\ AddResult(job, outcome).errors = Tally(job.errors, outcome = "source_error")
           /\ AddResult(job, outcome).status =
                  IF job.processed + 1 = job.total /\ job.status # "cancelled"
                  THEN FinalStatus(AddResult(job, outcome).errors, outcome)
                  ELSE job.status
<1> DEFINE found == Tally(job.found, outcome = "found")
           notFound == Tally(job.notFound, outcome = "not_found")
           errors == Tally(job.errors, outcome = "source_error")
           status == IF job.processed + 1 = job.total /\ job.status # "cancelled"
                     THEN FinalStatus(errors, outcome) ELSE job.status
<1>1. /\ found \in Nat /\ notFound \in Nat /\ errors \in Nat
      /\ job.processed + 1 \in Nat
  BY DEF Search, Tally
<1>2. status \in JobStatus
  BY DEF Search, FinalStatus, JobStatus, FinishedStatus
<1>3. AddResult(job, outcome) =
        [job EXCEPT !.processed = job.processed + 1, !.found = found,
                    !.notFound = notFound, !.errors = errors, !.status = status]
  BY DEF AddResult
<1> HIDE DEF found, notFound, errors, status
<1>4. /\ AddResult(job, outcome) \in Search
      /\ AddResult(job, outcome).total = job.total
      /\ AddResult(job, outcome).expiresAt = job.expiresAt
      /\ AddResult(job, outcome).processed = job.processed + 1
      /\ AddResult(job, outcome).found = found
      /\ AddResult(job, outcome).notFound = notFound
      /\ AddResult(job, outcome).errors = errors
      /\ AddResult(job, outcome).status = status
  BY <1>1, <1>2, <1>3 DEF Search
<1> QED BY <1>4 DEF found, notFound, errors, status

LEMMA TurnStepType ==
    ASSUME TypeOK, NEW t \in Turns, TurnStep(t)
    PROVE  TypeOK'
<1> USE BoundsAssumption, DataAssumption DEF documents
<1>0. turns[t] \in Turn
  BY DEF TypeOK
<1>1. ASSUME NEW i \in ItemIds, NEW owner \in Owners, ClaimItem(t, i, owner)
      PROVE  TypeOK'
  <2>1. /\ items[i] \in Item
        /\ i[1] \in SearchIds
        /\ searches[i[1]] \in Search
    BY <1>1 DEF ClaimItem, Oldest, Ready, Claimable, Live, ItemIds, TypeOK
  <2>2. items' = [items EXCEPT ![i] =
                    [items[i] EXCEPT !.status = "running", !.owner = owner,
                                     !.availableAt = now + LeaseTime]]
    BY <1>1 DEF ClaimItem
  <2>3. [items[i] EXCEPT !.status = "running", !.owner = owner,
                         !.availableAt = now + LeaseTime] \in Item
    <3> DEFINE until == now + LeaseTime
    <3>1. until \in Nat
      BY DEF TypeOK
    <3> HIDE DEF until
    <3>2. [items[i] EXCEPT !.status = "running", !.owner = owner,
                           !.availableAt = until] \in Item
      BY <2>1, <3>1 DEF Item, ItemStatus
    <3> QED BY <3>2 DEF until
  <2>4. searches' = [searches EXCEPT ![i[1]] = [searches[i[1]] EXCEPT !.status = "running"]]
    BY <1>1 DEF ClaimItem
  <2>5. [searches[i[1]] EXCEPT !.status = "running"] \in Search
    BY <2>1 DEF Search, JobStatus, OpenStatus
  <2>6. [item |-> i, owner |-> owner, leaseUntil |-> now + LeaseTime, renewing |-> TRUE,
         discarded |-> 0] \in Turn
    BY DEF Turn, TypeOK
  <2> QED BY <1>1, <2>1, <2>2, <2>3, <2>4, <2>5, <2>6 DEF ClaimItem, TypeOK
<1>2. ASSUME NEW i \in ItemIds, DiscardItem(t, i)
      PROVE  TypeOK'
  <2> DEFINE discards == IF turns[t].discarded < MaxDiscards
                         THEN turns[t].discarded + 1 ELSE 0
  <2>1. turns' = [turns EXCEPT ![t] = [turns[t] EXCEPT !.discarded = discards]]
    BY <1>2 DEF DiscardItem
  <2>2. discards \in 0..MaxDiscards
    BY <1>0 DEF Turn
  <2>3. [turns[t] EXCEPT !.discarded = discards] \in Turn
    <3> HIDE DEF discards
    <3> QED BY <1>0, <2>2 DEF Turn
  <2> HIDE DEF discards
  <2> QED BY <1>2, <2>1, <2>3 DEF DiscardItem, TypeOK
<1>3. ASSUME NEW outcome \in Outcome, CompleteItem(t, outcome)
      PROVE  TypeOK'
  <2> DEFINE i == turns[t].item
             s == i[1]
             done == [status |-> outcome, owner |-> None,
                      sequence |-> searches[s].processed + 1,
                      availableAt |-> ParkedUntil(i), expiresAt |-> items[i].expiresAt]
  <2>1. i \in ItemIds
    BY <1>0, <1>3 DEF CompleteItem, Turn
  <2>2. /\ items[i] \in Item
        /\ s \in SearchIds
        /\ searches[s] \in Search
    BY <1>3, <2>1 DEF CompleteItem, Holds, Live, ItemIds, TypeOK
  <2>3. /\ items[i].expiresAt \in Nat
        /\ searches[s].processed + 1 \in Nat
    BY <2>2 DEF Item, Search
  <2>4. done \in Item
    BY <2>3 DEF Item, ItemStatus, ParkedUntil
  <2>5. items' = [items EXCEPT ![i] = done]
    BY <1>3 DEF CompleteItem
  <2>6. itemOffers' = [itemOffers EXCEPT ![i] = items[i].expiresAt]
    BY <1>3 DEF CompleteItem, OffersUntil
  <2>7. searches' = [searches EXCEPT ![s] = AddResult(searches[s], outcome)]
    BY <1>3 DEF CompleteItem
  <2>8. IdleTurn \in Turn
    BY DEF IdleTurn, Turn
  <2>9. turns' = [turns EXCEPT ![t] = IdleTurn]
    BY <1>3 DEF CompleteItem
  <2>10. AddResult(searches[s], outcome) \in Search
    BY <2>2, ResultType
  <2>11. UNCHANGED <<now, requests, madeBy, calls>>
    BY <1>3 DEF CompleteItem
  <2> HIDE DEF done, s, i
  <2> QED BY <2>1, <2>2, <2>3, <2>4, <2>5, <2>6, <2>7, <2>8, <2>9, <2>10, <2>11 DEF TypeOK
<1>4. CASE RenewLease(t)
  <2> DEFINE i == turns[t].item
  <2>1. i \in ItemIds
    BY <1>0, <1>4 DEF RenewLease, Turn
  <2>2. items[i] \in Item
    BY <1>4, <2>1 DEF RenewLease, Holds, TypeOK
  <2>3. /\ items' = [items EXCEPT ![i] = [items[i] EXCEPT !.availableAt = now + LeaseTime]]
        /\ turns' = [turns EXCEPT ![t] = [turns[t] EXCEPT !.leaseUntil = now + LeaseTime]]
    BY <1>4 DEF RenewLease
  <2>4. [items[i] EXCEPT !.availableAt = now + LeaseTime] \in Item
    BY <2>2 DEF Item, TypeOK
  <2>5. [turns[t] EXCEPT !.leaseUntil = now + LeaseTime] \in Turn
    BY <1>0 DEF Turn, TypeOK
  <2> QED BY <1>4, <2>3, <2>4, <2>5 DEF RenewLease, TypeOK
<1>5. CASE RenewFails(t)
  <2>1. [turns[t] EXCEPT !.renewing = FALSE] \in Turn
    BY <1>0 DEF Turn
  <2> QED BY <1>5, <2>1 DEF RenewFails, TypeOK
<1>6. CASE TurnEnds(t)
  BY <1>6 DEF TurnEnds, IdleTurn, Turn, TypeOK
<1> QED BY <1>1, <1>2, <1>3, <1>4, <1>5, <1>6 DEF TurnStep

LEMMA ExpiryType ==
    ASSUME TypeOK, Expiry
    PROVE  TypeOK'
<1> USE BoundsAssumption DEF documents, TypeOK
<1>1. CASE Tick
  BY <1>1 DEF Tick
<1>2. ASSUME NEW s \in SearchIds, ExpireSearch(s)
      PROVE  TypeOK'
  BY <1>2 DEF ExpireSearch
<1>3. ASSUME NEW i \in ItemIds, ExpireItem(i) \/ ExpireOffers(i)
      PROVE  TypeOK'
  BY <1>3 DEF ExpireItem, ExpireOffers
<1>4. ASSUME NEW r \in RequestIds, ExpireRequest(r)
      PROVE  TypeOK'
  BY <1>4 DEF ExpireRequest
<1> QED BY <1>1, <1>2, <1>3, <1>4 DEF Expiry

LEMMA NextType == TypeOK /\ [Next]_vars => TypeOK'
<1>1. TypeOK /\ UNCHANGED vars => TypeOK'
  BY DEF TypeOK, vars, documents
<1> QED BY <1>1, CallStepType, CancelType, TurnStepType, ExpiryType DEF Next

(* Every document and every memory keeps its type, for every instance.     *)
THEOREM TypeCorrect == Spec => []TypeOK
BY InitType, NextType, PTL DEF Spec

-----------------------------------------------------------------------------
(* Counting results                                                        *)

IsDone(i) == items[i] # None /\ items[i].status \in Outcome
CountOf(s, outcome) == Cardinality({i \in Done(s) : items[i].status = outcome})

LEMMA DoneMembers ==
    ASSUME NEW s
    PROVE  \A i : i \in Done(s) <=> i \in ItemIds /\ i[1] = s /\ IsDone(i)
BY DEF Done, ItemsOf, IsDone

(* The done items of a readable search are among its positions, so its     *)
(* counter reaches the total exactly when each position is done.           *)
LEMMA DoneBound ==
    ASSUME TypeOK, ItemsAgree, NEW s \in SearchIds, Live(s)
    PROVE  LET total == searches[s].total IN
           /\ IsFiniteSet(Done(s))
           /\ Cardinality(Done(s)) \in Nat
           /\ Cardinality(Done(s)) <= total
           /\ Cardinality(Done(s)) = total <=> \A p \in 0..(total - 1) : <<s, p>> \in Done(s)
           /\ \A i \in ItemIds : i[1] = s /\ items[i] # None /\ ~IsDone(i) =>
                  Cardinality(Done(s)) < total
<1> DEFINE total == searches[s].total
           all == {s} \X (0..(total - 1))
<1>1. total \in 1..MaxCards /\ MaxCards \in Nat
  BY BoundsAssumption DEF Live, TypeOK, Search
<1>2. IsFiniteSet(all) /\ Cardinality(all) = total
  <2>1. IsFiniteSet({s}) /\ Cardinality({s}) = 1
    BY FS_Singleton
  <2>2. IsFiniteSet(0..(total - 1)) /\ Cardinality(0..(total - 1)) = total
    <3> HIDE DEF total
    <3>1. 0 \in Int /\ total - 1 \in Int /\ ~(0 > total - 1)
      BY <1>1
    <3>2. (total - 1) - 0 + 1 = total
      BY <1>1
    <3> QED BY <3>1, <3>2, FS_Interval
  <2>3. IsFiniteSet(all) /\ Cardinality(all) = 1 * total
    BY <2>1, <2>2, FS_Product
  <2> QED BY <1>1, <2>3
<1>3. \A i \in ItemIds : i[1] = s /\ items[i] # None => i \in all
  BY <1>1 DEF ItemsAgree, ItemAgrees, ItemIds, Positions, Live
<1>4. Done(s) \subseteq all
  BY <1>3, DoneMembers DEF IsDone
<1>5. /\ IsFiniteSet(Done(s))
      /\ Cardinality(Done(s)) \in Nat
      /\ Cardinality(Done(s)) <= total
      /\ Cardinality(Done(s)) = total => Done(s) = all
  BY <1>2, <1>4, FS_Subset, FS_CardinalityType
<1>6. (\A p \in 0..(total - 1) : <<s, p>> \in Done(s)) <=> Done(s) = all
  BY <1>4
<1>7. ASSUME NEW i \in ItemIds, i[1] = s, items[i] # None, ~IsDone(i)
      PROVE  Cardinality(Done(s)) < total
  BY <1>1, <1>3, <1>5, <1>7, DoneMembers
<1> QED BY <1>2, <1>5, <1>6, <1>7

(* A step that touches no result of s and no counter of s keeps the        *)
(* progress of s.                                                          *)
ResultsKept(s) ==
    \A i \in ItemIds : i[1] = s =>
        items'[i] = items[i] \/ (~IsDone(i) /\ ~IsDone(i)')

CountersKept(s) ==
    /\ searches'[s].processed = searches[s].processed
    /\ searches'[s].found = searches[s].found
    /\ searches'[s].notFound = searches[s].notFound
    /\ searches'[s].errors = searches[s].errors

LEMMA ProgressKept ==
    ASSUME NEW s, ResultsKept(s), CountersKept(s), CountersMatch(s), SequencesMatch(s)
    PROVE  CountersMatch(s)' /\ SequencesMatch(s)'
<1>1. \A i : i \in Done(s)' <=> i \in Done(s)
  <2>1. \A i : i \in Done(s)' <=> i \in ItemIds /\ i[1] = s /\ IsDone(i)'
    BY DEF Done, ItemsOf, IsDone
  <2>2. \A i \in ItemIds : i[1] = s => (IsDone(i)' <=> IsDone(i))
    BY DEF ResultsKept, IsDone
  <2> QED BY <2>1, <2>2, DoneMembers
<1>2. Done(s)' = Done(s)
  BY <1>1
<1>3. \A i \in Done(s) : items'[i] = items[i]
  BY DoneMembers DEF ResultsKept
<1>4. \A outcome : {i \in Done(s) : items'[i].status = outcome}
                   = {i \in Done(s) : items[i].status = outcome}
  BY <1>3
<1>5. {items'[i].sequence : i \in Done(s)} = {items[i].sequence : i \in Done(s)}
  BY <1>3
<1> QED BY <1>2, <1>4, <1>5 DEF CountersKept, CountersMatch, SequencesMatch

LEMMA ProgressKeptEverywhere ==
    ASSUME ProgressMatchesResults,
           \A s \in SearchIds : Live(s)' => Live(s) /\ ResultsKept(s) /\ CountersKept(s)
    PROVE  ProgressMatchesResults'
BY ProgressKept DEF ProgressMatchesResults

-----------------------------------------------------------------------------
(* Each step keeps the progress invariant                                  *)

LEMMA InitProgress == Init => ProgressInv
<1> SUFFICES ASSUME Init PROVE ProgressInv
  OBVIOUS
<1>1. TypeOK
  BY InitType
<1>2. UndrawnIsAbsent /\ CallsAgree /\ ItemsAgree
  BY DEF Init, UndrawnIsAbsent, CallsAgree, Active, NewCall, ItemsAgree
<1>3. StatusAgrees /\ ProgressMatchesResults
  BY DEF Init, StatusAgrees, ProgressMatchesResults, Live
<1> QED BY <1>1, <1>2, <1>3 DEF ProgressInv

LEMMA OpenSearchProgress ==
    ASSUME ProgressInv, NEW c \in Callers, NEW k \in Keys, NEW p \in Payloads,
           OpenSearch(c, k, p), TypeOK'
    PROVE  ProgressInv'
<1> USE DEF ProgressInv
<1>1. PICK s \in SearchIds :
        /\ madeBy[s] = None
        /\ searches' = [searches EXCEPT ![s] = NewSearch(p)]
        /\ madeBy' = [madeBy EXCEPT ![s] = k]
        /\ calls' = [calls EXCEPT ![c] =
                        [step |-> "created", search |-> s, total |-> Cards[p],
                         createdAt |-> now, expiresAt |-> 0, next |-> 0]]
  BY DEF OpenSearch
<1>2. UNCHANGED <<now, items, itemOffers, turns>>
  BY DEF OpenSearch
<1>3. /\ searches[s] = None
      /\ \A i \in ItemIds : i[1] = s => items[i] = None
  BY <1>1 DEF UndrawnIsAbsent
<1>4. /\ searches'[s] = NewSearch(p)
      /\ NewSearch(p) # None
      /\ \A r \in SearchIds : r # s => searches'[r] = searches[r] /\ madeBy'[r] = madeBy[r]
      /\ madeBy'[s] = k /\ k # None
  <2>1. searches'[s] = NewSearch(p)
    BY <1>1 DEF TypeOK
  <2>2. NewSearch(p) \in Search
    BY BoundsAssumption, DataAssumption
       DEF NewSearch, Search, JobStatus, OpenStatus, TypeOK
  <2> QED BY <1>1, <2>1, <2>2, NoneAssumption DEF TypeOK
<1>5. UndrawnIsAbsent'
  BY <1>2, <1>4 DEF UndrawnIsAbsent
<1>6. CallsAgree'
  <2> SUFFICES ASSUME NEW d \in Callers, Active(d)'
               PROVE  CallAgrees(d)'
    BY DEF CallsAgree
  <2>1. \A e \in Callers : e # c => calls'[e] = calls[e] /\ (Active(e)' <=> Active(e))
    BY <1>1 DEF TypeOK, Active
  <2>2. \A e \in Callers : Active(e) => calls[e].search # s /\ calls[e].search \in SearchIds
    BY <1>1 DEF CallsAgree, CallAgrees
  <2>3. /\ calls'[c].step = "created" /\ calls'[c].search = s
        /\ calls'[c].total = Cards[p]
    BY <1>1 DEF TypeOK
  <2>4. CASE d = c
    BY <1>2, <1>3, <1>4, <2>1, <2>2, <2>3, <2>4 DEF NewSearch, CallAgrees
  <2>5. CASE d # c
    <3>1. /\ Active(d)
          /\ calls'[d] = calls[d]
          /\ calls[d].search \in SearchIds
          /\ calls[d].search # s
      BY <2>1, <2>2, <2>5
    <3>2. \A e \in Callers : Active(e)' /\ calls'[e].search = calls[d].search => e = d
      BY <2>1, <2>3, <3>1 DEF CallsAgree, CallAgrees
    <3> QED BY <1>2, <1>4, <3>1, <3>2 DEF CallsAgree, CallAgrees
  <2> QED BY <2>4, <2>5
<1>7. ItemsAgree'
  BY <1>2, <1>3, <1>4 DEF ItemsAgree, ItemAgrees, ItemIds, Lapsed
<1>8. StatusAgrees'
  <2> SUFFICES ASSUME NEW r \in SearchIds, Live(r)'
               PROVE  StatusAgrees!(r)'
    BY DEF StatusAgrees
  <2>1. CASE r = s
    <3>1. Cards[p] \in 1..MaxCards
      BY DataAssumption
    <3> QED BY <1>4, <2>1, <3>1, BoundsAssumption DEF NewSearch, FinishedStatus
  <2>2. CASE r # s
    BY <1>2, <1>4, <2>2 DEF StatusAgrees, Live, Lapsed
  <2> QED BY <2>1, <2>2
<1>9. ProgressMatchesResults'
  <2> SUFFICES ASSUME NEW r \in SearchIds, Live(r)'
               PROVE  CountersMatch(r)' /\ SequencesMatch(r)'
    BY DEF ProgressMatchesResults
  <2>1. CASE r = s
    <3>1. Done(s)' = {}
      BY <1>2, <1>3 DEF Done, ItemsOf
    <3>2. /\ searches'[s].processed = 0 /\ searches'[s].found = 0
          /\ searches'[s].notFound = 0 /\ searches'[s].errors = 0
      BY <1>4 DEF NewSearch
    <3>3. Cardinality({}) = 0 /\ 1..0 = {}
      BY FS_EmptySet
    <3> QED BY <2>1, <3>1, <3>2, <3>3 DEF CountersMatch, SequencesMatch
  <2>2. CASE r # s
    <3>1. Live(r) /\ CountersKept(r)
      BY <1>2, <1>4, <2>2 DEF Live, Lapsed, CountersKept
    <3>2. ResultsKept(r)
      BY <1>2 DEF ResultsKept, IsDone
    <3> QED BY <3>1, <3>2, ProgressKept DEF ProgressMatchesResults
  <2> QED BY <2>1, <2>2
<1> QED BY <1>5, <1>6, <1>7, <1>8, <1>9

(* The steps of a call that write no document.                             *)
LEMMA CallMemoryProgress ==
    ASSUME ProgressInv, TypeOK', NEW c \in Callers,
           \/ \E k \in Keys, p \in Payloads : RepeatSearch(c, k, p)
           \/ ReadSearch(c)
           \/ CallFails(c)
    PROVE  ProgressInv'
<1> USE DEF ProgressInv
<1>1. UNCHANGED <<now, searches, items, itemOffers, requests, madeBy, turns>>
  BY DEF RepeatSearch, ReadSearch, CallFails, documents
<1>2. UndrawnIsAbsent' /\ ItemsAgree' /\ StatusAgrees'
  BY <1>1 DEF UndrawnIsAbsent, ItemsAgree, ItemAgrees, StatusAgrees, Live, Lapsed
<1>3. ProgressMatchesResults'
  <2>1. \A s \in SearchIds : Live(s)' => Live(s) /\ CountersKept(s)
    BY <1>1 DEF Live, Lapsed, CountersKept
  <2>2. \A s \in SearchIds : ResultsKept(s)
    BY <1>1 DEF ResultsKept, IsDone
  <2> QED BY <2>1, <2>2, ProgressKeptEverywhere
<1>4. CallsAgree'
  <2> DEFINE Kept ==
        /\ \A d \in Callers : d # c => calls'[d] = calls[d]
        /\ Active(c)' => /\ Active(c)
                         /\ calls'[c].search = calls[c].search
                         /\ calls'[c].total = calls[c].total
                         /\ calls'[c].next = calls[c].next
                         /\ calls'[c].step = "writing" =>
                                calls'[c].expiresAt = searches[calls[c].search].expiresAt
  <2>1. ASSUME NEW k \in Keys, NEW p \in Payloads, RepeatSearch(c, k, p)
        PROVE  Kept
    <3>1. calls \in [Callers -> Call]
      BY DEF TypeOK
    <3>2. \E w : calls' = [calls EXCEPT ![c] = w] /\ w.step \in {"answered", "failed"}
      <4>1. CASE calls' = [calls EXCEPT ![c] = [@ EXCEPT !.step = "answered",
                              !.search = requests[<<"create", k>>].resource]]
        <5> DEFINE w == [calls[c] EXCEPT !.step = "answered",
                            !.search = requests[<<"create", k>>].resource]
        <5>1. w.step = "answered"
          BY <3>1 DEF Call
        <5> QED BY <4>1, <5>1
      <4>2. CASE calls' = [calls EXCEPT ![c].step = "failed"]
        <5> DEFINE w == [calls[c] EXCEPT !.step = "failed"]
        <5>1. w.step = "failed"
          BY <3>1 DEF Call
        <5> QED BY <4>2, <5>1
      <4> QED BY <2>1, <4>1, <4>2 DEF RepeatSearch
    <3>3. PICK w : calls' = [calls EXCEPT ![c] = w] /\ w.step \in {"answered", "failed"}
      BY <3>2
    <3>4. calls'[c] = w /\ \A d \in Callers : d # c => calls'[d] = calls[d]
      BY <3>1, <3>3
    <3> QED BY <3>3, <3>4 DEF Active
  <2>2. ASSUME ReadSearch(c) PROVE Kept
    <3>1. calls \in [Callers -> Call] /\ calls[c] \in Call /\ calls[c].step = "created"
      BY <2>2 DEF ReadSearch, TypeOK
    <3>2. CASE calls' = [calls EXCEPT ![c].step = "failed"]
      BY <3>1, <3>2 DEF Active, Call
    <3>3. CASE calls' = [calls EXCEPT ![c] = [@ EXCEPT !.step = "writing",
                            !.expiresAt = searches[calls[c].search].expiresAt]]
      <4> DEFINE read == [calls[c] EXCEPT !.step = "writing",
                              !.expiresAt = searches[calls[c].search].expiresAt]
      <4>1. /\ read.step = "writing"
            /\ read.search = calls[c].search
            /\ read.total = calls[c].total
            /\ read.next = calls[c].next
            /\ read.expiresAt = searches[calls[c].search].expiresAt
        BY <3>1 DEF Call
      <4> HIDE DEF read
      <4>2. calls' = [calls EXCEPT ![c] = read]
        BY <3>1, <3>3 DEF read
      <4>3. calls'[c] = read /\ \A d \in Callers : d # c => calls'[d] = calls[d]
        BY <3>1, <4>2
      <4> QED BY <3>1, <4>1, <4>3 DEF Active
    <3> QED BY <2>2, <3>2, <3>3 DEF ReadSearch
  <2>3. ASSUME CallFails(c) PROVE Kept
    BY <2>3 DEF CallFails, Active, TypeOK, Call
  <2>4. Kept
    BY <2>1, <2>2, <2>3
  <2>5. \A d \in Callers : Active(d)' => Active(d) /\ calls'[d].search = calls[d].search
    BY <2>4 DEF Active
  <2>6. ASSUME NEW d \in Callers, Active(d)'
        PROVE  CallAgrees(d)'
    BY <1>1, <2>4, <2>5, <2>6 DEF CallsAgree, CallAgrees
  <2> QED BY <2>6 DEF CallsAgree
<1> QED BY <1>2, <1>3, <1>4

LEMMA WriteItemsProgress ==
    ASSUME ProgressInv, TypeOK', NEW c \in Callers, WriteItems(c)
    PROVE  ProgressInv'
<1> USE DEF ProgressInv
<1> DEFINE call == calls[c]
           s == call.search
           until == call.next + BatchSize
           Batch(i) == i[1] = s /\ call.next <= i[2] /\ i[2] < until /\ i[2] < call.total
           item == [status |-> "pending", owner |-> None, sequence |-> 0,
                    availableAt |-> call.createdAt, expiresAt |-> call.expiresAt]
<1>1. UNCHANGED <<now, searches, itemOffers, requests, madeBy, turns>>
  BY DEF WriteItems
<1>2. call.step = "writing" /\ CallAgrees(c) /\ call \in Call
  BY DEF WriteItems, Active, CallsAgree, TypeOK
<1>3. ASSUME NEW i \in ItemIds
      PROVE  /\ Batch(i) => items[i] = None /\ items'[i] = item
             /\ ~Batch(i) => items'[i] = items[i]
  BY <1>2 DEF WriteItems, CallAgrees
<1>4. /\ \A d \in Callers : d # c => calls'[d] = calls[d]
      /\ calls'[c].search = s /\ calls'[c].total = call.total
      /\ calls'[c].expiresAt = call.expiresAt /\ calls'[c].next = until
  BY <1>2 DEF WriteItems, TypeOK, Call
<1>5. item # None /\ item.status = "pending"
  <2>1. item \in Item
    BY <1>2 DEF Item, ItemStatus, Call
  <2> QED BY <2>1, NoneAssumption
<1>6. UndrawnIsAbsent'
  <2>1. madeBy[s] # None
    BY <1>2 DEF CallAgrees
  <2> HIDE DEF item
  <2> QED BY <1>1, <1>3, <2>1 DEF UndrawnIsAbsent
<1>7. CallsAgree'
  <2>1. \A d \in Callers : Active(d)' => Active(d) /\ calls'[d].search = calls[d].search
    BY <1>2, <1>4 DEF Active
  <2>2. \A d \in Callers : Active(d) /\ d # c => calls[d].search # s
    BY <1>2 DEF CallAgrees, Active
  <2>3. ASSUME NEW d \in Callers, Active(d)'
        PROVE  CallAgrees(d)'
    <3>1. CallAgrees(d) /\ Active(d) /\ calls'[d].search = calls[d].search
      BY <2>1, <2>3 DEF CallsAgree
    <3>2. \A e \in Callers : Active(e)' /\ calls'[e].search = calls'[d].search => e = d
      BY <2>1, <3>1 DEF CallAgrees
    <3>3. \A i \in ItemIds : i[1] = calls'[d].search /\ calls'[d].next <= i[2] => items'[i] = None
      <4>1. CASE d = c
        <5>1. ASSUME NEW i \in ItemIds, i[1] = s, until <= i[2]
              PROVE  items'[i] = None
          <6>1. call.next <= i[2] /\ ~Batch(i)
            BY <1>2, <5>1, BoundsAssumption DEF Call, ItemIds, Positions
          <6> QED BY <1>2, <1>3, <5>1, <6>1 DEF CallAgrees
        <5> QED BY <1>4, <4>1, <5>1
      <4>2. CASE d # c
        <5>1. calls[d].search # s /\ calls'[d] = calls[d]
          BY <1>4, <2>2, <3>1, <4>2
        <5> QED BY <1>3, <3>1, <5>1 DEF CallAgrees
      <4> QED BY <4>1, <4>2
    <3>4. /\ calls'[d].total = calls[d].total
          /\ calls'[d].step = "writing" =>
                calls[d].step = "writing" /\ calls'[d].expiresAt = calls[d].expiresAt
      BY <1>2, <1>4
    <3> QED BY <1>1, <3>1, <3>2, <3>3, <3>4 DEF CallAgrees
  <2> QED BY <2>3 DEF CallsAgree
<1>8. ItemsAgree'
  <2>1. ASSUME NEW i \in ItemIds, items'[i] # None
        PROVE  ItemAgrees(i)'
    <3>1. CASE Batch(i)
      BY <1>1, <1>2, <1>3, <1>5, <3>1 DEF ItemAgrees, CallAgrees, Outcome
    <3>2. CASE ~Batch(i)
      BY <1>1, <1>3, <2>1, <3>2 DEF ItemsAgree, ItemAgrees, Lapsed
    <3> QED BY <3>1, <3>2
  <2> QED BY <2>1 DEF ItemsAgree
<1>9. StatusAgrees'
  BY <1>1 DEF StatusAgrees, Live, Lapsed
<1>10. ProgressMatchesResults'
  <2>1. \A r \in SearchIds : Live(r)' => Live(r) /\ CountersKept(r)
    BY <1>1 DEF Live, Lapsed, CountersKept
  <2>2. \A r \in SearchIds : ResultsKept(r)
    BY <1>3, <1>5 DEF ResultsKept, IsDone, Outcome
  <2> QED BY <2>1, <2>2, ProgressKeptEverywhere
<1> QED BY <1>6, <1>7, <1>8, <1>9, <1>10

(* A step that creates no document, moves no call and keeps the total and  *)
(* the expiry of every search leaves the bonds of ids and calls alone.     *)
SearchesKept ==
    \A s \in SearchIds : searches'[s] # None =>
        /\ searches[s] # None
        /\ searches'[s].total = searches[s].total
        /\ searches'[s].expiresAt = searches[s].expiresAt

LEMMA CallsKept ==
    ASSUME UndrawnIsAbsent, CallsAgree, SearchesKept, UNCHANGED <<calls, madeBy>>,
           \A i \in ItemIds : items[i] = None => items'[i] = None
    PROVE  UndrawnIsAbsent' /\ CallsAgree'
<1>1. UndrawnIsAbsent'
  BY DEF UndrawnIsAbsent, SearchesKept
<1>2. ASSUME NEW c \in Callers, Active(c)' PROVE CallAgrees(c)'
  <2>1. CallAgrees(c)
    BY <1>2 DEF CallsAgree, Active
  <2> QED BY <1>2, <2>1 DEF CallAgrees, Active, SearchesKept
<1> QED BY <1>1, <1>2 DEF CallsAgree

(* One job changes beside its total and its expiry.                        *)
LEMMA JobChanged ==
    ASSUME TypeOK, NEW s \in SearchIds, NEW job \in Search, searches[s] # None,
           searches' = [searches EXCEPT ![s] = job], UNCHANGED now,
           job.total = searches[s].total, job.expiresAt = searches[s].expiresAt
    PROVE  /\ SearchesKept
           /\ searches'[s] = job
           /\ \A r \in SearchIds : /\ r # s => searches'[r] = searches[r]
                                   /\ Live(r)' <=> Live(r)
<1>1. job # None /\ searches'[s] = job
  BY NoneAssumption DEF TypeOK
<1>2. \A r \in SearchIds : r # s => searches'[r] = searches[r]
  BY DEF TypeOK
<1> QED BY <1>1, <1>2 DEF SearchesKept, Live, Lapsed

LEMMA CancelSearchProgress ==
    ASSUME ProgressInv, TypeOK', NEW k \in Keys, NEW s \in SearchIds, CancelSearch(k, s)
    PROVE  ProgressInv'
<1> USE DEF ProgressInv
<1> DEFINE job == [searches[s] EXCEPT !.status = "cancelled"]
<1>1. UNCHANGED <<now, items, itemOffers, madeBy, calls, turns>>
  BY DEF CancelSearch
<1>2. searches[s] # None /\ searches[s] \in Search
  BY DEF CancelSearch, Live, TypeOK
<1>3. searches' = [searches EXCEPT ![s] = job]
  BY DEF CancelSearch
<1>4. /\ job \in Search
      /\ job.status = "cancelled"
      /\ job.total = searches[s].total /\ job.expiresAt = searches[s].expiresAt
      /\ job.processed = searches[s].processed /\ job.found = searches[s].found
      /\ job.notFound = searches[s].notFound /\ job.errors = searches[s].errors
  BY <1>2 DEF Search, JobStatus
<1> HIDE DEF job
<1>5. /\ SearchesKept
      /\ searches'[s] = job
      /\ \A r \in SearchIds : /\ r # s => searches'[r] = searches[r]
                              /\ Live(r)' <=> Live(r)
  BY <1>1, <1>2, <1>3, <1>4, JobChanged
<1>6. UndrawnIsAbsent' /\ CallsAgree'
  BY <1>1, <1>5, CallsKept
<1>7. ItemsAgree'
  BY <1>1, <1>5 DEF ItemsAgree, ItemAgrees, ItemIds, Lapsed, SearchesKept
<1>8. StatusAgrees'
  <2> SUFFICES ASSUME NEW r \in SearchIds, Live(r)'
               PROVE  StatusAgrees!(r)'
    BY DEF StatusAgrees
  <2>1. CASE r = s
    BY <1>4, <1>5, <2>1
  <2>2. CASE r # s
    BY <1>5, <2>2 DEF StatusAgrees
  <2> QED BY <2>1, <2>2
<1>9. ProgressMatchesResults'
  <2>1. \A r \in SearchIds : Live(r)' => Live(r) /\ CountersKept(r)
    BY <1>4, <1>5 DEF CountersKept
  <2>2. \A r \in SearchIds : ResultsKept(r)
    BY <1>1 DEF ResultsKept, IsDone
  <2> QED BY <2>1, <2>2, ProgressKeptEverywhere
<1> QED BY <1>6, <1>7, <1>8, <1>9

(* A done item of a readable search is parked beyond its expiry, so the    *)
(* queue never offers it again.                                            *)
LEMMA DoneNotReady ==
    ASSUME ProgressInv, NEW i \in ItemIds, i \in Ready, Live(i[1])
    PROVE  ~IsDone(i)
<1>1. /\ items[i] # None
      /\ items[i] \in Item
      /\ searches[i[1]] \in Search
      /\ now \in Nat
  BY DEF ProgressInv, Ready, Live, ItemIds, TypeOK
<1>2. /\ items[i].availableAt <= now
      /\ items[i].expiresAt = searches[i[1]].expiresAt
      /\ ~(searches[i[1]].expiresAt < now)
  BY <1>1 DEF ProgressInv, Ready, Live, Lapsed, ItemsAgree, ItemAgrees
<1>3. SUFFICES ASSUME IsDone(i) PROVE FALSE
  OBVIOUS
<1>4. items[i].availableAt > items[i].expiresAt
  BY <1>1, <1>3 DEF ProgressInv, ItemsAgree, ItemAgrees, IsDone
<1>5. /\ items[i].availableAt \in Nat /\ items[i].expiresAt \in Nat
  BY <1>1 DEF Item
<1> QED BY <1>1, <1>2, <1>4, <1>5

LEMMA ClaimItemProgress ==
    ASSUME ProgressInv, TypeOK', NEW t \in Turns, NEW i \in ItemIds, NEW owner \in Owners,
           ClaimItem(t, i, owner)
    PROVE  ProgressInv'
<1> USE DEF ProgressInv
<1> DEFINE s == i[1]
           job == [searches[s] EXCEPT !.status = "running"]
           taken == [items[i] EXCEPT !.status = "running", !.owner = owner,
                                     !.availableAt = now + LeaseTime]
<1>1. /\ UNCHANGED <<now, itemOffers, requests, madeBy, calls>>
      /\ items' = [items EXCEPT ![i] = taken]
      /\ searches' = [searches EXCEPT ![s] = job]
  BY DEF ClaimItem
<1>2. /\ s \in SearchIds /\ Live(s)
      /\ searches[s] # None /\ searches[s] \in Search
      /\ searches[s].status # "cancelled"
      /\ i \in Ready /\ items[i] # None /\ items[i] \in Item
  BY DEF ClaimItem, Claimable, Oldest, Ready, Live, ItemIds, TypeOK
<1>3. /\ job \in Search
      /\ job.status = "running"
      /\ job.total = searches[s].total /\ job.expiresAt = searches[s].expiresAt
      /\ job.processed = searches[s].processed /\ job.found = searches[s].found
      /\ job.notFound = searches[s].notFound /\ job.errors = searches[s].errors
  BY <1>2 DEF Search, JobStatus, OpenStatus
<1>4. taken.status = "running" /\ taken.expiresAt = items[i].expiresAt
  BY <1>2 DEF Item
<1> HIDE DEF job, taken
<1>5. /\ SearchesKept
      /\ searches'[s] = job
      /\ \A r \in SearchIds : /\ r # s => searches'[r] = searches[r]
                              /\ Live(r)' <=> Live(r)
  BY <1>1, <1>2, <1>3, JobChanged
<1>6. items'[i] = taken /\ \A j \in ItemIds : j # i => items'[j] = items[j]
  BY <1>1 DEF TypeOK
<1>7. UndrawnIsAbsent' /\ CallsAgree'
  <2>1. \A j \in ItemIds : items[j] = None => items'[j] = None
    BY <1>2, <1>6
  <2> QED BY <1>1, <1>5, <2>1, CallsKept
<1>8. ItemsAgree'
  <2>1. ASSUME NEW j \in ItemIds, items'[j] # None
        PROVE  ItemAgrees(j)'
    <3>1. items[j] # None /\ ItemAgrees(j)
      BY <1>2, <1>6, <2>1 DEF ItemsAgree
    <3>2. j[1] \in SearchIds
      BY DEF ItemIds
    <3>3. CASE j = i
      BY <1>4, <1>5, <1>6, <3>1, <3>2, <3>3 DEF ItemAgrees, Outcome, SearchesKept
    <3>4. CASE j # i
      BY <1>1, <1>5, <1>6, <3>1, <3>2, <3>4 DEF ItemAgrees, Lapsed, SearchesKept
    <3> QED BY <3>3, <3>4
  <2> QED BY <2>1 DEF ItemsAgree
<1>9. StatusAgrees'
  <2> SUFFICES ASSUME NEW r \in SearchIds, Live(r)'
               PROVE  StatusAgrees!(r)'
    BY DEF StatusAgrees
  <2>1. CASE r = s
    <3>1. ~IsDone(i)
      BY <1>2, DoneNotReady
    <3>2. /\ Cardinality(Done(s)) \in Nat
          /\ Cardinality(Done(s)) < searches[s].total
      BY <1>2, <3>1, DoneBound
    <3>3. job.processed < job.total
      BY <1>2, <1>3, <3>2 DEF ProgressMatchesResults, CountersMatch
    <3>4. job.processed \in Nat /\ job.total \in Nat
      BY <1>3, BoundsAssumption DEF Search
    <3> QED BY <1>3, <1>5, <2>1, <3>3, <3>4 DEF FinishedStatus
  <2>2. CASE r # s
    BY <1>5, <2>2 DEF StatusAgrees
  <2> QED BY <2>1, <2>2
<1>10. ProgressMatchesResults'
  <2>1. \A r \in SearchIds : Live(r)' => Live(r) /\ CountersKept(r)
    BY <1>3, <1>5 DEF CountersKept
  <2>2. \A r \in SearchIds : ResultsKept(r)
    <3>1. ~IsDone(i) /\ ~IsDone(i)'
      BY <1>2, <1>4, <1>6, DoneNotReady DEF IsDone, Outcome
    <3> QED BY <1>6, <3>1 DEF ResultsKept
  <2> QED BY <2>1, <2>2, ProgressKeptEverywhere
<1> QED BY <1>7, <1>8, <1>9, <1>10

(* Only a dead or a finished-and-lapsed item is ever refused, so a result  *)
(* of a readable search is never discarded.                                *)
LEMMA DiscardItemProgress ==
    ASSUME ProgressInv, TypeOK', NEW t \in Turns, NEW i \in ItemIds, DiscardItem(t, i)
    PROVE  ProgressInv'
<1> USE DEF ProgressInv
<1>1. UNCHANGED <<now, searches, itemOffers, requests, madeBy, calls>>
  BY DEF DiscardItem
<1>2. i \in Ready /\ items'[i] = None /\ \A j \in ItemIds : j # i => items'[j] = items[j]
  BY DEF DiscardItem, Oldest, TypeOK
<1>3. UndrawnIsAbsent' /\ CallsAgree'
  BY <1>1, <1>2, CallsKept DEF SearchesKept
<1>4. ItemsAgree'
  BY <1>1, <1>2 DEF ItemsAgree, ItemAgrees, Lapsed
<1>5. StatusAgrees'
  BY <1>1 DEF StatusAgrees, Live, Lapsed
<1>6. ProgressMatchesResults'
  <2>1. \A s \in SearchIds : Live(s)' => Live(s) /\ CountersKept(s)
    BY <1>1 DEF Live, Lapsed, CountersKept
  <2>2. \A s \in SearchIds : Live(s) => ResultsKept(s)
    BY <1>2, DoneNotReady DEF ResultsKept, IsDone
  <2> QED BY <2>1, <2>2, ProgressKeptEverywhere
<1> QED BY <1>3, <1>4, <1>5, <1>6

LEMMA RenewLeaseProgress ==
    ASSUME ProgressInv, TypeOK', NEW t \in Turns, RenewLease(t)
    PROVE  ProgressInv'
<1> USE DEF ProgressInv
<1> DEFINE i == turns[t].item
           renewed == [items[i] EXCEPT !.availableAt = now + LeaseTime]
<1>1. UNCHANGED <<now, searches, itemOffers, requests, madeBy, calls>>
  BY DEF RenewLease
<1>2. /\ i \in ItemIds
      /\ items[i] # None /\ items[i] \in Item
      /\ items[i].status = "running"
      /\ items' = [items EXCEPT ![i] = renewed]
  BY DEF RenewLease, Holds, Turn, TypeOK
<1>3. renewed.status = "running" /\ renewed.expiresAt = items[i].expiresAt
  BY <1>2 DEF Item
<1>4. items'[i] = renewed /\ \A j \in ItemIds : j # i => items'[j] = items[j]
  BY <1>2 DEF TypeOK
<1> HIDE DEF renewed, i
<1>5. UndrawnIsAbsent' /\ CallsAgree'
  BY <1>1, <1>2, <1>4, CallsKept DEF SearchesKept
<1>6. ItemsAgree'
  <2>1. ASSUME NEW j \in ItemIds, items'[j] # None
        PROVE  ItemAgrees(j)'
    <3>1. items[j] # None /\ ItemAgrees(j)
      BY <1>2, <1>4, <2>1 DEF ItemsAgree
    <3>2. CASE j = i
      BY <1>1, <1>3, <1>4, <3>1, <3>2 DEF ItemAgrees, Outcome
    <3>3. CASE j # i
      BY <1>1, <1>4, <3>1, <3>3 DEF ItemAgrees, Lapsed
    <3> QED BY <3>2, <3>3
  <2> QED BY <2>1 DEF ItemsAgree
<1>7. StatusAgrees'
  BY <1>1 DEF StatusAgrees, Live, Lapsed
<1>8. ProgressMatchesResults'
  <2>1. \A s \in SearchIds : Live(s)' => Live(s) /\ CountersKept(s)
    BY <1>1 DEF Live, Lapsed, CountersKept
  <2>2. \A s \in SearchIds : ResultsKept(s)
    BY <1>2, <1>3, <1>4 DEF ResultsKept, IsDone, Outcome
  <2> QED BY <2>1, <2>2, ProgressKeptEverywhere
<1> QED BY <1>5, <1>6, <1>7, <1>8

(* The completing transaction adds one result to the done items and one to *)
(* the counters of its search.                                             *)
LEMMA CountAdded ==
    ASSUME TypeOK, NEW i \in ItemIds, NEW s \in SearchIds, s = i[1],
           ~IsDone(i), IsDone(i)', IsFiniteSet(Done(s)),
           \A j \in ItemIds : j # i => items'[j] = items[j]
    PROVE  /\ i \notin Done(s)
           /\ Done(s)' = Done(s) \union {i}
           /\ \A outcome \in Outcome :
                CountOf(s, outcome)' = Tally(CountOf(s, outcome), items'[i].status = outcome)
           /\ Cardinality(Done(s))' = Cardinality(Done(s)) + 1
<1>1. i \notin Done(s)
  BY DoneMembers
<1>2. Done(s)' = Done(s) \union {i}
  <2>1. \A j : j \in Done(s)' <=> j \in ItemIds /\ j[1] = s /\ IsDone(j)'
    BY DEF Done, ItemsOf, IsDone
  <2>2. IsDone(i)' /\ \A j \in ItemIds : j # i => (IsDone(j)' <=> IsDone(j))
    BY DEF IsDone
  <2>3. \A j : j \in Done(s)' <=> j \in Done(s) \/ j = i
    BY <2>1, <2>2, DoneMembers
  <2> QED BY <2>3
<1>3. ASSUME NEW outcome \in Outcome
      PROVE  CountOf(s, outcome)' = Tally(CountOf(s, outcome), items'[i].status = outcome)
  <2> DEFINE before == {j \in Done(s) : items[j].status = outcome}
             after == {j \in Done(s)' : items'[j].status = outcome}
  <2>1. after = IF items'[i].status = outcome THEN before \union {i} ELSE before
    BY <1>1, <1>2, DoneMembers
  <2>2. IsFiniteSet(before) /\ i \notin before
    BY <1>1, FS_Subset
  <2>3. Cardinality(before \union {i}) = Cardinality(before) + 1
    BY <2>2, FS_AddElement
  <2>4. CountOf(s, outcome) = Cardinality(before) /\ CountOf(s, outcome)' = Cardinality(after)
    BY DEF CountOf
  <2> HIDE DEF before, after
  <2> QED BY <2>1, <2>3, <2>4 DEF Tally
<1>4. Cardinality(Done(s))' = Cardinality(Done(s)) + 1
  <2>1. Cardinality(Done(s))' = Cardinality(Done(s)')
    OBVIOUS
  <2> QED BY <1>1, <1>2, <2>1, FS_AddElement
<1> QED BY <1>1, <1>2, <1>3, <1>4

LEMMA CompleteItemProgress ==
    ASSUME ProgressInv, TypeOK', NEW t \in Turns, NEW outcome \in Outcome,
           CompleteItem(t, outcome)
    PROVE  ProgressInv'
<1> USE DEF ProgressInv
<1>a. PICK i \in ItemIds : i = turns[t].item
  BY DEF CompleteItem, Turn, TypeOK
<1>b. PICK s \in SearchIds : s = i[1]
  BY DEF ItemIds
<1> DEFINE job == AddResult(searches[s], outcome)
           done == [status |-> outcome, owner |-> None,
                    sequence |-> searches[s].processed + 1,
                    availableAt |-> ParkedUntil(i), expiresAt |-> items[i].expiresAt]
<1>1. /\ UNCHANGED <<now, requests, madeBy, calls>>
      /\ items' = [items EXCEPT ![i] = done]
      /\ itemOffers' = [itemOffers EXCEPT ![i] = items[i].expiresAt]
      /\ searches' = [searches EXCEPT ![s] = job]
  BY <1>a, <1>b DEF CompleteItem, OffersUntil
<1>2. /\ items[i] # None /\ items[i] \in Item /\ ~IsDone(i)
      /\ Live(s) /\ searches[s] # None /\ searches[s] \in Search
  BY <1>a, <1>b DEF CompleteItem, Holds, IsDone, Outcome, Live, TypeOK
<1>3. /\ done \in Item
      /\ done.status = outcome
      /\ done.sequence = searches[s].processed + 1
      /\ done.expiresAt = items[i].expiresAt
      /\ done.availableAt > done.expiresAt
  BY <1>2, BoundsAssumption DEF Item, ItemStatus, Search, ParkedUntil
<1>4. /\ job \in Search
      /\ job.total = searches[s].total /\ job.expiresAt = searches[s].expiresAt
      /\ job.processed = searches[s].processed + 1
      /\ job.found = Tally(searches[s].found, outcome = "found")
      /\ job.notFound = Tally(searches[s].notFound, outcome = "not_found")
      /\ job.errors = Tally(searches[s].errors, outcome = "source_error")
      /\ job.status = IF job.processed = job.total /\ searches[s].status # "cancelled"
                      THEN FinalStatus(job.errors, outcome)
                      ELSE searches[s].status
  BY <1>2, ResultType
<1> HIDE DEF job, done
<1>5. /\ SearchesKept
      /\ searches'[s] = job
      /\ \A r \in SearchIds : /\ r # s => searches'[r] = searches[r]
                              /\ Live(r)' <=> Live(r)
  BY <1>1, <1>2, <1>4, JobChanged
<1>6. /\ items'[i] = done /\ \A j \in ItemIds : j # i => items'[j] = items[j]
      /\ itemOffers'[i] = items[i].expiresAt
      /\ \A j \in ItemIds : j # i => itemOffers'[j] = itemOffers[j]
  BY <1>1, <1>2 DEF TypeOK
<1>7. /\ IsFiniteSet(Done(s))
      /\ Cardinality(Done(s)) \in Nat
      /\ Cardinality(Done(s)) < searches[s].total
  BY <1>b, <1>2, DoneBound
<1>8. CountersMatch(s) /\ SequencesMatch(s)
  BY <1>2 DEF ProgressMatchesResults
<1>9. /\ i \notin Done(s)
      /\ Done(s)' = Done(s) \union {i}
      /\ \A o \in Outcome : CountOf(s, o)' = Tally(CountOf(s, o), items'[i].status = o)
      /\ Cardinality(Done(s))' = Cardinality(Done(s)) + 1
  <2>1. IsDone(i)'
    BY <1>3, <1>6, NoneAssumption DEF IsDone
  <2> QED BY <1>b, <1>2, <1>6, <1>7, <2>1, CountAdded
<1>10. UndrawnIsAbsent' /\ CallsAgree'
  <2>1. \A j \in ItemIds : items[j] = None => items'[j] = None
    BY <1>2, <1>6
  <2> QED BY <1>1, <1>5, <2>1, CallsKept
<1>11. ItemsAgree'
  <2>1. ASSUME NEW j \in ItemIds, items'[j] # None
        PROVE  ItemAgrees(j)'
    <3>1. items[j] # None /\ ItemAgrees(j) /\ j[1] \in SearchIds
      BY <1>2, <1>6, <2>1 DEF ItemsAgree, ItemIds
    <3>2. CASE j = i
      BY <1>3, <1>5, <1>6, <3>1, <3>2 DEF ItemAgrees, SearchesKept
    <3>3. CASE j # i
      BY <1>1, <1>5, <1>6, <3>1, <3>3 DEF ItemAgrees, Lapsed, SearchesKept
    <3> QED BY <3>2, <3>3
  <2> QED BY <2>1 DEF ItemsAgree
<1>12. StatusAgrees'
  <2> SUFFICES ASSUME NEW r \in SearchIds, Live(r)'
               PROVE  StatusAgrees!(r)'
    BY DEF StatusAgrees
  <2>1. CASE r = s
    <3>1. searches[s].processed < searches[s].total
      BY <1>7, <1>8 DEF CountersMatch
    <3>2. searches[s].status # "cancelled" => searches[s].status \notin FinishedStatus
      BY <1>2, <3>1, BoundsAssumption DEF StatusAgrees, Search
    <3>3. searches[s].status # "cancelled" => searches[s].status \in OpenStatus
      BY <1>2, <3>2 DEF Search, JobStatus
    <3> QED BY <1>4, <1>5, <2>1, <3>3 DEF FinalStatus, FinishedStatus, OpenStatus
  <2>2. CASE r # s
    BY <1>5, <2>2 DEF StatusAgrees
  <2> QED BY <2>1, <2>2
<1>13. CountersMatch(s)'
  <2>1. /\ searches[s].processed = Cardinality(Done(s))
        /\ searches[s].found = CountOf(s, "found")
        /\ searches[s].notFound = CountOf(s, "not_found")
        /\ searches[s].errors = CountOf(s, "source_error")
    BY <1>8 DEF CountersMatch, CountOf
  <2>2. /\ searches'[s].processed = Cardinality(Done(s))'
        /\ searches'[s].found = CountOf(s, "found")'
        /\ searches'[s].notFound = CountOf(s, "not_found")'
        /\ searches'[s].errors = CountOf(s, "source_error")'
    BY <1>3, <1>4, <1>5, <1>6, <1>9, <2>1 DEF Outcome
  <2> QED BY <2>2 DEF CountersMatch, CountOf
<1>14. SequencesMatch(s)'
  <2>1. \A j \in Done(s) : items'[j] = items[j]
    BY <1>6, <1>9, DoneMembers
  <2>2. {items'[j].sequence : j \in Done(s)'}
        = {items[j].sequence : j \in Done(s)} \union {done.sequence}
    BY <1>6, <1>9, <2>1
  <2>3. 1..(searches[s].processed + 1) = (1..searches[s].processed)
                                         \union {searches[s].processed + 1}
    BY <1>2 DEF Search
  <2> QED BY <1>3, <1>4, <1>5, <1>8, <2>2, <2>3 DEF SequencesMatch
<1>15. ProgressMatchesResults'
  <2>1. ASSUME NEW r \in SearchIds, Live(r)', r # s
        PROVE  CountersMatch(r)' /\ SequencesMatch(r)'
    <3>1. Live(r) /\ CountersKept(r)
      BY <1>5, <2>1 DEF CountersKept
    <3>2. ResultsKept(r)
      BY <1>b, <1>6, <2>1 DEF ResultsKept
    <3> QED BY <3>1, <3>2, ProgressKept DEF ProgressMatchesResults
  <2> QED BY <1>13, <1>14, <2>1 DEF ProgressMatchesResults
<1> QED BY <1>10, <1>11, <1>12, <1>15

(* Ends of turns and of renewals change no document, like stuttering.      *)
LEMMA QuietProgress ==
    ASSUME ProgressInv, TypeOK',
           UNCHANGED <<now, searches, items, itemOffers, madeBy, calls>>
    PROVE  ProgressInv'
<1> USE DEF ProgressInv
<1>1. UndrawnIsAbsent' /\ CallsAgree'
  BY CallsKept DEF SearchesKept
<1>2. ItemsAgree' /\ StatusAgrees'
  BY DEF ItemsAgree, ItemAgrees, StatusAgrees, Live, Lapsed
<1>3. ProgressMatchesResults'
  <2>1. \A s \in SearchIds : Live(s)' => Live(s) /\ CountersKept(s)
    BY DEF Live, Lapsed, CountersKept
  <2>2. \A s \in SearchIds : ResultsKept(s)
    BY DEF ResultsKept, IsDone
  <2> QED BY <2>1, <2>2, ProgressKeptEverywhere
<1> QED BY <1>1, <1>2, <1>3

(* TTL and the clock only take away what no client reads any more.         *)
LEMMA ExpiryProgress ==
    ASSUME ProgressInv, TypeOK', Expiry
    PROVE  ProgressInv'
<1> USE DEF ProgressInv
<1>1. UNCHANGED <<madeBy, calls>> /\ now \in Nat /\ now' \in Nat /\ now <= now'
  BY DEF Expiry, Tick, ExpireSearch, ExpireItem, ExpireOffers, ExpireRequest, documents, TypeOK
<1>2. \A s \in SearchIds :
        \/ searches'[s] = searches[s]
        \/ searches'[s] = None /\ ~Live(s)
  BY DEF Expiry, Tick, ExpireSearch, ExpireItem, ExpireOffers, ExpireRequest, documents, Live, TypeOK
<1>3. \A i \in ItemIds :
        \/ items'[i] = items[i]
        \/ items'[i] = None /\ Lapsed(items[i].expiresAt)
  BY DEF Expiry, Tick, ExpireSearch, ExpireItem, ExpireOffers, ExpireRequest, documents, TypeOK
<1>4. \A i \in ItemIds :
        \/ itemOffers'[i] = itemOffers[i]
        \/ itemOffers'[i] = None /\ Lapsed(itemOffers[i])
  BY DEF Expiry, Tick, ExpireSearch, ExpireItem, ExpireOffers, ExpireRequest, documents, TypeOK
<1>5. \A s \in SearchIds : Live(s)' => Live(s) /\ searches'[s] = searches[s]
  BY <1>1, <1>2 DEF Live, Lapsed, TypeOK, Search
<1>6. UndrawnIsAbsent' /\ CallsAgree'
  BY <1>1, <1>2, <1>3, CallsKept DEF SearchesKept
<1>7. ItemsAgree'
  <2>1. ASSUME NEW i \in ItemIds, items'[i] # None
        PROVE  ItemAgrees(i)'
    <3>1. /\ items'[i] = items[i] /\ items[i] # None /\ ItemAgrees(i)
          /\ items[i] \in Item /\ i[1] \in SearchIds
      BY <1>3, <2>1 DEF ItemsAgree, ItemIds, TypeOK
    <3>2. Lapsed(items[i].expiresAt) => Lapsed(items[i].expiresAt)'
      BY <1>1, <3>1 DEF Lapsed, Item
    <3>3. items'[i].status \in Outcome =>
            \/ itemOffers'[i] = items'[i].expiresAt
            \/ itemOffers'[i] = None /\ Lapsed(items[i].expiresAt)'
      BY <1>4, <3>1, <3>2 DEF ItemAgrees, Lapsed
    <3> QED BY <1>2, <3>1, <3>3 DEF ItemAgrees
  <2> QED BY <2>1 DEF ItemsAgree
<1>8. StatusAgrees'
  BY <1>5 DEF StatusAgrees
<1>9. ProgressMatchesResults'
  <2>1. \A s \in SearchIds : Live(s)' => Live(s) /\ CountersKept(s)
    BY <1>5 DEF CountersKept
  <2>2. ASSUME NEW s \in SearchIds, Live(s)' PROVE ResultsKept(s)
    <3>1. ASSUME NEW i \in ItemIds, i[1] = s, items[i] # None
          PROVE  items'[i] = items[i]
      BY <1>1, <1>3, <1>5, <2>2, <3>1 DEF ItemsAgree, ItemAgrees, Live, Lapsed, TypeOK, Search
    <3> QED BY <1>3, <3>1 DEF ResultsKept, IsDone
  <2> QED BY <2>1, <2>2, ProgressKeptEverywhere
<1> QED BY <1>6, <1>7, <1>8, <1>9

LEMMA NextProgress == ProgressInv /\ [Next]_vars => ProgressInv'
<1> SUFFICES ASSUME ProgressInv, [Next]_vars PROVE ProgressInv'
  OBVIOUS
<1>1. TypeOK'
  BY NextType DEF ProgressInv
<1>2. CASE UNCHANGED vars
  BY <1>1, <1>2, QuietProgress DEF vars, documents
<1>3. ASSUME NEW c \in Callers, CallStep(c) PROVE ProgressInv'
  BY <1>1, <1>3, OpenSearchProgress, CallMemoryProgress, WriteItemsProgress DEF CallStep
<1>4. ASSUME NEW k \in Keys, NEW s \in SearchIds, CancelSearch(k, s) PROVE ProgressInv'
  BY <1>1, <1>4, CancelSearchProgress
<1>5. ASSUME NEW t \in Turns, TurnStep(t) PROVE ProgressInv'
  <2>1. CASE RenewFails(t) \/ TurnEnds(t)
    BY <1>1, <2>1, QuietProgress DEF RenewFails, TurnEnds, documents
  <2> QED BY <1>1, <1>5, <2>1, ClaimItemProgress, DiscardItemProgress, CompleteItemProgress,
             RenewLeaseProgress DEF TurnStep
<1>6. CASE Expiry
  BY <1>1, <1>6, ExpiryProgress
<1> QED BY <1>2, <1>3, <1>4, <1>5, <1>6 DEF Next

LEMMA ProgressInvariant == Spec => []ProgressInv
BY InitProgress, NextProgress, PTL DEF Spec

(* What a client polls is what was stored, for any number of cards, turns  *)
(* and calls, under any lease, expiry and parking.                         *)
THEOREM ProgressCorrect == Spec => []ProgressMatchesResults
<1>1. ProgressInv => ProgressMatchesResults
  BY DEF ProgressInv
<1> QED BY <1>1, ProgressInvariant, PTL

(* No result outlives its offers while its search can be read.             *)
THEOREM OffersCorrect == Spec => []OffersOutlastResults
<1>1. ProgressInv => OffersOutlastResults
  <2> SUFFICES ASSUME ProgressInv, NEW s \in SearchIds, Live(s),
                      NEW i \in ItemIds, i[1] = s, IsDone(i)
               PROVE  itemOffers[i] # None
    BY DoneMembers DEF OffersOutlastResults
  <2>1. items[i] # None /\ items[i] \in Item /\ ItemAgrees(i)
    BY DEF ProgressInv, ItemsAgree, IsDone, TypeOK
  <2>2. ~Lapsed(items[i].expiresAt)
    BY <2>1 DEF ItemAgrees, Live
  <2>3. items[i].expiresAt # None
    BY <2>1, NoneAssumption DEF Item
  <2> QED BY <2>1, <2>2, <2>3 DEF ItemAgrees, IsDone
<1> QED BY <1>1, ProgressInvariant, PTL

(* A search that was not cancelled is finished exactly when every card has *)
(* its result, and with errors exactly when one of them is a source error. *)
THEOREM FinishCorrect == Spec => []FinishedWhenDone
<1>1. ProgressInv => FinishedWhenDone
  <2> SUFFICES ASSUME ProgressInv, NEW s \in SearchIds, Live(s),
                      searches[s].status # "cancelled"
               PROVE  /\ searches[s].status \in FinishedStatus <=>
                            \A p \in 0..(searches[s].total - 1) : <<s, p>> \in Done(s)
                      /\ searches[s].status = "completed_with_errors" <=>
                            /\ searches[s].status \in FinishedStatus
                            /\ \E i \in Done(s) : items[i].status = "source_error"
    BY DEF FinishedWhenDone
  <2> DEFINE faulty == {i \in Done(s) : items[i].status = "source_error"}
  <2>1. /\ searches[s].processed = Cardinality(Done(s))
        /\ searches[s].errors = Cardinality(faulty)
    BY DEF ProgressInv, ProgressMatchesResults, CountersMatch
  <2>2. /\ IsFiniteSet(Done(s))
        /\ Cardinality(Done(s)) = searches[s].total <=>
              \A p \in 0..(searches[s].total - 1) : <<s, p>> \in Done(s)
    BY DoneBound DEF ProgressInv
  <2>3. Cardinality(faulty) > 0 <=> faulty # {}
    <3>1. IsFiniteSet(faulty)
      BY <2>2, FS_Subset
    <3> QED BY <3>1, FS_EmptySet, FS_CardinalityType
  <2>4. /\ searches[s].status \in FinishedStatus <=>
              searches[s].processed = searches[s].total
        /\ searches[s].status = "completed_with_errors" <=>
              searches[s].processed = searches[s].total /\ searches[s].errors > 0
    BY DEF ProgressInv, StatusAgrees
  <2> QED BY <2>1, <2>2, <2>3, <2>4
<1> QED BY <1>1, ProgressInvariant, PTL

-----------------------------------------------------------------------------
(* Live work                                                               *)

LEMMA WorkStays ==
    ASSUME ProgressInv, [Next]_vars, NEW i \in ItemIds,
           items[i] # None, i \notin Damaged, Live(i[1]),
           searches[i[1]].status # "cancelled"
    PROVE  items'[i] # None
<1>1. /\ TypeOK /\ i[1] \in SearchIds
      /\ items[i] \in Item
      /\ now \in Nat
      /\ ~Lapsed(items[i].expiresAt)
  BY DEF ProgressInv, ItemsAgree, ItemAgrees, Live, ItemIds, TypeOK
<1>2. CASE UNCHANGED vars
  BY <1>2 DEF vars, documents
<1>3. ASSUME NEW c \in Callers, CallStep(c) PROVE items'[i] # None
  <2>1. CASE WriteItems(c)
    <3>1. items'[i] = items[i]
      <4>1. CallAgrees(c) /\ calls[c] \in Call
        BY <2>1 DEF WriteItems, ProgressInv, CallsAgree, Active, TypeOK
      <4> QED BY <2>1, <4>1 DEF WriteItems, CallAgrees
    <3> QED BY <3>1
  <2> QED BY <1>3, <2>1 DEF CallStep, OpenSearch, RepeatSearch, ReadSearch, CallFails, documents
<1>4. ASSUME NEW k \in Keys, NEW s \in SearchIds, CancelSearch(k, s) PROVE items'[i] # None
  BY <1>4 DEF CancelSearch
<1>5. ASSUME NEW t \in Turns, TurnStep(t) PROVE items'[i] # None
  <2>1. ASSUME NEW j \in ItemIds, NEW owner \in Owners, ClaimItem(t, j, owner)
        PROVE  items'[i] # None
    <3> DEFINE until == now + LeaseTime
               taken == [items[j] EXCEPT !.status = "running", !.owner = owner,
                                         !.availableAt = until]
    <3>1. items' = [items EXCEPT ![j] = taken] /\ items[j] \in Item
      BY <2>1 DEF ClaimItem, Oldest, Ready, ProgressInv, TypeOK
    <3>2. until \in Nat
      BY <1>1, BoundsAssumption
    <3> HIDE DEF until
    <3>3. taken \in Item
      BY <3>1, <3>2 DEF Item, ItemStatus
    <3> HIDE DEF taken
    <3> QED BY <1>1, <3>1, <3>3, NoneAssumption DEF TypeOK
  <2>2. ASSUME NEW j \in ItemIds, DiscardItem(t, j) PROVE items'[i] # None
    <3>1. j # i
      BY <1>1, <2>2 DEF DiscardItem, Claimable
    <3> QED BY <1>1, <2>2, <3>1 DEF DiscardItem, TypeOK
  <2>3. ASSUME NEW outcome \in Outcome, CompleteItem(t, outcome) PROVE items'[i] # None
    <3> DEFINE j == turns[t].item
               done == [status |-> outcome, owner |-> None,
                        sequence |-> searches[j[1]].processed + 1,
                        availableAt |-> ParkedUntil(j), expiresAt |-> items[j].expiresAt]
    <3>1. /\ j \in ItemIds
          /\ items' = [items EXCEPT ![j] = done]
          /\ items[j] \in Item /\ searches[j[1]] \in Search
      BY <1>1, <2>3 DEF CompleteItem, Holds, Live, Turn, ItemIds, TypeOK
    <3>2. done \in Item
      BY <3>1, BoundsAssumption DEF Item, ItemStatus, Search, ParkedUntil
    <3> HIDE DEF done
    <3> QED BY <1>1, <3>1, <3>2, NoneAssumption DEF TypeOK
  <2>4. CASE RenewLease(t)
    <3> DEFINE j == turns[t].item
               renewed == [items[j] EXCEPT !.availableAt = now + LeaseTime]
    <3>1. /\ j \in ItemIds
          /\ items' = [items EXCEPT ![j] = renewed]
          /\ items[j] \in Item
      BY <1>1, <2>4 DEF RenewLease, Holds, Turn, TypeOK
    <3>2. renewed \in Item
      BY <1>1, <3>1, BoundsAssumption DEF Item
    <3> HIDE DEF renewed
    <3> QED BY <1>1, <3>1, <3>2, NoneAssumption DEF TypeOK
  <2> QED BY <1>5, <2>1, <2>2, <2>3, <2>4 DEF TurnStep, RenewFails, TurnEnds, documents
<1>6. CASE Expiry
  BY <1>1, <1>6 DEF Expiry, Tick, ExpireSearch, ExpireItem, ExpireOffers, ExpireRequest,
                    documents, TypeOK
<1> QED BY <1>2, <1>3, <1>4, <1>5, <1>6 DEF Next

(* No step of any actor deletes a readable card of a search that is not    *)
(* cancelled.                                                              *)
THEOREM WorkCorrect == Spec => LiveWorkStays
<1>1. ProgressInv /\ [Next]_vars => KeepsLiveWork
  BY WorkStays DEF KeepsLiveWork
<1> QED BY <1>1, ProgressInvariant, PTL DEF Spec, LiveWorkStays

-----------------------------------------------------------------------------
(* One readable search per key                                             *)

(* The record of a key answers with the readable search it made.           *)
KeyAgrees(s) ==
    LET r == <<"create", madeBy[s]>> IN
    /\ madeBy[s] # None
    /\ requests[r] # None
    /\ requests[r].resource = s
    /\ requests[r].expiresAt = searches[s].expiresAt

KeyInv == \A s \in SearchIds : Live(s) => KeyAgrees(s)

(* Every step but OpenSearch leaves the records of the create keys, and the *)
(* expiry of every search, as they are while the search can be read.       *)
LEMMA KeysKept ==
    ASSUME KeyInv, UNCHANGED madeBy,
           \A s \in SearchIds : Live(s)' =>
               Live(s) /\ searches'[s].expiresAt = searches[s].expiresAt,
           \A k \in Keys :
               LET r == <<"create", k>> IN
               requests'[r] = requests[r] \/ Lapsed(requests[r].expiresAt),
           madeBy \in [SearchIds -> Keys \union {None}]
    PROVE  KeyInv'
<1> SUFFICES ASSUME NEW s \in SearchIds, Live(s)' PROVE KeyAgrees(s)'
  BY DEF KeyInv
<1>1. Live(s) /\ KeyAgrees(s) /\ searches'[s].expiresAt = searches[s].expiresAt
  BY DEF KeyInv
<1>2. madeBy[s] \in Keys
  BY <1>1 DEF KeyAgrees
<1>3. requests'[<<"create", madeBy[s]>>] = requests[<<"create", madeBy[s]>>]
  BY <1>1, <1>2 DEF KeyAgrees, Live
<1> QED BY <1>1, <1>3 DEF KeyAgrees

LEMMA CancelKeepsSearches ==
    ASSUME TypeOK, NEW k \in Keys, NEW s \in SearchIds, CancelSearch(k, s)
    PROVE  SearchesKept /\ \A r \in SearchIds : Live(r)' => Live(r)
<1> DEFINE job == [searches[s] EXCEPT !.status = "cancelled"]
<1>1. /\ searches[s] # None /\ searches[s] \in Search
      /\ searches' = [searches EXCEPT ![s] = job]
      /\ UNCHANGED now
  BY DEF CancelSearch, Live, TypeOK
<1>2. job \in Search /\ job.total = searches[s].total /\ job.expiresAt = searches[s].expiresAt
  BY <1>1 DEF Search, JobStatus
<1> HIDE DEF job
<1> QED BY <1>1, <1>2, JobChanged

LEMMA TurnKeepsSearches ==
    ASSUME TypeOK, NEW t \in Turns, TurnStep(t)
    PROVE  SearchesKept /\ \A r \in SearchIds : Live(r)' => Live(r)
<1>1. ASSUME NEW i \in ItemIds, NEW owner \in Owners, ClaimItem(t, i, owner)
      PROVE  SearchesKept /\ \A r \in SearchIds : Live(r)' => Live(r)
  <2> DEFINE s == i[1]
             job == [searches[s] EXCEPT !.status = "running"]
  <2>1. /\ s \in SearchIds /\ searches[s] # None /\ searches[s] \in Search
        /\ searches' = [searches EXCEPT ![s] = job]
        /\ UNCHANGED now
    BY <1>1 DEF ClaimItem, Claimable, Live, ItemIds, TypeOK
  <2>2. job \in Search /\ job.total = searches[s].total /\ job.expiresAt = searches[s].expiresAt
    BY <2>1 DEF Search, JobStatus, OpenStatus
  <2> HIDE DEF job
  <2> QED BY <2>1, <2>2, JobChanged
<1>2. ASSUME NEW outcome \in Outcome, CompleteItem(t, outcome)
      PROVE  SearchesKept /\ \A r \in SearchIds : Live(r)' => Live(r)
  <2>1. PICK i \in ItemIds : i = turns[t].item
    BY <1>2 DEF CompleteItem, Turn, TypeOK
  <2> DEFINE s == i[1]
             job == AddResult(searches[s], outcome)
  <2>2. /\ s \in SearchIds /\ searches[s] # None /\ searches[s] \in Search
        /\ searches' = [searches EXCEPT ![s] = job]
        /\ UNCHANGED now
    BY <1>2, <2>1 DEF CompleteItem, Live, ItemIds, TypeOK
  <2>3. job \in Search /\ job.total = searches[s].total /\ job.expiresAt = searches[s].expiresAt
    BY <2>2, ResultType
  <2> HIDE DEF job
  <2> QED BY <2>2, <2>3, JobChanged
<1>3. ASSUME UNCHANGED <<now, searches>>
      PROVE  SearchesKept /\ \A r \in SearchIds : Live(r)' => Live(r)
  BY <1>3 DEF SearchesKept, Live, Lapsed
<1> QED BY <1>1, <1>2, <1>3
        DEF TurnStep, DiscardItem, RenewLease, RenewFails, TurnEnds, documents

LEMMA ExpiryKeepsSearches ==
    ASSUME TypeOK, Expiry
    PROVE  SearchesKept /\ \A r \in SearchIds : Live(r)' => Live(r)
<1>1. now \in Nat /\ now' \in Nat /\ now <= now'
  BY DEF Expiry, Tick, ExpireSearch, ExpireItem, ExpireOffers, ExpireRequest, TypeOK
<1>2. \A r \in SearchIds : searches'[r] = searches[r] \/ searches'[r] = None
  BY DEF Expiry, Tick, ExpireSearch, ExpireItem, ExpireOffers, ExpireRequest, documents, TypeOK
<1> QED BY <1>1, <1>2 DEF SearchesKept, Live, Lapsed, Search, TypeOK

LEMMA InitKey == Init => KeyInv
BY DEF Init, KeyInv, Live

(* A key that names a readable search is remembered, so no second search   *)
(* is opened for it.                                                       *)
LEMMA OpenSearchKey ==
    ASSUME TypeOK, KeyInv, NEW c \in Callers, NEW k \in Keys, NEW p \in Payloads,
           OpenSearch(c, k, p)
    PROVE  KeyInv'
<1> DEFINE Answer(s) == [hash |-> p, resource |-> s, expiresAt |-> now + Ttl]
<1>1. PICK s \in SearchIds :
        /\ searches' = [searches EXCEPT ![s] = NewSearch(p)]
        /\ requests' = [requests EXCEPT ![<<"create", k>>] = Answer(s)]
        /\ madeBy' = [madeBy EXCEPT ![s] = k]
  BY DEF OpenSearch
<1>2. UNCHANGED now /\ ~Remembered(<<"create", k>>)
  BY DEF OpenSearch
<1>3. /\ <<"create", k>> \in RequestIds
      /\ requests'[<<"create", k>>] = Answer(s)
      /\ Answer(s) # None
      /\ k # None
      /\ searches'[s].expiresAt = now + Ttl
      /\ madeBy'[s] = k
  <2>1. Answer(s) \in Request
    BY BoundsAssumption DEF Request, TypeOK
  <2> QED BY <1>1, <2>1, NoneAssumption DEF RequestIds, NewSearch, TypeOK
<1>4. ASSUME NEW r \in SearchIds, Live(r)' PROVE KeyAgrees(r)'
  <2>1. CASE r = s
    <3>1. Answer(s).resource = s /\ Answer(s).expiresAt = now + Ttl
      OBVIOUS
    <3> HIDE DEF Answer
    <3> QED BY <1>3, <2>1, <3>1 DEF KeyAgrees
  <2>2. CASE r # s
    <3>1. searches'[r] = searches[r] /\ madeBy'[r] = madeBy[r]
      BY <1>1, <2>2 DEF TypeOK
    <3>2. Live(r) /\ KeyAgrees(r)
      BY <1>2, <1>4, <3>1 DEF KeyInv, Live, Lapsed
    <3>3. madeBy[r] # k
      BY <1>2, <3>2 DEF Remembered, KeyAgrees, Live
    <3>4. requests'[<<"create", madeBy[r]>>] = requests[<<"create", madeBy[r]>>]
      <4>1. madeBy[r] \in Keys
        BY <3>2 DEF KeyAgrees, TypeOK
      <4>2. <<"create", madeBy[r]>> \in RequestIds /\ <<"create", madeBy[r]>> # <<"create", k>>
        BY <3>3, <4>1 DEF RequestIds
      <4> QED BY <1>1, <4>2 DEF TypeOK
    <3> QED BY <3>1, <3>2, <3>4 DEF KeyAgrees
  <2> QED BY <2>1, <2>2
<1> QED BY <1>4 DEF KeyInv

LEMMA NextKey == TypeOK /\ KeyInv /\ [Next]_vars => KeyInv'
<1> SUFFICES ASSUME TypeOK, KeyInv, [Next]_vars PROVE KeyInv'
  OBVIOUS
<1>0. madeBy \in [SearchIds -> Keys \union {None}]
  BY DEF TypeOK
<1>1. ASSUME UNCHANGED <<now, searches, requests, madeBy>> PROVE KeyInv'
  BY <1>1 DEF KeyInv, KeyAgrees, Live, Lapsed
<1>2. ASSUME NEW c \in Callers, CallStep(c) PROVE KeyInv'
  BY <1>1, <1>2, OpenSearchKey
     DEF CallStep, RepeatSearch, ReadSearch, WriteItems, CallFails, documents
<1>3. ASSUME NEW k \in Keys, NEW s \in SearchIds, CancelSearch(k, s) PROVE KeyInv'
  <2>1. \A j \in Keys : requests'[<<"create", j>>] = requests[<<"create", j>>]
    BY <1>3 DEF CancelSearch, RequestIds, TypeOK
  <2>2. UNCHANGED madeBy
    BY <1>3 DEF CancelSearch
  <2>3. \A r \in SearchIds : Live(r)' =>
          Live(r) /\ searches'[r].expiresAt = searches[r].expiresAt
    BY <1>3, CancelKeepsSearches DEF SearchesKept, Live
  <2> QED BY <1>0, <2>1, <2>2, <2>3, KeysKept
<1>4. ASSUME NEW t \in Turns, TurnStep(t) PROVE KeyInv'
  <2>1. UNCHANGED <<requests, madeBy>>
    BY <1>4 DEF TurnStep, ClaimItem, DiscardItem, CompleteItem, RenewLease, RenewFails,
                TurnEnds, documents
  <2>2. \A r \in SearchIds : Live(r)' =>
          Live(r) /\ searches'[r].expiresAt = searches[r].expiresAt
    BY <1>4, TurnKeepsSearches DEF SearchesKept, Live
  <2> QED BY <1>0, <2>1, <2>2, KeysKept
<1>5. CASE Expiry
  <2>1. UNCHANGED madeBy
    BY <1>5 DEF Expiry, Tick, ExpireSearch, ExpireItem, ExpireOffers, ExpireRequest
  <2>2. \A j \in Keys :
          LET r == <<"create", j>> IN
          requests'[r] = requests[r] \/ Lapsed(requests[r].expiresAt)
    BY <1>5 DEF Expiry, Tick, ExpireSearch, ExpireItem, ExpireOffers, ExpireRequest,
                documents, RequestIds, TypeOK
  <2>3. \A r \in SearchIds : Live(r)' =>
          Live(r) /\ searches'[r].expiresAt = searches[r].expiresAt
    BY <1>5, ExpiryKeepsSearches DEF SearchesKept, Live
  <2> QED BY <1>0, <2>1, <2>2, <2>3, KeysKept
<1>6. CASE UNCHANGED vars
  BY <1>1, <1>6 DEF vars, documents
<1> QED BY <1>2, <1>3, <1>4, <1>5, <1>6 DEF Next

(* One idempotency key never has two readable searches, however the calls  *)
(* that carry it interleave and whatever TTL deletes first.                *)
THEOREM KeyCorrect == Spec => []OneSearchPerKey
<1>1. KeyInv => OneSearchPerKey
  BY DEF KeyInv, KeyAgrees, OneSearchPerKey
<1> QED BY <1>1, InitKey, NextKey, TypeCorrect, PTL DEF Spec

-----------------------------------------------------------------------------
(* Leases                                                                  *)

(* The item was written by the call that owns it, which will not write it  *)
(* again.                                                                  *)
Written(i) ==
    /\ madeBy[i[1]] # None
    /\ \A c \in Callers : Active(c) /\ calls[c].search = i[1] => i[2] < calls[c].next

(* While a turn believes in its lease, the item runs under the name of its *)
(* task for at least that long, or another delivery of the task finished   *)
(* it, or it is gone.  No turn believes in a lease longer than one taken   *)
(* now, so the renewal by one delivery never shortens what another has.    *)
Leased(t, i) ==
    BelievesLease(t, i) =>
        /\ turns[t].leaseUntil <= now + LeaseTime
        /\ \/ items[i] = None
           \/ items[i].status \in Outcome
           \/ /\ items[i].status = "running"
              /\ items[i].owner = turns[t].owner
              /\ items[i].availableAt >= turns[t].leaseUntil

LeaseInv ==
    \A t \in Turns, i \in ItemIds : turns[t].item = i => Written(i) /\ Leased(t, i)

LEMMA ItemsWritten ==
    ASSUME ProgressInv, NEW i \in ItemIds, items[i] # None
    PROVE  Written(i)
<1>1. i[1] \in SearchIds /\ i[2] \in Int
  BY BoundsAssumption DEF ItemIds, Positions
<1>2. madeBy[i[1]] # None
  BY <1>1 DEF ProgressInv, UndrawnIsAbsent
<1>3. ASSUME NEW c \in Callers, Active(c), calls[c].search = i[1]
      PROVE  i[2] < calls[c].next
  BY <1>1, <1>3 DEF ProgressInv, CallsAgree, CallAgrees, TypeOK, Call
<1> QED BY <1>2, <1>3 DEF Written

LEMMA WrittenStays ==
    ASSUME ProgressInv, [Next]_vars, NEW i \in ItemIds, Written(i)
    PROVE  /\ Written(i)'
           /\ items[i] = None => items'[i] = None
<1>1. TypeOK /\ i[1] \in SearchIds /\ i[2] \in Int
  BY BoundsAssumption DEF ProgressInv, ItemIds, Positions
<1>2. ASSUME UNCHANGED <<madeBy, calls>> PROVE Written(i)'
  BY <1>2 DEF Written, Active
<1>3. ASSUME NEW c \in Callers, CallStep(c)
      PROVE  Written(i)' /\ (items[i] = None => items'[i] = None)
  <2>1. ASSUME NEW k \in Keys, NEW p \in Payloads, OpenSearch(c, k, p)
        PROVE  Written(i)' /\ UNCHANGED items
    <3>1. PICK s \in SearchIds :
            /\ madeBy[s] = None
            /\ madeBy' = [madeBy EXCEPT ![s] = k]
            /\ calls' = [calls EXCEPT ![c] =
                            [step |-> "created", search |-> s, total |-> Cards[p],
                             createdAt |-> now, expiresAt |-> 0, next |-> 0]]
      BY <2>1 DEF OpenSearch
    <3>2. s # i[1] /\ UNCHANGED items
      BY <2>1, <3>1 DEF Written, OpenSearch
    <3>3. calls'[c].search = s /\ \A d \in Callers : d # c => calls'[d] = calls[d]
      BY <1>1, <3>1 DEF TypeOK
    <3> QED BY <1>1, <3>1, <3>2, <3>3 DEF Written, Active, TypeOK
  <2>2. ASSUME \/ \E k \in Keys, p \in Payloads : RepeatSearch(c, k, p)
               \/ ReadSearch(c)
               \/ CallFails(c)
        PROVE  Written(i)' /\ UNCHANGED items
    <3>1. UNCHANGED <<madeBy, items>>
      BY <2>2 DEF RepeatSearch, ReadSearch, CallFails, documents
    <3>2. \A d \in Callers : d # c => calls'[d] = calls[d]
      BY <1>1, <2>2 DEF RepeatSearch, ReadSearch, CallFails, TypeOK
    <3>3. Active(c)' => Active(c) /\ calls'[c].search = calls[c].search
                                  /\ calls'[c].next = calls[c].next
      <4>1. CASE \E k \in Keys, p \in Payloads : RepeatSearch(c, k, p)
        <5>1. PICK k \in Keys, p \in Payloads : RepeatSearch(c, k, p)
          BY <4>1
        <5>2. calls \in [Callers -> Call]
          BY <1>1 DEF TypeOK
        <5>3. CASE calls' = [calls EXCEPT ![c] = [@ EXCEPT !.step = "answered",
                                !.search = requests[<<"create", k>>].resource]]
          <6> DEFINE w == [calls[c] EXCEPT !.step = "answered",
                              !.search = requests[<<"create", k>>].resource]
          <6>1. w.step = "answered"
            BY <5>2 DEF Call
          <6> HIDE DEF w
          <6>2. calls' = [calls EXCEPT ![c] = w]
            BY <5>3 DEF w
          <6> QED BY <5>2, <6>1, <6>2 DEF Active
        <5>4. CASE calls' = [calls EXCEPT ![c].step = "failed"]
          <6> DEFINE w == [calls[c] EXCEPT !.step = "failed"]
          <6>1. w.step = "failed"
            BY <5>2 DEF Call
          <6> HIDE DEF w
          <6>2. calls' = [calls EXCEPT ![c] = w]
            BY <5>4 DEF w
          <6> QED BY <5>2, <6>1, <6>2 DEF Active
        <5> QED BY <5>1, <5>3, <5>4 DEF RepeatSearch
      <4>2. CASE ReadSearch(c)
        BY <1>1, <4>2 DEF ReadSearch, Active, TypeOK, Call
      <4>3. CASE CallFails(c)
        BY <1>1, <4>3 DEF CallFails, Active, TypeOK, Call
      <4> QED BY <2>2, <4>1, <4>2, <4>3
    <3> QED BY <3>1, <3>2, <3>3 DEF Written, Active
  <2>3. ASSUME WriteItems(c)
        PROVE  Written(i)' /\ (items[i] = None => items'[i] = None)
    <3>1. calls[c] \in Call /\ Active(c)
      BY <1>1, <2>3 DEF WriteItems, Active, TypeOK
    <3>2. calls[c].search = i[1] => i[2] < calls[c].next
      BY <3>1 DEF Written
    <3>3. items'[i] = items[i]
      BY <1>1, <2>3, <3>1, <3>2 DEF WriteItems, Call
    <3>4. /\ UNCHANGED madeBy
          /\ \A d \in Callers : d # c => calls'[d] = calls[d]
          /\ calls'[c].search = calls[c].search
          /\ calls'[c].next = calls[c].next + BatchSize
      BY <1>1, <2>3, <3>1 DEF WriteItems, TypeOK, Call
    <3> QED BY <1>1, <3>1, <3>2, <3>3, <3>4, BoundsAssumption DEF Written, Active, Call
  <2> QED BY <1>3, <2>1, <2>2, <2>3 DEF CallStep
<1>4. ASSUME NEW k \in Keys, NEW s \in SearchIds, CancelSearch(k, s)
      PROVE  Written(i)' /\ (items[i] = None => items'[i] = None)
  BY <1>2, <1>4 DEF CancelSearch
<1>5. ASSUME NEW t \in Turns, TurnStep(t)
      PROVE  Written(i)' /\ (items[i] = None => items'[i] = None)
  <2>1. UNCHANGED <<madeBy, calls>>
    BY <1>5 DEF TurnStep, ClaimItem, DiscardItem, CompleteItem, RenewLease, RenewFails,
                TurnEnds, documents
  <2>2. ASSUME items[i] = None PROVE items'[i] = None
    BY <1>1, <1>5, <2>2 DEF TurnStep, ClaimItem, Oldest, Ready, DiscardItem, CompleteItem, Holds,
                RenewLease, RenewFails, TurnEnds, documents, TypeOK
  <2> QED BY <1>2, <2>1, <2>2
<1>6. CASE Expiry
  <2>1. UNCHANGED <<madeBy, calls>>
    BY <1>6 DEF Expiry, Tick, ExpireSearch, ExpireItem, ExpireOffers, ExpireRequest
  <2>2. ASSUME items[i] = None PROVE items'[i] = None
    BY <1>1, <1>6, <2>2 DEF Expiry, Tick, ExpireSearch, ExpireItem, ExpireOffers,
                            ExpireRequest, documents, TypeOK
  <2> QED BY <1>2, <2>1, <2>2
<1>7. CASE UNCHANGED vars
  BY <1>2, <1>7 DEF vars, documents
<1> QED BY <1>3, <1>4, <1>5, <1>6, <1>7 DEF Next

(* A turn keeps its lease through a step that moves neither its memory nor *)
(* its item, except to finish or to delete it.                             *)
LEMMA LeaseKept ==
    ASSUME TypeOK, TypeOK', NEW t \in Turns, NEW i \in ItemIds, Leased(t, i),
           turns[t].item = i,
           turns'[t].item = i, turns'[t].leaseUntil = turns[t].leaseUntil,
           turns'[t].owner = turns[t].owner, now <= now',
           items'[i] = items[i] \/ items'[i] = None \/ items'[i].status \in Outcome
    PROVE  Leased(t, i)' /\ (BelievesLease(t, i)' => BelievesLease(t, i))
<1>1. now \in Nat /\ now' \in Nat /\ turns[t].leaseUntil \in Nat /\ LeaseTime \in Nat
  BY BoundsAssumption DEF TypeOK, Turn
<1> QED BY <1>1 DEF Leased, BelievesLease

LEMMA InitLease == Init => LeaseInv /\ LeaseOfOneTask
BY NoneAssumption DEF Init, LeaseInv, LeaseOfOneTask, BelievesLease, IdleTurn

(* What a step does to the leases: it may give t a lease on i that only    *)
(* turns of its task believe in, and leaves the belief of the others alone. *)
LeaseStep(t, i) ==
    /\ turns'[t].item = i => Leased(t, i)'
    /\ BelievesLease(t, i)' =>
           \/ BelievesLease(t, i) /\ turns'[t].owner = turns[t].owner
           \/ \A u \in Turns : BelievesLease(u, i)' => turns'[u].owner = turns'[t].owner

LEMMA TurnLease ==
    ASSUME ProgressInv, TypeOK', LeaseInv, NEW u \in Turns, TurnStep(u),
           NEW t \in Turns, NEW i \in ItemIds
    PROVE  LeaseStep(t, i)
<1>1. /\ TypeOK /\ now \in Nat /\ LeaseTime \in Nat
      /\ \A v \in Turns : turns[v] \in Turn
  BY BoundsAssumption DEF ProgressInv, TypeOK
<1>2. /\ UNCHANGED now
      /\ \A v \in Turns : v # u => turns'[v] = turns[v]
  BY <1>1 DEF TurnStep, ClaimItem, DiscardItem, CompleteItem, RenewLease, RenewFails,
              TurnEnds, TypeOK
<1>3. ASSUME turns'[t].item = turns[t].item, turns'[t].leaseUntil = turns[t].leaseUntil,
             turns'[t].owner = turns[t].owner,
             turns[t].item = i =>
                 items'[i] = items[i] \/ items'[i] = None \/ items'[i].status \in Outcome
      PROVE  LeaseStep(t, i)
  BY <1>1, <1>2, <1>3, LeaseKept DEF LeaseStep, LeaseInv, BelievesLease
<1>4. ASSUME NEW j \in ItemIds, NEW owner \in Owners, ClaimItem(u, j, owner)
      PROVE  LeaseStep(t, i)
  <2> DEFINE until == now + LeaseTime
             taken == [items[j] EXCEPT !.status = "running", !.owner = owner,
                                       !.availableAt = until]
  <2>1. /\ items' = [items EXCEPT ![j] = taken]
        /\ items[j] # None /\ items[j] \in Item /\ items[j].availableAt <= now
        /\ turns'[u].item = j /\ turns'[u].leaseUntil = until /\ turns'[u].owner = owner
    BY <1>1, <1>4 DEF ClaimItem, Oldest, Ready, TypeOK
  <2>2. /\ taken.status = "running" /\ taken.owner = owner
        /\ taken.availableAt = until
    BY <2>1 DEF Item
  <2>3. until \in Nat /\ until <= now' + LeaseTime
    BY <1>1, <1>2
  <2> HIDE DEF taken, until
  <2>4. items'[j] = taken /\ \A k \in ItemIds : k # j => items'[k] = items[k]
    BY <1>1, <2>1 DEF TypeOK
  <2>5. ASSUME NEW v \in Turns PROVE ~BelievesLease(v, j)
    <3>1. SUFFICES ASSUME BelievesLease(v, j) PROVE FALSE
      OBVIOUS
    <3>2. items[j].status \notin Outcome
      BY <1>4, <2>1, DoneNotReady DEF ClaimItem, Claimable, Oldest, IsDone
    <3>3. items[j].availableAt >= turns[v].leaseUntil /\ turns[v].leaseUntil > now
      BY <2>1, <3>1, <3>2 DEF LeaseInv, Leased, BelievesLease
    <3> QED BY <1>1, <2>1, <3>3 DEF Item, Turn
  <2>6. CASE t = u
    <3>1. turns'[t].item = i => Leased(t, i)'
      BY <2>1, <2>2, <2>3, <2>4, <2>6 DEF Leased
    <3>2. BelievesLease(t, i)' => \A v \in Turns : BelievesLease(v, i)' => v = t
      BY <1>2, <2>1, <2>5, <2>6 DEF BelievesLease
    <3> QED BY <2>6, <3>1, <3>2 DEF LeaseStep
  <2>7. CASE t # u /\ i = j
    BY <1>2, <2>5, <2>7 DEF LeaseStep, Leased, BelievesLease
  <2>8. CASE t # u /\ i # j
    BY <1>2, <1>3, <2>4, <2>8
  <2> QED BY <2>6, <2>7, <2>8
<1>5. ASSUME NEW j \in ItemIds, DiscardItem(u, j) PROVE LeaseStep(t, i)
  <2>1. items'[i] = items[i] \/ items'[i] = None
    BY <1>1, <1>5 DEF DiscardItem, TypeOK
  <2>2. /\ turns'[t].item = turns[t].item /\ turns'[t].leaseUntil = turns[t].leaseUntil
        /\ turns'[t].owner = turns[t].owner
    BY <1>1, <1>5 DEF DiscardItem, TypeOK, Turn
  <2> QED BY <1>3, <2>1, <2>2
<1>6. ASSUME turns'[t] = IdleTurn PROVE LeaseStep(t, i)
  <2>1. turns'[t].item # i /\ turns'[t].leaseUntil = 0
    BY <1>6, NoneAssumption DEF IdleTurn
  <2> QED BY <1>1, <1>2, <2>1 DEF LeaseStep, BelievesLease
<1>7. ASSUME NEW outcome \in Outcome, CompleteItem(u, outcome) PROVE LeaseStep(t, i)
  <2>1. PICK j \in ItemIds : turns[u].item = j
    BY <1>1, <1>7 DEF CompleteItem, Turn
  <2>2. /\ items'[j].status \in Outcome
        /\ \A k \in ItemIds : k # j => items'[k] = items[k]
        /\ turns'[u] = IdleTurn
    BY <1>1, <1>7, <2>1 DEF CompleteItem, TypeOK
  <2>3. CASE t = u
    BY <1>6, <2>2, <2>3
  <2>4. CASE t # u
    BY <1>2, <1>3, <2>2, <2>4
  <2> QED BY <2>3, <2>4
<1>8. CASE RenewLease(u)
  <2>1. PICK j \in ItemIds : turns[u].item = j
    BY <1>1, <1>8 DEF RenewLease, Turn
  <2> DEFINE until == now + LeaseTime
             renewed == [items[j] EXCEPT !.availableAt = until]
  <2>2. /\ Holds(u, j)
        /\ items' = [items EXCEPT ![j] = renewed]
        /\ turns'[u].item = j /\ turns'[u].leaseUntil = until
        /\ turns'[u].owner = turns[u].owner
        /\ items[j] \in Item
    BY <1>1, <1>8, <2>1 DEF RenewLease, Holds, TypeOK, Turn
  <2>3. /\ renewed.status = "running" /\ renewed.owner = turns[u].owner
        /\ renewed.availableAt = until
    BY <2>2 DEF Item, Holds
  <2>4. /\ until \in Nat /\ until <= now' + LeaseTime
        /\ \A v \in Turns : BelievesLease(v, j) => turns[v].leaseUntil <= until
    BY <1>1, <1>2 DEF LeaseInv, Leased, BelievesLease
  <2> HIDE DEF renewed, until
  <2>5. items'[j] = renewed /\ \A k \in ItemIds : k # j => items'[k] = items[k]
    BY <1>1, <2>2 DEF TypeOK
  <2>6. ASSUME NEW v \in Turns, BelievesLease(v, j) PROVE turns[v].owner = turns[u].owner
    <3>1. Leased(v, j) /\ items[j] # None /\ items[j].owner = turns[u].owner
          /\ items[j].status = "running"
      BY <2>2, <2>6 DEF LeaseInv, BelievesLease, Holds
    <3> QED BY <2>6, <3>1 DEF Leased, Outcome
  <2>7. ASSUME NEW v \in Turns, BelievesLease(v, j)' PROVE v = u \/ BelievesLease(v, j)
    BY <1>2, <2>7 DEF BelievesLease
  <2>8. CASE t = u
    <3>1. turns'[t].item = i => Leased(t, i)'
      BY <2>2, <2>3, <2>4, <2>5, <2>8 DEF Leased
    <3>2. BelievesLease(t, i)' =>
              \A v \in Turns : BelievesLease(v, i)' => turns'[v].owner = turns'[t].owner
      BY <1>2, <2>2, <2>6, <2>7, <2>8 DEF BelievesLease
    <3> QED BY <2>8, <3>1, <3>2 DEF LeaseStep
  <2>9. CASE t # u /\ i = j
    <3>1. turns'[t] = turns[t] /\ UNCHANGED now
      BY <1>2, <2>9
    <3>2. BelievesLease(t, i)' <=> BelievesLease(t, i)
      BY <3>1 DEF BelievesLease
    <3>3. turns'[t].item = i => Leased(t, i)'
      BY <1>1, <2>3, <2>4, <2>5, <2>6, <2>9, <3>1, <3>2 DEF Leased, Turn
    <3> QED BY <3>1, <3>2, <3>3 DEF LeaseStep
  <2>10. CASE t # u /\ i # j
    BY <1>2, <1>3, <2>5, <2>10
  <2> QED BY <2>8, <2>9, <2>10
<1>9. CASE RenewFails(u)
  <2>1. /\ UNCHANGED items
        /\ turns'[t].item = turns[t].item /\ turns'[t].leaseUntil = turns[t].leaseUntil
        /\ turns'[t].owner = turns[t].owner
    BY <1>1, <1>9 DEF RenewFails, documents, TypeOK, Turn
  <2> QED BY <1>3, <2>1
<1>10. CASE TurnEnds(u)
  <2>1. UNCHANGED items /\ turns'[u] = IdleTurn
    BY <1>1, <1>10 DEF TurnEnds, documents, TypeOK
  <2>2. CASE t = u
    BY <1>6, <2>1, <2>2
  <2>3. CASE t # u
    BY <1>2, <1>3, <2>1, <2>3
  <2> QED BY <2>2, <2>3
<1> QED BY <1>4, <1>5, <1>7, <1>8, <1>9, <1>10 DEF TurnStep

LEMMA NextLease ==
    ASSUME ProgressInv, LeaseInv, LeaseOfOneTask, [Next]_vars
    PROVE  LeaseInv' /\ LeaseOfOneTask'
<1>1. TypeOK /\ TypeOK'
  BY NextType DEF ProgressInv
<1>2. ASSUME NEW t \in Turns, NEW i \in ItemIds PROVE LeaseStep(t, i)
  <2>1. ASSUME UNCHANGED turns, now <= now', turns[t].item = i,
               items'[i] = items[i] \/ items'[i] = None
        PROVE  LeaseStep(t, i)
    BY <1>1, <2>1, LeaseKept DEF LeaseStep, LeaseInv
  <2>2. ASSUME turns[t].item # i, UNCHANGED turns PROVE LeaseStep(t, i)
    BY <2>2 DEF LeaseStep, BelievesLease
  <2>3. ASSUME NEW c \in Callers, CallStep(c) PROVE LeaseStep(t, i)
    <3>0. UNCHANGED <<now, turns>>
      BY <2>3 DEF CallStep, OpenSearch, RepeatSearch, ReadSearch, WriteItems, CallFails
    <3>1. UNCHANGED turns /\ now <= now'
      BY <1>1, <3>0 DEF TypeOK
    <3>2. ASSUME turns[t].item = i PROVE items'[i] = items[i] \/ items'[i] = None
      <4>1. Written(i)
        BY <3>2 DEF LeaseInv
      <4>2. ASSUME WriteItems(c) PROVE items'[i] = items[i]
        <5>1. calls[c].search = i[1] => i[2] < calls[c].next
          BY <4>1, <4>2 DEF Written, WriteItems, Active
        <5>2. calls[c].next \in Nat /\ i[2] \in Int
          BY <1>1, BoundsAssumption DEF TypeOK, Call, ItemIds, Positions
        <5> QED BY <4>2, <5>1, <5>2 DEF WriteItems
      <4> QED BY <2>3, <4>2 DEF CallStep, OpenSearch, RepeatSearch, ReadSearch, CallFails, documents
    <3> QED BY <2>1, <2>2, <3>1, <3>2
  <2>4. ASSUME NEW k \in Keys, NEW s \in SearchIds, CancelSearch(k, s) PROVE LeaseStep(t, i)
    <3>1. UNCHANGED <<now, items, turns>> /\ now <= now'
      BY <1>1, <2>4 DEF CancelSearch, TypeOK
    <3> QED BY <2>1, <2>2, <3>1
  <2>5. ASSUME NEW u \in Turns, TurnStep(u) PROVE LeaseStep(t, i)
    BY <1>1, <2>5, TurnLease
  <2>6. CASE Expiry
    <3>1. /\ UNCHANGED turns /\ now <= now'
          /\ items'[i] = items[i] \/ items'[i] = None
      BY <1>1, <2>6 DEF Expiry, Tick, ExpireSearch, ExpireItem, ExpireOffers, ExpireRequest,
                        documents, TypeOK
    <3> QED BY <2>1, <2>2, <3>1
  <2>7. CASE UNCHANGED vars
    <3>1. UNCHANGED <<now, items, turns>> /\ now <= now'
      BY <1>1, <2>7 DEF vars, documents, TypeOK
    <3> QED BY <2>1, <2>2, <3>1
  <2> QED BY <2>3, <2>4, <2>5, <2>6, <2>7 DEF Next
<1>3. LeaseInv'
  <2>1. ASSUME NEW t \in Turns, NEW i \in ItemIds, turns'[t].item = i
        PROVE  Written(i)'
    <3>1. CASE turns[t].item = i
      BY <3>1, WrittenStays DEF LeaseInv
    <3>2. CASE turns[t].item # i
      <4>1. PICK u \in Turns : TurnStep(u)
        <5>1. turns' # turns
          BY <2>1, <3>2
        <5> QED BY <5>1 DEF Next, CallStep, OpenSearch, RepeatSearch, ReadSearch, WriteItems,
                    CallFails, CancelSearch, Expiry, Tick, ExpireSearch, ExpireItem,
                    ExpireOffers, ExpireRequest, vars
      <4>2. \E owner \in Owners : ClaimItem(u, i, owner)
        <5>1. ASSUME NEW j \in ItemIds, NEW owner \in Owners, ClaimItem(u, j, owner) PROVE j = i
          BY <1>1, <2>1, <3>2, <5>1 DEF ClaimItem, TypeOK
        <5>2. ASSUME NEW j \in ItemIds, DiscardItem(u, j) PROVE FALSE
          BY <1>1, <2>1, <3>2, <5>2 DEF DiscardItem, TypeOK, Turn
        <5>3. ASSUME RenewLease(u) \/ RenewFails(u) PROVE FALSE
          BY <1>1, <2>1, <3>2, <5>3 DEF RenewLease, RenewFails, TypeOK, Turn
        <5>4. ASSUME TurnEnds(u) \/ \E outcome \in Outcome : CompleteItem(u, outcome)
              PROVE  FALSE
          <6>1. turns' = [turns EXCEPT ![u] = IdleTurn]
            BY <5>4 DEF TurnEnds, CompleteItem
          <6>2. IdleTurn.item # i
            BY NoneAssumption DEF IdleTurn
          <6> QED BY <1>1, <2>1, <3>2, <6>1, <6>2 DEF TypeOK
        <5> QED BY <4>1, <5>1, <5>2, <5>3, <5>4 DEF TurnStep
      <4>3. items[i] # None
        BY <4>2 DEF ClaimItem, Oldest, Ready
      <4> QED BY <4>3, ItemsWritten, WrittenStays
    <3> QED BY <3>1, <3>2
  <2> QED BY <1>2, <2>1 DEF LeaseInv, LeaseStep
<1>4. LeaseOfOneTask'
  BY <1>2 DEF LeaseOfOneTask, LeaseStep
<1> QED BY <1>3, <1>4

(* Turns that believe they hold an item at the same moment are deliveries  *)
(* of one task, for any lease, any number of deliveries of a task and any   *)
(* interleaving of claims, renewals, completions and deletions.            *)
THEOREM LeaseCorrect == Spec => []LeaseOfOneTask
<1>1. Init => LeaseInv /\ LeaseOfOneTask
  BY InitLease
<1>2. ProgressInv /\ LeaseInv /\ LeaseOfOneTask /\ [Next]_vars => (LeaseInv /\ LeaseOfOneTask)'
  BY NextLease
<1> QED BY <1>1, <1>2, ProgressInvariant, PTL DEF Spec

-----------------------------------------------------------------------------
(* The log a client reads                                                  *)

(* An item that was ever claimed belongs to a search that left the queue:  *)
(* its transaction wrote both.                                             *)
StartedAgrees ==
    \A i \in ItemIds :
        items[i] # None /\ items[i].status # "pending" /\ searches[i[1]] # None =>
            searches[i[1]].status # "queued"

LogInv == ProgressInv /\ StartedAgrees

(* A step that leaves what a client reads of s as it was.                  *)
Same(s) == Phase(s)' = Phase(s) /\ Size(s)' = Size(s) /\ Results(s)' = Results(s)

-----------------------------------------------------------------------------
(* The images of the state                                                 *)

(* The results of a search are as many as its done items: no two items of  *)
(* a search share a position.                                              *)
LEMMA ResultsCounted ==
    ASSUME NEW s \in SearchIds, Live(s), IsFiniteSet(Done(s))
    PROVE  IsFiniteSet(Results(s)) /\ Cardinality(Results(s)) = Cardinality(Done(s))
<1> DEFINE Entry(i) == [sequence |-> items[i].sequence, position |-> i[2],
                        outcome |-> items[i].status]
           f == [i \in Done(s) |-> Entry(i)]
<1>1. Results(s) = {Entry(i) : i \in Done(s)}
  BY DEF Results
<1>2. ASSUME NEW i \in Done(s), NEW j \in Done(s), f[i] = f[j]
      PROVE  i = j
  <2>1. i \in ItemIds /\ j \in ItemIds /\ i[1] = s /\ j[1] = s
    BY DoneMembers
  <2>2. Entry(i) = Entry(j)
    BY <1>2
  <2>3. i[2] = j[2]
    BY <2>2
  <2> QED BY <2>1, <2>3 DEF ItemIds
<1>3. f \in Surjection(Done(s), Results(s))
  BY <1>1 DEF Surjection
<1>4. f \in Injection(Done(s), Results(s))
  BY <1>2, <1>3 DEF Injection, Surjection, IsInjective
<1> HIDE DEF f
<1> QED BY <1>3, <1>4, FS_Surjection

LEMMA ResultsSame ==
    ASSUME NEW s \in SearchIds, Live(s)' <=> Live(s), ResultsKept(s)
    PROVE  Results(s)' = Results(s)
<1>1. Done(s)' = Done(s)
  <2>1. \A i : i \in Done(s)' <=> i \in ItemIds /\ i[1] = s /\ IsDone(i)'
    BY DEF Done, ItemsOf, IsDone
  <2>2. \A i \in ItemIds : i[1] = s => (IsDone(i)' <=> IsDone(i))
    BY DEF ResultsKept, IsDone
  <2>3. \A i : i \in Done(s)' <=> i \in Done(s)
    BY <2>1, <2>2, DoneMembers
  <2> QED BY <2>3
<1>2. \A i \in Done(s) : items'[i] = items[i]
  BY DoneMembers DEF ResultsKept
<1> QED BY <1>1, <1>2 DEF Results

LEMMA SameWhenKept ==
    ASSUME NEW s \in SearchIds, madeBy'[s] = madeBy[s], Live(s)' <=> Live(s),
           Live(s) => /\ searches'[s].status = searches[s].status
                      /\ searches'[s].total = searches[s].total
                      /\ ResultsKept(s)
    PROVE  Same(s)
<1>1. Phase(s)' = Phase(s) /\ Size(s)' = Size(s)
  BY DEF Phase, Size
<1>2. Results(s)' = Results(s)
  <2>1. CASE Live(s)
    BY <2>1, ResultsSame
  <2>2. CASE ~Live(s)
    BY <2>2 DEF Results
  <2> QED BY <2>1, <2>2
<1> QED BY <1>1, <1>2 DEF Same

(* The log counts as the store does.                                       *)
LEMMA SameCount == \A S : Log!Cardinality(S) = Cardinality(S)
BY DEF Log!Cardinality, Cardinality

LEMMA AllSame ==
    ASSUME \A s \in SearchIds : Same(s)
    PROVE  UNCHANGED Log!logVars
BY DEF Log!logVars, Same

-----------------------------------------------------------------------------
(* Each step maps to a step of the log or to none                          *)

LEMMA OpenSearchLogs ==
    ASSUME LogInv, NEW c \in Callers, NEW k \in Keys, NEW p \in Payloads,
           OpenSearch(c, k, p)
    PROVE  Log!Next /\ StartedAgrees'
<1> USE DEF LogInv, ProgressInv
<1>1. PICK s \in SearchIds :
        /\ madeBy[s] = None
        /\ searches' = [searches EXCEPT ![s] = NewSearch(p)]
        /\ madeBy' = [madeBy EXCEPT ![s] = k]
        /\ UNCHANGED <<now, items>>
  BY DEF OpenSearch
<1>2. searches[s] = None /\ \A i \in ItemIds : i[1] = s => items[i] = None
  BY <1>1 DEF UndrawnIsAbsent
<1>3. /\ searches'[s] = NewSearch(p) /\ madeBy'[s] = k /\ k # None
      /\ \A r \in SearchIds : r # s => searches'[r] = searches[r] /\ madeBy'[r] = madeBy[r]
  BY <1>1, NoneAssumption DEF TypeOK
<1>4. /\ NewSearch(p) # None /\ NewSearch(p).status = "queued"
      /\ NewSearch(p).total = Cards[p] /\ NewSearch(p).expiresAt = now + Ttl
      /\ now \in Nat
  <2>1. NewSearch(p) \in Search
    BY BoundsAssumption, DataAssumption
       DEF NewSearch, Search, JobStatus, OpenStatus, TypeOK
  <2> QED BY <2>1, NoneAssumption DEF NewSearch, TypeOK
<1>5. \A r \in SearchIds : r # s => Same(r)
  <2> SUFFICES ASSUME NEW r \in SearchIds, r # s PROVE Same(r)
    OBVIOUS
  <2>1. Live(r)' <=> Live(r)
    BY <1>1, <1>3 DEF Live, Lapsed
  <2>2. ResultsKept(r)
    BY <1>1 DEF ResultsKept, IsDone
  <2> QED BY <1>3, <2>1, <2>2, SameWhenKept
<1>6. Live(s)'
  BY <1>1, <1>3, <1>4, BoundsAssumption DEF Live, Lapsed
<1>7. Phase(s) = "unborn" /\ Results(s) = {}
  BY <1>1, <1>2 DEF Phase, Results, Live
<1>8. Phase(s)' = "queued" /\ Size(s)' = Cards[p]
  BY <1>3, <1>4, <1>6, NoneAssumption DEF Phase, Size
<1>9. Results(s)' = {}
  <2>1. Done(s)' = {}
    BY <1>1, <1>2 DEF Done, ItemsOf
  <2> QED BY <2>1 DEF Results
<1>10. Log!OpenSearch(s, Cards[p])
  BY <1>5, <1>7, <1>8, <1>9 DEF Log!OpenSearch, Same
<1>11. Log!Next
  <2>1. Cards[p] \in 1..MaxCards
    BY DataAssumption
  <2> QED BY <1>10, <2>1 DEF Log!Next
<1>12. StartedAgrees'
  <2> SUFFICES ASSUME NEW i \in ItemIds, items[i] # None, items[i].status # "pending",
                      searches'[i[1]] # None
               PROVE  searches'[i[1]].status # "queued"
    BY <1>1 DEF StartedAgrees
  <2>1. i[1] \in SearchIds /\ i[1] # s
    BY <1>2 DEF ItemIds
  <2> QED BY <1>3, <2>1 DEF StartedAgrees
<1> QED BY <1>11, <1>12

(* A claim starts a queued search and is not seen on a running one; it     *)
(* never meets a finished one, because the item it takes has no result.    *)
LEMMA ClaimItemLogs ==
    ASSUME LogInv, NEW t \in Turns, NEW i \in ItemIds, NEW owner \in Owners,
           ClaimItem(t, i, owner)
    PROVE  (Log!Next \/ UNCHANGED Log!logVars) /\ StartedAgrees'
<1> USE DEF LogInv, ProgressInv
<1> DEFINE s == i[1]
           job == [searches[s] EXCEPT !.status = "running"]
           taken == [items[i] EXCEPT !.status = "running", !.owner = owner,
                                     !.availableAt = now + LeaseTime]
<1>1. /\ UNCHANGED <<now, madeBy>>
      /\ items' = [items EXCEPT ![i] = taken]
      /\ searches' = [searches EXCEPT ![s] = job]
  BY DEF ClaimItem
<1>2. /\ s \in SearchIds /\ Live(s)
      /\ searches[s] # None /\ searches[s] \in Search
      /\ searches[s].status # "cancelled"
      /\ i \in Ready /\ items[i] # None /\ items[i] \in Item
  BY DEF ClaimItem, Claimable, Oldest, Ready, Live, ItemIds, TypeOK
<1>3. /\ job \in Search
      /\ job.status = "running"
      /\ job.total = searches[s].total /\ job.expiresAt = searches[s].expiresAt
  BY <1>2 DEF Search, JobStatus, OpenStatus
<1>4. taken.status = "running"
  BY <1>2 DEF Item
<1> HIDE DEF job, taken
<1>5. /\ searches'[s] = job
      /\ \A r \in SearchIds : /\ r # s => searches'[r] = searches[r]
                              /\ Live(r)' <=> Live(r)
  BY <1>1, <1>2, <1>3, JobChanged
<1>6. items'[i] = taken /\ \A j \in ItemIds : j # i => items'[j] = items[j]
  BY <1>1 DEF TypeOK
<1>7. ~IsDone(i) /\ ~IsDone(i)'
  BY <1>2, <1>4, <1>6, DoneNotReady DEF IsDone, Outcome
<1>8. \A r \in SearchIds : ResultsKept(r)
  BY <1>6, <1>7 DEF ResultsKept
<1>9. searches[s].status \in OpenStatus
  <2>1. /\ searches[s].processed = Cardinality(Done(s))
        /\ Cardinality(Done(s)) \in Nat
        /\ Cardinality(Done(s)) < searches[s].total
    BY <1>2, <1>7, DoneBound DEF ProgressMatchesResults, CountersMatch
  <2>2. searches[s].processed # searches[s].total
    BY <1>2, <2>1, BoundsAssumption DEF Search
  <2>3. searches[s].status \notin FinishedStatus
    BY <1>2, <2>2 DEF StatusAgrees
  <2> QED BY <1>2, <2>3 DEF Search, JobStatus
<1>10. \A r \in SearchIds : r # s => Same(r)
  BY <1>1, <1>5, <1>8, SameWhenKept
<1>11. ASSUME searches[s].status = "running"
       PROVE  UNCHANGED Log!logVars
  <2>1. Same(s)
    BY <1>1, <1>2, <1>3, <1>5, <1>8, <1>11, SameWhenKept
  <2> QED BY <1>10, <2>1, AllSame
<1>12. ASSUME searches[s].status = "queued"
       PROVE  Log!Next
  <2>1. madeBy[s] # None
    BY <1>2 DEF UndrawnIsAbsent
  <2>2. Phase(s) = "queued" /\ Phase(s)' = "running"
    BY <1>1, <1>2, <1>3, <1>5, <1>12, <2>1 DEF Phase
  <2>3. Size(s)' = Size(s) /\ Results(s)' = Results(s)
    BY <1>2, <1>3, <1>5, <1>8, ResultsSame DEF Size
  <2>4. Log!Start(s)
    BY <1>2, <1>10, <2>2, <2>3 DEF Log!Start, Same
  <2> QED BY <1>2, <2>4 DEF Log!Next
<1>13. StartedAgrees'
  <2> SUFFICES ASSUME NEW j \in ItemIds, items'[j] # None, items'[j].status # "pending",
                      searches'[j[1]] # None
               PROVE  searches'[j[1]].status # "queued"
    BY DEF StartedAgrees
  <2>1. j[1] \in SearchIds
    BY DEF ItemIds
  <2>2. CASE j[1] = s
    BY <1>3, <1>5, <2>2
  <2>3. CASE j[1] # s
    BY <1>5, <1>6, <2>1, <2>3 DEF StartedAgrees
  <2> QED BY <2>2, <2>3
<1> QED BY <1>9, <1>11, <1>12, <1>13 DEF OpenStatus

LEMMA CancelSearchLogs ==
    ASSUME LogInv, NEW k \in Keys, NEW s \in SearchIds, CancelSearch(k, s)
    PROVE  Log!Next /\ StartedAgrees'
<1> USE DEF LogInv, ProgressInv
<1> DEFINE job == [searches[s] EXCEPT !.status = "cancelled"]
<1>1. UNCHANGED <<now, items, madeBy>> /\ searches' = [searches EXCEPT ![s] = job]
  BY DEF CancelSearch
<1>2. /\ Live(s) /\ searches[s].status \in OpenStatus
      /\ searches[s] # None /\ searches[s] \in Search
  BY DEF CancelSearch, Live, TypeOK
<1>3. /\ job \in Search
      /\ job.status = "cancelled"
      /\ job.total = searches[s].total /\ job.expiresAt = searches[s].expiresAt
  BY <1>2 DEF Search, JobStatus
<1> HIDE DEF job
<1>4. /\ searches'[s] = job
      /\ \A r \in SearchIds : /\ r # s => searches'[r] = searches[r]
                              /\ Live(r)' <=> Live(r)
  BY <1>1, <1>2, <1>3, JobChanged
<1>5. \A r \in SearchIds : ResultsKept(r)
  BY <1>1 DEF ResultsKept, IsDone
<1>6. \A r \in SearchIds : r # s => Same(r)
  BY <1>1, <1>4, <1>5, SameWhenKept
<1>7. madeBy[s] # None
  BY <1>2 DEF UndrawnIsAbsent
<1>8. Phase(s) \in OpenStatus /\ Phase(s)' = "cancelled"
  BY <1>1, <1>2, <1>3, <1>4, <1>7 DEF Phase
<1>9. Size(s)' = Size(s) /\ Results(s)' = Results(s)
  BY <1>2, <1>3, <1>4, <1>5, ResultsSame DEF Size
<1>10. Log!Cancel(s)
  BY <1>6, <1>8, <1>9 DEF Log!Cancel, Log!Open, OpenStatus, Same
<1>11. StartedAgrees'
  BY <1>1, <1>3, <1>4 DEF StartedAgrees, ItemIds
<1> QED BY <1>10, <1>11 DEF Log!Next

(* The completing transaction is the step that appends: its sequence is    *)
(* the next place of the log, its card had no result yet, and the last     *)
(* card closes the search with the status the whole log calls for.         *)
LEMMA CompleteItemLogs ==
    ASSUME LogInv, TypeOK', NEW t \in Turns, NEW outcome \in Outcome,
           CompleteItem(t, outcome)
    PROVE  Log!Next /\ StartedAgrees'
<1> USE DEF LogInv, ProgressInv
<1>a. PICK i \in ItemIds : i = turns[t].item
  BY DEF CompleteItem, Turn, TypeOK
<1>b. PICK s \in SearchIds : s = i[1]
  BY DEF ItemIds
<1> DEFINE job == AddResult(searches[s], outcome)
           done == [status |-> outcome, owner |-> None,
                    sequence |-> searches[s].processed + 1,
                    availableAt |-> ParkedUntil(i), expiresAt |-> items[i].expiresAt]
           entry == [sequence |-> Cardinality(Results(s)) + 1, position |-> i[2],
                     outcome |-> outcome]
           after == Results(s) \union {entry}
<1>1. /\ UNCHANGED <<now, madeBy>>
      /\ items' = [items EXCEPT ![i] = done]
      /\ searches' = [searches EXCEPT ![s] = job]
  BY <1>a, <1>b DEF CompleteItem
<1>2. /\ items[i] # None /\ items[i].status = "running" /\ ~IsDone(i)
      /\ Live(s) /\ searches[s] # None /\ searches[s] \in Search
  BY <1>a, <1>b DEF CompleteItem, Holds, IsDone, Outcome, Live, TypeOK
<1>3. /\ job \in Search
      /\ job.total = searches[s].total /\ job.expiresAt = searches[s].expiresAt
      /\ job.processed = searches[s].processed + 1
      /\ job.errors = Tally(searches[s].errors, outcome = "source_error")
      /\ job.status = IF job.processed = job.total /\ searches[s].status # "cancelled"
                      THEN FinalStatus(job.errors, outcome)
                      ELSE searches[s].status
  BY <1>2, ResultType
<1>4. /\ done.status = outcome
      /\ done.sequence = searches[s].processed + 1
  OBVIOUS
<1> HIDE DEF job, done
<1>5. /\ searches'[s] = job
      /\ \A r \in SearchIds : /\ r # s => searches'[r] = searches[r]
                              /\ Live(r)' <=> Live(r)
  BY <1>1, <1>2, <1>3, JobChanged
<1>6. items'[i] = done /\ \A j \in ItemIds : j # i => items'[j] = items[j]
  BY <1>1 DEF TypeOK
<1>7. \A r \in SearchIds : r # s => Same(r)
  <2> SUFFICES ASSUME NEW r \in SearchIds, r # s PROVE Same(r)
    OBVIOUS
  <2>1. ResultsKept(r)
    BY <1>b, <1>6 DEF ResultsKept
  <2> QED BY <1>1, <1>5, <2>1, SameWhenKept
<1>8. /\ IsFiniteSet(Done(s))
      /\ Cardinality(Done(s)) \in Nat
      /\ Cardinality(Done(s)) < searches[s].total
      /\ searches[s].processed = Cardinality(Done(s))
  BY <1>b, <1>2, DoneBound DEF ProgressMatchesResults, CountersMatch
<1>9. /\ i \notin Done(s)
      /\ Done(s)' = Done(s) \union {i}
      /\ \A o \in Outcome : CountOf(s, o)' = Tally(CountOf(s, o), items'[i].status = o)
  <2>1. items'[i] # None
    <3>1. items'[i] \in Item \union {None}
      BY DEF TypeOK
    <3>2. done # None
      <4>1. done \in Item
        BY <1>2, BoundsAssumption DEF done, Item, ItemStatus, Search, ParkedUntil, TypeOK
      <4> QED BY <4>1, NoneAssumption
    <3> QED BY <1>6, <3>2
  <2>2. IsDone(i)'
    BY <1>4, <1>6, <2>1 DEF IsDone
  <2> QED BY <1>b, <1>2, <1>6, <1>8, <2>2, CountAdded
<1>10. IsFiniteSet(Results(s)) /\ Cardinality(Results(s)) = searches[s].processed
  BY <1>2, <1>8, ResultsCounted
<1>11. Results(s)' = after
  <2>1. \A j \in Done(s) : items'[j] = items[j]
    BY <1>6, <1>9, DoneMembers
  <2>2. entry = [sequence |-> items'[i].sequence, position |-> i[2],
                 outcome |-> items'[i].status]
    BY <1>4, <1>6, <1>10
  <2> HIDE DEF entry
  <2>3. Live(s)'
    BY <1>2, <1>5
  <2> QED BY <1>2, <1>9, <2>1, <2>2, <2>3 DEF Results
<1>12. \A e \in Results(s) : e.position # i[2]
  <2> SUFFICES ASSUME NEW j \in Done(s), j[2] = i[2]
               PROVE  FALSE
    BY <1>2 DEF Results
  <2>1. j \in ItemIds /\ j[1] = i[1]
    BY <1>b, DoneMembers
  <2> QED BY <1>9, <2>1 DEF ItemIds
<1>13. Cardinality(after) = job.processed
  <2>1. entry \notin Results(s)
    BY <1>12
  <2> HIDE DEF entry
  <2>2. Cardinality(after) = Cardinality(Results(s)) + 1
    BY <1>10, <2>1, FS_AddElement
  <2> QED BY <1>3, <1>10, <2>2
<1>14. (\E e \in after : e.outcome = "source_error") <=> job.errors > 0
  <2> DEFINE faulty == {j \in Done(s) : items[j].status = "source_error"}
  <2>1. searches[s].errors = Cardinality(faulty)
    BY <1>2 DEF ProgressMatchesResults, CountersMatch
  <2>2. Cardinality(faulty) \in Nat /\ (Cardinality(faulty) > 0 <=> faulty # {})
    <3>1. IsFiniteSet(faulty)
      BY <1>8, FS_Subset
    <3> QED BY <3>1, FS_EmptySet, FS_CardinalityType
  <2>3. (\E e \in Results(s) : e.outcome = "source_error") <=> faulty # {}
    <3>1. ASSUME NEW j \in faulty PROVE \E e \in Results(s) : e.outcome = "source_error"
      <4> DEFINE e == [sequence |-> items[j].sequence, position |-> j[2],
                       outcome |-> items[j].status]
      <4>1. e \in Results(s) /\ e.outcome = "source_error"
        BY <1>2 DEF Results
      <4> QED BY <4>1
    <3>2. ASSUME NEW e \in Results(s), e.outcome = "source_error" PROVE faulty # {}
      <4>1. PICK j \in Done(s) : e = [sequence |-> items[j].sequence, position |-> j[2],
                                      outcome |-> items[j].status]
        BY <1>2 DEF Results
      <4> QED BY <3>2, <4>1
    <3> QED BY <3>1, <3>2
  <2>4. job.errors > 0 <=> searches[s].errors > 0 \/ outcome = "source_error"
    BY <1>3, <2>1, <2>2 DEF Tally
  <2>5. (\E e \in after : e.outcome = "source_error")
        <=> (\E e \in Results(s) : e.outcome = "source_error") \/ outcome = "source_error"
    <3>1. entry.outcome = outcome
      OBVIOUS
    <3> HIDE DEF entry
    <3> QED BY <3>1
  <2> QED BY <2>1, <2>2, <2>3, <2>4, <2>5
<1>15. madeBy[s] # None
  BY <1>2 DEF UndrawnIsAbsent
<1>16. searches[s].status \in {"running", "cancelled"}
  <2>1. searches[s].status # "queued"
    BY <1>b, <1>2 DEF StartedAgrees
  <2>2. searches[s].status # "cancelled" => searches[s].status \notin FinishedStatus
    BY <1>2, <1>8 DEF StatusAgrees
  <2> QED BY <1>2, <2>1, <2>2 DEF Search, JobStatus, OpenStatus
<1>17. /\ Phase(s) = searches[s].status /\ Phase(s)' = job.status
       /\ Size(s) = searches[s].total /\ Size(s)' = Size(s)
  BY <1>1, <1>2, <1>3, <1>5, <1>15 DEF Phase, Size
<1>18. Phase(s)' = IF Phase(s) = "running" /\ Cardinality(after) = Size(s)
                   THEN IF \E e \in after : e.outcome = "source_error"
                        THEN "completed_with_errors" ELSE "completed"
                   ELSE Phase(s)
  BY <1>3, <1>13, <1>14, <1>16, <1>17 DEF FinalStatus
<1>19. i[2] \in 0..(MaxCards - 1) /\ i[2] < Size(s)
  BY <1>b, <1>2, <1>17 DEF ItemIds, Positions, ItemsAgree, ItemAgrees
<1>20. Log!AddResult(s, i[2], outcome)
  <2>1. entry = [sequence |-> Log!Cardinality(Results(s)) + 1, position |-> i[2],
                 outcome |-> outcome]
    BY SameCount
  <2>2. Phase(s) \in {"running", "cancelled"}
    BY <1>16, <1>17
  <2>3. Log!Cardinality(after) = Cardinality(after)
    BY SameCount
  <2> HIDE DEF entry
  <2> QED BY <1>7, <1>11, <1>12, <1>17, <1>18, <1>19, <2>1, <2>2, <2>3 DEF Log!AddResult, Same
<1>21. Log!Next
  BY <1>19, <1>20 DEF Log!Next, Log!Outcomes, Outcome
<1>22. StartedAgrees'
  <2> SUFFICES ASSUME NEW j \in ItemIds, items'[j] # None, items'[j].status # "pending",
                      searches'[j[1]] # None
               PROVE  searches'[j[1]].status # "queued"
    BY DEF StartedAgrees
  <2>1. j[1] \in SearchIds
    BY DEF ItemIds
  <2>2. CASE j[1] = s
    BY <1>3, <1>5, <1>16, <2>2 DEF FinalStatus
  <2>3. CASE j[1] # s
    BY <1>b, <1>5, <1>6, <2>1, <2>3 DEF StartedAgrees
  <2> QED BY <2>2, <2>3
<1> QED BY <1>21, <1>22

(* What no client reads yet: the steps of a call after its transaction,    *)
(* and the rest of a turn.                                                 *)
LEMMA QuietLogs ==
    ASSUME LogInv, UNCHANGED <<now, searches, madeBy>>,
           \A s \in SearchIds : Live(s) => ResultsKept(s),
           \A i \in ItemIds : /\ items'[i] # None
                              /\ items'[i].status # "pending"
                              => items[i] # None /\ items[i].status # "pending"
    PROVE  UNCHANGED Log!logVars /\ StartedAgrees'
<1>1. \A s \in SearchIds : Live(s)' <=> Live(s)
  BY DEF Live, Lapsed
<1>2. \A s \in SearchIds : Same(s)
  BY <1>1, SameWhenKept
<1>3. StartedAgrees'
  BY DEF LogInv, StartedAgrees
<1> QED BY <1>2, <1>3, AllSame

LEMMA CallMemoryLogs ==
    ASSUME LogInv, UNCHANGED <<now, searches, items, madeBy>>
    PROVE  UNCHANGED Log!logVars /\ StartedAgrees'
<1>1. \A s \in SearchIds : ResultsKept(s)
  BY DEF ResultsKept, IsDone
<1> QED BY <1>1, QuietLogs

LEMMA WriteItemsLogs ==
    ASSUME LogInv, NEW c \in Callers, WriteItems(c)
    PROVE  UNCHANGED Log!logVars /\ StartedAgrees'
<1> DEFINE item == [status |-> "pending", owner |-> None, sequence |-> 0,
                    availableAt |-> calls[c].createdAt, expiresAt |-> calls[c].expiresAt]
<1>1. UNCHANGED <<now, searches, madeBy>>
  BY DEF WriteItems
<1>2. CallAgrees(c) /\ calls[c] \in Call
  BY DEF LogInv, ProgressInv, CallsAgree, Active, WriteItems, TypeOK
<1>3. \A i \in ItemIds : items'[i] = items[i] \/ (items[i] = None /\ items'[i] = item)
  BY <1>2 DEF WriteItems, CallAgrees
<1>4. item.status = "pending"
  OBVIOUS
<1> HIDE DEF item
<1>5. \A s \in SearchIds : ResultsKept(s)
  BY <1>3, <1>4 DEF ResultsKept, IsDone, Outcome
<1> QED BY <1>1, <1>3, <1>4, <1>5, QuietLogs

LEMMA RenewLeaseLogs ==
    ASSUME LogInv, NEW t \in Turns, RenewLease(t)
    PROVE  UNCHANGED Log!logVars /\ StartedAgrees'
<1> DEFINE i == turns[t].item
           renewed == [items[i] EXCEPT !.availableAt = now + LeaseTime]
<1>1. UNCHANGED <<now, searches, madeBy>>
  BY DEF RenewLease
<1>2. /\ items \in [ItemIds -> Item \union {None}]
      /\ i \in ItemIds
      /\ items[i] # None /\ items[i] \in Item
      /\ items[i].status = "running"
      /\ items' = [items EXCEPT ![i] = renewed]
  BY DEF RenewLease, Holds, Turn, TypeOK, LogInv, ProgressInv
<1>3. renewed.status = "running"
  BY <1>2 DEF Item
<1> HIDE DEF renewed, i
<1>4. items'[i] = renewed /\ \A j \in ItemIds : j # i => items'[j] = items[j]
  BY <1>2
<1>5. \A s \in SearchIds : ResultsKept(s)
  BY <1>2, <1>3, <1>4 DEF ResultsKept, IsDone, Outcome
<1> QED BY <1>1, <1>2, <1>4, <1>5, QuietLogs

(* A refused item is one no client reads a result of.                      *)
LEMMA DiscardItemLogs ==
    ASSUME LogInv, NEW t \in Turns, NEW i \in ItemIds, DiscardItem(t, i)
    PROVE  UNCHANGED Log!logVars /\ StartedAgrees'
<1>1. UNCHANGED <<now, searches, madeBy>>
  BY DEF DiscardItem
<1>2. i \in Ready /\ items'[i] = None /\ \A j \in ItemIds : j # i => items'[j] = items[j]
  BY DEF DiscardItem, Oldest, LogInv, ProgressInv, TypeOK
<1>3. \A s \in SearchIds : Live(s) => ResultsKept(s)
  BY <1>2, DoneNotReady DEF LogInv, ResultsKept, IsDone
<1> QED BY <1>1, <1>2, <1>3, QuietLogs

(* TTL takes away documents that no client can read any more.              *)
LEMMA DeletionLogs ==
    ASSUME LogInv, Expiry, ~Tick
    PROVE  UNCHANGED Log!logVars /\ StartedAgrees'
<1> USE DEF LogInv, ProgressInv
<1>1. UNCHANGED <<now, madeBy>>
  BY DEF Expiry, ExpireSearch, ExpireItem, ExpireOffers, ExpireRequest
<1>2. \A s \in SearchIds : searches'[s] = searches[s] \/ (searches'[s] = None /\ ~Live(s))
  BY DEF Expiry, ExpireSearch, ExpireItem, ExpireOffers, ExpireRequest, Live, TypeOK
<1>3. \A i \in ItemIds :
        \/ items'[i] = items[i]
        \/ items'[i] = None /\ Lapsed(items[i].expiresAt)
  BY DEF Expiry, ExpireSearch, ExpireItem, ExpireOffers, ExpireRequest, TypeOK
<1>4. \A s \in SearchIds : Live(s)' <=> Live(s)
  BY <1>1, <1>2 DEF Live, Lapsed
<1>5. ASSUME NEW s \in SearchIds, Live(s) PROVE ResultsKept(s)
  <2>1. ASSUME NEW i \in ItemIds, i[1] = s, items[i] # None
        PROVE  items'[i] = items[i]
    BY <1>3, <1>5, <2>1 DEF ItemsAgree, ItemAgrees, Live, Lapsed
  <2> QED BY <1>3, <2>1 DEF ResultsKept, IsDone
<1>6. \A s \in SearchIds : Live(s) => searches'[s] = searches[s]
  BY <1>2
<1>7. \A s \in SearchIds : Same(s)
  BY <1>1, <1>4, <1>5, <1>6, SameWhenKept
<1>8. StartedAgrees'
  BY <1>2, <1>3 DEF StartedAgrees, ItemIds
<1> QED BY <1>7, <1>8, AllSame

(* As the clock advances, the searches whose expiry it passes lapse.       *)
LEMMA TickLogs ==
    ASSUME LogInv, Tick
    PROVE  Log!Next /\ StartedAgrees'
<1> USE DEF LogInv, ProgressInv
<1> DEFINE lapsing == {s \in SearchIds : Live(s) /\ ~Live(s)'}
<1>1. UNCHANGED <<searches, items, madeBy>> /\ now \in Nat /\ now' = now + 1
  BY DEF Tick, documents, TypeOK
<1>2. ASSUME NEW s \in SearchIds, Live(s)' PROVE Live(s)
  BY <1>1, <1>2 DEF Live, Lapsed, Search, TypeOK
<1>3. ASSUME NEW s \in SearchIds, s \notin lapsing PROVE Same(s)
  <2>1. Live(s)' <=> Live(s)
    BY <1>2, <1>3
  <2>2. ResultsKept(s)
    BY <1>1 DEF ResultsKept, IsDone
  <2> QED BY <1>1, <2>1, <2>2, SameWhenKept
<1>4. ASSUME NEW s \in lapsing
      PROVE  /\ Phase(s) \notin {"unborn", "gone"}
             /\ Phase(s)' = "gone" /\ Size(s)' = 0 /\ Results(s)' = {}
  <2>1. s \in SearchIds /\ Live(s) /\ ~Live(s)'
    BY <1>4
  <2>2. searches[s] # None /\ searches[s] \in Search /\ madeBy[s] # None
    BY <2>1 DEF Live, TypeOK, UndrawnIsAbsent
  <2>3. Phase(s) = searches[s].status /\ searches[s].status \in JobStatus
    BY <2>1, <2>2 DEF Phase, Search
  <2>4. Phase(s)' = "gone" /\ Size(s)' = 0 /\ Results(s)' = {}
    BY <1>1, <2>1, <2>2 DEF Phase, Size, Results
  <2> QED BY <2>3, <2>4 DEF JobStatus, OpenStatus, FinishedStatus
<1> HIDE DEF lapsing
<1>5. lapsing \in SUBSET SearchIds
  BY DEF lapsing
<1>6. Log!Lapse(lapsing)
  BY <1>3, <1>4, <1>5 DEF Log!Lapse, Same
<1>7. Log!Next
  BY <1>5, <1>6 DEF Log!Next
<1>8. StartedAgrees'
  BY <1>1 DEF StartedAgrees
<1> QED BY <1>7, <1>8

-----------------------------------------------------------------------------
LEMMA InitLogs == Init => Log!Init /\ LogInv
<1> SUFFICES ASSUME Init PROVE Log!Init /\ LogInv
  OBVIOUS
<1>1. LogInv
  BY InitProgress DEF Init, LogInv, StartedAgrees
<1>2. \A s \in SearchIds : Phase(s) = "unborn" /\ Size(s) = 0 /\ Results(s) = {}
  BY DEF Init, Phase, Size, Results, Live
<1> QED BY <1>1, <1>2 DEF Log!Init

LEMMA NextLogs == LogInv /\ [Next]_vars => LogInv' /\ [Log!Next]_(Log!logVars)
<1> SUFFICES ASSUME LogInv, [Next]_vars
             PROVE  StartedAgrees' /\ (Log!Next \/ UNCHANGED Log!logVars)
  BY NextProgress DEF LogInv
<1> DEFINE Logs == StartedAgrees' /\ (Log!Next \/ UNCHANGED Log!logVars)
<1>1. TypeOK'
  BY NextType DEF LogInv, ProgressInv
<1>2. CASE UNCHANGED vars
  BY <1>2, CallMemoryLogs DEF vars, documents
<1>3. ASSUME NEW c \in Callers, CallStep(c) PROVE Logs
  <2>1. CASE \/ \E k \in Keys, p \in Payloads : RepeatSearch(c, k, p)
             \/ ReadSearch(c)
             \/ CallFails(c)
    BY <2>1, CallMemoryLogs DEF RepeatSearch, ReadSearch, CallFails, documents
  <2> QED BY <1>3, <2>1, OpenSearchLogs, WriteItemsLogs DEF CallStep
<1>4. ASSUME NEW k \in Keys, NEW s \in SearchIds, CancelSearch(k, s) PROVE Logs
  BY <1>4, CancelSearchLogs
<1>5. ASSUME NEW t \in Turns, TurnStep(t) PROVE Logs
  <2>1. CASE RenewFails(t) \/ TurnEnds(t)
    BY <2>1, CallMemoryLogs DEF RenewFails, TurnEnds, documents
  <2> QED BY <1>1, <1>5, <2>1, ClaimItemLogs, DiscardItemLogs, CompleteItemLogs,
             RenewLeaseLogs DEF TurnStep
<1>6. CASE Expiry
  BY <1>6, DeletionLogs, TickLogs
<1> QED BY <1>2, <1>3, <1>4, <1>5, <1>6 DEF Next

(* Whatever fails, a client sees each search as a log that only grows, for *)
(* any number of searches, cards, calls and turns: every transaction of    *)
(* the store is a step of the log, or no client can see it.                *)
THEOREM LogImplemented == Spec => ImplementsLog
BY InitLogs, NextLogs, PTL DEF Spec, ImplementsLog, Log!Spec

=============================================================================
