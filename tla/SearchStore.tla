---------------------------- MODULE SearchStore ----------------------------
(***************************************************************************)
(* The store of searches and the queue of their card items, as the API     *)
(* function, the worker turns and Firestore's TTL drive it together:       *)
(* internal/repositories/search_store.go and item_store.go, with the       *)
(* worker of internal/search/worker.go.                                    *)
(*                                                                         *)
(* One Firestore transaction is one action.  A call of CreateSearch is     *)
(* several actions, because it writes the items after its transaction, and *)
(* a worker turn is several actions, because it claims, works and then     *)
(* completes.  Between two of them any other actor may step, the clock may *)
(* advance, and the call or the turn may die.                              *)
(***************************************************************************)
EXTENDS Integers, FiniteSets

CONSTANTS
    SearchIds,   \* the random ids buildID("search") may draw
    Keys,        \* idempotency keys that clients send
    Payloads,    \* create payloads; a payload stands for its hash
    Cards,       \* Cards[p]: how many cards payload p lists
    MaxCards,    \* ValidateCreate refuses a longer list
    BatchSize,   \* maxBatchWrites: documents one batch writes atomically
    Callers,     \* calls of CreateSearch, each made once; a retry is another
    Turns,       \* worker turns that may run at the same time
    Owners,      \* lease owner names: the names of the tasks
    Damaged,     \* item documents that storage cannot read back
    Ttl,         \* how long a search and its answers are kept
    LeaseTime,   \* LeaseDuration
    DoneParking, \* doneParking
    MaxDiscards, \* maxClaimDiscards
    MaxTime,     \* bound: the clock stops there
    None         \* the absent document, the absent owner

Positions == 0..(MaxCards - 1)
ItemIds == SearchIds \X Positions
RequestIds == {"create", "cancel"} \X Keys

OpenStatus == {"queued", "running"}
FinishedStatus == {"completed", "completed_with_errors"}
JobStatus == OpenStatus \union FinishedStatus \union {"cancelled"}
Outcome == {"found", "not_found", "source_error"}
ItemStatus == {"pending", "running"} \union Outcome

(* The job and its expiry, of model.Job and repositories.Search.           *)
Search ==
    [status: JobStatus, total: 1..MaxCards, processed: Nat, found: Nat,
     notFound: Nat, errors: Nat, expiresAt: Nat]

(* repositories.Item.  LeaseUntil is not kept: it always equals            *)
(* availableAt while the item runs and nothing reads it.                   *)
Item ==
    [status: ItemStatus, owner: Owners \union {None}, sequence: Nat,
     availableAt: Nat, expiresAt: Nat]

Request ==
    [hash: Payloads \union SearchIds, resource: SearchIds, expiresAt: Nat]

(* What a call of CreateSearch keeps in memory: the job it made, the       *)
(* expiry it read back and the position of the next batch.                 *)
Call ==
    [step: {"new", "created", "writing", "answered", "failed"},
     search: SearchIds \union {None}, total: 0..MaxCards, createdAt: Nat,
     expiresAt: Nat, next: Nat]

(* What a worker turn keeps in memory: the item it works on, the task it   *)
(* delivers and claims for, the lease it believes it holds and the         *)
(* discards of its claim loop.                                             *)
Turn ==
    [item: ItemIds \union {None}, owner: Owners \union {None}, leaseUntil: Nat,
     renewing: BOOLEAN, discarded: 0..MaxDiscards]

ASSUME BoundsAssumption ==
    /\ MaxCards \in Nat \ {0}
    /\ BatchSize \in Nat \ {0}
    /\ Ttl \in Nat
    /\ LeaseTime \in Nat
    /\ DoneParking \in Nat \ {0}
    /\ MaxDiscards \in Nat
    /\ MaxTime \in Nat

ASSUME DataAssumption ==
    /\ Cards \in [Payloads -> 1..MaxCards]
    /\ Damaged \subseteq ItemIds

ASSUME NoneAssumption ==
    /\ None \notin SearchIds
    /\ None \notin ItemIds
    /\ None \notin Owners
    /\ None \notin Keys
    /\ None \notin Search
    /\ None \notin Item
    /\ None \notin Request
    /\ None \notin Nat

VARIABLES
    now,        \* the clock every instance reads
    searches,   \* the collection "searches"
    items,      \* the collection "items"
    itemOffers, \* the collection "item_offers": only the expiry of each entry
    requests,   \* the collection "idempotency"
    madeBy,     \* history: the key whose call drew a search id
    calls,      \* the calls of CreateSearch
    turns       \* the worker turns

documents == <<searches, items, itemOffers, requests>>
vars == <<now, documents, madeBy, calls, turns>>

Lapsed(expiresAt) == expiresAt < now

(* readSearch succeeds.                                                    *)
Live(s) == searches[s] # None /\ ~Lapsed(searches[s].expiresAt)

(* Mutant: the key is forgotten one instant before the search it made.     *)
RememberedTooShort(r) == requests[r] # None /\ requests[r].expiresAt > now

(* readRequest finds an answer that is still alive.                        *)
Remembered(r) == requests[r] # None /\ ~Lapsed(requests[r].expiresAt)

ItemsOf(s) == {i \in ItemIds : i[1] = s /\ items[i] # None}
Done(s) == {i \in ItemsOf(s) : items[i].status \in Outcome}

IdleTurn == [item |-> None, owner |-> None, leaseUntil |-> 0, renewing |-> FALSE, discarded |-> 0]
NewCall == [step |-> "new", search |-> None, total |-> 0, createdAt |-> 0,
            expiresAt |-> 0, next |-> 0]

Init ==
    /\ now = 0
    /\ searches = [s \in SearchIds |-> None]
    /\ items = [i \in ItemIds |-> None]
    /\ itemOffers = [i \in ItemIds |-> None]
    /\ requests = [r \in RequestIds |-> None]
    /\ madeBy = [s \in SearchIds |-> None]
    /\ calls = [c \in Callers |-> NewCall]
    /\ turns = [t \in Turns |-> IdleTurn]

-----------------------------------------------------------------------------
(* CreateSearch                                                            *)

NewSearch(p) ==
    [status |-> "queued", total |-> Cards[p], processed |-> 0, found |-> 0,
     notFound |-> 0, errors |-> 0, expiresAt |-> now + Ttl]

(* The transaction finds no remembered answer: it saves the search and the *)
(* request together, under an id nobody drew before.                       *)
OpenSearch(c, k, p) ==
    /\ calls[c].step = "new"
    /\ ~Remembered(<<"create", k>>)
    /\ \E s \in SearchIds :
        /\ madeBy[s] = None
        /\ searches' = [searches EXCEPT ![s] = NewSearch(p)]
        /\ requests' = [requests EXCEPT ![<<"create", k>>] =
                            [hash |-> p, resource |-> s, expiresAt |-> now + Ttl]]
        /\ madeBy' = [madeBy EXCEPT ![s] = k]
        /\ calls' = [calls EXCEPT ![c] =
                        [step |-> "created", search |-> s, total |-> Cards[p],
                         createdAt |-> now, expiresAt |-> 0, next |-> 0]]
    /\ UNCHANGED <<now, items, itemOffers, turns>>

(* The transaction finds a remembered answer: the same payload is answered *)
(* with the search it made, and no item is written; another payload, or a  *)
(* search that cannot be read any more, is refused.                        *)
RepeatSearch(c, k, p) ==
    /\ calls[c].step = "new"
    /\ Remembered(<<"create", k>>)
    /\ LET stored == requests[<<"create", k>>] IN
       \/ /\ stored.hash = p
          /\ Live(stored.resource)
          /\ calls' = [calls EXCEPT ![c] =
                          [@ EXCEPT !.step = "answered", !.search = stored.resource]]
       \/ /\ stored.hash # p \/ ~Live(stored.resource)
          /\ calls' = [calls EXCEPT ![c].step = "failed"]
    /\ UNCHANGED <<now, documents, madeBy, turns>>

(* createItems reads the stored search back, outside any transaction.      *)
ReadSearch(c) ==
    /\ calls[c].step = "created"
    /\ LET s == calls[c].search IN
       \/ /\ searches[s] # None
          /\ calls' = [calls EXCEPT ![c] =
                          [@ EXCEPT !.step = "writing", !.expiresAt = searches[s].expiresAt]]
       \/ /\ searches[s] = None
          /\ calls' = [calls EXCEPT ![c].step = "failed"]
    /\ UNCHANGED <<now, documents, madeBy, turns>>

(* SaveMany writes the next batch of items in one commit; after the last   *)
(* one the call answers.                                                   *)
WriteItems(c) ==
    LET call == calls[c]
        until == call.next + BatchSize
        batch == {i \in ItemIds : /\ i[1] = call.search
                                  /\ call.next <= i[2] /\ i[2] < until
                                  /\ i[2] < call.total}
        item == [status |-> "pending", owner |-> None, sequence |-> 0,
                 availableAt |-> call.createdAt, expiresAt |-> call.expiresAt]
    IN
    /\ call.step = "writing"
    /\ items' = [i \in ItemIds |-> IF i \in batch THEN item ELSE items[i]]
    /\ calls' = [calls EXCEPT ![c] =
                    [call EXCEPT !.next = until,
                                 !.step = IF until < call.total THEN "writing" ELSE "answered"]]
    /\ UNCHANGED <<now, searches, itemOffers, requests, madeBy, turns>>

(* The call ends between two of its steps: the instance dies, a deadline   *)
(* passes or Firestore refuses.  Nothing undoes what it already wrote.     *)
CallFails(c) ==
    /\ calls[c].step \in {"created", "writing"}
    /\ calls' = [calls EXCEPT ![c].step = "failed"]
    /\ UNCHANGED <<now, documents, madeBy, turns>>

-----------------------------------------------------------------------------
(* CancelSearch, one transaction.  A remembered answer changes nothing, and *)
(* a search that is missing, lapsed or closed is refused.                  *)
CancelSearch(k, s) ==
    /\ ~Remembered(<<"cancel", k>>)
    /\ Live(s)
    /\ searches[s].status \in OpenStatus
    /\ searches' = [searches EXCEPT ![s].status = "cancelled"]
    /\ requests' = [requests EXCEPT ![<<"cancel", k>>] =
                        [hash |-> s, resource |-> s, expiresAt |-> now + Ttl]]
    /\ UNCHANGED <<now, items, itemOffers, madeBy, calls, turns>>

-----------------------------------------------------------------------------
(* ClaimSearchItem: a loop of transactions, each on the oldest ready item. *)

Ready == {i \in ItemIds : items[i] # None /\ items[i].availableAt <= now}

(* The query orders by available_at and takes one; ties fall either way.   *)
Oldest == {i \in Ready : \A j \in Ready : items[i].availableAt <= items[j].availableAt}

(* claimItem accepts the candidate; it refuses any other with ErrNotFound. *)
Claimable(i) ==
    /\ i \notin Damaged
    /\ ~Lapsed(items[i].expiresAt)
    /\ Live(i[1])
    /\ searches[i[1]].status # "cancelled"

Claiming(t) == turns[t].item = None

(* The owner is the task: deliveries of one task claim under one name.     *)
ClaimItem(t, i, owner) ==
    /\ Claiming(t)
    /\ i \in Oldest
    /\ Claimable(i)
    /\ items' = [items EXCEPT ![i] =
                    [@ EXCEPT !.status = "running", !.owner = owner,
                              !.availableAt = now + LeaseTime]]
    /\ searches' = [searches EXCEPT ![i[1]].status = "running"]
    /\ turns' = [turns EXCEPT ![t] = [item |-> i, owner |-> owner, leaseUntil |-> now + LeaseTime,
                                      renewing |-> TRUE, discarded |-> 0]]
    /\ UNCHANGED <<now, itemOffers, requests, madeBy, calls>>

(* Mutant: the loop forgets its bound.                                     *)
DiscardForever(t, i) ==
    /\ Claiming(t)
    /\ i \in Oldest
    /\ ~Claimable(i)
    /\ items' = [items EXCEPT ![i] = None]
    /\ turns' = [turns EXCEPT ![t].discarded = @ + 1]
    /\ UNCHANGED <<now, searches, itemOffers, requests, madeBy, calls>>

(* Mutant: any error of claimItem counts as a dead candidate, a failed     *)
(* read of the search included.                                            *)
DiscardOnFailure(t, i) ==
    /\ Claiming(t)
    /\ i \in Oldest
    /\ items' = [items EXCEPT ![i] = None]
    /\ turns' = [turns EXCEPT ![t].discarded = IF @ < MaxDiscards THEN @ + 1 ELSE 0]
    /\ UNCHANGED <<now, searches, itemOffers, requests, madeBy, calls>>

(* A dead candidate is deleted in the transaction that refused it.  The    *)
(* loop runs MaxDiscards + 1 times; the last one deletes and gives up.     *)
DiscardItem(t, i) ==
    /\ Claiming(t)
    /\ i \in Oldest
    /\ ~Claimable(i)
    /\ items' = [items EXCEPT ![i] = None]
    /\ turns' = [turns EXCEPT ![t].discarded = IF @ < MaxDiscards THEN @ + 1 ELSE 0]
    /\ UNCHANGED <<now, searches, itemOffers, requests, madeBy, calls>>

(* The queue is empty, Firestore fails or the instance dies: the turn ends *)
(* and writes nothing more, in the claim loop as well as at work.          *)
TurnEnds(t) ==
    /\ turns[t] # IdleTurn
    /\ turns' = [turns EXCEPT ![t] = IdleTurn]
    /\ UNCHANGED <<now, documents, madeBy, calls>>

-----------------------------------------------------------------------------
(* A turn at work: renewals, then the result.                              *)

(* Mutants: completion and renewal skip the status, or the owner.          *)
HoldsWithoutStatus(t, i) == i \notin Damaged /\ items[i] # None
HoldsWithoutOwner(t, i) ==
    i \notin Damaged /\ items[i] # None /\ items[i].status = "running"

(* The lease is still the one that owner took.                             *)
Holds(t, i) ==
    /\ i \notin Damaged
    /\ items[i] # None
    /\ items[i].owner = turns[t].owner
    /\ items[i].status = "running"

RenewLease(t) ==
    LET i == turns[t].item IN
    /\ i # None
    /\ turns[t].renewing
    /\ Holds(t, i)
    /\ items' = [items EXCEPT ![i].availableAt = now + LeaseTime]
    /\ turns' = [turns EXCEPT ![t].leaseUntil = now + LeaseTime]
    /\ UNCHANGED <<now, searches, itemOffers, requests, madeBy, calls>>

(* Any error ends the renewing goroutine, while the turn works on.         *)
RenewFails(t) ==
    /\ turns[t].renewing
    /\ turns' = [turns EXCEPT ![t].renewing = FALSE]
    /\ UNCHANGED <<now, documents, madeBy, calls>>

(* updateSearch                                                            *)
Tally(n, hit) == IF hit THEN n + 1 ELSE n

(* Mutant: the final status looks at the last card only.                   *)
FinalStatusOfLastCard(errors, outcome) ==
    IF outcome = "source_error" THEN "completed_with_errors" ELSE "completed"

FinalStatus(errors, outcome) ==
    IF errors > 0 THEN "completed_with_errors" ELSE "completed"

AddResult(job, outcome) ==
    LET processed == job.processed + 1
        errors == Tally(job.errors, outcome = "source_error")
    IN [job EXCEPT
            !.processed = processed,
            !.found = Tally(@, outcome = "found"),
            !.notFound = Tally(@, outcome = "not_found"),
            !.errors = errors,
            !.status = IF processed = job.total /\ @ # "cancelled"
                       THEN FinalStatus(errors, outcome) ELSE @]

(* Mutants: the result is parked exactly on its expiry; the offers are     *)
(* kept as briefly as an empty answer of the offer cache.                  *)
ParkedOnExpiry(i) == items[i].expiresAt
OffersUntilSoon(i) == now

(* When a finished item would be ready again, and when its offers expire.  *)
ParkedUntil(i) == items[i].expiresAt + DoneParking
OffersUntil(i) == items[i].expiresAt

(* CompleteSearchItem, one transaction: the item, its offers and the       *)
(* counters of its search.  An error ends the turn: TurnEnds.              *)
CompleteItem(t, outcome) ==
    LET i == turns[t].item
        s == i[1]
    IN
    /\ i # None
    /\ Holds(t, i)
    /\ Live(s)
    /\ items' = [items EXCEPT ![i] =
                    [status |-> outcome, owner |-> None,
                     sequence |-> searches[s].processed + 1,
                     availableAt |-> ParkedUntil(i),
                     expiresAt |-> items[i].expiresAt]]
    /\ itemOffers' = [itemOffers EXCEPT ![i] = OffersUntil(i)]
    /\ searches' = [searches EXCEPT ![s] = AddResult(@, outcome)]
    /\ turns' = [turns EXCEPT ![t] = IdleTurn]
    /\ UNCHANGED <<now, requests, madeBy, calls>>

-----------------------------------------------------------------------------
(* Firestore: the clock, and the TTL policy that deletes each expired      *)
(* document at a moment of its own.                                        *)

Tick ==
    /\ now < MaxTime
    /\ now' = now + 1
    /\ UNCHANGED <<documents, madeBy, calls, turns>>

ExpireSearch(s) ==
    /\ searches[s] # None /\ Lapsed(searches[s].expiresAt)
    /\ searches' = [searches EXCEPT ![s] = None]
    /\ UNCHANGED <<now, items, itemOffers, requests, madeBy, calls, turns>>

ExpireItem(i) ==
    /\ items[i] # None /\ Lapsed(items[i].expiresAt)
    /\ items' = [items EXCEPT ![i] = None]
    /\ UNCHANGED <<now, searches, itemOffers, requests, madeBy, calls, turns>>

ExpireOffers(i) ==
    /\ itemOffers[i] # None /\ Lapsed(itemOffers[i])
    /\ itemOffers' = [itemOffers EXCEPT ![i] = None]
    /\ UNCHANGED <<now, searches, items, requests, madeBy, calls, turns>>

ExpireRequest(r) ==
    /\ requests[r] # None /\ Lapsed(requests[r].expiresAt)
    /\ requests' = [requests EXCEPT ![r] = None]
    /\ UNCHANGED <<now, searches, items, itemOffers, madeBy, calls, turns>>

-----------------------------------------------------------------------------
CallStep(c) ==
    \/ \E k \in Keys, p \in Payloads : OpenSearch(c, k, p) \/ RepeatSearch(c, k, p)
    \/ ReadSearch(c)
    \/ WriteItems(c)
    \/ CallFails(c)

TurnStep(t) ==
    \/ \E i \in ItemIds, owner \in Owners : ClaimItem(t, i, owner)
    \/ \E i \in ItemIds : DiscardItem(t, i)
    \/ \E outcome \in Outcome : CompleteItem(t, outcome)
    \/ RenewLease(t)
    \/ RenewFails(t)
    \/ TurnEnds(t)

Expiry ==
    \/ Tick
    \/ \E s \in SearchIds : ExpireSearch(s)
    \/ \E i \in ItemIds : ExpireItem(i) \/ ExpireOffers(i)
    \/ \E r \in RequestIds : ExpireRequest(r)

Next ==
    \/ \E c \in Callers : CallStep(c)
    \/ \E k \in Keys, s \in SearchIds : CancelSearch(k, s)
    \/ \E t \in Turns : TurnStep(t)
    \/ Expiry

Spec == Init /\ [][Next]_vars

-----------------------------------------------------------------------------
(* Properties                                                              *)

(* Every document and every process memory has the shape the code gives it. *)
TypeOK ==
    /\ now \in Nat
    /\ searches \in [SearchIds -> Search \union {None}]
    /\ items \in [ItemIds -> Item \union {None}]
    /\ itemOffers \in [ItemIds -> Nat \union {None}]
    /\ requests \in [RequestIds -> Request \union {None}]
    /\ madeBy \in [SearchIds -> Keys \union {None}]
    /\ calls \in [Callers -> Call]
    /\ \A c \in Callers : calls[c].step \in {"created", "writing"} =>
           calls[c].search \in SearchIds
    /\ turns \in [Turns -> Turn]

(* The progress a client polls is the progress that exists: while a search *)
(* is readable, processed counts its done items, found, not_found and      *)
(* errors split them by outcome, and the sequences they carry are exactly  *)
(* 1..processed, which is what the results cursor of ListResults walks.    *)
(* Lost leases, repeated turns, cancellation and TTL must not break it.    *)
CountersMatch(s) ==
    LET job == searches[s]
        Count(outcome) == Cardinality({i \in Done(s) : items[i].status = outcome})
    IN
    /\ job.processed = Cardinality(Done(s))
    /\ job.found = Count("found")
    /\ job.notFound = Count("not_found")
    /\ job.errors = Count("source_error")

SequencesMatch(s) == {items[i].sequence : i \in Done(s)} = 1..searches[s].processed

ProgressMatchesResults ==
    \A s \in SearchIds : Live(s) => CountersMatch(s) /\ SequencesMatch(s)

(* A readable search that was not cancelled is reported finished exactly   *)
(* when each of its cards has its result, and completed_with_errors        *)
(* exactly when one of them is a source error.  claimItem writes "running" *)
(* without looking at the status, so this rests on done items never being  *)
(* claimable again.                                                        *)
FinishedWhenDone ==
    \A s \in SearchIds : Live(s) /\ searches[s].status # "cancelled" =>
        /\ searches[s].status \in FinishedStatus <=>
               \A p \in 0..(searches[s].total - 1) : <<s, p>> \in Done(s)
        /\ searches[s].status = "completed_with_errors" <=>
               /\ searches[s].status \in FinishedStatus
               /\ \E i \in Done(s) : items[i].status = "source_error"

(* A result that a client can list has its offers: ListResults hides a     *)
(* failed read of item_offers behind an empty list, so a result whose      *)
(* offers went first would be shown as a card nobody sells.                *)
OffersOutlastResults ==
    \A s \in SearchIds : Live(s) => \A i \in Done(s) : itemOffers[i] # None

(* Two readable searches never come from one idempotency key: the record   *)
(* of the key lives as long as the search it answers with.                 *)
OneSearchPerKey ==
    \A s1, s2 \in SearchIds :
        Live(s1) /\ Live(s2) /\ madeBy[s1] = madeBy[s2] => s1 = s2

(* A lease belongs to a task: the turns that believe they hold an item at   *)
(* the same moment are deliveries of one task, whichever leases lapsed, were *)
(* taken over, renewed late or ended with a result (claimItem,              *)
(* RenewItemLease).                                                        *)
BelievesLease(t, i) == turns[t].item = i /\ turns[t].leaseUntil > now

LeaseOfOneTask ==
    \A t1, t2 \in Turns, i \in ItemIds :
        BelievesLease(t1, i) /\ BelievesLease(t2, i) => turns[t1].owner = turns[t2].owner

(* Work is only deleted when it is dead: an item of a readable search that *)
(* was not cancelled stays, whatever fails, unless storage cannot read it. *)
KeepsLiveWork ==
    \A i \in ItemIds :
        /\ items[i] # None
        /\ i \notin Damaged
        /\ Live(i[1])
        /\ searches[i[1]].status # "cancelled"
        => items'[i] # None

LiveWorkStays == [][KeepsLiveWork]_vars

-----------------------------------------------------------------------------
(* The promise: the readable part of the store is a SearchLog.             *)

Phase(s) ==
    IF madeBy[s] = None THEN "unborn"
    ELSE IF Live(s) THEN searches[s].status ELSE "gone"

Size(s) == IF Live(s) THEN searches[s].total ELSE 0

Results(s) ==
    IF Live(s)
    THEN {[sequence |-> items[i].sequence, position |-> i[2], outcome |-> items[i].status] :
              i \in Done(s)}
    ELSE {}

Log == INSTANCE SearchLog WITH
    phase <- [s \in SearchIds |-> Phase(s)],
    size <- [s \in SearchIds |-> Size(s)],
    log <- [s \in SearchIds |-> Results(s)]

(* Whatever fails, a client sees each search as a log that only grows:     *)
(* a result is never rewritten, reordered or taken back, a card never gets *)
(* two, and a closed search never opens again.                             *)
ImplementsLog == Log!Spec

=============================================================================
