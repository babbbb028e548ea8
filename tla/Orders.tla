------------------------------- MODULE Orders -------------------------------
(***************************************************************************)
(* Orders at the stores: internal/search/order_service.go over             *)
(* internal/repositories/order_store.go, the webhook of                    *)
(* internal/handler/order_webhooks.go and the releaser of internal/orders. *)
(*                                                                         *)
(* A call of PlaceOrder first checks the cart out at the store and only    *)
(* then opens its transaction; a webhook first reads the order and then    *)
(* moves it; a sweep first lists and then moves one order at a time.  Each *)
(* of those is an action, and anything may happen between two of them.     *)
(* One store stands for all: the webhook asks by domain and number.        *)
(***************************************************************************)
EXTENDS Integers, FiniteSets

CONSTANTS
    OrderIds,    \* the random ids buildID("order") may draw
    Keys,        \* idempotency keys that clients send
    Carts,       \* what a call orders: its search, domain and lines
    Numbers,     \* order numbers of the store
    Calls,       \* calls of PlaceOrder and LinkOrder; a retry is another
    Reports,     \* calls of ReportOrder
    Hooks,       \* webhook deliveries that are handled at the same time
    Sweeps,      \* runs of ReleaseOrders at the same time
    Ttl,         \* how long the answer of a key is remembered
    MaxAge,      \* Releaser.MaxAge: how long an order may stay pending
    MaxReleases, \* Releaser.MaxReleases
    MaxFaults,   \* bound: sweeps that fail
    MaxTime,     \* bound: the clock stops there
    None         \* the absent document, the absent number

Status == {"pending", "confirmed", "released", "linked", "reported"}
Hash == {"place", "link"} \X Carts
Order == [status: Status, number: Numbers \union {None}, createdAt: Nat, updatedAt: Nat]
Request == [hash: Hash, order: OrderIds, expiresAt: Nat]

ASSUME OrdersAssumption ==
    /\ Ttl \in Nat
    /\ MaxAge \in Nat
    /\ MaxReleases \in Nat \ {0}
    /\ MaxFaults \in Nat
    /\ MaxTime \in Nat
    /\ None \notin OrderIds \union Numbers \union Keys \union Calls
    /\ None \notin Order
    /\ None \notin Request

(* What the statuses of the store mean here: "processing" and "completed"  *)
(* are paid, "cancelled", "failed" and "refunded" are off, and any other   *)
(* names no move.                                                          *)
Target == [paid |-> "confirmed", off |-> "released"]

VARIABLES
    now,      \* the clock every instance reads
    orders,   \* the collection "orders"
    requests, \* the answers "place-order" keeps in the collection "idempotency"
    store,    \* store[n]: the key whose call made order n at the store
    events,   \* what the store has told its webhook; each may come late,
              \* again, out of order or never
    calls,    \* the calls of PlaceOrder and LinkOrder
    madeBy,   \* history: the call that made each order
    reports,  \* the calls of ReportOrder
    hooks,    \* the webhooks being handled: the order each one read
    sweeps,   \* the orders that each run of ReleaseOrders has still to move
    faults    \* how many sweeps failed

documents == <<orders, requests, madeBy>>
shop == <<store, events>>
vars == <<now, documents, shop, calls, reports, hooks, sweeps, faults>>

NewCall == [step |-> "new", key |-> None, hash |-> None, number |-> None, order |-> None]
NewReport == [step |-> "new", order |-> None, number |-> None]
IdleHook == [order |-> None, target |-> None]

Init ==
    /\ now = 0
    /\ orders = [o \in OrderIds |-> None]
    /\ requests = [k \in Keys |-> None]
    /\ madeBy = [o \in OrderIds |-> None]
    /\ store = [n \in Numbers |-> None]
    /\ events = {}
    /\ calls = [c \in Calls |-> NewCall]
    /\ reports = [r \in Reports |-> NewReport]
    /\ hooks = [h \in Hooks |-> IdleHook]
    /\ sweeps = [w \in Sweeps |-> {}]
    /\ faults = 0

StatusOf(o) == IF orders[o] = None THEN "none" ELSE orders[o].status
NumberOf(o) == IF orders[o] = None THEN None ELSE orders[o].number

-----------------------------------------------------------------------------
(* PlaceOrder and LinkOrder                                                *)

(* The store takes the order before the key is looked at.  Its answer may  *)
(* be lost, and then the call fails while the order stands at the store.   *)
PlaceAtStore(c, k, p) ==
    /\ calls[c].step = "new"
    /\ \E n \in Numbers :
        /\ store[n] = None
        /\ store' = [store EXCEPT ![n] = k]
        /\ \E step \in {"saving", "failed"} :
            calls' = [calls EXCEPT ![c] = [NewCall EXCEPT
                !.step = step, !.key = k, !.hash = <<"place", p>>, !.number = n]]
    /\ UNCHANGED <<now, documents, events, reports, hooks, sweeps, faults>>

(* LinkOrder only writes a link down: no store is asked.                   *)
PlanLink(c, k, p) ==
    /\ calls[c].step = "new"
    /\ calls' = [calls EXCEPT ![c] = [NewCall EXCEPT
            !.step = "saving", !.key = k, !.hash = <<"link", p>>]]
    /\ UNCHANGED <<now, documents, shop, reports, hooks, sweeps, faults>>

(* Mutant: the key is forgotten one instant early.                         *)
RememberedTooShort(k) == requests[k] # None /\ requests[k].expiresAt > now

(* A lapsed answer counts as none, so its deletion by the TTL is no step.   *)
Remembered(k) == requests[k] # None /\ requests[k].expiresAt >= now

(* CreateOrder, one transaction: a remembered key answers the order it     *)
(* made or refuses another cart; a new one saves the order and the request. *)
CreateOrder(c) ==
    LET call == calls[c]
        k == call.key
        stored == requests[k]
    IN
    /\ call.step = "saving"
    /\ \/ /\ Remembered(k) /\ stored.hash = call.hash
          /\ calls' = [calls EXCEPT ![c].step = "answered", ![c].order = stored.order]
          /\ UNCHANGED documents
       \/ /\ Remembered(k) /\ stored.hash # call.hash
          /\ calls' = [calls EXCEPT ![c].step = "failed"]
          /\ UNCHANGED documents
       \/ /\ ~Remembered(k)
          /\ \E o \in OrderIds :
              /\ orders[o] = None
              /\ orders' = [orders EXCEPT ![o] =
                    [status |-> IF call.number = None THEN "linked" ELSE "pending",
                     number |-> call.number, createdAt |-> now, updatedAt |-> now]]
              /\ requests' = [requests EXCEPT ![k] =
                    [hash |-> call.hash, order |-> o, expiresAt |-> now + Ttl]]
              /\ madeBy' = [madeBy EXCEPT ![o] = c]
              /\ calls' = [calls EXCEPT ![c].step = "answered", ![c].order = o]
    /\ UNCHANGED <<now, shop, reports, hooks, sweeps, faults>>

(* The instance dies, or Firestore refuses, before the transaction.        *)
CallFails(c) ==
    /\ calls[c].step = "saving"
    /\ calls' = [calls EXCEPT ![c].step = "failed"]
    /\ UNCHANGED <<now, documents, shop, reports, hooks, sweeps, faults>>

-----------------------------------------------------------------------------
(* ReportOrder: a read, then a transaction                                 *)

ReadReported(r, o, n) ==
    /\ reports[r].step = "new"
    /\ orders[o] # None
    /\ LET repeated == StatusOf(o) = "reported" /\ NumberOf(o) = n IN
       reports' = [reports EXCEPT ![r] =
            [step |-> IF repeated THEN "answered" ELSE "saving", order |-> o, number |-> n]]
    /\ UNCHANGED <<now, documents, shop, calls, hooks, sweeps, faults>>

ReportOrder(r) ==
    LET o == reports[r].order IN
    /\ reports[r].step = "saving"
    /\ \/ /\ StatusOf(o) = "linked"
          /\ orders' = [orders EXCEPT ![o].status = "reported",
                                      ![o].number = reports[r].number, ![o].updatedAt = now]
          /\ reports' = [reports EXCEPT ![r].step = "answered"]
       \/ /\ StatusOf(o) # "linked"
          /\ reports' = [reports EXCEPT ![r].step = "refused"]
          /\ UNCHANGED orders
    /\ UNCHANGED <<now, requests, madeBy, shop, calls, hooks, sweeps, faults>>

-----------------------------------------------------------------------------
(* The store, and its webhook: ConfirmOrder                                *)

StoreSignals(n, signal) ==
    /\ store[n] # None
    /\ events' = events \union {<<n, signal>>}
    /\ UNCHANGED <<now, documents, store, calls, reports, hooks, sweeps, faults>>

(* FindOrderByStoreOrder answers any one of the orders with that number.   *)
(* None, or one that already stands where the webhook wants it, is         *)
(* acknowledged at once.                                                   *)
FindOrder(h, n, signal) ==
    /\ hooks[h] = IdleHook
    /\ <<n, signal>> \in events
    /\ \E o \in {p \in OrderIds : orders[p] # None /\ NumberOf(p) = n} :
          /\ StatusOf(o) # Target[signal]
          /\ hooks' = [hooks EXCEPT ![h] = [order |-> o, target |-> Target[signal]]]
    /\ UNCHANGED <<now, documents, shop, calls, reports, sweeps, faults>>

(* Mutant: the move trusts the caller and not the stored status.           *)
MovedFromAnywhere(o, to) == [orders EXCEPT ![o].status = to, ![o].updatedAt = now]

(* MoveOrderStatus from "pending", one transaction: any other status is a  *)
(* conflict, which every caller here skips or acknowledges.                *)
Moved(o, to) ==
    IF StatusOf(o) = "pending"
    THEN [orders EXCEPT ![o].status = to, ![o].updatedAt = now]
    ELSE orders

MoveOrder(h) ==
    /\ hooks[h] # IdleHook
    /\ orders' = Moved(hooks[h].order, hooks[h].target)
    /\ hooks' = [hooks EXCEPT ![h] = IdleHook]
    /\ UNCHANGED <<now, requests, madeBy, shop, calls, reports, sweeps, faults>>

(* The handler dies or answers 500: the store may deliver the event again. *)
HookFails(h) ==
    /\ hooks[h] # IdleHook
    /\ hooks' = [hooks EXCEPT ![h] = IdleHook]
    /\ UNCHANGED <<now, documents, shop, calls, reports, sweeps, faults>>

-----------------------------------------------------------------------------
(* ReleaseOrders: a list, then one transaction for each order              *)

(* Mutants: the query forgets the cutoff, or the status.                   *)
ExpiredAtOnce == {o \in OrderIds : StatusOf(o) = "pending"}
ExpiredInAnyStatus ==
    {o \in OrderIds : orders[o] # None /\ orders[o].updatedAt + MaxAge <= now}

Expired ==
    {o \in OrderIds : StatusOf(o) = "pending" /\ orders[o].updatedAt + MaxAge <= now}

(* The oldest MaxReleases of them.                                         *)
ListExpired(w) ==
    /\ sweeps[w] = {}
    /\ \E listed \in SUBSET Expired \ {{}} :
        /\ Cardinality(listed) <= MaxReleases
        /\ listed # Expired => Cardinality(listed) = MaxReleases
        /\ \A o \in listed, later \in Expired \ listed :
                orders[o].updatedAt <= orders[later].updatedAt
        /\ sweeps' = [sweeps EXCEPT ![w] = listed]
    /\ UNCHANGED <<now, documents, shop, calls, reports, hooks, faults>>

(* A conflict is skipped.  The order of the list is left open.             *)
ReleaseOrder(w) ==
    /\ \E o \in sweeps[w] :
        /\ orders' = Moved(o, "released")
        /\ sweeps' = [sweeps EXCEPT ![w] = @ \ {o}]
    /\ UNCHANGED <<now, requests, madeBy, shop, calls, reports, hooks, faults>>

(* Any other error ends the run; the rest waits for the next one.          *)
SweepFails(w) ==
    /\ sweeps[w] # {}
    /\ faults < MaxFaults
    /\ faults' = faults + 1
    /\ sweeps' = [sweeps EXCEPT ![w] = {}]
    /\ UNCHANGED <<now, documents, shop, calls, reports, hooks>>

Tick ==
    /\ now < MaxTime
    /\ now' = now + 1
    /\ UNCHANGED <<documents, shop, calls, reports, hooks, sweeps, faults>>

-----------------------------------------------------------------------------
CallStep(c) ==
    \/ \E k \in Keys, p \in Carts : PlaceAtStore(c, k, p) \/ PlanLink(c, k, p)
    \/ CreateOrder(c)
    \/ CallFails(c)

HookStep(h) ==
    \/ \E n \in Numbers, signal \in DOMAIN Target : FindOrder(h, n, signal)
    \/ MoveOrder(h)
    \/ HookFails(h)

SweepStep(w) == ListExpired(w) \/ ReleaseOrder(w)

Next ==
    \/ \E c \in Calls : CallStep(c)
    \/ \E r \in Reports :
        \/ \E o \in OrderIds, n \in Numbers : ReadReported(r, o, n)
        \/ ReportOrder(r)
    \/ \E n \in Numbers, signal \in DOMAIN Target : StoreSignals(n, signal)
    \/ \E h \in Hooks : HookStep(h)
    \/ \E w \in Sweeps : SweepStep(w) \/ SweepFails(w)
    \/ Tick

(* Cloud Scheduler starts a run every hour, and a run goes on until it     *)
(* ends or fails.  Nobody else owes a step.                                *)
Fairness == \A w \in Sweeps : WF_vars(SweepStep(w))

Spec == Init /\ [][Next]_vars /\ Fairness

-----------------------------------------------------------------------------
(* Properties                                                              *)

(* Every document and every process memory has the shape the code gives it. *)
TypeOK ==
    /\ now \in Nat
    /\ orders \in [OrderIds -> Order \union {None}]
    /\ requests \in [Keys -> Request \union {None}]
    /\ madeBy \in [OrderIds -> Calls \union {None}]
    /\ store \in [Numbers -> Keys \union {None}]
    /\ events \subseteq Numbers \X DOMAIN Target
    /\ calls \in [Calls -> [step: {"new", "saving", "answered", "failed"},
                            key: Keys \union {None}, hash: Hash \union {None},
                            number: Numbers \union {None}, order: OrderIds \union {None}]]
    /\ reports \in [Reports -> [step: {"new", "saving", "answered", "refused"},
                                order: OrderIds \union {None},
                                number: Numbers \union {None}]]
    /\ hooks \in [Hooks -> [order: OrderIds \union {None},
                            target: {"confirmed", "released", None}]]
    /\ sweeps \in [Sweeps -> SUBSET OrderIds]
    /\ faults \in 0..MaxFaults

(* An order only moves forward, whoever wins the race of webhooks, reports *)
(* and releases: a confirmed one is never released, a released one never   *)
(* confirmed, a link is only ever reported, and a number once known stays. *)
Forward ==
    {<<"none", "pending">>, <<"none", "linked">>, <<"pending", "confirmed">>,
     <<"pending", "released">>, <<"linked", "reported">>}

MovesForward ==
    [][\A o \in OrderIds :
        /\ StatusOf(o)' # StatusOf(o) => <<StatusOf(o), StatusOf(o)'>> \in Forward
        /\ NumberOf(o) # None => NumberOf(o)' = NumberOf(o)]_vars

(* While the answer of a key is remembered, no second order is made for it. *)
KeyOf(o) == IF madeBy[o] = None THEN None ELSE calls[madeBy[o]].key

OneOrderPerKey ==
    \A o1, o2 \in OrderIds :
        /\ orders[o1] # None /\ orders[o2] # None
        /\ KeyOf(o1) = KeyOf(o2) /\ o1 # o2
        => \/ orders[o1].createdAt + Ttl < orders[o2].createdAt
           \/ orders[o2].createdAt + Ttl < orders[o1].createdAt

(* An order leaves "pending" only for a reason: the store said so, or it   *)
(* waited for MaxAge.  A list that is old by the time its orders are moved *)
(* must not release one that was not due.                                  *)
MovesHaveReason ==
    [][\A o \in OrderIds :
        StatusOf(o) = "pending" =>
            \/ StatusOf(o)' = "pending"
            \/ StatusOf(o)' = "confirmed" /\ <<NumberOf(o), "paid">> \in events
            \/ /\ StatusOf(o)' = "released"
               /\ \/ <<NumberOf(o), "off">> \in events
                  \/ orders[o].updatedAt + MaxAge <= now]_vars

(* A pending order whose patience ran out does not hold its stock for ever, *)
(* however many other orders the limited list of a sweep has to pass first. *)
StaleReleased ==
    \A o \in OrderIds :
        StatusOf(o) = "pending" /\ orders[o].updatedAt + MaxAge <= now
            ~> StatusOf(o) # "pending"

(* A call whose key already has its answer makes no second order at the    *)
(* store: PlaceOrder asks the store before it asks for the key.            *)
OneStoreOrderPerKey ==
    [][\A n \in Numbers :
        store[n] = None /\ store'[n] # None => ~Remembered(store'[n])]_vars

=============================================================================
