---------------------------- MODULE OrdersProofs ----------------------------
(***************************************************************************)
(* What Orders keeps for every number of orders, calls, webhooks and       *)
(* sweeps and for every Ttl and MaxAge: an order only moves forward and    *)
(* for a reason, and a remembered key makes one order.                     *)
(***************************************************************************)
EXTENDS Orders, TLAPS

-----------------------------------------------------------------------------
(* The inductive invariant                                                 *)

(* A call that saves has its key and its hash; one that answered, its key. *)
CallsAgree ==
    \A c \in Calls :
        /\ calls[c].step \in {"saving", "answered"} => calls[c].key \in Keys
        /\ calls[c].step = "saving" => calls[c].hash \in Hash

ReportsAgree ==
    \A r \in Reports : reports[r].step = "saving" =>
        reports[r].order \in OrderIds /\ reports[r].number \in Numbers

(* A link has no number until the buyer reports one.                       *)
LinksAgree == \A o \in OrderIds : StatusOf(o) = "linked" => NumberOf(o) = None

(* What a webhook read stays true while others step: the store did say so  *)
(* of the number its order still carries.                                  *)
HookAgrees(h) ==
    LET o == hooks[h].order IN
    /\ o \in OrderIds
    /\ orders[o] # None
    /\ NumberOf(o) \in Numbers
    /\ \/ hooks[h].target = "confirmed" /\ <<NumberOf(o), "paid">> \in events
       \/ hooks[h].target = "released" /\ <<NumberOf(o), "off">> \in events

HooksAgree == \A h \in Hooks : hooks[h] # IdleHook => HookAgrees(h)

(* What a sweep listed is still due as long as it is still pending.        *)
SweepsAgree ==
    \A w \in Sweeps : \A o \in sweeps[w] :
        /\ orders[o] # None
        /\ StatusOf(o) = "pending" => orders[o].updatedAt + MaxAge <= now

(* The request of a key outlasts every order that its calls made by Ttl.   *)
MadeAgrees(o) ==
    /\ madeBy[o] \in Calls
    /\ calls[madeBy[o]].step = "answered"
    /\ orders[o].createdAt <= now
    /\ requests[KeyOf(o)] # None
    /\ orders[o].createdAt + Ttl <= requests[KeyOf(o)].expiresAt

MadesAgree == \A o \in OrderIds : orders[o] # None => MadeAgrees(o)

OrdersInv ==
    /\ TypeOK
    /\ CallsAgree
    /\ ReportsAgree
    /\ LinksAgree
    /\ HooksAgree
    /\ SweepsAgree
    /\ MadesAgree
    /\ OneOrderPerKey

LEMMA InitOrders == Init => OrdersInv
<1> SUFFICES ASSUME Init PROVE OrdersInv
  OBVIOUS
<1>1. TypeOK
  BY OrdersAssumption DEF Init, TypeOK, NewCall, NewReport, IdleHook
<1>2. CallsAgree /\ ReportsAgree /\ HooksAgree /\ SweepsAgree
  BY SMTT(40) DEF Init, CallsAgree, ReportsAgree, HooksAgree, SweepsAgree, NewCall, NewReport
<1>3. LinksAgree /\ MadesAgree /\ OneOrderPerKey
  BY DEF Init, LinksAgree, MadesAgree, OneOrderPerKey, StatusOf
<1> QED BY <1>1, <1>2, <1>3 DEF OrdersInv

-----------------------------------------------------------------------------
(* Who writes what                                                         *)

LEMMA TickWrites == [Next]_vars => UNCHANGED now \/ Tick
BY ZenonT(60) DEF Next, CallStep, HookStep, SweepStep, PlaceAtStore, PlanLink, CreateOrder, CallFails,
     ReadReported, ReportOrder, StoreSignals, FindOrder, MoveOrder, HookFails, ListExpired,
     ReleaseOrder, SweepFails, Tick, vars

LEMMA StoreWrites ==
    [Next]_vars =>
        UNCHANGED events \/ \E n \in Numbers, signal \in DOMAIN Target : StoreSignals(n, signal)
BY ZenonT(60) DEF Next, CallStep, HookStep, SweepStep, PlaceAtStore, PlanLink, CreateOrder, CallFails,
     ReadReported, ReportOrder, StoreSignals, FindOrder, MoveOrder, HookFails, ListExpired,
     ReleaseOrder, SweepFails, Tick, vars, shop

LEMMA ReportsWrite ==
    [Next]_vars => \/ UNCHANGED reports
                   \/ \E r \in Reports : \/ \E o \in OrderIds, n \in Numbers : ReadReported(r, o, n)
                                         \/ ReportOrder(r)
BY ZenonT(60) DEF Next, CallStep, HookStep, SweepStep, PlaceAtStore, PlanLink, CreateOrder, CallFails,
     ReadReported, ReportOrder, StoreSignals, FindOrder, MoveOrder, HookFails, ListExpired,
     ReleaseOrder, SweepFails, Tick, vars

LEMMA HooksWrite == [Next]_vars => UNCHANGED hooks \/ \E h \in Hooks : HookStep(h)
BY ZenonT(60) DEF Next, CallStep, HookStep, SweepStep, PlaceAtStore, PlanLink, CreateOrder, CallFails,
     ReadReported, ReportOrder, StoreSignals, FindOrder, MoveOrder, HookFails, ListExpired,
     ReleaseOrder, SweepFails, Tick, vars

LEMMA SweepsWrite ==
    [Next]_vars => UNCHANGED sweeps \/ \E w \in Sweeps : SweepStep(w) \/ SweepFails(w)
BY ZenonT(60) DEF Next, CallStep, HookStep, SweepStep, PlaceAtStore, PlanLink, CreateOrder, CallFails,
     ReadReported, ReportOrder, StoreSignals, FindOrder, MoveOrder, HookFails, ListExpired,
     ReleaseOrder, SweepFails, Tick, vars

LEMMA OrdersWrite ==
    [Next]_vars => \/ UNCHANGED orders
                   \/ \E c \in Calls : CreateOrder(c)
                   \/ \E r \in Reports : ReportOrder(r)
                   \/ \E h \in Hooks : MoveOrder(h)
                   \/ \E w \in Sweeps : ReleaseOrder(w)
BY DEF Next, CallStep, HookStep, SweepStep, PlaceAtStore, PlanLink, CallFails, ReadReported,
   StoreSignals, FindOrder, HookFails, ListExpired, SweepFails, Tick, vars, documents

LEMMA CallsWrite ==
    [Next]_vars => UNCHANGED <<requests, madeBy, calls>> \/ \E c \in Calls : CallStep(c)
BY ZenonT(60) DEF Next, CallStep, HookStep, SweepStep, PlaceAtStore, PlanLink, CreateOrder, CallFails,
     ReadReported, ReportOrder, StoreSignals, FindOrder, MoveOrder, HookFails, ListExpired,
     ReleaseOrder, SweepFails, Tick, vars, documents

-----------------------------------------------------------------------------
(* What one step may do to an order                                        *)

Opens(o) ==
    /\ orders[o] = None
    /\ orders'[o] \in Order
    /\ StatusOf(o)' \in {"pending", "linked"}
    /\ StatusOf(o)' = "linked" => NumberOf(o)' = None

GetsReported(o) ==
    /\ StatusOf(o) = "linked"
    /\ orders'[o] \in Order
    /\ StatusOf(o)' = "reported"
    /\ orders'[o].createdAt = orders[o].createdAt

Reason(o) ==
    \/ StatusOf(o)' = "confirmed" /\ <<NumberOf(o), "paid">> \in events
    \/ /\ StatusOf(o)' = "released"
       /\ \/ <<NumberOf(o), "off">> \in events
          \/ orders[o].updatedAt + MaxAge <= now

Settles(o) ==
    /\ StatusOf(o) = "pending"
    /\ orders'[o] \in Order
    /\ NumberOf(o)' = NumberOf(o)
    /\ orders'[o].createdAt = orders[o].createdAt
    /\ Reason(o)

OrderStep(o) ==
    orders'[o] = orders[o] \/ Opens(o) \/ GetsReported(o) \/ Settles(o)

OrdersStep ==
    /\ orders' \in [OrderIds -> Order \union {None}]
    /\ \A o \in OrderIds : OrderStep(o)

(* A transaction of MoveOrderStatus settles a pending order or none.       *)
LEMMA MovedStep ==
    ASSUME TypeOK, NEW o \in OrderIds, NEW to \in {"confirmed", "released"},
           orders' = Moved(o, to),
           \/ to = "confirmed" /\ <<NumberOf(o), "paid">> \in events
           \/ to = "released" /\ <<NumberOf(o), "off">> \in events
           \/ /\ to = "released"
              /\ StatusOf(o) = "pending" => orders[o].updatedAt + MaxAge <= now
    PROVE  OrdersStep
<1> SUFFICES ASSUME StatusOf(o) = "pending" PROVE OrdersStep
  BY DEF Moved, OrdersStep, OrderStep, TypeOK
<1>1. orders[o] \in Order /\ now \in Nat
  BY DEF StatusOf, TypeOK
<1> DEFINE moved == [orders[o] EXCEPT !.status = to, !.updatedAt = now]
<1>2. /\ moved \in Order
      /\ moved.status = to
      /\ moved.number = orders[o].number
      /\ moved.createdAt = orders[o].createdAt
  BY <1>1 DEF Order, Status
<1> HIDE DEF moved
<1>3. orders' = [orders EXCEPT ![o] = moved]
  BY <1>1 DEF Moved, TypeOK, moved, Order
<1>4. orders'[o] = moved /\ \A q \in OrderIds : q # o => orders'[q] = orders[q]
  BY <1>3 DEF TypeOK
<1>5. orders[o] # None /\ orders'[o] # None
  BY <1>1, <1>2, <1>4, OrdersAssumption
<1>6. Settles(o)
  BY <1>2, <1>4, <1>5 DEF Settles, Reason, StatusOf, NumberOf
<1> QED BY <1>2, <1>3, <1>4, <1>6 DEF OrdersStep, OrderStep, TypeOK

LEMMA CreateOrderStep ==
    ASSUME OrdersInv, NEW c \in Calls, CreateOrder(c)
    PROVE  OrdersStep
<1>1. CASE UNCHANGED documents
  BY <1>1 DEF OrdersStep, OrderStep, documents, OrdersInv, TypeOK
<1>2. ASSUME NEW o \in OrderIds, orders[o] = None,
             orders' = [orders EXCEPT ![o] =
                [status |-> IF calls[c].number = None THEN "linked" ELSE "pending",
                 number |-> calls[c].number, createdAt |-> now, updatedAt |-> now]]
      PROVE  OrdersStep
  <2> DEFINE status == IF calls[c].number = None THEN "linked" ELSE "pending"
             made == [status |-> status, number |-> calls[c].number,
                      createdAt |-> now, updatedAt |-> now]
  <2>1. /\ status \in {"linked", "pending"}
        /\ status = "linked" => calls[c].number = None
    OBVIOUS
  <2> HIDE DEF status
  <2>2. made \in Order /\ made.status = status /\ made.number = calls[c].number
    BY <2>1 DEF Order, Status, OrdersInv, TypeOK
  <2> HIDE DEF made
  <2>3. orders' = [orders EXCEPT ![o] = made]
    BY <1>2 DEF made, status
  <2>4. orders'[o] = made /\ \A q \in OrderIds : q # o => orders'[q] = orders[q]
    BY <2>3 DEF OrdersInv, TypeOK
  <2>5. made # None
    BY <2>2, OrdersAssumption
  <2>6. Opens(o)
    BY <1>2, <2>1, <2>2, <2>4, <2>5 DEF Opens, StatusOf, NumberOf
  <2> QED BY <2>2, <2>3, <2>4, <2>6 DEF OrdersStep, OrderStep, OrdersInv, TypeOK
<1> QED BY <1>1, <1>2 DEF CreateOrder

LEMMA ReportOrderStep ==
    ASSUME OrdersInv, NEW r \in Reports, ReportOrder(r)
    PROVE  OrdersStep
<1>1. CASE UNCHANGED orders
  BY <1>1 DEF OrdersStep, OrderStep, OrdersInv, TypeOK
<1>2. CASE orders' # orders
  <2>1. PICK o \in OrderIds : o = reports[r].order /\ StatusOf(o) = "linked"
    BY <1>2 DEF ReportOrder, OrdersInv, ReportsAgree
  <2>2. PICK n \in Numbers : n = reports[r].number
    BY <1>2 DEF ReportOrder, OrdersInv, ReportsAgree
  <2> DEFINE done == [orders[o] EXCEPT !.status = "reported", !.number = n, !.updatedAt = now]
  <2>3. orders[o] \in Order /\ now \in Nat
    BY <2>1 DEF StatusOf, OrdersInv, TypeOK
  <2>4. /\ done \in Order /\ done.status = "reported"
        /\ done.createdAt = orders[o].createdAt
    BY <2>3 DEF Order, Status
  <2> HIDE DEF done
  <2>5. orders' = [orders EXCEPT ![o] = done]
    BY <1>2, <2>1, <2>2, <2>3 DEF ReportOrder, done, Order
  <2>6. orders'[o] = done /\ \A q \in OrderIds : q # o => orders'[q] = orders[q]
    BY <2>5 DEF OrdersInv, TypeOK
  <2>7. GetsReported(o)
    BY <2>1, <2>4, <2>6, OrdersAssumption DEF GetsReported, StatusOf
  <2> QED BY <2>4, <2>5, <2>6, <2>7 DEF OrdersStep, OrderStep, OrdersInv, TypeOK
<1> QED BY <1>1, <1>2

LEMMA OrderSteps ==
    ASSUME OrdersInv, [Next]_vars
    PROVE  OrdersStep
<1>1. CASE UNCHANGED orders
  BY <1>1 DEF OrdersStep, OrderStep, OrdersInv, TypeOK
<1>2. ASSUME NEW h \in Hooks, MoveOrder(h) PROVE OrdersStep
  BY <1>2, MovedStep DEF MoveOrder, OrdersInv, HooksAgree, HookAgrees
<1>3. ASSUME NEW w \in Sweeps, ReleaseOrder(w) PROVE OrdersStep
  <2>1. PICK o \in OrderIds : o \in sweeps[w] /\ orders' = Moved(o, "released")
    BY <1>3 DEF ReleaseOrder, OrdersInv, TypeOK
  <2> QED BY <2>1, MovedStep DEF OrdersInv, SweepsAgree
<1> QED BY <1>1, <1>2, <1>3, OrdersWrite, CreateOrderStep, ReportOrderStep

-----------------------------------------------------------------------------
(* Types                                                                   *)

LEMMA CallsType ==
    ASSUME OrdersInv, NEW c \in Calls, CallStep(c)
    PROVE  /\ calls' \in [Calls -> [step: {"new", "saving", "answered", "failed"},
                                    key: Keys \union {None}, hash: Hash \union {None},
                                    number: Numbers \union {None}, order: OrderIds \union {None}]]
           /\ store' \in [Numbers -> Keys \union {None}]
           /\ CallsAgree'
<1> DEFINE Call == [step: {"new", "saving", "answered", "failed"},
                    key: Keys \union {None}, hash: Hash \union {None},
                    number: Numbers \union {None}, order: OrderIds \union {None}]
           Good(call) ==
              /\ call \in Call
              /\ call.step \in {"saving", "answered"} => call.key \in Keys
              /\ call.step = "saving" => call.hash \in Hash
<1>1. calls \in [Calls -> Call] /\ store \in [Numbers -> Keys \union {None}]
      /\ Good(calls[c])
  BY DEF OrdersInv, TypeOK, CallsAgree
<1>2. ASSUME NEW call, Good(call), calls' = [calls EXCEPT ![c] = call]
      PROVE  calls' \in [Calls -> Call] /\ CallsAgree'
  BY <1>1, <1>2 DEF OrdersInv, CallsAgree
<1>3. ASSUME NEW k \in Keys, NEW p \in Carts, PlaceAtStore(c, k, p)
      PROVE  /\ store' \in [Numbers -> Keys \union {None}]
             /\ \E call : Good(call) /\ calls' = [calls EXCEPT ![c] = call]
  <2>1. PICK n \in Numbers, step \in {"saving", "failed"} :
            /\ store' = [store EXCEPT ![n] = k]
            /\ calls' = [calls EXCEPT ![c] = [NewCall EXCEPT
                !.step = step, !.key = k, !.hash = <<"place", p>>, !.number = n]]
    BY <1>3 DEF PlaceAtStore
  <2> DEFINE call == [NewCall EXCEPT
                !.step = step, !.key = k, !.hash = <<"place", p>>, !.number = n]
  <2>2. Good(call)
    BY DEF NewCall, Hash
  <2>3. store' \in [Numbers -> Keys \union {None}]
    BY <1>1, <2>1
  <2> HIDE DEF call, Good
  <2>4. calls' = [calls EXCEPT ![c] = call]
    BY <2>1 DEF call
  <2> QED BY <2>2, <2>3, <2>4
<1>4. ASSUME NEW k \in Keys, NEW p \in Carts, PlanLink(c, k, p)
      PROVE  \E call : Good(call) /\ calls' = [calls EXCEPT ![c] = call]
  <2> DEFINE call == [NewCall EXCEPT !.step = "saving", !.key = k, !.hash = <<"link", p>>]
  <2>1. Good(call)
    BY DEF NewCall, Hash
  <2>2. calls' = [calls EXCEPT ![c] = call]
    BY <1>4 DEF PlanLink
  <2> HIDE DEF call, Good
  <2> QED BY <2>1, <2>2
<1>5. CASE CallFails(c)
  <2> DEFINE call == [calls[c] EXCEPT !.step = "failed"]
  <2>1. Good(call)
    BY <1>1
  <2>2. calls' = [calls EXCEPT ![c] = call]
    BY <1>1, <1>5 DEF CallFails
  <2> HIDE DEF call, Good
  <2>3. \E d : Good(d) /\ calls' = [calls EXCEPT ![c] = d]
    BY <2>1, <2>2
  <2> QED BY <1>1, <1>2, <1>5, <2>3 DEF CallFails, shop
<1>6. CASE CreateOrder(c)
  <2>1. ASSUME NEW o \in OrderIds,
               calls' = [calls EXCEPT ![c].step = "answered", ![c].order = o]
        PROVE  \E call : Good(call) /\ calls' = [calls EXCEPT ![c] = call]
    <3> DEFINE call == [calls[c] EXCEPT !.step = "answered", !.order = o]
    <3>1. Good(call)
      BY <1>1, <1>6 DEF CreateOrder
    <3>2. calls' = [calls EXCEPT ![c] = call]
      BY <1>1, <2>1
    <3> HIDE DEF call, Good
    <3> QED BY <3>1, <3>2
  <2>2. ASSUME calls' = [calls EXCEPT ![c].step = "failed"]
        PROVE  \E call : Good(call) /\ calls' = [calls EXCEPT ![c] = call]
    <3> DEFINE call == [calls[c] EXCEPT !.step = "failed"]
    <3>1. Good(call)
      BY <1>1
    <3>2. calls' = [calls EXCEPT ![c] = call]
      BY <1>1, <2>2
    <3> HIDE DEF call, Good
    <3> QED BY <3>1, <3>2
  <2>3. Remembered(calls[c].key) => requests[calls[c].key].order \in OrderIds
    BY <1>1, <1>6 DEF CreateOrder, Remembered, OrdersInv, TypeOK, Request
  <2>4. \E call : Good(call) /\ calls' = [calls EXCEPT ![c] = call]
    BY <1>6, <2>1, <2>2, <2>3 DEF CreateOrder
  <2> QED BY <1>1, <1>2, <1>6, <2>4 DEF CreateOrder, shop
<1>7. CASE \E k \in Keys, p \in Carts : PlanLink(c, k, p)
  BY <1>1, <1>2, <1>4, <1>7 DEF PlanLink, shop
<1> QED BY <1>2, <1>3, <1>5, <1>6, <1>7 DEF CallStep

LEMMA NextType ==
    ASSUME OrdersInv, [Next]_vars
    PROVE  TypeOK' /\ CallsAgree'
<1>1. orders' \in [OrderIds -> Order \union {None}]
  BY OrderSteps DEF OrdersStep
<1> USE DEF OrdersInv
<1>2. CASE UNCHANGED vars
  BY <1>2 DEF TypeOK, CallsAgree, vars, documents, shop
<1>3. ASSUME NEW c \in Calls, CallStep(c) PROVE TypeOK' /\ CallsAgree'
  <2>1. /\ requests' \in [Keys -> Request \union {None}]
        /\ madeBy' \in [OrderIds -> Calls \union {None}]
    <3>1. CASE UNCHANGED documents
      BY <3>1 DEF TypeOK, documents
    <3>2. CASE CreateOrder(c)
      <4>1. calls[c].key \in Keys /\ calls[c].hash \in Hash
        BY <3>2 DEF CreateOrder, CallsAgree
      <4>2. \A o \in OrderIds :
              [hash |-> calls[c].hash, order |-> o, expiresAt |-> now + Ttl] \in Request
        BY <4>1, OrdersAssumption DEF Request, TypeOK
      <4>3. CASE UNCHANGED documents
        BY <4>3 DEF TypeOK, documents
      <4>4. ASSUME NEW o \in OrderIds,
                   madeBy' = [madeBy EXCEPT ![o] = c],
                   requests' = [requests EXCEPT ![calls[c].key] =
                       [hash |-> calls[c].hash, order |-> o, expiresAt |-> now + Ttl]]
            PROVE  /\ requests' \in [Keys -> Request \union {None}]
                   /\ madeBy' \in [OrderIds -> Calls \union {None}]
        <5> DEFINE request == [hash |-> calls[c].hash, order |-> o, expiresAt |-> now + Ttl]
        <5>1. request \in Request
          BY <4>2
        <5> HIDE DEF request
        <5>2. requests' = [requests EXCEPT ![calls[c].key] = request]
          BY <4>4 DEF request
        <5> QED BY <4>1, <4>4, <5>1, <5>2 DEF TypeOK
      <4> QED BY <3>2, <4>3, <4>4 DEF CreateOrder
    <3> QED BY <1>3, <3>1, <3>2, ZenonT(60) DEF CallStep, PlaceAtStore, PlanLink, CallFails
  <2>2. UNCHANGED <<now, events, reports, hooks, sweeps, faults>>
    BY <1>3 DEF CallStep, PlaceAtStore, PlanLink, CallFails, CreateOrder, shop
  <2>3. calls' \in [Calls -> [step: {"new", "saving", "answered", "failed"},
                              key: Keys \union {None}, hash: Hash \union {None},
                              number: Numbers \union {None}, order: OrderIds \union {None}]]
        /\ store' \in [Numbers -> Keys \union {None}]
        /\ CallsAgree'
    BY <1>3, CallsType
  <2> QED BY <1>1, <2>1, <2>2, <2>3, SMTT(40) DEF TypeOK
<1>4. ASSUME NEW r \in Reports,
             ReportOrder(r) \/ \E o \in OrderIds, n \in Numbers : ReadReported(r, o, n)
      PROVE  TypeOK' /\ CallsAgree'
  <2>1. reports' \in [Reports -> [step: {"new", "saving", "answered", "refused"},
                                  order: OrderIds \union {None},
                                  number: Numbers \union {None}]]
    BY <1>4 DEF ReportOrder, ReadReported, TypeOK
  <2>2. UNCHANGED <<now, requests, madeBy, store, events, calls, hooks, sweeps, faults>>
    BY <1>4 DEF ReportOrder, ReadReported, documents, shop
  <2> QED BY <1>1, <2>1, <2>2 DEF TypeOK, CallsAgree
<1>5. ASSUME NEW n \in Numbers, NEW signal \in DOMAIN Target, StoreSignals(n, signal)
      PROVE  TypeOK' /\ CallsAgree'
  BY <1>1, <1>5 DEF TypeOK, CallsAgree, StoreSignals, documents
<1>6. ASSUME NEW h \in Hooks, HookStep(h) PROVE TypeOK' /\ CallsAgree'
  <2>1. \A signal \in DOMAIN Target : Target[signal] \in {"confirmed", "released", None}
    BY DEF Target
  <2>2. hooks' \in [Hooks -> [order: OrderIds \union {None}, target: {"confirmed", "released", None}]]
    <3> DEFINE Hook == [order: OrderIds \union {None}, target: {"confirmed", "released", None}]
    <3>1. ASSUME NEW hook \in Hook, hooks' = [hooks EXCEPT ![h] = hook]
          PROVE  hooks' \in [Hooks -> Hook]
      BY <3>1 DEF TypeOK
    <3>2. IdleHook \in Hook
      BY DEF IdleHook
    <3>3. \A o \in OrderIds, signal \in DOMAIN Target :
            [order |-> o, target |-> Target[signal]] \in Hook
      BY <2>1
    <3>4. CASE MoveOrder(h) \/ HookFails(h)
      BY <3>1, <3>2, <3>4 DEF MoveOrder, HookFails
    <3>5. ASSUME NEW n \in Numbers, NEW signal \in DOMAIN Target, FindOrder(h, n, signal)
          PROVE  hooks' \in [Hooks -> Hook]
      BY <3>1, <3>3, <3>5 DEF FindOrder, TypeOK
    <3> QED BY <1>6, <3>4, <3>5 DEF HookStep
  <2>3. UNCHANGED <<now, requests, madeBy, store, events, calls, reports, sweeps, faults>>
    BY <1>6 DEF HookStep, FindOrder, MoveOrder, HookFails, documents, shop
  <2> QED BY <1>1, <2>2, <2>3 DEF TypeOK, CallsAgree
<1>7. ASSUME NEW w \in Sweeps, SweepStep(w) \/ SweepFails(w) PROVE TypeOK' /\ CallsAgree'
  <2>1. sweeps' \in [Sweeps -> SUBSET OrderIds]
    BY <1>7 DEF SweepStep, ListExpired, ReleaseOrder, SweepFails, Expired, TypeOK
  <2>2. faults' \in 0..MaxFaults
    BY <1>7, OrdersAssumption DEF SweepStep, ListExpired, ReleaseOrder, SweepFails, TypeOK
  <2>3. UNCHANGED <<now, requests, madeBy, store, events, calls, reports, hooks>>
    BY <1>7 DEF SweepStep, ListExpired, ReleaseOrder, SweepFails, documents, shop
  <2> QED BY <1>1, <2>1, <2>2, <2>3 DEF TypeOK, CallsAgree
<1>8. CASE Tick
  BY <1>8 DEF Tick, TypeOK, CallsAgree, documents, shop
<1> QED BY <1>2, <1>3, <1>4, <1>5, <1>6, <1>7, <1>8 DEF Next

-----------------------------------------------------------------------------
(* What the processes remember                                             *)

(* An order that exists keeps its number, and is pending only if it was.   *)
LEMMA OrderKept ==
    ASSUME OrdersInv, [Next]_vars, NEW o \in OrderIds, orders[o] # None
    PROVE  /\ orders'[o] # None
           /\ orders'[o].createdAt = orders[o].createdAt
           /\ NumberOf(o) # None => NumberOf(o)' = NumberOf(o)
           /\ StatusOf(o)' = "pending" => orders'[o] = orders[o]
<1>1. OrderStep(o) /\ orders[o] \in Order
  BY OrderSteps DEF OrdersStep, OrdersInv, TypeOK
<1>2. orders[o].status = "linked" => orders[o].number = None
  BY DEF OrdersInv, LinksAgree, StatusOf, NumberOf
<1> QED BY <1>1, <1>2, OrdersAssumption
        DEF OrderStep, Opens, GetsReported, Settles, Reason, StatusOf, NumberOf

LEMMA ReportsLinksKept ==
    ASSUME OrdersInv, [Next]_vars
    PROVE  ReportsAgree' /\ LinksAgree'
<1>1. ReportsAgree'
  <2> USE DEF OrdersInv
  <2>1. CASE UNCHANGED reports
    BY <2>1 DEF ReportsAgree
  <2>2. ASSUME NEW r \in Reports, NEW o \in OrderIds, NEW n \in Numbers, ReadReported(r, o, n)
        PROVE  ReportsAgree'
    BY <2>2 DEF ReadReported, ReportsAgree, TypeOK
  <2>3. ASSUME NEW r \in Reports, ReportOrder(r) PROVE ReportsAgree'
    <3>1. /\ \A q \in Reports : q # r => reports'[q] = reports[q]
          /\ reports'[r].step # "saving"
      BY <2>3 DEF ReportOrder, TypeOK
    <3> QED BY <3>1 DEF ReportsAgree
  <2> QED BY <2>1, <2>2, <2>3, ReportsWrite
<1>2. LinksAgree'
  BY OrderSteps DEF OrdersStep, OrderStep, Opens, GetsReported, Settles, Reason, OrdersInv,
     LinksAgree, StatusOf, NumberOf
<1> QED BY <1>1, <1>2

LEMMA HooksKept ==
    ASSUME OrdersInv, [Next]_vars
    PROVE  HooksAgree'
<1> USE DEF OrdersInv
<1>1. SUFFICES ASSUME NEW h \in Hooks, hooks'[h] # IdleHook PROVE HookAgrees(h)'
  BY DEF HooksAgree
<1>2. events \subseteq events'
  BY StoreWrites DEF StoreSignals
<1>3. CASE hooks'[h] = hooks[h]
  <2>1. HookAgrees(h)
    BY <1>1, <1>3 DEF HooksAgree
  <2>2. PICK o \in OrderIds : o = hooks[h].order
    BY <2>1 DEF HookAgrees
  <2>3. orders'[o] # None /\ NumberOf(o)' = NumberOf(o)
    BY <2>1, <2>2, OrderKept, OrdersAssumption DEF HookAgrees
  <2> QED BY <1>2, <1>3, <2>1, <2>2, <2>3 DEF HookAgrees
<1>4. CASE hooks'[h] # hooks[h]
  <2>1. PICK n \in Numbers, signal \in DOMAIN Target : FindOrder(h, n, signal)
    <3>1. PICK g \in Hooks : HookStep(g)
      BY <1>4, HooksWrite
    <3>2. ~MoveOrder(g) /\ ~HookFails(g)
      BY <1>1, <1>4 DEF MoveOrder, HookFails, TypeOK
    <3>3. PICK n \in Numbers, signal \in DOMAIN Target : FindOrder(g, n, signal)
      BY <3>1, <3>2 DEF HookStep
    <3>4. g = h
      BY <1>4, <3>3 DEF FindOrder, TypeOK
    <3> QED BY <3>3, <3>4
  <2>2. PICK o \in OrderIds : /\ orders[o] # None /\ NumberOf(o) = n
                              /\ hooks'[h] = [order |-> o, target |-> Target[signal]]
    BY <1>4, <2>1 DEF FindOrder, TypeOK
  <2>3. UNCHANGED <<orders, events>> /\ <<n, signal>> \in events
    BY <2>1 DEF FindOrder, documents, shop
  <2> QED BY <2>2, <2>3 DEF HookAgrees, Target, NumberOf
<1> QED BY <1>3, <1>4

LEMMA SweepsKept ==
    ASSUME OrdersInv, [Next]_vars
    PROVE  SweepsAgree'
<1> USE DEF OrdersInv
<1>1. SUFFICES ASSUME NEW w \in Sweeps, NEW o \in sweeps'[w]
               PROVE  /\ orders'[o] # None
                      /\ StatusOf(o)' = "pending" => orders'[o].updatedAt + MaxAge <= now'
  BY DEF SweepsAgree
<1>2. now \in Nat /\ now' \in Nat /\ now <= now'
  BY TickWrites DEF Tick, TypeOK
<1>3. \/ o \in sweeps[w]
      \/ o \in Expired
  BY SweepsWrite DEF SweepStep, ListExpired, ReleaseOrder, SweepFails, TypeOK
<1>4. /\ o \in OrderIds /\ orders[o] # None
      /\ StatusOf(o) = "pending" => orders[o].updatedAt + MaxAge <= now
  BY <1>3 DEF SweepsAgree, Expired, StatusOf, TypeOK
<1>5. orders[o] \in Order /\ MaxAge \in Nat
  BY <1>4, OrdersAssumption DEF TypeOK
<1>6. /\ orders'[o] # None
      /\ StatusOf(o)' = "pending" => orders'[o] = orders[o] /\ StatusOf(o) = "pending"
  BY <1>4, OrderKept DEF StatusOf
<1> QED BY <1>2, <1>4, <1>5, <1>6 DEF Order

-----------------------------------------------------------------------------
(* Keys                                                                    *)

(* A step that makes no order keeps what is known of those made before.    *)
LEMMA MadeKept ==
    ASSUME OrdersInv, [Next]_vars, NEW o \in OrderIds, orders[o] # None
    PROVE  /\ madeBy'[o] = madeBy[o] /\ KeyOf(o)' = KeyOf(o)
           /\ MadeAgrees(o)'
<1> USE DEF OrdersInv
<1>1. MadeAgrees(o) /\ orders[o] \in Order /\ now \in Nat /\ Ttl \in Nat
  BY OrdersAssumption DEF MadesAgree, TypeOK
<1>2. orders'[o].createdAt = orders[o].createdAt
  BY OrderKept
<1>3. now' \in Nat /\ now <= now'
  BY TickWrites DEF Tick, TypeOK
<1>4. CASE UNCHANGED <<requests, madeBy, calls>>
  BY <1>1, <1>2, <1>3, <1>4 DEF MadeAgrees, KeyOf, Order
<1>5. ASSUME NEW c \in Calls, CallStep(c), ~UNCHANGED <<requests, madeBy, calls>>
      PROVE  /\ madeBy'[o] = madeBy[o] /\ KeyOf(o)' = KeyOf(o)
             /\ MadeAgrees(o)'
  <2>1. calls[c].step \in {"new", "saving"}
        /\ \A d \in Calls : d # c => calls'[d] = calls[d]
    BY <1>5 DEF CallStep, PlaceAtStore, PlanLink, CreateOrder, CallFails, TypeOK
  <2>2. madeBy'[o] = madeBy[o]
    BY <1>1, <1>5 DEF CallStep, PlaceAtStore, PlanLink, CreateOrder, CallFails, TypeOK, documents
  <2>3. PICK d \in Calls : d = madeBy[o] /\ calls[d].step = "answered"
    BY <1>1 DEF MadeAgrees
  <2>4. calls'[d] = calls[d]
    BY <2>1, <2>3
  <2>5. KeyOf(o)' = KeyOf(o) /\ KeyOf(o) = calls[d].key /\ calls[d].key \in Keys
    BY <2>2, <2>3, <2>4, OrdersAssumption DEF KeyOf, CallsAgree
  <2>6. CASE UNCHANGED requests
    BY <1>1, <1>2, <1>3, <2>2, <2>3, <2>4, <2>5, <2>6 DEF MadeAgrees, Order
  <2>7. CASE requests' # requests
    <3>1. PICK p \in OrderIds :
            requests' = [requests EXCEPT ![calls[c].key] =
                [hash |-> calls[c].hash, order |-> p, expiresAt |-> now + Ttl]]
          /\ calls[c].step = "saving"
      BY <1>5, <2>7 DEF CallStep, PlaceAtStore, PlanLink, CreateOrder, CallFails, documents
    <3> DEFINE request == [hash |-> calls[c].hash, order |-> p, expiresAt |-> now + Ttl]
    <3>2. request \in Request /\ request.expiresAt = now + Ttl
      BY <1>1, <3>1 DEF Request, CallsAgree
    <3> HIDE DEF request
    <3>3. requests' = [requests EXCEPT ![calls[c].key] = request]
      BY <3>1 DEF request
    <3>4. \/ requests'[calls[d].key] = requests[calls[d].key]
          \/ requests'[calls[d].key] = request
      BY <2>5, <3>3 DEF TypeOK
    <3>5. request # None
      BY <3>2, OrdersAssumption
    <3> QED BY <1>1, <1>2, <1>3, <2>2, <2>3, <2>4, <2>5, <3>2, <3>4, <3>5
            DEF MadeAgrees, Order
  <2> QED BY <2>2, <2>5, <2>6, <2>7
<1> QED BY <1>4, <1>5, CallsWrite

(* The one step that makes an order: its key is not remembered.            *)
LEMMA NewOrder ==
    ASSUME OrdersInv, [Next]_vars, NEW o \in OrderIds, orders[o] = None, orders'[o] # None
    PROVE  /\ MadeAgrees(o)'
           /\ orders'[o].createdAt = now
           /\ ~Remembered(KeyOf(o)')
           /\ \A q \in OrderIds : q # o => orders'[q] = orders[q]
<1> USE DEF OrdersInv
<1>1. StatusOf(o) = "none" /\ orders'[o] # orders[o]
  BY DEF StatusOf
<1>2. PICK c \in Calls : CreateOrder(c)
  <2>1. ASSUME NEW r \in Reports, ReportOrder(r) PROVE FALSE
    BY <1>1, <2>1 DEF ReportOrder, TypeOK
  <2>2. ASSUME NEW q, NEW to, orders' = Moved(q, to) PROVE FALSE
    BY <1>1, <2>2 DEF Moved, TypeOK
  <2> QED BY <1>1, <2>1, <2>2, OrdersWrite DEF MoveOrder, ReleaseOrder
<1>3. calls[c].step = "saving" /\ calls[c].key \in Keys /\ calls[c].hash \in Hash
      /\ now \in Nat /\ Ttl \in Nat
  BY <1>2, OrdersAssumption DEF CreateOrder, CallsAgree, TypeOK
<1>4. PICK k \in Keys : k = calls[c].key
  BY <1>3
<1>5. PICK p \in OrderIds :
        /\ ~Remembered(k)
        /\ UNCHANGED now
        /\ orders' = [orders EXCEPT ![p] =
              [status |-> IF calls[c].number = None THEN "linked" ELSE "pending",
               number |-> calls[c].number, createdAt |-> now, updatedAt |-> now]]
        /\ requests' = [requests EXCEPT ![k] =
              [hash |-> calls[c].hash, order |-> p, expiresAt |-> now + Ttl]]
        /\ madeBy' = [madeBy EXCEPT ![p] = c]
        /\ calls' = [calls EXCEPT ![c].step = "answered", ![c].order = p]
  BY <1>1, <1>2, <1>4 DEF CreateOrder, documents
<1>6. p = o /\ \A q \in OrderIds : q # o => orders'[q] = orders[q]
  BY <1>1, <1>5 DEF TypeOK
<1>7. orders'[o].createdAt = now
  BY <1>5, <1>6 DEF TypeOK
<1>8. madeBy'[o] = c /\ calls'[c].step = "answered" /\ calls'[c].key = k
  BY <1>4, <1>5, <1>6 DEF TypeOK
<1>9. KeyOf(o)' = k
  BY <1>8, OrdersAssumption DEF KeyOf
<1>10. requests'[k] # None /\ requests'[k].expiresAt = now + Ttl
  <2> DEFINE request == [hash |-> calls[c].hash, order |-> p, expiresAt |-> now + Ttl]
  <2>1. request \in Request /\ request.expiresAt = now + Ttl
    BY <1>3 DEF Request
  <2> HIDE DEF request
  <2>2. requests' = [requests EXCEPT ![k] = request]
    BY <1>5 DEF request
  <2>3. requests'[k] = request
    BY <2>2 DEF TypeOK
  <2> QED BY <2>1, <2>3, OrdersAssumption
<1>11. MadeAgrees(o)'
  <2>1. madeBy'[o] \in Calls /\ calls'[madeBy'[o]].step = "answered"
    BY <1>8
  <2>2. orders'[o].createdAt <= now'
    BY <1>3, <1>5, <1>7
  <2>3. /\ requests'[KeyOf(o)'] # None
        /\ orders'[o].createdAt + Ttl <= requests'[KeyOf(o)'].expiresAt
    BY <1>3, <1>7, <1>9, <1>10
  <2> QED BY <2>1, <2>2, <2>3 DEF MadeAgrees
<1> QED BY <1>5, <1>6, <1>7, <1>9, <1>11

LEMMA KeysKept ==
    ASSUME OrdersInv, [Next]_vars
    PROVE  MadesAgree' /\ OneOrderPerKey'
<1> USE DEF OrdersInv
<1>1. MadesAgree'
  BY MadeKept, NewOrder DEF MadesAgree
<1>2. ASSUME NEW o1 \in OrderIds, NEW o2 \in OrderIds, o1 # o2,
             orders[o1] # None, orders'[o1] # None, orders[o2] = None, orders'[o2] # None,
             KeyOf(o1)' = KeyOf(o2)'
      PROVE  orders'[o1].createdAt + Ttl < orders'[o2].createdAt
  <2>1. /\ MadeAgrees(o1) /\ KeyOf(o1)' = KeyOf(o1) /\ KeyOf(o1) \in Keys
        /\ orders[o1] \in Order /\ orders'[o1].createdAt = orders[o1].createdAt
    BY <1>2, MadeKept, OrderKept, OrdersAssumption
       DEF MadesAgree, MadeAgrees, KeyOf, CallsAgree, TypeOK
  <2>2. ~Remembered(KeyOf(o2)') /\ orders'[o2].createdAt = now
    BY <1>2, NewOrder
  <2>3. PICK k \in Keys : k = KeyOf(o1)
    BY <2>1
  <2>4. ~Remembered(k)
    BY <1>2, <2>1, <2>2, <2>3
  <2>5. requests[k] \in Request /\ orders[o1].createdAt + Ttl <= requests[k].expiresAt
    BY <2>1, <2>3 DEF MadeAgrees, TypeOK
  <2>6. requests[k].expiresAt < now
    BY <2>4, <2>5, OrdersAssumption DEF Remembered, Request, TypeOK
  <2> QED BY <2>1, <2>2, <2>5, <2>6, OrdersAssumption DEF Order, Request, TypeOK
<1>3. OneOrderPerKey'
  <2> SUFFICES ASSUME NEW o1 \in OrderIds, NEW o2 \in OrderIds, o1 # o2,
                      orders'[o1] # None, orders'[o2] # None, KeyOf(o1)' = KeyOf(o2)'
               PROVE  \/ orders'[o1].createdAt + Ttl < orders'[o2].createdAt
                      \/ orders'[o2].createdAt + Ttl < orders'[o1].createdAt
    BY DEF OneOrderPerKey
  <2>1. CASE orders[o1] # None /\ orders[o2] # None
    <3>1. KeyOf(o1) = KeyOf(o2)
      BY <2>1, MadeKept
    <3>2. /\ orders'[o1].createdAt = orders[o1].createdAt
          /\ orders'[o2].createdAt = orders[o2].createdAt
      BY <2>1, OrderKept
    <3> QED BY <2>1, <3>1, <3>2 DEF OneOrderPerKey
  <2>2. CASE orders[o1] # None /\ orders[o2] = None
    BY <1>2, <2>2
  <2>3. CASE orders[o1] = None /\ orders[o2] # None
    BY <1>2, <2>3
  <2>4. CASE orders[o1] = None /\ orders[o2] = None
    BY <2>4, NewOrder
  <2> QED BY <2>1, <2>2, <2>3, <2>4
<1> QED BY <1>1, <1>3

-----------------------------------------------------------------------------
(* Theorems                                                                *)

LEMMA NextOrders == OrdersInv /\ [Next]_vars => OrdersInv'
BY NextType, ReportsLinksKept, HooksKept, SweepsKept, KeysKept DEF OrdersInv

LEMMA OrdersInvariant == Spec => []OrdersInv
BY InitOrders, NextOrders, PTL DEF Spec

(* The documents and the memories keep their shape, for every instance.    *)
THEOREM OrdersTypeCorrect == Spec => []TypeOK
<1>1. OrdersInv => TypeOK
  BY DEF OrdersInv
<1> QED BY <1>1, OrdersInvariant, PTL

(* However webhooks, reports, releases and retries interleave, an order    *)
(* only moves forward and a number once known stays.                       *)
THEOREM ForwardCorrect == Spec => MovesForward
<1>1. OrdersInv /\ [Next]_vars =>
        [\A o \in OrderIds :
            /\ StatusOf(o)' # StatusOf(o) => <<StatusOf(o), StatusOf(o)'>> \in Forward
            /\ NumberOf(o) # None => NumberOf(o)' = NumberOf(o)]_vars
  <2> SUFFICES ASSUME OrdersInv, [Next]_vars, NEW o \in OrderIds
               PROVE  /\ StatusOf(o)' # StatusOf(o) =>
                            <<StatusOf(o), StatusOf(o)'>> \in Forward
                      /\ NumberOf(o) # None => NumberOf(o)' = NumberOf(o)
    OBVIOUS
  <2>1. OrderStep(o)
    BY OrderSteps DEF OrdersStep
  <2>2. StatusOf(o)' # StatusOf(o) => <<StatusOf(o), StatusOf(o)'>> \in Forward
    BY <2>1 DEF OrderStep, Opens, GetsReported, Settles, Reason, StatusOf, Forward
  <2>3. NumberOf(o) # None => NumberOf(o)' = NumberOf(o)
    BY OrderKept DEF NumberOf
  <2> QED BY <2>2, <2>3
<1> QED BY <1>1, OrdersInvariant, PTL DEF Spec, MovesForward

(* An order leaves "pending" only because the store said so or because it  *)
(* waited for MaxAge, for every list a sweep may still be working from.    *)
THEOREM ReasonsCorrect == Spec => MovesHaveReason
<1>1. OrdersInv /\ [Next]_vars =>
        [\A o \in OrderIds :
            StatusOf(o) = "pending" =>
                \/ StatusOf(o)' = "pending"
                \/ StatusOf(o)' = "confirmed" /\ <<NumberOf(o), "paid">> \in events
                \/ /\ StatusOf(o)' = "released"
                   /\ \/ <<NumberOf(o), "off">> \in events
                      \/ orders[o].updatedAt + MaxAge <= now]_vars
  <2> SUFFICES ASSUME OrdersInv, [Next]_vars, NEW o \in OrderIds, StatusOf(o) = "pending"
               PROVE  StatusOf(o)' = "pending" \/ Reason(o)
    BY DEF Reason
  <2>1. OrderStep(o)
    BY OrderSteps DEF OrdersStep
  <2> QED BY <2>1 DEF OrderStep, Opens, GetsReported, Settles, StatusOf
<1> QED BY <1>1, OrdersInvariant, PTL DEF Spec, MovesHaveReason

(* No second order is made for a key while its answer is remembered, for   *)
(* every number of concurrent and repeated calls.                          *)
THEOREM OneOrderCorrect == Spec => []OneOrderPerKey
<1>1. OrdersInv => OneOrderPerKey
  BY DEF OrdersInv
<1> QED BY <1>1, OrdersInvariant, PTL

=============================================================================
