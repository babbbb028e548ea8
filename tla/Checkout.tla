------------------------------ MODULE Checkout ------------------------------
(***************************************************************************)
(* What a client asks about offers a search already found, and what the    *)
(* worker asks before it stores them.  StockService, CheckoutService and   *)
(* OrderService (internal/search) read every page of the search, name the  *)
(* offers of the call and ask their stores through Shops                   *)
(* (internal/stores/commerce), which opens the client of the platform:     *)
(* stock of one offer, a cart link, a quote of a cart, an order.           *)
(*                                                                         *)
(* Stock moves at the stores all the time, results keep landing while the  *)
(* pages are read, any request may fail, and the tasks of a call pass a    *)
(* gate.  A cart lives at its store, in the session a task opened.  Money, *)
(* addresses and payment methods are left out; a product is a variant.     *)
(***************************************************************************)
EXTENDS Integers, Sequences, FiniteSets, Folds

CONSTANTS
    Offers,        \* identifiers of offers
    OfferOf,       \* [host, store, source, page, link, variant]: the URL leads to the page of a
                   \* variant, which it may name (link); variant is VariantID
    Variants,      \* what the stores and lists sell
    HomeOf,        \* the host or the list that sells a variant
    Platform,      \* platform of an enabled store; other hosts are unknown or disabled
    Shows,         \* a host's page shows the "count" of what it counts, or only what it "sells"
    Single,        \* variants that are alone on the page of their product
    Lists,         \* Moxfield lists that are configured
    Items,         \* the items of the search in order: the offers each one found
    Calls,         \* the calls under study: [kind, lines], a line is [id, units]
    PageLimit,     \* maxResultPage
    MaxLines,      \* maxCheckedOffers
    MaxLineUnits,  \* maxCheckoutUnits
    MaxConcurrent, \* maxConcurrentSources
    Stocks,        \* bound: what the stores may have at first
    Shelves,       \* bound: what a store may say and have of a variant
    MaxUnits,      \* bound: units of a variant
    MaxChanges,    \* bound: times a shelf moves
    MaxFaults,     \* bound: requests and reads that fail, and a search that expires
    None

Kinds == {"stock", "verify", "links", "quote", "order"}
Steps == {"none", "waiting", "asking", "counting", "filling", "reading", "rates", "checkout"}
AtStore == {"filling", "reading", "rates", "checkout"}

(* A product at its store: the units it has, whether it is on sale or the   *)
(* store does not say, and whether the store counts it, sells it without   *)
(* counting, or gives no number.                                           *)
Shelf == [units : 0..MaxUnits, sale : {"open", "closed", "unclear"}, count : {"kept", "unlimited", "missing"}]
Sells(s) == s.sale # "closed" /\ (s.units > 0 \/ s.count = "unlimited")

Line == [id : Offers, units : Nat]
Cart == [Variants -> Nat]

Call == [kind : Kinds, lines : Seq(Line), step : {"new", "paging", "planning", "working", "answered"},
         cursor : 0..Len(Items), found : SUBSET Offers, began : 0..Len(Items), blind : BOOLEAN,
         answer : {None, "done", "not_found", "invalid", "error"}]
Task == [step : Steps, at : Nat, cart : Cart, cut : SUBSET Variants]

(* What a position answers: a reading, a quote, or how an order went.      *)
Result ==
    [id : Offers, status : {"available", "unavailable", "unknown", "kept"}, count : Nat \union {None}]
        \union [status : {"quote"}, held : Cart, notices : SUBSET Nat]
        \union [status : {"noquote", "order", "error"}]

ASSUME CheckoutAssumption ==
    /\ \A id \in Offers : OfferOf[id].variant \in Variants \union {None} /\ OfferOf[id].page \in Variants
    /\ Items \in Seq(SUBSET Offers)
    /\ \A c \in Calls : c.kind \in Kinds /\ c.lines \in Seq(Line)
    /\ PageLimit \in Nat \ {0} /\ MaxConcurrent \in Nat \ {0} /\ MaxLineUnits \in Nat
    /\ None \notin {"done", "not_found", "invalid", "error"} /\ None \notin Nat
    /\ Shelves \in [Variants -> SUBSET Shelf]
    /\ \A f \in Stocks : f \in [Variants -> Shelf] /\ \A v \in Variants : f[v] \in Shelves[v]
    \* A Moxfield list is nothing but units.
    /\ \A v \in Variants : HomeOf[v] \in Lists =>
          \A s \in Shelves[v] : s.sale = "open" /\ s.count = "kept"
    /\ MaxUnits \in Nat /\ MaxChanges \in Nat /\ MaxFaults \in Nat

VARIABLES
    call,    \* the call: its kind and lines, how far it is, what it read and answered
    landed,  \* how many items of the search have their result
    lapsed,  \* the search expired
    task,    \* the goroutines of the call, by position
    results, \* what each position answered
    shelf,   \* what the stores have
    seen,    \* seen[v]: the shelves of v since the call began
    listed,  \* the units as the cached Moxfield lists tell them
    orders,  \* orders at the stores: the carts that were checked out
    changes, faults

world == <<shelf, seen, changes>>
search == <<landed, lapsed>>
vars == <<call, search, task, results, world, listed, orders, faults>>

Empty == [v \in Variants |-> 0]
Asleep == [step |-> "none", at |-> 0, cart |-> Empty, cut |-> {}]

Init ==
    /\ \E c \in Calls :
          /\ call = [kind |-> c.kind, lines |-> c.lines, step |-> "new", cursor |-> 0, found |-> {},
                     began |-> 0, blind |-> FALSE, answer |-> None]
          /\ task = [n \in 1..Len(c.lines) |-> Asleep]
          /\ results = [n \in 1..Len(c.lines) |-> None]
    /\ landed \in 0..Len(Items)
    /\ lapsed = FALSE
    /\ shelf \in Stocks
    /\ seen = [v \in Variants |-> {}]
    /\ listed = [v \in Variants |-> shelf[v].units]
    /\ orders = <<>>
    /\ changes = 0
    /\ faults = 0

-----------------------------------------------------------------------------
(* Names                                                                   *)

Positions == DOMAIN call.lines
Offer(n) == OfferOf[call.lines[n].id]
Host(n) == Offer(n).host

FoundShop(h) == h \in DOMAIN Platform

(* Domains in the order the lines name them, as positions: a domain is its *)
(* first line.                                                             *)
First(n) == \A m \in 1..(n - 1) : Host(m) # Host(n)
Domains == {n \in Positions : First(n)}
LinesOf(n) == {m \in Positions : Host(m) = Host(n)}

(* The variant a line of a cart names at its store: ProductID and VariantID. *)
ProductID(m) == IF Offer(m).source = Host(m) THEN Offer(m).variant ELSE None
VariantID(m) ==
    IF Offer(m).link # None THEN Offer(m).link
    ELSE IF Offer(m).source = Host(m) THEN Offer(m).variant ELSE None

CartName(m) ==
    IF Platform[Host(m)] = "shopify" THEN VariantID(m) ELSE ProductID(m)

(* A mutant: the last line of a product decides.                           *)
AskedLast(lines, v) ==
    LET same == {m \in lines : CartName(m) = v}
    IN IF same = {} THEN 0 ELSE call.lines[CHOOSE m \in same : \A k \in same : k <= m].units

(* wanted: what the lines ask of a product, all of them together.          *)
Asked(lines, v) ==
    MapThenFoldSet(LAMBDA a, b : a + b, 0, LAMBDA m : call.lines[m].units,
                   LAMBDA S : CHOOSE m \in S : TRUE, {m \in lines : CartName(m) = v})

Faulty == faults < MaxFaults /\ faults' = faults + 1

-----------------------------------------------------------------------------
(* The call                                                                *)

Answers(answer) == call' = [call EXCEPT !.step = "answered", !.answer = answer]

Valid ==
    /\ call.lines # <<>> /\ Len(call.lines) <= MaxLines
    /\ call.kind # "stock" => \A n \in Positions : call.lines[n].units \in 1..MaxLineUnits

(* The worker checks what it just found and reads no page.                 *)
Begin ==
    /\ call.step = "new"
    /\ IF call.kind # "verify" /\ ~Valid THEN Answers("invalid")
       ELSE call' = [call EXCEPT !.step = IF call.kind = "verify" THEN "planning" ELSE "paging",
                                 !.began = landed]
    /\ seen' = [v \in Variants |-> {shelf[v]}]
    /\ UNCHANGED <<search, task, results, shelf, changes, listed, orders, faults>>

(* loadResultPage: one record more than the page holds says whether there  *)
(* are more.  The offers of an item that cannot be read are none.          *)
Stored(cursor) == {n \in (cursor + 1)..landed : n <= cursor + PageLimit + 1}
PageItems(cursor) == {n \in Stored(cursor) : n <= cursor + PageLimit}
HasMore(cursor) == Stored(cursor) # PageItems(cursor)

(* A mutant: the cursor counts the record that was only looked at.         *)
CursorOfStored(cursor) == CHOOSE n \in Stored(cursor) : \A m \in Stored(cursor) : m <= n

NextCursor(cursor) == CHOOSE n \in PageItems(cursor) : \A m \in PageItems(cursor) : m <= n

(* One page of collectSearchOffers.                                        *)
ReadPage ==
    /\ call.step = "paging"
    /\ IF lapsed THEN Answers("not_found") /\ UNCHANGED faults
       ELSE \E silent \in SUBSET PageItems(call.cursor) :
              /\ IF silent = {} THEN UNCHANGED faults ELSE Faulty
              /\ call' = [call EXCEPT
                    !.found = @ \union UNION {Items[n] : n \in PageItems(call.cursor) \ silent},
                    !.blind = @ \/ silent # {},
                    !.cursor = IF HasMore(call.cursor) THEN NextCursor(call.cursor) ELSE @,
                    !.step = IF HasMore(call.cursor) THEN "paging" ELSE "planning"]
    /\ UNCHANGED <<search, task, results, world, listed, orders>>

PageFails ==
    /\ call.step = "paging" /\ Faulty
    /\ Answers("error")
    /\ UNCHANGED <<search, task, results, world, listed, orders>>

Known(n) == call.kind = "verify" \/ call.lines[n].id \in call.found

(* The positions that get a goroutine: those before an unknown offer for   *)
(* stock, one per domain for a quote, one for the order.                   *)
Launched ==
    CASE call.kind \in {"stock", "verify"} -> {n \in Positions : \A m \in 1..n : Known(m)}
      [] call.kind = "quote" -> Domains
      [] call.kind = "order" -> {1}
      [] OTHER -> {}

Plan ==
    LET unknown == {n \in Positions : ~Known(n)}
        mixed == call.kind = "order" /\ \E n \in Positions : Host(n) # Host(1)
        starts == IF call.kind \in {"stock", "verify"} \/ (unknown = {} /\ ~mixed) THEN Launched ELSE {}
    IN /\ call.step = "planning"
       /\ IF unknown # {} THEN
              \* PlaceOrder meets whichever comes first.
              Answers(IF mixed /\ \E n \in Positions : Host(n) # Host(1) /\ \A m \in 1..n : Known(m)
                      THEN "invalid" ELSE "not_found")
          ELSE IF mixed THEN Answers("invalid")
          ELSE call' = [call EXCEPT !.step = "working"]
       /\ task' = [n \in DOMAIN task |-> IF n \in starts THEN [Asleep EXCEPT !.step = "waiting"] ELSE Asleep]
       /\ UNCHANGED <<search, results, world, listed, orders, faults>>

(* group.Wait                                                              *)
Collect ==
    /\ call.step = "working"
    /\ \A n \in Positions : task[n].step = "none"
    /\ Answers("done")
    /\ UNCHANGED <<search, task, results, world, listed, orders, faults>>

-----------------------------------------------------------------------------
(* planCheckout: the way into one store                                    *)

(* A mutant: a second line of a variant replaces the first.                *)
LinkedLast(n) == [v \in {CartName(m) : m \in LinesOf(n)} |-> AskedLast(LinesOf(n), v)]

LinkedUnits(n) == [v \in {CartName(m) : m \in LinesOf(n)} |-> Asked(LinesOf(n), v)]

CartLink(n) ==
    IF ~FoundShop(Host(n)) THEN None
    ELSE CASE Platform[Host(n)] = "shopify" ->
                IF \E m \in LinesOf(n) : VariantID(m) = None THEN None ELSE LinkedUnits(n)
           [] Platform[Host(n)] = "woocommerce" ->
                IF Cardinality(LinesOf(n)) # 1 \/ ProductID(n) = None THEN None ELSE LinkedUnits(n)
           [] OTHER -> None

planCheckout(n) ==
    [domain |-> Host(n), store |-> Offer(n).store, lines |-> LinesOf(n), link |-> CartLink(n)]

-----------------------------------------------------------------------------
(* Goroutines                                                              *)

Running == {n \in Positions : task[n].step \notin {"none", "waiting"}}

(* A mutant: a gate with room for one more.                                *)
RoomAtGate == Cardinality(Running) <= MaxConcurrent

GateOpen == Cardinality(Running) < MaxConcurrent

(* The worker's checks and an order pass no gate.                          *)
TakeGate(n) ==
    /\ task[n].step = "waiting"
    /\ call.kind \in {"verify", "order"} \/ GateOpen
    /\ task' = [task EXCEPT ![n].step = "asking"]
    /\ UNCHANGED <<call, search, results, world, listed, orders, faults>>

(* Mutants: a reading is appended; a store without an answer is asked again. *)
PlaceByCompletion(n) == Cardinality({m \in Positions : results[m] # None}) + 1
AsksAgain(n, result) ==
    task' = [task EXCEPT ![n].step =
                IF result.status \in {"noquote", "error"} THEN "waiting" ELSE "none",
                             ![n].at = 0]

Place(n) == n
Leaves(n, result) == task' = [task EXCEPT ![n].step = "none"]

(* The goroutine writes its answer and leaves the gate.                    *)
Ends(n, result) ==
    /\ results' = [results EXCEPT ![Place(n)] = result]
    /\ Leaves(n, result)

At(n, step) == task' = [task EXCEPT ![n].step = step] /\ UNCHANGED results

Checking == call.kind \in {"stock", "verify"}

-----------------------------------------------------------------------------
(* Shops.CheckStock                                                        *)

Reading(n, status, count) == [id |-> call.lines[n].id, status |-> status, count |-> count]

(* A page that counts: a sign that it is sold out beats the number, and any *)
(* number left is a yes.                                                   *)
Counted(n, s) ==
    IF s.sale = "closed" \/ s.units = 0 THEN Reading(n, "unavailable", 0)
    ELSE Reading(n, "available", s.units)

(* What a page says without a number.                                      *)
PageStatus(s) ==
    CASE s.sale = "unclear" -> "unknown"
      [] s.sale # "unclear" /\ Sells(s) -> "available"
      [] OTHER -> "unavailable"

PageReading(n) ==
    LET s == shelf[Offer(n).page]
    IN IF Shows[Host(n)] = "count" /\ s.count = "kept" THEN Counted(n, s)
       ELSE Reading(n, PageStatus(s), None)

(* Jumpseller: stockStatus and countStock, each on its own.                *)
FormStatus(s) ==
    CASE s.sale = "closed" -> "unavailable"
      [] s.sale = "unclear" -> "unknown"
      [] s.sale = "open" /\ s.count = "missing" -> "unknown"
      [] s.sale = "open" /\ s.count # "missing" -> IF Sells(s) THEN "available" ELSE "unavailable"

FormCount(s) == IF s.count = "kept" THEN s.units ELSE None

FormReading(n) ==
    LET s == shelf[Offer(n).page] IN Reading(n, FormStatus(s), FormCount(s))

(* The variant CheckStock looks for on the product it reads.               *)
StockName(n) == IF Offer(n).link # None THEN Offer(n).link ELSE Offer(n).variant

(* The form lists the variants; a product without any has no name either.  *)
OnForm(n) ==
    \/ StockName(n) = Offer(n).page
    \/ StockName(n) = None /\ Offer(n).page \in Single

(* readOfferStock answers "unknown"; the worker keeps what the search said. *)
Unread(n) == Reading(n, IF call.kind = "stock" THEN "unknown" ELSE "kept", None)

(* Every list sells under one host; its offers name the list by their Id.  *)
FromList(n) == Offer(n).source = "moxfield"
ListOf(n) == HomeOf[Offer(n).page] \in Lists

(* A mutant: the list is read through its cache.                           *)
CachedList == listed

(* A list is read past its cache, and cached for the next search.          *)
FreshList == [v \in Variants |-> IF HomeOf[v] \in Lists THEN shelf[v].units ELSE listed[v]]

CheckList(n) ==
    /\ FromList(n)
    /\ IF ~ListOf(n) THEN Ends(n, Unread(n)) /\ UNCHANGED listed
       ELSE /\ listed' = FreshList
            /\ LET held == FreshList[Offer(n).page]
               IN Ends(n, IF held > 0 THEN Reading(n, "available", held)
                          ELSE Reading(n, "unavailable", 0))

(* Its product answers for one variant; the count is on another page.      *)
CheckShopify(n) ==
    IF StockName(n) # Offer(n).page THEN Ends(n, Reading(n, "unknown", None))
    ELSE IF ~Sells(shelf[Offer(n).page]) THEN Ends(n, Reading(n, "unavailable", 0))
    ELSE At(n, "counting")

CheckShop(n) ==
    /\ ~FromList(n)
    /\ IF ~FoundShop(Host(n)) THEN Ends(n, Reading(n, "unknown", None))
       ELSE CASE Platform[Host(n)] = "shopify" -> CheckShopify(n)
              [] Platform[Host(n)] = "jumpseller" ->
                    Ends(n, IF OnForm(n) THEN FormReading(n) ELSE Reading(n, "unknown", None))
              [] OTHER -> Ends(n, PageReading(n))
    /\ UNCHANGED listed

CheckStock(n) ==
    /\ Checking /\ task[n].step = "asking"
    /\ CheckList(n) \/ CheckShop(n)
    /\ UNCHANGED <<call, search, world, orders, faults>>

(* countUnits: a page that shows no number, or zero, costs the number.     *)
CountUnits(n) ==
    /\ task[n].step = "counting"
    /\ LET s == shelf[Offer(n).page]
           told == Shows[Host(n)] = "count" /\ s.count = "kept" /\ s.units > 0
       IN Ends(n, Reading(n, "available", IF told THEN s.units ELSE None))
    /\ UNCHANGED <<call, search, world, listed, orders, faults>>

CountFails(n) ==
    /\ task[n].step = "counting" /\ Faulty
    /\ Ends(n, Reading(n, "available", None))
    /\ UNCHANGED <<call, search, world, listed, orders>>

CheckFails(n) ==
    /\ Checking /\ task[n].step = "asking" /\ Faulty
    /\ IF FromList(n) THEN ListOf(n) ELSE FoundShop(Host(n))
    /\ FoundShop(Host(n)) /\ Platform[Host(n)] = "shopify" => StockName(n) # None
    /\ Ends(n, Unread(n))
    /\ UNCHANGED <<call, search, world, listed, orders>>

-----------------------------------------------------------------------------
(* Carts: QuoteCart and PlaceOrder of the platforms                        *)

Failed == [status |-> "error"]

(* Who quotes, who places orders, and lines that name no product.          *)
CartRefused(n) ==
    \/ ~FoundShop(Host(n))
    \/ Platform[Host(n)] \notin (IF call.kind = "order" THEN {"woocommerce"} ELSE {"woocommerce", "shopify"})
    \/ \E m \in LinesOf(n) : CartName(m) = None

OpenCart(n) ==
    /\ call.kind \in {"quote", "order"} /\ task[n].step = "asking"
    /\ IF CartRefused(n) THEN Ends(n, [status |-> IF call.kind = "quote" THEN "noquote" ELSE "error"])
       ELSE At(n, "filling")
    /\ UNCHANGED <<call, search, world, listed, orders, faults>>

(* The store: what it holds of the units a cart was asked for.             *)
Fits(v, n) ==
    n = 0 \/ (shelf[v].sale # "closed" /\ (shelf[v].count = "unlimited" \/ n <= shelf[v].units))
Room(v) == IF shelf[v].sale = "closed" THEN 0 ELSE shelf[v].units

With(cart, lines) == [v \in Variants |-> cart[v] + Asked(lines, v)]
Holds(cart) == [v \in Variants |-> IF Fits(v, cart[v]) THEN cart[v] ELSE Room(v)]
Trims(cart) == {v \in Variants : ~Fits(v, cart[v])}

(* The lines of the next request: WooCommerce adds one, Shopify all.       *)
Left(n) == {m \in LinesOf(n) : m > task[n].at}
NextLines(n) ==
    IF Platform[Host(n)] = "shopify" THEN Left(n) ELSE {m \in Left(n) : \A k \in Left(n) : m <= k}

(* A line goes into the cart whole, or as far as the store has units.      *)
AddLines(n) ==
    /\ task[n].step = "filling"
    /\ \E lines \in {NextLines(n)} : \E cart \in {With(task[n].cart, lines)} :
          task' = [task EXCEPT ![n] =
             [step |-> IF Left(n) = lines THEN "reading" ELSE "filling",
              at |-> CHOOSE m \in lines : \A k \in lines : k <= m,
              cart |-> Holds(cart), cut |-> @.cut \union Trims(cart)]]
    /\ UNCHANGED <<call, search, results, world, listed, orders, faults>>

(* A mutant: a line the store refuses is left out.                         *)
SkipLine(n) ==
    task' = [task EXCEPT ![n].at = CHOOSE m \in NextLines(n) : \A k \in NextLines(n) : k <= m,
                         ![n].step = IF Left(n) = NextLines(n) THEN "reading" ELSE "filling"]
    /\ UNCHANGED results

Refused(n) == Ends(n, Failed)

(* ... or the store refuses it, having too few.                            *)
RefuseLines(n) ==
    /\ task[n].step = "filling"
    /\ \E lines \in {NextLines(n)} : Trims(With(task[n].cart, lines)) # {}
    /\ Refused(n)
    /\ UNCHANGED <<call, search, world, listed, orders, faults>>

(* A mutant: each line is compared with the cart on its own.               *)
NoticesByLine(n, cart) == {m \in LinesOf(n) : cart[CartName(m)] # call.lines[m].units}

(* readQuote: the first line of a product carries its notice.              *)
Notices(n, cart) ==
    {m \in LinesOf(n) :
        /\ cart[CartName(m)] # Asked(LinesOf(n), CartName(m))
        /\ \A k \in LinesOf(n) : k < m => CartName(k) # CartName(m)}

readQuote(n, cart) == [status |-> "quote", held |-> cart, notices |-> Notices(n, cart)]

(* The cart the store answers, after the address at WooCommerce: the units *)
(* it sold meanwhile are gone from it.                                     *)
ReadCart(n) ==
    /\ task[n].step = "reading"
    /\ \E cart \in {Holds(task[n].cart)}, gone \in {Trims(task[n].cart)} :
          IF call.kind = "quote" /\ Platform[Host(n)] = "woocommerce" THEN Ends(n, readQuote(n, cart))
          ELSE /\ task' = [task EXCEPT ![n].step = "rates", ![n].cart = cart, ![n].cut = @ \union gone]
               /\ UNCHANGED results
    /\ UNCHANGED <<call, search, world, listed, orders, faults>>

(* A storefront cart has no rate selected, and a quote without rates is a  *)
(* quote; an order needs the rate its cart selected.                       *)
ReadRates(n) ==
    /\ task[n].step = "rates"
    /\ IF call.kind = "quote" THEN Ends(n, readQuote(n, task[n].cart))
       ELSE Ends(n, Failed) \/ At(n, "checkout")
    /\ UNCHANGED <<call, search, world, listed, orders, faults>>

(* The one request that is never undone.  The store takes the cart as it   *)
(* holds it, unless a product ran out; its answer may be lost.             *)
CheckOut(n) ==
    /\ task[n].step = "checkout"
    /\ \/ /\ task[n].cart # Empty /\ \A v \in Variants : Fits(v, task[n].cart[v])
          /\ orders' = Append(orders, [cart |-> task[n].cart, cut |-> task[n].cut])
          /\ \/ Ends(n, [status |-> "order"]) /\ UNCHANGED faults
             \/ Ends(n, Failed) /\ Faulty
       \/ Ends(n, Failed) /\ UNCHANGED <<orders, faults>>
    /\ UNCHANGED <<call, search, world, listed>>

(* A request of a cart fails: the store, the gate of the source, the call. *)
CartFails(n) ==
    /\ task[n].step \in AtStore /\ Faulty
    /\ Ends(n, Failed)
    /\ UNCHANGED <<call, search, world, listed, orders>>

-----------------------------------------------------------------------------
(* The world outside                                                       *)

Land ==
    /\ landed < Len(Items) /\ call.step \in {"new", "paging"}
    /\ landed' = landed + 1
    /\ UNCHANGED <<call, lapsed, task, results, world, listed, orders, faults>>

Lapse ==
    /\ ~lapsed /\ call.step = "paging" /\ Faulty
    /\ lapsed' = TRUE
    /\ UNCHANGED <<call, landed, task, results, world, listed, orders>>

(* A sale, units that come back, or a product that the store withdraws,    *)
(* stops counting or puts on sale again, of what the call is about.        *)
Change(v) ==
    /\ changes < MaxChanges /\ call.step # "answered"
    /\ changes' = changes + 1
    /\ \E s \in Shelves[v] \ {shelf[v]} :
          /\ shelf' = [shelf EXCEPT ![v] = s]
          /\ seen' = [seen EXCEPT ![v] = IF call.step = "new" THEN @ ELSE @ \union {s}]
    /\ UNCHANGED <<call, search, task, results, listed, orders, faults>>

CallStep == Begin \/ ReadPage \/ Plan \/ Collect

TaskStep(n) ==
    \/ TakeGate(n) \/ CheckStock(n) \/ CountUnits(n)
    \/ OpenCart(n) \/ AddLines(n) \/ ReadCart(n) \/ ReadRates(n) \/ CheckOut(n)

Fails(n) == CountFails(n) \/ CheckFails(n) \/ RefuseLines(n) \/ CartFails(n)

Next ==
    \/ CallStep \/ PageFails \/ Land \/ Lapse
    \/ \E n \in Positions : TaskStep(n) \/ Fails(n)
    \/ \E v \in {Offer(n).page : n \in Positions} : Change(v)

(* Every request is answered or times out: while the call or one of its    *)
(* goroutines can go on, one of them does.                                 *)
Spec == Init /\ [][Next]_vars /\ WF_vars(CallStep \/ \E n \in Positions : TaskStep(n))

-----------------------------------------------------------------------------
(* Properties                                                              *)

(* A goroutine is at a known step with a cart of its own, and no more of    *)
(* them than the gate lets through are at the stores (the channel of        *)
(* CheckOfferStock and CheckoutLinks).                                     *)
TypeOK ==
    /\ call \in Call
    /\ task \in [Positions -> Task]
    /\ results \in [Positions -> Result \union {None}]
    /\ landed \in 0..Len(Items) /\ lapsed \in BOOLEAN
    /\ shelf \in [Variants -> Shelf] /\ seen \in [Variants -> SUBSET Shelf]
    /\ \A v \in Variants : shelf[v] \in Shelves[v]
    /\ orders \in Seq([cart : Cart, cut : SUBSET Variants])
    /\ faults \in 0..MaxFaults /\ changes \in 0..MaxChanges
    /\ call.kind # "verify" => Cardinality(Running) <= MaxConcurrent

(* An offer that was among the results when the call came is found, however *)
(* many pages they take and whatever lands meanwhile, unless the search     *)
(* expired or the offers of an item could not be read (collectSearchOffers, *)
(* ListResults).                                                           *)
CollectedAll ==
    call.answer = "not_found" =>
        \/ lapsed \/ call.blind
        \/ \E n \in Positions : \A i \in 1..call.began : call.lines[n].id \notin Items[i]

(* What a position answers is about its own offer and was true of it at     *)
(* some moment of the call: "available" was sold, "unavailable" and zero    *)
(* were not, and a number of units was the number the store kept.  Such a   *)
(* number comes with "available", or it is of a moment when the product was *)
(* withheld, or not said to be on sale: Jumpseller counts that one too      *)
(* (CheckOfferStock, verifyStocks, Shops.CheckStock, readStock).            *)
ReadingFresh ==
    Checking => \A n \in Positions : results[n] # None =>
        LET reading == results[n]
            told == seen[Offer(n).page]
        IN /\ reading.id = call.lines[n].id
           /\ reading.status = "available" => reading.count # 0 /\ \E s \in told : Sells(s)
           /\ reading.status = "unavailable" \/ reading.count = 0 => \E s \in told : ~Sells(s)
           /\ reading.count \notin {None, 0} =>
                 \E s \in told : /\ s.count = "kept" /\ s.units = reading.count
                                 /\ reading.status = "available" \/ s.sale # "open"
           /\ reading.status = "kept" => reading.count = None

(* The units the lines ask of a product, one by one.                       *)
UnitsAsked(lines, v) ==
    Cardinality({mu \in lines \X (1..MaxLineUnits) :
                    mu[2] <= call.lines[mu[1]].units /\ CartName(mu[1]) = v})

(* A quote says of every product, once, whether its cart holds another      *)
(* number of units than the buyer asked for in all lines together, and says *)
(* it of no other product (readQuote of both platforms).                    *)
QuoteHonest ==
    call.kind = "quote" => \A n \in Positions : results[n] # None /\ results[n].status = "quote" =>
        \A v \in {CartName(m) : m \in LinesOf(n)} :
            Cardinality({m \in results[n].notices : CartName(m) = v}) =
                IF results[n].held[v] = UnitsAsked(LinesOf(n), v) THEN 0 ELSE 1

(* The checkouts of an answer carry every line of the call exactly once, at *)
(* the store of its offer, and a cart link fills the cart with all the      *)
(* units of all its lines (CheckoutLinks, CartLink).                        *)
LinkCarriesCart ==
    call.kind \in {"links", "quote"} /\ call.answer = "done" =>
        /\ \A m \in Positions : \E n \in Domains :
              /\ m \in planCheckout(n).lines /\ planCheckout(n).domain = Host(m)
              /\ \A k \in Domains \ {n} : m \notin planCheckout(k).lines
        /\ \A n \in Domains : planCheckout(n).link # None =>
              \A m \in LinesOf(n) : /\ CartName(m) \in DOMAIN planCheckout(n).link
                                    /\ planCheckout(n).link[CartName(m)] = UnitsAsked(LinesOf(n), CartName(m))

(* A call leaves at most one order at the stores, an answered order is      *)
(* there, and it holds all that was asked but what the store itself trimmed *)
(* (PlaceOrder, SendSession).                                              *)
OneWholeOrder ==
    /\ Len(orders) <= 1
    /\ \A n \in Positions : call.kind = "order" /\ results[n] # None /\ results[n].status = "order" =>
          Len(orders) = 1
    /\ \A o \in DOMAIN orders : \A v \in Variants \ orders[o].cut :
          orders[o].cart[v] = UnitsAsked(Positions, v)

(* Every call is answered.                                                 *)
AnswerComes == <>(call.step = "answered")

=============================================================================
