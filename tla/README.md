# muchi-api in TLA+

muchi-api (Go, `src/`) looks up card-game singles in many stores for a shopper
who sends a list of cards. A *search* is stored in Firestore, its cards are
queued as *items*, Cloud Tasks wakes a worker per card, the worker asks the
stores, and the client polls the search for its progress and its results. It
also places *orders* at stores that sell through Muchi and follows them with
webhooks.

This directory holds TLA+ models of that program, the TLC configurations that
check them on small instances, and proofs, checked by TLAPS, of the safety
properties that matter most. Run things from this directory:

    tlc -workers 2 -config MCSearchStore.cfg MCSearchStore
    tlapm SearchStoreProofs.tla

`PROJECT.json` lists the components, the runs, the source lines each definition
translates, the findings, the hazards and the theorems.

## Inventory

### The system's parts

| Component | Code | State it keeps | Operations | Here |
|---|---|---|---|---|
| Searches | `repositories/search_store.go`, `keeping.go`, `records.go` | documents of `searches` (status, totals, counters, expiry) and of `idempotency` (payload hash, resource, expiry) | CreateSearch, CancelSearch, GetSearch, ListResults | `SearchStore`, `SearchLog` |
| Item queue | `repositories/item_store.go` | documents of `items` (status, owner, lease, sequence, available_at, expiry) and of `item_offers` | ClaimSearchItem, RenewItemLease, CompleteSearchItem, CountWaitingItems | `SearchStore`, `Wakeups` |
| Worker | `search/worker.go`, `function.go` | a turn: its item, its lease, the renewing goroutine | ProcessNext | `SearchStore`, `Wakeups` |
| Search service and task queue | `search/search_service.go`, `taskqueue/queue.go` | tasks of Cloud Tasks, by name | CreateSearch, DispatchSearch, WakeWorker | `Wakeups` |
| Sweeper | `sweep/sweeper.go` | none of its own | SweepQueue | `Wakeups` |
| Orders | `search/order_service.go`, `repositories/order_store.go`, `orders/releaser.go`, `handler/order_webhooks.go` | documents of `orders` and of `idempotency` | PlaceOrder, LinkOrder, ReportOrder, ConfirmOrder, ReleaseOrders | `Orders` |
| Offer cache | `repositories/offer_store.go`, `search/offer_service.go`, `stores/moxfield` | documents of `offer_cache` (offers, whether indexed, expiry) and of `offers` (one snapshot each); a mutex per Moxfield list in each process | LoadOffers, SaveOffers, markIndexed, GetOffer, DropInventory | `OfferCache` |
| Source gate and client | `source/client.go`, `repositories/source_store.go` | documents of `traffic_leases` (next slot) and `source_health` (failures, circuit) | AwaitSource, RecordSource, FetchSource, SendSession | `SourceGate` |
| Source fan-out | `search/offer_sources.go`, the clients of stores and aggregators | the turns of one question; the gate of the Jumpseller clients | FindOffers: the provider, then the stores at once, page by page | `OfferSearch` |
| Offer shaping | `search/offer_shaping.go`, `model/offer.go` | none | read titles, join, deduplicate, name, judge prices, sort | `OfferTitles`, `OfferShaping` |
| Result pages | `search/searched.go`, `handler/search_api.go` | a cursor | collectSearchOffers over ListResults | `Checkout`; the sequences are `SearchStore`'s |
| Stock and checkout | `search/stock_service.go`, `checkout_service.go`, `stores/commerce`, the clients of each platform | the gate of one call, a cart in a session of its store | stock of offers, cart links, quotes, orders | `Checkout`; what becomes of an order is `Orders` |
| Directory and catalog | `stores/directory`, `catalog` | read once at start | validation, the selector, who is asked for a game and a kind | `Catalog` |
| Lazy start | `hosting/loader.go` | the built application or the last error | Load, ServeSearch | partly (`Wakeups`) |
| Card metadata, configuration, metrics, HTTP rendering | `cardmetadata`, `config`, `handler` | none, or read once at start | translations | not modelled |

### How they interact

1. `POST /searches` → `SearchService.CreateSearch`: one Firestore transaction
   saves the search and the request under the idempotency key; the items are
   written *after* it, in batches; then one task per card is created.
2. Cloud Tasks delivers a task → `Loader.ServeSearch` → `Worker.ProcessNext`:
   claim the oldest ready item (not the card the task was named for), work
   while a goroutine renews the lease, complete in one transaction that writes
   the item, its offers and the counters of the search. "Nothing found" is
   answered 204 and spends the task; any other error makes Cloud Tasks deliver
   it again.
3. Cloud Scheduler → `Sweeper.SweepQueue` every five minutes: count ready items
   (at most `MaxWakes`) and create a task for each.
4. Client → `GET /searches/{id}`, `/results?cursor=`: counters, and results
   whose sequence is above the cursor. → `POST /cancel`: closes an open search.
5. `POST /orders` → the store takes the order first, then `CreateOrder` saves it
   under the key in one transaction. The store's webhook moves it to confirmed
   or released; Cloud Scheduler releases pending orders older than `MaxAge`.
6. A question asks its cache entry first, then the provider of the game and all
   stores under a limit of turns; only an answer in which nobody fell is cached.
   A Moxfield store answers from a list that is itself an entry of the cache.
7. A stock check, a cart link, a quote or an order reads every page of the search
   for the offers it names, then asks their stores at once under a gate.
8. Firestore's TTL deletes each expired document at a moment of its own; every
   reader compares `expires_at` with its own clock first.

### What is hard here, and what makes each part correct

- **Searches and items**: two worker turns on one item, a lease that lapses under a live
  turn, a crash between any two commits, cancellation and expiry in between, a task
  delivered twice. Correct: the progress that is polled always describes exactly the results
  that exist; a result is final; a search is reported finished exactly when every card has
  its result; a lease belongs to one task; live work is never deleted.
- **Keys**: a retried or doubled call, the answer's expiry against the
  resource's. Correct: a key never names two live searches.
- **Wake-ups**: a task is spent on another search's card, is refused, is
  swallowed as already existing, or comes before the items. Correct: every card
  that was written is eventually served or its search is closed.
- **Orders**: the store acts before the document exists; webhooks are late,
  repeated and reordered; the releaser works from a list that grows old.
  Correct: an order only moves forward and for a reason; a remembered key makes
  one order; a stale order is released in the end.
- **Source gate**: two processes must not take one slot, a cooldown must not be
  shortened, a late failure must not close a circuit.
- **One question**: shelves change between two pages, a client fails half way, the
  context ends while stores wait for a turn. Correct: what is cached is whole, an
  aggregator speaks exactly for the stores that fell, nothing is offered twice,
  and the question is answered.
- **Offer cache**: an entry, its snapshots and its mark are three commits, and the
  cached answer stands on a cached list. Correct: a change at the store is seen
  within two lives, and a refreshed list is not brought back by who read it before.
- **Pages, stock and checkout**: results land while pages are read, stock moves
  between two requests about one offer, two lines of a cart are one product.
  Correct: an offer that was there is found, a reading was true at some moment of
  the call, a quote and a link tell of all units, an order is whole and made once.
- **Titles, prices and the catalog**: several readings of the same title, or of the
  same config, must agree.

`PROJECT.json` lists these hazards one by one at the lines where they bite.

## The modules

### SearchStore — searches, items, idempotency, worker turns

One Firestore transaction is one action; whatever the code does *outside* a
transaction is a separate action, so everything else may come between.

| State | Code |
|---|---|
| `searches`, `items`, `itemOffers`, `requests` | the four collections, document or `None`; of `item_offers` only the expiry matters |
| `calls` | calls of `CreateSearch`: `OpenSearch` or `RepeatSearch` (the transaction), `ReadSearch` (the re-read of `createItems`), `WriteItems` (one batch of `SaveMany`), `CallFails` |
| `turns` | worker turns: `ClaimItem`, `DiscardItem` (the claim loop), `RenewLease`, `RenewFails`, `CompleteItem`, `TurnEnds` |
| `now` | the wall clock; `Tick` |
| `madeBy` | history only: which key drew a search id |

A turn delivers a task, and claims under the name of that task: any turn may take any
name, so a task may be delivered twice, at once or after it failed. `CancelSearch` is one
transaction. `ExpireSearch`, `ExpireItem`, `ExpireOffers` and `ExpireRequest` are the TTL
policies. What the stores answered is data: an
item's outcome is any of `found`, `not_found`, `source_error`. `LeaseUntil` is
not kept because the code writes it equal to `available_at` and reads it
nowhere. `GetSearch` and `ListResults` change nothing; the properties speak of
what they would read.

### SearchLog — what the store promises

Each search is a status and a log of results that grows one entry at a time,
one entry per card; there is no queue, lease, worker or clock.
`SearchStore!ImplementsLog` maps the *readable* part of the documents to it
(`Phase`, `Size`, `Results`); TLC checks the refinement as a PROPERTY.

### Wakeups — how work meets the worker

Composes the search service, Cloud Tasks, the worker and the sweeper. A task is
a name without content; a delivery is a turn that takes the head of `queue` (the
ready items in the order of `available_at`). It has no clock: a lease or a
search may lapse whenever the code could let it. What a turn writes is
SearchStore's; here an item is absent, ready, leased, done or gone.
Three choices are deliberately adverse: Cloud Tasks remembers a used name for
ever, a page of `CountWaitingItems` may be filled by dead records, and a lease that
lapses is taken from its turn at once, where the code accepts the result of that turn
until another one claims the item (`item_store.go:146,162` compare owner and status). The
tasks of the sweeper have names of their own and are a counter.

### Orders — placed, linked and reported orders

`calls` are PlaceOrder (`PlaceAtStore`, then `CreateOrder`) and LinkOrder
(`PlanLink`, then `CreateOrder`); `reports` are ReportOrder (`ReadReported`, then
`ReportOrder`); `hooks` are webhooks (`FindOrder`, then `MoveOrder`); `sweeps` are
runs of the releaser (`ListExpired`, then one `ReleaseOrder` each). The store is
environment: it takes orders, and it may signal "paid" or "off" about any order
it has, at any time, again and in any order (`events`). There is one store, as the
webhook's query names the domain too. A webhook that needs no move changes
nothing and is a stutter; a lapsed request counts as none, so its deletion is
no step. `store` and `madeBy` are history or environment.

### SourceGate — asking one store

`calls` are calls of FetchSource (several attempts) or SendSession (one): each
attempt goes through `CheckCircuit`, `ReserveTraffic` (the transaction that draws
the slot), `SendRequest` (the timer), `Answer`, `DelaySource` (after a 429) and
`RecordSource`. `nextAllowed` and `health` are the two documents of one domain;
domains share nothing, so one is enough. The code ignores a failed read of either
document and goes on as if it did not exist: that is `Blind`, counted by `blind`.
The wait before a retry has no length: the next attempt may start at any later
time, or never (`Retry-After` too long, no time left).

### OfferTitles and OfferShaping — titles and lists of offers

Operators without state. A title is a sequence of marks: pieces of a word, one of
them also in capitals, pieces with a digit, and the separators the code looks for
with the spaces it wants around them. `MatchesCard`, `ContainsCard` and `CoversCard`
are the three readings of a title by a question, `ReadCardKey` names the card a title
is of. `OfferShaping` joins, deduplicates and names offers, marks suspicious prices
and selects those whose stock is asked; a price is a number of cents or `NoPrice`.

### Catalog — who answers for a game

Operators over a config, a record of games, providers and stores as
`stores.yaml` has them: what start-up refuses (`ValidateConfig`), what the selector
offers (`SupportedGames`) and who is asked a question (`AskedFor`, from
`SourcesByGame`, `Providers` and the marks). The selector repeats the rule of the
builder by hand, and `SelectorAndSearchAgree` compares the two. One direction holds
only for games whose every answerer can be built (`AllBuilt`): stores of platform
`html` and the provider `tcgdex` are offered by the selector and asked by nobody,
and of two providers of one game either may stay.

### OfferSearch — one question to its sources

`FindCardOffers` past its cache. `walk[s]` is what the client of store `s` (or of the
provider, `agg`) has done: `ReadWooPage`, `ReadPrestaPage`, `SearchShopify` with
`ReadCurrency` and `ReadShopifyProduct`, `SearchJumpseller` with
`ReadJumpsellerProduct`, `ReadList` (Moxfield), `SearchCatalog`, `ReadListings`,
`ReadBriefs` and `ReadPokemonCard` (tcgmatch), `ReadCardPage` (scrycl), each one
request. Between any two of them a product may arrive, leave or sell out, a request may
fail and the context may end. The provider comes first; then every store takes one of
`turns` and gives it back, and a Jumpseller client takes the `gate` of its process
inside its turn. `CollectOffers` shapes what came with the operators of `OfferShaping`
and decides whether it is cached.

### OfferCache — entries, snapshots and lists

`entries` and `snapshots` are the two collections; a key is a question or a list. A job
looks its question up, then, under the mutex of its process, the list; fetches the
list, saves it, and saves the answer under the question. `SaveEntry`,
`SaveSnapshots` and `MarkSaved` are three commits; `Look`, `FindMissing`,
`FillMissing` and `MarkLoaded` are a load that repairs an entry nobody finished.
`Check` is a stock check, which fetches past the cache, and `Refresh` drops the entry.
A failed load counts as a miss, a failed save is ignored with the batches that went
through, and `Crash` ends a process with its mutexes. Offers are identifiers; `at`
says when the list they came from was fetched, `read` how many refreshes had happened
by then, and both are history, as `saved`, `by` and `drops` are. There is one mutex per
list and process. The code makes one Moxfield client, with a mutex of its own, for each
game that asks a list (`catalog/sources.go:13-27,48-52`, `moxfield/client.go:127-129`); the
two are the same for the shipped `stores.yaml`, where one game has the origin `moxfield`.
A config with two such games would have two mutexes over one entry, as two processes have.

### Checkout — stock, links, quotes and orders

A `call` reads pages (`ReadPage`) until it found its offers, plans one task per
position or per store (`Plan`), and collects (`Collect`). A task takes its place at the
gate and asks: `CheckStock` and `CountUnits` for one offer, or `OpenCart`, `AddLines`,
`ReadCart`, `ReadRates` and `CheckOut` for a cart in a session. Results `Land` while
pages are read, the search may `Lapse`, a shelf may `Change` at its store, and one request
fails wherever it may; `cut` remembers what a store trimmed of a cart of its own. A
worker's stock check of what it just found is the kind "verify": it reads no page and
passes no gate, as in the code.

`shelf` says of each product how many units there are, whether it is on sale, closed or
neither, and whether the store counts it, sells it without counting or gives no number. What
a client makes of that is the conversion of its platform: `PageReading` for the pages
`Shops` reads itself, where the sign of a closed product makes the count zero, and
`FormReading` for Jumpseller, where status and count are answered each on its own
(`jumpseller/client.go:79-81`, `product.go:128-153`). A withheld product may therefore read
"unavailable" with a positive count, an unlimited one "available" without a count, and one
with an unknown status "unknown" with a count. A product without variants (`Single`) is
matched by its empty variant (`OnForm`). `seen` is history: the shelves of a product since
the call began. A store trims
a cart to what it has, or refuses it.

### MC modules

`MCSearchStore`, `MCWakeups`, `MCOrders`, `MCSourceGate`, `MCOfferSearch`,
`MCOfferCache` and `MCCheckout` define the functions, the situations to start from and the
symmetry sets that the `.cfg` files name. `MCOfferShaping` puts the operators of
`OfferTitles`, `OfferShaping` and `Catalog` on inputs that grow mark by mark, offer by
offer and entry by entry, so that every one within the bounds is a state.
Symmetry is used only in runs without liveness
(turns and names of tasks; order ids, numbers, carts, jobs and processes).

### How the modules meet

`SearchStore` leaves open what a worker's card finds: that is `OfferSearch` after a miss
in `OfferCache`, then a `Checkout` of kind "verify". Every request of `OfferSearch` and
`Checkout` passes `SourceGate` at its store; they take its delays as time that passes and
its refusals as a request that fails. `Checkout` of kind "order" is the single action
`PlaceAtStore` of `Orders`. `OfferCache` asks one list for a question, where
`OfferSearch` asks many sources and keeps the cached list apart from the shelf.

## The runs

Every model has a clock that stops at `MaxTime` or work that runs out, so the
system does stop and the configurations do not check deadlock; what must go on is
stated as liveness instead.

| Run | Instance | What it shows |
|---|---|---|
| `search_store` | one search of two cards written in two batches, one caller, two turns and two names of tasks, clock 0..5, lease 1, lifetime 3 | progress, status, offers, leases and the refinement of `SearchLog`, through cancellation, lapse, lost leases and crashes |
| `search_keys` | two searches of one or two cards, one key, two callers, one turn, one unreadable item, clock 0..3 | one live search per key when calls race and answers lapse; the discard of a dead item never hits live work |
| `wakeups` | two searches of one card, two deliveries at once, one fault | every written card is served or its search closed, although tasks are spent on other cards |
| `repeats` | one search of two cards, two calls with its key, two deliveries, one fault | the same when the second call dispatches before the items exist and its task names are already used |
| `orders` | two order documents, one key, two carts, two calls, one report, two webhooks, one sweep, clock 0..2 | one order per remembered key, only forward moves, each with a reason |
| `order_release` | two orders, two keys, one webhook at a time, lists of one, one failed release | a stale pending order leaves that state in the end |
| `source_gate` | two fetches of two attempts and one session call, threshold 2, one failed read, clock 0..3 | slots stay apart, cooldowns are not shortened, only a success closes a circuit early |
| `shaping` | titles of up to five marks against four names; lists of up to four offers of two cards and two currencies, `Percent` 50, `Limit` 2; configs of two games with up to two stores or providers | a wider question keeps what a narrower one keeps, printings of a card share its key, half of a price group stays trusted, stock is asked of the cheapest, selector and search agree |
| `offers` | the situations of `MCOfferSearch`: up to three stores of every platform and a provider, pages of two, catalogs of two, three pages, two turns, one change of a shelf, one failed request | what is cached is whole, one voice per store, nothing offered twice, printings not mixed, every question answered |
| `offer_cache` | two jobs, two processes, one list, one question, one offer, lives of 1 (0 when empty), requests of at most 1, clock 0..6, three requests, one fault | changes appear within two lives, a refresh holds, the mutex of a list has a holder that works |
| `checkout` | thirteen calls over twelve offers of all platforms, three items in pages of one, two at the gate, one move of a shelf (units, sale or count), one fault | offers found across pages, readings, quotes and links true, orders whole, every call answered |
| `double_tap` | one key, two calls | a violation, see the findings |

Why the bounds are enough. Two turns are what one lost lease takes: one that lost it and one
that took over, and the second may lose it to the first again. Under two names they are two
tasks or two deliveries of one, which may renew each other's lease. Two cards and a batch of
one make a search that is half written, half finished, and one whose last card finishes it.
The clocks are long enough for a lease to lapse twice within a search's life, for a search
to lapse under a turn, and (`search_keys`) for an answer to lapse and its key to open a
second search. In `source_gate` five requests can fail, which opens a circuit with threshold
2, lengthens it, reaches the ceiling and the largest shift, and still leaves requests that
were sent before. One fault per run is any crash, refused task or lost renewal at any point;
`MaxWakes` 2 lets a sweep see past one dead item, and `MaxPending` pauses sweeps while two
of their tasks wait, which delays wake-ups and loses none.

Pages of one or two with at least one more page, more stores than turns and more
tasks than places make every walk and every gate wait once. A shelf moves to
whatever its store can say: `MCShelves` gives Jumpseller and a page that counts all
combinations of sale and count. One move of a shelf or of
stock is enough to shift a page or to fall between the two requests about one offer; the
lives of `offer_cache` let list and answer both lapse, and be repaired in between, within
its clock; its three requests are a reader, one that refreshes or checks, and one that
reads what they left. Titles of five marks hold a name, a separator and a printing, or a
name in quotes with something before and after; four offers are a price group with two
cheap ones against a middle and a dear one, or two groups of two.

Each property of a passing run has a mutant in `PROJECT.json`: a defect of the kind
this code could have had, kept in the module as a definition beside the one it
replaces, under which TLC finds the property violated.

## Fairness

Safety needs none. For the liveness properties:

- `WF(TurnStep(w))`: Cloud Tasks delivers a task until it is answered, and a
  turn ends within the dispatch deadline.
- `WF(~Worked(i) /\ LeaseLapses(i))`: `available_at` of a lease passes; nothing in
  the code has to act for that.
- `WF(Sweep)`: Cloud Scheduler runs the sweeper every five minutes
  (`config/deploy.env:21`).
- `WF(SweepStep(w))` in `Orders`: the releaser is run every hour
  (`config/deploy.env:37`), and a run goes through its list.
- `WF(StoreStep(s))`, `WF(ProviderStep)` and `WF(CollectOffers)` in `OfferSearch`: a
  request is answered or times out (`source/client.go`), and goroutines run. The end of
  the context is *not* fair; a WooCommerce store that ignores the number of the page
  is read until then, so `AnswerComes` asks for it there and only there.
- `WF(CallStep \/ \E n : TaskStep(n))` in `Checkout`, for the same reason: one of them
  goes on while any can.

Calls, cancellations, webhooks, the TTL (`deploy-infra.sh:65`) and
faults owe nothing: a property that needed them would not be a property of this
program. Faults are bounded, as a sweep that fails for ever serves nobody.
`EveryCardServed` holds while fewer than `MaxWakes` dead items can stand before a
card: `CountWaitingItems` reads a page of `MaxWakes` ready items and leaves the
dead out afterwards, so a longer dead prefix makes a sweep count 0 and wake
nobody. With `MaxWakes = 1` in `MCWakeups.cfg`, TLC finds such a card stuck; it
then waits for the TTL, or for the turns that some later search brings.

## What is proved

TLAPS proves these for every value of the constants that satisfies the named assumptions of
the modules (`BoundsAssumption`, `DataAssumption`, `NoneAssumption`, `OrdersAssumption`,
`GateAssumption`, `WakeupsAssumption`, `OfferCacheAssumption`, `NobodyAssumption`,
`CheckoutAssumption`, `OfferSearchAssumption`, `ShapingAssumption`): that bounds are
naturals, that functions over the constants have their domain, that `None` is no member of
the data and no number, that a Moxfield list has nothing but units, that what the
environment may choose (offers, lines, stocks, shelves) is of its kind, and that the percent
of a suspicious price is at most 100 (`readIntOr` would take more, and then the dear half of
a group could be marked too; 30 is configured).

| Module | Theorems | Rest on |
|---|---|---|
| `SearchStoreProofs` | `TypeCorrect`, `ProgressCorrect`, `OffersCorrect`, `FinishCorrect`, `WorkCorrect`, `KeyCorrect`, `LeaseCorrect`; `LogImplemented`, the refinement of `SearchLog` | `ProgressInv`, `KeyInv`, `LeaseInv`, `LogInv` |
| `WakeupsProofs` | `WakeupsTypeCorrect` | `WakeupsInv` |
| `OrdersProofs` | `OrdersTypeCorrect`, `ForwardCorrect`, `ReasonsCorrect`, `OneOrderCorrect` | `OrdersInv` |
| `SourceGateProofs` | `GateTypeCorrect`, `SlotsCorrect`, `CloserCorrect`, `CircuitCorrect` | `GateInv`, `HealthInv` |
| `OfferCacheProofs` | `CacheTypeCorrect`, `RefreshCorrect`, `ChangesCorrect` | `CacheInv` |
| `CheckoutProofs` | `CheckoutTypeCorrect`, `OffersCollected`, `ReadingsFresh`, `QuotesHonest`, `LinksCarryCart`, `OrdersWhole` | `CheckoutInv` |
| `OfferSearchProofs` | `SearchTypeCorrect`, `OfferedOnceCorrect`, `OneVoiceCorrect`, `OneFunctionCorrect`, `WholeCorrect` | `OfferInv`, `WholeInv` |
| `OfferShapingProofs` | `WiderHolds`, `OneKeyHolds`, `HalfTrustedHolds`, `CheapestHolds`, `NoDriftHolds`; `PrintingsShareKey`, `HalfKept`, `CheapestKept`, `NoConfigDrifts` for every input | `Shaped` |

**ProgressInv.** `ProgressMatchesResults` is not inductive: a completion computes the
new counters from the old ones, so the counters must describe the items *before*
it too, also while a call is still writing items it decided to write earlier.
The invariant adds that a search id nobody drew has no documents
(`UndrawnIsAbsent`), that what a call remembers still agrees with the search it
made (`CallsAgree`), that an item of a readable search is within its positions and
does not outlive it (`ItemsAgree`), and that the status follows the counters
(`StatusAgrees`). From it follow the offers' lifetime, and `FinishedWhenDone`
by counting: a set of results as large as the set of positions is all of it.

**KeyInv** says that the request of a readable search is still there and names it, which is
why both get the same expiry. **LeaseInv** says that a turn works on an item somebody wrote,
and that while it believes in its lease the document carries its owner name at least that
long, unless another delivery of its task finished the item or the item is gone.
`LeaseCorrect` assumes nothing about owner names: the turns that believe they hold an item
at the same moment are deliveries of one task. That only one turn does is false, as an owner
is a task name, Cloud Tasks may deliver a task twice, and the renewal of either delivery
extends the lease of both (TLC finds it in a few steps when `LeaseOfOneTask` asks for one
turn).

**LogInv** is `ProgressInv` with `StartedAgrees`: an item somebody ever claimed belongs
to a search that left the queue. Without it a completion could be the first step of a
search in the log. The refinement goes by what a step leaves readable: most steps
leave every search as a reader saw it (`Same`), a transaction changes one search and maps
to the one action of the log about it, a completion adds exactly the entry of its item,
and the clock and the TTL end searches and nothing else.

**WakeupsInv** is the shape of the state with two more: the queue holds every ready card
once, no other, and only a leased card has a holder; and of the calls with one key at most
one is between the search and its items, none of which exists yet (`OneWriter`). That a
repeated call writes no item is what keeps a card from being queued twice. The queue's
operations have a lemma each: what joins, what follows, what leaves from any place.

**OrdersInv** says what each process may still rely on after its read grew old: a
report's order was linked, a webhook's order has the number it asked for, every
order of a sweep's list waited for `MaxAge` when it was listed, and a call that
drew an order is the one that made it. The proof first reduces every step to one of
four things it may do to an order (leave it, open, report, settle it); the
invariants are shown for those.

**GateInv** says that the lease stands past every slot that is held; what a circuit
does plays no part in it. **HealthInv** is about circuits: an open circuit ends no later
than one that as many failures would open *now*. A failure recorded late therefore
reckons from a later moment with at least as many failures, and its answer lies no
nearer (`WaitGrows`). The doubling of the wait is a power of two; that such powers are
naturals and grow is shown by counting the subsets of `1..n`.

**CacheInv.** A job at work on a list holds its mutex, and who holds it is at work on that
list (`MutexAgrees`). Hence no job of the same process refreshes the list while another
has it in memory (`Unspoilt`), which is what `RefreshHolds` needs; a refresh of another
process may come between, and is what the property excepts. For `ChangesAppear` the
invariant follows the age of a list through its stations: what a job carries (`Timely`),
what an entry holds, what a snapshot repeats; every `expiresAt` is bounded by the moment
the list was read and the lives and requests that lie between.
The answering request counts too, so it is three requests for an answer and two for `GetOffer`.
The proof corrected the bound: an empty answer has a life of its own, and the
configuration may set it longer than the other (`LongestTTL`).

**CheckoutInv** follows each goroutine from its plan to its answer (`TaskHolds`): who counts
units saw a shelf that sells at some moment of the call (`seen`), a cart holds what the
lines put into it ask for but for what the store trimmed (`Filled`), and who is past filling
has put every line of its store in; what it answers stays true until the call has its own
answer (`ResultHolds`). Offers are found because a reading that missed no page has every
page up to its cursor, and ends with at least those there were when it began (`PagesHold`).
What a page or a form makes of a shelf is shown once for every shelf, that of Jumpseller for the
status and the count apart: so `ReadingsFresh` claims of a count beside "unavailable" or
"unknown" only what the code gives, that the store kept that number at a moment when it
did not say that it sells the product.
An order is the work of a single goroutine, and none is at work once it exists (`OrdersHold`).
That the fold over a set of lines is the number of units they ask for is a lemma about sets of
any size (`AskedCounts`).

**OfferInv** says where everything in a walk comes from: a shelf holds goods of its source
(`ShelvesHold`), a walk carries their ids and has found offers of them (`WalksHold`), which
name a function only if the card behind it was read, and the answer was made, after the last
walk ended, of what the walks found (`AnswerHolds`). The turns are a count of the stores that
read, so `SearchTypeCorrect` rests on what each step does to that set. Three
properties are about the answer, and follow from what the shaping does to a list: the first
part of the module shows that a selection (`Select`) keeps the order and just the members
that pass, that deduplication keeps one of each identity and each identity, and that naming,
kinds and the marks of prices change neither store, link, variant nor source. `Select` and `Keep`
stand for `SelectSeq`, whose definition the prover cannot expand. What is assumed of a setup
(`Shaped`, `Hosted`, `Printed`) is what the code and its configuration give: every store has a
host of its own or, if it is a Moxfield list, the one of Moxfield, which no provider lists; an
id stands for one link and variant; of the providers that are searched only tcgmatch serves
pokemon (`config/stores.yaml:81-111`; `Builder.Providers` builds no `tcgdex`); a
sealed product has no mechanics. What a store may add while it is read is any product of that
kind.

**WholeInv** carries `WholeCorrect`, which says what an answer must have and not only where it
came from. While no product has moved, whatever a walk owes (`Owed`: what its client promises
to take of the shelf, read from the code of each platform) is on a page it has not read yet,
among the products it has left to read, or found (`Covers`); when it is done, found. So the end
of the paging is what matters: a client that stopped a page early, or that took a repeated link
for the end of the list, would leave something owed behind. That step is proved once for each
action of each platform (`StepCovers`). The second half follows the offers of the done walks
through the shaping into the answer (`WholeAnswer`): naming and deduplication keep one offer of
each identity, and the source that wins it is of the same game. Two facts about setups are
needed there: the clients of providers read no store (`openClient`, `Builder.Providers`), and
one entry of Moxfield has one name in every list that shows it.

**Titles, lists and catalogs.** The properties of the `shaping` run are statements about
pure functions, so `OfferShapingProofs` proves them of *every* title, list of offers or
config first (titles are sequences of `Marks`), and the theorems about the run follow, for
every bound, as its inputs are such ones (`Shaped`). `HalfKept` goes by counting: the prices
below the upper median of a group take places before it in rising order, so they are not
more than the others, and what is marked lies below the median (at a percent up to 100).
`CheapestKept` gives every place of the sorted list the place it had before (`Rises`, a
bijection); the trusted places in order are those of the trusted list, and its first ones
are the cheapest. Both rest on what `Keep` chooses (`KeepChooses`) and on ranks in a total
order of places (`OneOfEachRank`): `Sorted` and `InRisingOrder` say what `sort.SliceStable`
and `sort.Ints` give by counting what comes before, as the prover cannot expand `SortSeq`.
`PrintingsShareKey` follows the four ways in which `MatchesCard` accepts a title: the name
alone, the name and a bracket, the name with a dash and a code, where no earlier cut exists
as a name holds no separator, and the quoted name, whose quotes are the only ones. Without
the two conditions (quotes around the name only, no dash in it) TLC finds titles with other
keys. `NoConfigDrifts` needs that the domain of a store is no name of a provider; both are
keys of `stores.yaml`, and `marked` would confuse them.

**Induction over data.** The library's induction theorems take an operator as a parameter,
which the provers cannot instantiate. Where a proof needs induction it takes the least
counterexample instead, a least subset of a finite set (`LeastSubset` in `CheckoutProofs`,
`OfferSearchProofs` and `OfferShapingProofs`), or cites a fact of the library that was
proved by induction (`Doublings` in `SourceGateProofs`).

## What is only model-checked

- Liveness: `EveryCardServed`, `StaleReleased`, and `AnswerComes` of `OfferSearch` and
  `Checkout`. Fairness and ENABLED are beyond the provers.

## Findings

Where the repository says one thing and does another, with the run that shows it:

1. `double_tap`: two calls with one key place two orders at the store.

Read while modelling, and not given a run. Searches and items:

- A crash between a search and its items (`search_store.go:54-57`) leaves a search that
  the retry answers and nobody can finish.
- Two deliveries of one task are one owner, and both may hold the item at the same time
  (`item_store.go:146`), against `docs/queue/orphaned-queue-items.md:85-86`: "Only one
  consumer can obtain each item". `LeaseOfOneTask` says what does hold.
- The claim loop deletes `maxClaimDiscards + 1` dead items (`item_store.go:49`, against
  `docs/queue/orphaned-queue-items.md:100`).
- A sweep does not ignore dead records but lets them fill its page
  (`item_store.go:128`, against `docs/queue/sweeper.md:36`).
- The offers of an item that cannot be read count as none (`search_store.go:128`), so a
  stock check answers "not found" for an offer that exists.

Orders and checkout:

- A webhook that comes before its order is saved is acknowledged and lost
  (`order_webhooks.go:61`); the order is released in the end.
- A buyer's report with the number of a placed order can hide that order from its
  webhook (`order_store.go:82`).
- Of two concurrent reports of one number the second is refused
  (`order_service.go:131`, against `docs/checkout/agentless-checkout.md:246`).
- All offers of Moxfield lists share the host `moxfield.com`, so a checkout that groups by
  host puts the lists of several stores under the name of the first.
- An order goes on when the store trimmed its cart; only a quote tells of that.
- A place at the gate is waited for without looking at the context; an error found
  after the goroutines started leaves them running; and the stock check of the worker
  passes no gate at all.
- Jumpseller may answer "unavailable" or "unknown" together with a positive count, where of
  a page the sign beats the count (`units_test.go:55-56`). `ReadingFresh` says what such a
  count stands for.

Offers:

- A call that waits for its slot asks a store whose circuit has opened meanwhile
  (`source_store.go:84`, against `docs/search/source-pacing.md:62`).
- A snapshot can die before the entry that carried it, against `offer_store.go:12-13`:
  one written under a short list overwrites a longer one, `indexMissingOffers` leaves
  those that are barely alive, and `markIndexed` marks whatever entry has the key.
- The life of an empty answer may be set above that of a full one, as nothing compares
  the two (`config.go:76-77`); the bound of `ChangesAppear` therefore takes the longer of
  them, where `README.md` promises "another TTL period".
- `README.md:143` says that lists live as long as answers; `config.go:80` reads
  `MUCHI_INVENTORY_CACHE_TTL_SECONDS`.
- The mutex of a list is one of its process: a refresh in one does not wait for a
  reader in another, which may save what it read before. `RefreshHolds` excepts it.
- A name with a dash of its own keeps its printing in its key, as only the first dash
  of a title is looked at (`model/offer.go:233`, against the comment at 192-195).
  `OneKey` excepts such names.
- The selector offers games that only `html` stores or `tcgdex` serve, which nobody asks;
  several providers of one game leave the choice to the order of a map; a provider that
  sells no singles is still asked for them; and the marks name a store, which the
  sources of its Moxfield lists are not called.

## What is not modelled, and why

- Card metadata, autocomplete and pictures: single requests that keep nothing.
- How the clients find prices, units and titles in HTML and JSON; money, addresses,
  regions and payment methods; the locations of stores.
- The cursor of a client outside, HTTP decoding and rendering, configuration, metrics and
  deployment scripts. `Loader` keeps one instance under one mutex from start to end and
  would be a model of one step.
- Unreadable documents other than items; a transaction that commits although its
  answer is lost, other than as a crash after it.
- `Wakeups` does not say *which* fields a turn writes and `SearchStore` does not say
  *whether* a turn comes: the two meet in the claim and the completion.
- The order in which `ListExpired` lists orders is left open.

## Plan

The system's stateful parts are modelled. In this order:

1. Abstract specifications for `OfferCache` (a list is one value that ages) and `Wakeups` (a
   card is asked for until it is served), with refinements like that of `SearchLog`.
2. Unreadable searches and orders in the runs that exist, where one document stops the
   head of a queue or a whole list.
3. The client that follows the cursor of `ListResults` from outside, as a composition with
   `SearchLog`: every result once, none skipped.
