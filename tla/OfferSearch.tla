---------------------------- MODULE OfferSearch ----------------------------
(***************************************************************************)
(* One question to the sources of a game: internal/search/offer_service.go *)
(* asks the provider of the game, then all its stores at the same time     *)
(* under a limit of turns (offer_sources.go), and shapes what came back.   *)
(* A client of a store (internal/stores, internal/aggregators) needs many  *)
(* requests; every request is a step here, so that shelves change, requests *)
(* fail and the context ends between any two of them.                      *)
(*                                                                         *)
(* A shelf is what the search of a store answers for the card, in its      *)
(* order.  One product stands for one variant.  The pace of requests and   *)
(* their retries are SourceGate's.                                         *)
(***************************************************************************)
EXTENDS OfferShaping

CONSTANTS
    Setups,               \* the questions, clients and shelves to start from
    PageSize,             \* products of a page
    CatalogLimit,         \* catalogLimit of tcgmatch
    MaxPages,             \* Client.MaxPages of prestashop
    maxConcurrentSources, \* stores asked at the same time
    SuspiciousPercent,
    MaxWalk,              \* bound: pages of a client that has no limit of its own
    MaxMoves,             \* bound: changes of the shelves
    MaxFaults,            \* bound: requests that fail
    None                  \* nobody holds the gate, no cached list

Agg == "agg"  \* the walk and the shelf of the provider
ListHost == "moxfield.com"  \* the host of whatever stands in a list

Product == [id : STRING \ {""}, store : STRING, host : STRING, title : Seq(Marks),
            edition : Seq(Marks), kind : STRING, price : Int, units : Nat, mechanics : STRING]

(* What a source may ever sell in a setup, but for the units.              *)
Goods(x, s) ==
    ToSet(x.shelf[s]) \union {x.fresh[s]}
        \union IF x.cached[s] = None THEN {} ELSE ToSet(x.cached[s])

(* The stores in their order, the provider, and what each of them has; the *)
(* clients of providers read no store.                                     *)
Shaped(x) ==
    LET names == DOMAIN x.client IN
    /\ x.sources \in Seq(names \ {Agg}) /\ Agg \in names /\ names \subseteq STRING
    /\ \A s \in ToSet(x.sources) : x.client[s] \notin {"tcgmatch", "scrycl"}
    /\ x.host \in [names -> STRING]
    /\ x.shelf \in [names -> Seq(Product)] /\ x.fresh \in [names -> Product]
    /\ x.cached \in [names -> Seq(Product) \union {None}]
    /\ x.query \in [name : Seq(Marks), match : {"", "exact", "includes"}, kind : {"", "single", "sealed"}]
    /\ x.game \in STRING /\ x.community \in BOOLEAN /\ x.loops \subseteq names

(* Hosts are those of the links of the offers, one for each store; a list  *)
(* of Moxfield names none, and its offers have Moxfield's, which no        *)
(* provider lists.                                                         *)
Hosted(x) ==
    LET stores == ToSet(x.sources) IN
    /\ \A s, t \in stores : x.host[s] = x.host[t] /\ x.host[s] # "" => s = t
    /\ \A s \in stores : \A p \in Goods(x, s) :
          p.host = IF x.host[s] = "" THEN ListHost ELSE x.host[s]
    /\ \A s \in stores : x.host[s] # ListHost
    /\ \A p \in Goods(x, Agg) : p.host # ListHost

(* An id stands for a link and a variant: it has one host, for one source  *)
(* it is one product's, and two lists that show one entry give it the name *)
(* Moxfield gives it.  A box has no mechanics.  config/stores.yaml: of the *)
(* providers that are searched only tcgmatch serves pokemon.               *)
Printed(x) ==
    LET names == DOMAIN x.client
        print(p) == <<p.store, p.title, p.edition, p.kind, p.mechanics>> IN
    /\ \A s, t \in names : \A p \in Goods(x, s), q \in Goods(x, t) :
          p.id = q.id => /\ p.host = q.host /\ (s = t => print(p) = print(q))
                         /\ Agg \notin {s, t} => <<p.title, p.edition>> = <<q.title, q.edition>>
    /\ \A p \in Goods(x, Agg) : p.kind = "sealed" => p.mechanics = ""
    /\ x.game = "pokemon" => x.client[Agg] \in {None, "tcgmatch"}

ASSUME OfferSearchAssumption ==
    /\ \A x \in Setups : Shaped(x) /\ Hosted(x) /\ Printed(x)
    /\ "" \in STRING /\ None \notin STRING
    /\ PageSize \in Nat \ {0} /\ CatalogLimit \in Nat \ {0} /\ MaxPages \in Nat \ {0}
    /\ maxConcurrentSources \in Nat \ {0}
    /\ SuspiciousPercent \in 0..100
    /\ MaxWalk \in Nat /\ MaxMoves \in Nat /\ MaxFaults \in Nat

VARIABLES
    setup,   \* the question and the clients: never changes
    shelf,   \* shelf[s]: the products of each store, and of the provider
    walk,    \* walk[s]: what the client of s has done and found
    turns,   \* tokens taken from the channel of querySources
    gate,    \* the jumpseller client that holds the gate of the process
    expired, \* the context of the question has ended
    answer,  \* what FindCardOffers returned
    moves,   \* how often a shelf changed
    faults   \* how many requests failed

world == <<shelf, moves>>
vars == <<setup, world, walk, turns, gate, expired, answer, faults>>

query == settleQuery(setup.query)
Kind(s) == setup.client[s]

(* Who the marks leave out of a question of its kind.                      *)
Unasked == IF Sealed(query) THEN setup.singlesOnly ELSE setup.sealedOnly
hasProvider == Kind(Agg) # None /\ Agg \notin Unasked

(* The stores that are asked, and in their order.                          *)
Stores == ToSet(setup.sources) \ Unasked
Asked == keepSources(setup.sources, Unasked)
Walkers == Stores \union (IF hasProvider THEN {Agg} ELSE {})

Ended == {"done", "failed"}
Asleep == [step |-> "waiting", page |-> 1, links |-> <<>>, left |-> <<>>,
           known |-> {}, found |-> <<>>]

Init ==
    /\ setup \in Setups
    /\ shelf = setup.shelf
    /\ walk = [s \in DOMAIN setup.client |->
                  IF s = Agg THEN [Asleep EXCEPT !.step = "searching"] ELSE Asleep]
    /\ turns = 0
    /\ gate = None
    /\ expired = FALSE
    /\ answer = [state |-> "none", items |-> <<>>, faults |-> {}, cached |-> FALSE]
    /\ moves = 0
    /\ faults = 0

-----------------------------------------------------------------------------
(* What a client reads and builds                                          *)

Page(products, n) == SubSeq(products, (n - 1) * PageSize + 1, Min({n * PageSize, Len(products)}))
Ids(products) == [i \in DOMAIN products |-> products[i].id]
Accepted(products) == Select(products, LAMBDA p : AcceptsTitle(query, p.title))
OnShelf(s, id) == \E i \in DOMAIN shelf[s] : shelf[s][i].id = id

(* A store that ignores the number of the page answers its first one.      *)
Listed(s, n) == Page(shelf[s], IF s \in setup.loops THEN 1 ELSE n)
HasNext(s, n) == s \in setup.loops \/ Len(shelf[s]) > n * PageSize

buildOffer(s) == [p \in Product |->
    [source |-> s, store |-> p.store, host |-> p.host, url |-> p.id, variant |-> p.id,
     title |-> p.title, edition |-> p.edition, key |-> <<>>, kind |-> "",
     game |-> IF Kind(s) = "tcgmatch" THEN setup.game ELSE "",
     function |-> IF p.id \in walk[s].known THEN p.mechanics ELSE "",
     product |-> IF Kind(s) = "tcgmatch" THEN p.id ELSE "",
     price |-> p.price, currency |-> "clp", suspicious |-> FALSE,
     status |-> IF p.units > 0 THEN "available" ELSE "unavailable"]]

Offers(s, products) == [i \in DOMAIN products |-> buildOffer(s)[products[i]]]
Priced(products) == \A i \in DOMAIN products : products[i].price > 0

-----------------------------------------------------------------------------
(* querySource: a turn for every walk, given back however it ends          *)

SourcesMayStart == ~hasProvider \/ walk[Agg].step \in Ended

TakeTurn(s) ==
    /\ SourcesMayStart
    /\ walk[s].step = "waiting"
    /\ turns < maxConcurrentSources
    /\ walk' = [walk EXCEPT ![s].step = "searching"]
    /\ turns' = turns + 1
    /\ UNCHANGED <<setup, world, gate, expired, answer, faults>>

GiveUpTurn(s) ==
    /\ SourcesMayStart
    /\ walk[s].step = "waiting"
    /\ expired
    /\ walk' = [walk EXCEPT ![s].step = "failed"]
    /\ UNCHANGED <<setup, world, turns, gate, expired, answer, faults>>

(* A client that failed returns no offers at all.                          *)
Failed(w) == [w EXCEPT !.step = "failed", !.found = <<>>]
Done(w, found) == [w EXCEPT !.step = "done", !.found = found]

(* A mutant: only a walk that went well gives its turn back.               *)
TurnsAfterSuccess(s, w) == IF s # Agg /\ w.step = "done" THEN turns - 1 ELSE turns

TurnsAfter(s, w) == IF s # Agg /\ w.step \in Ended THEN turns - 1 ELSE turns

(* The reply to a request of s makes its walk w; the gate is open again.   *)
Replied(s, w) ==
    /\ \E next \in {w} : walk' = [walk EXCEPT ![s] = next] /\ turns' = TurnsAfter(s, next)
    /\ gate' = IF gate = s THEN None ELSE gate
    /\ UNCHANGED <<setup, world, expired, answer>>

Requesting(s) == walk[s].step \in {"searching", "currency", "reading"}
MaySend(s) == Kind(s) = "jumpseller" => gate = s

(* A good reply to the request that s has under way.                       *)
Answered(s, client, step) ==
    /\ Kind(s) = client
    /\ walk[s].step = step
    /\ MaySend(s)
    /\ ~expired
    /\ UNCHANGED faults

(* fetchPage of jumpseller: one request at a time in the whole process.    *)
TakeGate(s) ==
    /\ Kind(s) = "jumpseller"
    /\ Requesting(s)
    /\ gate = None
    /\ gate' = s
    /\ UNCHANGED <<setup, world, walk, turns, expired, answer, faults>>

(* FetchSource fails: the store, its circuit or the end of the context,    *)
(* which also ends the wait for the gate.                                  *)
RequestFails(s) ==
    /\ Requesting(s)
    /\ \/ expired /\ UNCHANGED faults
       \/ MaySend(s) /\ faults < MaxFaults /\ faults' = faults + 1
    /\ Replied(s, Failed(walk[s]))

-----------------------------------------------------------------------------
(* WooCommerce and PrestaShop: pages of offers                             *)

(* A mutant: a full page is taken for the last one.                        *)
LastAnyPage(page) == Len(page) <= PageSize

LastWooPage(page) == Len(page) < PageSize

ReadWooPage(s) ==
    LET w == walk[s]
        page == Listed(s, w.page)
        kept == Accepted(page)
        found == w.found \o Offers(s, kept)
    IN /\ Answered(s, "woocommerce", "searching")
       /\ w.page <= MaxWalk
       /\ Replied(s, IF ~Priced(kept) THEN Failed(w)
                     ELSE IF LastWooPage(page) THEN Done(w, found)
                     ELSE [w EXCEPT !.page = @ + 1, !.found = found])

(* Products it cannot read are left out, and only the card itself matches, *)
(* whatever the question asked for.                                        *)
Miniatures(page) == Select(page, LAMBDA p : MatchesCard(p.title, query.name) /\ p.price > 0)

ReadPrestaPage(s) ==
    LET w == walk[s]
        kept == Miniatures(Listed(s, w.page))
        found == w.found \o Offers(s, kept)
    IN /\ Answered(s, "prestashop", "searching")
       /\ Replied(s, IF ~HasNext(s, w.page) THEN Done(w, DeduplicateOffers(found))
                     ELSE IF w.page = MaxPages THEN Failed(w)
                     ELSE [w EXCEPT !.page = @ + 1, !.found = found])

-----------------------------------------------------------------------------
(* Shopify and Jumpseller: pages of links, then one request per product    *)

(* The page of a product, or nothing when the store no longer has it.      *)
ProductPage(s, id) == Select(shelf[s], LAMBDA p : p.id = id)

(* The variants a client sells: one without stock is left out, one without *)
(* a price is an error.                                                    *)
Sellable(products) == Select(products, LAMBDA p : p.units > 0)

(* Shopify's own search is asked for what it has in stock.                 *)
Available(s) == Sellable(shelf[s])

SearchShopify(s) ==
    LET w == walk[s]
        n == IF s \in setup.loops THEN 1 ELSE w.page
        fresh == Select(Ids(Page(Available(s), n)), LAMBDA id : ~Contains(w.links, id))
        links == w.links \o fresh
        next == s \in setup.loops \/ Len(Available(s)) > w.page * PageSize
    IN /\ Answered(s, "shopify", "searching")
       /\ Replied(s, IF w.page > 1 /\ fresh = <<>> THEN Failed(w)
                     ELSE IF next THEN [w EXCEPT !.page = @ + 1, !.links = links]
                     ELSE IF links = <<>> THEN Done(w, <<>>)
                     ELSE [w EXCEPT !.step = "currency", !.links = links, !.left = links])

ReadCurrency(s) ==
    /\ Answered(s, "shopify", "currency")
    /\ Replied(s, [walk[s] EXCEPT !.step = "reading"])

(* After its last product the client has all its offers.                   *)
NextProduct(w, found) ==
    IF Len(w.left) = 1 THEN Done(w, DeduplicateOffers(found))
    ELSE [w EXCEPT !.left = Tail(@), !.found = found]

(* A product that was taken off the shelf is an error of the whole store,  *)
(* and so is one without a price.                                          *)
ReadShopifyProduct(s) ==
    LET w == walk[s]
        page == ProductPage(s, Head(w.left))
        kept == Sellable(Accepted(page))
    IN /\ Answered(s, "shopify", "reading")
       /\ Replied(s, IF page = <<>> \/ ~Priced(kept) THEN Failed(w)
                     ELSE NextProduct(w, w.found \o Offers(s, kept)))

(* The index is read until a page is empty; a page that brings nothing new *)
(* is an error.  links are all ids that were seen, left the paths to read. *)
SearchJumpseller(s) ==
    LET w == walk[s]
        page == Listed(s, w.page)
        fresh == Select(page, LAMBDA p : ~Contains(w.links, p.id))
        read == [w EXCEPT !.page = @ + 1, !.links = @ \o Ids(fresh),
                          !.left = @ \o Ids(Accepted(fresh))]
    IN /\ Answered(s, "jumpseller", "searching")
       /\ Replied(s, IF page = <<>>
                     THEN IF w.left = <<>> THEN Done(w, <<>>) ELSE [w EXCEPT !.step = "reading"]
                     ELSE IF fresh = <<>> THEN Failed(w) ELSE read)

(* Every variant of the page is built, sold out or not, before any is left  *)
(* out.                                                                    *)
Parsed(page) == page # <<>> /\ Priced(page)

ReadJumpsellerProduct(s) ==
    LET w == walk[s]
        page == ProductPage(s, Head(w.left))
    IN /\ Answered(s, "jumpseller", "reading")
       /\ Replied(s, IF ~Parsed(page) THEN Failed(w)
                     ELSE NextProduct(w, w.found \o Offers(s, Sellable(Accepted(page)))))

-----------------------------------------------------------------------------
(* Moxfield: one list, kept between questions                              *)

Inventory(s) == IF setup.cached[s] = None THEN shelf[s] ELSE setup.cached[s]

(* An entry without copies or without a price is not offered.              *)
Entries(products) == Select(products, LAMBDA p : p.units > 0 /\ p.price > 0)

ReadList(s) ==
    /\ Answered(s, "moxfield", "searching")
    /\ Replied(s, Done(walk[s], Offers(s, Accepted(Entries(Inventory(s))))))

-----------------------------------------------------------------------------
(* The providers: a catalog with listings, or the page of one card         *)

(* Only the first page of the catalog is asked for.                        *)
Catalog == SubSeq(shelf[Agg], 1, Min({CatalogLimit, Len(shelf[Agg])}))

(* What comes after the catalog, or after the names of its functions.      *)
ReadOn(w) == IF w.left = <<>> THEN Done(w, <<>>) ELSE [w EXCEPT !.step = "reading"]

SearchCatalog ==
    LET read == [walk[Agg] EXCEPT
                    !.left = Ids(Select(Accepted(Catalog), LAMBDA p : p.kind = query.kind))]
        pokemon == setup.game = "pokemon" /\ ~Sealed(query) /\ Catalog # <<>>
    IN /\ Answered(Agg, "tcgmatch", "searching")
       /\ Replied(Agg, IF pokemon THEN [read EXCEPT !.step = "briefs"] ELSE ReadOn(read))

(* namePokemonFunctions: the printings that a second catalog knows under   *)
(* the name of the first product.  Four are read at a time, and nothing     *)
(* looks at them before all have ended.                                    *)
ReadCardName(title) ==
    LET dash == FirstOf({Dash}, title) IN IF dash = 0 THEN title ELSE SubSeq(title, 1, dash - 1)

selectPokemonCards ==
    Select(Catalog, LAMBDA p : p.mechanics # ""
                                    /\ ContainsCard(p.title, ReadCardName(Catalog[1].title)))

ReadBriefs ==
    LET w == walk[Agg]
        cards == IF Catalog = <<>> THEN <<>> ELSE Ids(selectPokemonCards)
    IN /\ Answered(Agg, "tcgmatch", "briefs")
       /\ Replied(Agg, IF cards = <<>> THEN ReadOn(w)
                       ELSE [w EXCEPT !.step = "cards", !.links = cards])

(* A printing that could not be read has no function; the others keep theirs. *)
AfterCard(w, known) ==
    LET read == [w EXCEPT !.links = Tail(@), !.known = known]
    IN IF Len(w.links) = 1 THEN ReadOn(read) ELSE read

ReadPokemonCard ==
    LET w == walk[Agg]
    IN /\ Answered(Agg, "tcgmatch", "cards")
       /\ Replied(Agg, AfterCard(w, w.known \union {Head(w.links)}))

(* No failure here is one of the question.                                 *)
FunctionFails ==
    LET w == walk[Agg]
    IN /\ w.step \in {"briefs", "cards"}
       /\ \/ expired /\ UNCHANGED faults
          \/ ~expired /\ faults < MaxFaults /\ faults' = faults + 1
       /\ Replied(Agg, IF w.step = "briefs" THEN ReadOn(w) ELSE AfterCard(w, w.known))

(* A listing that is not active, or has no units or price, is not offered. *)
Listings(products) == Select(products, LAMBDA p : p.units > 0 /\ p.price > 0)

(* A product that left the catalog has no listings.                        *)
ReadListings ==
    LET w == walk[Agg]
        listings == Listings(ProductPage(Agg, Head(w.left)))
    IN /\ Answered(Agg, "tcgmatch", "reading")
       /\ Replied(Agg, NextProduct(w, w.found \o Offers(Agg, listings)))

(* What a page of one card offers, once each, in a stock nobody knows.     *)
CardPage ==
    DeduplicateOffers([i \in DOMAIN shelf[Agg] |->
                          [buildOffer(Agg)[shelf[Agg][i]] EXCEPT !.status = "unknown"]])

(* Sellers without a site of their own are under the aggregator's.         *)
withoutCommunityOffers(items) == Select(items, LAMBDA o : o.host # setup.host[Agg])

(* No page is no offers; one that cannot be read is an error.              *)
ReadCardPage ==
    /\ Answered(Agg, "scrycl", "searching")
    /\ Replied(Agg, IF ~Priced(shelf[Agg]) THEN Failed(walk[Agg])
                    ELSE Done(walk[Agg], IF setup.community THEN CardPage
                                         ELSE withoutCommunityOffers(CardPage)))

-----------------------------------------------------------------------------
(* collectOffers: all walks are over                                       *)

Fell(s) == walk[s].step = "failed"
Fallen == {s \in Walkers : Fell(s)}

(* A mutant: a store that fell counts as one that answered.                *)
AskedHosts == {setup.host[s] : s \in Stores} \ {""}

readDirectHosts == {setup.host[s] : s \in {x \in Stores : ~Fell(x)}} \ {""}

combineSources == FlattenSeq([i \in DOMAIN Asked |-> walk[Asked[i]].found])

queryGameSources ==
    preferDirectOffers(IF hasProvider THEN walk[Agg].found ELSE <<>>, readDirectHosts)
        \o combineSources

(* A mutant: offers that came twice stay twice.                            *)
AllOffers(items) == items

OneOfEach(items) == DeduplicateOffers(items)

Named(items) == keepGameSealed(query, NameCards(nameKinds(items, query.kind)), setup.library)

(* A mutant: the answer of the stores decides alone.                       *)
StoresAnswered == \A s \in Stores : ~Fell(s)

MayCache == Fallen = {}

CollectOffers ==
    /\ answer.state = "none"
    /\ \A s \in Walkers : walk[s].step \in Ended
    /\ \E items \in {OneOfEach(queryGameSources)} : \E named \in {Named(items)} :
          answer' = IF Fallen # {} /\ items = <<>>
                    THEN [state |-> "error", items |-> <<>>, faults |-> Fallen, cached |-> FALSE]
                    ELSE [state |-> "found", faults |-> Fallen, cached |-> MayCache,
                          items |-> MarkSuspicious(named, SuspiciousPercent, query)]
    /\ UNCHANGED <<setup, world, walk, turns, gate, expired, faults>>

-----------------------------------------------------------------------------
(* The world outside                                                       *)

Expire ==
    /\ ~expired /\ answer.state = "none"
    /\ expired' = TRUE
    /\ UNCHANGED <<setup, world, walk, turns, gate, answer, faults>>

Move(s, products) ==
    /\ moves < MaxMoves /\ answer.state = "none"
    /\ moves' = moves + 1
    /\ shelf' = [shelf EXCEPT ![s] = products]
    /\ UNCHANGED <<setup, walk, turns, gate, expired, answer, faults>>

Arrive(s) == ~OnShelf(s, setup.fresh[s].id) /\ Move(s, <<setup.fresh[s]>> \o shelf[s])
Withdraw(s) == \E i \in DOMAIN shelf[s] : Move(s, RemoveAt(shelf[s], i))
SellOut(s) == \E i \in DOMAIN shelf[s] : Move(s, [shelf[s] EXCEPT ![i].units = 0])

StoreStep(s) ==
    \/ TakeTurn(s) \/ GiveUpTurn(s) \/ TakeGate(s)
    \/ ReadWooPage(s) \/ ReadPrestaPage(s)
    \/ SearchShopify(s) \/ ReadCurrency(s) \/ ReadShopifyProduct(s)
    \/ SearchJumpseller(s) \/ ReadJumpsellerProduct(s)
    \/ ReadList(s) \/ RequestFails(s)

ProviderStep ==
    /\ hasProvider
    /\ \/ SearchCatalog \/ ReadBriefs \/ ReadPokemonCard \/ FunctionFails
       \/ ReadListings \/ ReadCardPage \/ RequestFails(Agg)

Next ==
    \/ \E s \in Stores : StoreStep(s)
    \/ ProviderStep
    \/ CollectOffers
    \/ Expire
    \/ \E s \in Walkers : Arrive(s) \/ Withdraw(s) \/ SellOut(s)

(* Requests end and goroutines run.  Nothing here says that the context    *)
(* ends: Cloud Run and Cloud Tasks decide that.                            *)
Fairness ==
    /\ \A s \in UNION {ToSet(x.sources) : x \in Setups} : WF_vars(s \in Stores /\ StoreStep(s))
    /\ WF_vars(ProviderStep) /\ WF_vars(CollectOffers)

Spec == Init /\ [][Next]_vars /\ Fairness

-----------------------------------------------------------------------------
(* Properties                                                              *)

Steps == {"waiting", "searching", "briefs", "cards", "currency", "reading"} \union Ended

Offer == [source : STRING, store : STRING, host : STRING, url : STRING, variant : STRING,
          title : Seq(Marks), edition : Seq(Marks), key : {<<>>}, kind : {""}, game : STRING,
          function : STRING, product : STRING, price : Int, currency : {"clp"},
          suspicious : {FALSE}, status : {"available", "unavailable", "unknown"}]

Walk == [step : Steps, page : Nat \ {0}, links : Seq(STRING), left : Seq(STRING),
         known : SUBSET STRING, found : Seq(Offer)]

(* The turns taken are those of the stores that read, and the gate is held *)
(* by one of them (querySources, fetchPage of jumpseller).                 *)
TypeOK ==
    /\ setup \in Setups
    /\ shelf \in [DOMAIN setup.client -> Seq(Product)]
    /\ walk \in [DOMAIN setup.client -> Walk]
    /\ turns \in 0..maxConcurrentSources
    /\ turns = Cardinality({s \in Stores : Requesting(s)})
    /\ gate \in Stores \union {None}
    /\ gate # None => Kind(gate) = "jumpseller" /\ Requesting(gate)
    /\ expired \in BOOLEAN
    /\ answer.state \in {"none", "error", "found"}
    /\ moves \in 0..MaxMoves
    /\ faults \in 0..MaxFaults

Represented(p) ==
    \E i \in DOMAIN answer.items : identity(answer.items[i]) = <<p.store, p.id, p.id>>

OfThisGame(o) == keepGameSealed(query, <<o>>, setup.library) # <<>>

(* What the client of a store promises to find on a shelf, read all at once. *)
Promised(s) ==
    LET all == IF Kind(s) = "moxfield" THEN Inventory(s)
               ELSE IF Kind(s) = "tcgmatch" THEN Catalog ELSE shelf[s]
        sold(p) == p.units > 0 \/ Kind(s) \in {"woocommerce", "prestashop", "scrycl"}
        asked(p) == CASE Kind(s) = "scrycl" -> setup.community \/ p.host # setup.host[Agg]
                      [] Kind(s) = "prestashop" -> MatchesCard(p.title, query.name)
                      [] Kind(s) = "tcgmatch" -> p.kind = query.kind /\ AcceptsTitle(query, p.title)
                      [] OTHER -> AcceptsTitle(query, p.title)
    IN {p \in ToSet(all) : p.price > 0 /\ sold(p) /\ asked(p) /\ OfThisGame(p)}

(* An answer that is kept for the next question is whole: page after page   *)
(* and product after product, every client brought all that its store sells *)
(* of the card, unless the store changed its shelf meanwhile; an aggregated *)
(* offer is missing only where its own store answered (saveOfferCache).     *)
WholeWhenCached ==
    answer.cached /\ moves = 0 =>
        \A s \in Walkers : \A p \in Promised(s) :
            Represented(p) \/ (s = Agg /\ p.host \in readDirectHosts)

(* A store that fell stays visible through the aggregator, and a store that *)
(* answered speaks for itself only (preferDirectOffers, readDirectHosts).   *)
OneVoicePerStore ==
    answer.state = "found" /\ hasProvider =>
        /\ \A i \in DOMAIN walk[Agg].found :
              LET o == walk[Agg].found[i]
                  fell == \E s \in Stores : Fell(s) /\ setup.host[s] = o.host
              IN fell /\ OfThisGame(o) =>
                    \E j \in DOMAIN answer.items : identity(answer.items[j]) = identity(o)
        /\ \A i, j \in DOMAIN answer.items :
              answer.items[i].source = Agg /\ answer.items[j].source # Agg
                  => answer.items[i].host # answer.items[j].host

(* A product that slid to the next page while its store was read is offered *)
(* once (DeduplicateOffers): the WooCommerce client takes it twice.         *)
OfferedOnce ==
    \A i, j \in DOMAIN answer.items :
        identity(answer.items[i]) = identity(answer.items[j]) => i = j

(* Offers of the provider that carry one key are one card to play with: a   *)
(* printing whose mechanics could not be read stands for itself, so the     *)
(* cheap one of a name is not taken for the strong one (readOfferKey,       *)
(* namePokemonFunctions fails open).                                       *)
OneFunctionPerKey ==
    \A i, j \in DOMAIN answer.items :
        LET o == answer.items[i]
            p == answer.items[j]
            mechanics(x) == {q.mechanics : q \in {g \in Goods(setup, Agg) : g.id = x.url}}
        IN o.source = Agg /\ p.source = Agg /\ setup.game = "pokemon" /\ o.key = p.key
              => mechanics(o) = mechanics(p)

(* However requests fail, shelves change and stores repeat their pages, the *)
(* question is answered, and a turn that is not given back does not keep    *)
(* the other stores waiting.  Only a WooCommerce store that ignores the     *)
(* number of the page needs the end of the context for that.                *)
AnswerComes ==
    ((\E s \in setup.loops : Kind(s) = "woocommerce") => <>expired)
        => <>(answer.state # "none")

=============================================================================
