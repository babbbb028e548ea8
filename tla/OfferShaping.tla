---------------------------- MODULE OfferShaping ----------------------------
(***************************************************************************)
(* How a list of offers is shaped before it leaves: the pure part of       *)
(* internal/search/offer_shaping.go, offer_sources.go, card_service.go and *)
(* internal/model/offer.go.  An offer is a record with its source, store,  *)
(* host and url, variant, title, edition, kind, game, price in cents,      *)
(* currency, image and mark; titles are the sequences of OfferTitles.      *)
(***************************************************************************)
EXTENDS OfferTitles, SequencesExt

(* A price that is not a decimal: parseCents fails on it.                   *)
NoPrice == 0 - 1
parseCents(item) == item.price
Readable(item) == parseCents(item) # NoPrice

-----------------------------------------------------------------------------
(* Lists                                                                   *)

(* A list in an order of its places: its n-th item has n - 1 before it.    *)
Sorted(items, before(_, _)) ==
    [n \in DOMAIN items |->
        items[CHOOSE i \in DOMAIN items :
                 Cardinality({j \in DOMAIN items : before(j, i)}) = n - 1]]

(* The items at some of the places of a list, in their order.              *)
Keep(items, places) ==
    LET kept[n \in 0..Len(items)] ==
            IF n = 0 THEN <<>>
            ELSE IF n \in places THEN Append(kept[n - 1], items[n])
            ELSE kept[n - 1]
    IN kept[Len(items)]

(* What SelectSeq gives, written so that it can be reasoned about; items is *)
(* read once.                                                              *)
Select(items, Test(_)) ==
    CHOOSE kept \in {Keep(list, {i \in DOMAIN list : Test(list[i])}) : list \in {items}} : TRUE

-----------------------------------------------------------------------------
(* Queries and sources                                                     *)

settleQuery(query) ==
    [query EXCEPT !.kind = IF @ = "" THEN "single" ELSE @,
                  !.match = IF @ = "" THEN "exact" ELSE @]

nameKinds(items, kind) ==
    [i \in DOMAIN items |-> [items[i] EXCEPT !.kind = IF kind = "" THEN "single" ELSE kind]]

(* A source that nobody marked stays asked.                                *)
keepSources(sources, excluded) == Select(sources, LAMBDA s : s \notin excluded)

(* Aggregated offers of a store that answered directly are dropped.        *)
preferDirectOffers(items, direct) == Select(items, LAMBDA o : o.host \notin direct)

-----------------------------------------------------------------------------
(* One offer for each store, url and variant: the first one                *)

identity(item) == <<item.store, item.url, item.variant>>

DeduplicateOffers(items) ==
    LET first(list, i) == \A j \in 1..(i - 1) : identity(list[j]) # identity(list[i])
        firsts(list) == Keep(list, {i \in DOMAIN list : first(list, i)})
    IN CHOOSE kept \in {firsts(list) : list \in {items}} : TRUE

-----------------------------------------------------------------------------
(* Sealed answers and pictures: both fail open                             *)

(* library is the list of sets of the game, or what went wrong with it.    *)
keepGameSealed(query, items, library) ==
    IF ~Sealed(query) \/ library.state # "loaded" \/ library.sets = {} THEN items
    ELSE Select(items, LAMBDA o : NamesSet(o.title, library.sets)
                                        \/ NamesSet(o.edition, library.sets))

-----------------------------------------------------------------------------
(* Prices that look too low                                                *)

peers(query, item) == <<PriceGroupOf(query, item), item.currency>>

(* The readable prices of a group.                                         *)
groupOfferPrices(items, query, group) ==
    LET members == Select(items, LAMBDA o : Readable(o) /\ peers(query, o) = group)
    IN [i \in DOMAIN members |-> members[i].price]

(* The n-th of a list of prices once they rise (sort.Ints).                 *)
InRisingOrder(prices, n) ==
    CHOOSE price \in ToSet(prices) :
        /\ Cardinality({i \in DOMAIN prices : prices[i] < price}) < n
        /\ Cardinality({i \in DOMAIN prices : prices[i] <= price}) >= n

(* A mutant: the dearest price of the group judges the others.             *)
LastOfGroup(items, query, group) ==
    LET prices == groupOfferPrices(items, query, group)
    IN IF prices = <<>> THEN 0 ELSE InRisingOrder(prices, Len(prices))

(* The upper of the two middle prices; an empty group has none.            *)
findPriceMedian(items, query, group) ==
    LET median(prices) == IF prices = <<>> THEN 0 ELSE InRisingOrder(prices, (Len(prices) \div 2) + 1)
    IN CHOOSE middle \in {median(prices) : prices \in {groupOfferPrices(items, query, group)}} : TRUE

pricedLow(item, median, percent) ==
    Readable(item) /\ median > 0 /\ item.price * 100 < median * percent

(* The mark is only ever added.                                            *)
MarkSuspicious(items, percent, query) ==
    [i \in DOMAIN items |->
        LET median == findPriceMedian(items, query, peers(query, items[i]))
        IN [items[i] EXCEPT !.suspicious = @ \/ pricedLow(items[i], median, percent)]]

filterTrusted(items) == Select(items, LAMBDA o : ~o.suspicious)

(* Prices are compared as digits, the longer one being dearer.  A text that *)
(* is no price stands for one that is longer than the prices, and so comes  *)
(* after them; a short one does not occur, as the clients build prices.     *)
compareDecimal(left, right) ==
    /\ Readable(left)
    /\ Readable(right) => left.price < right.price

(* SliceStable: equal prices stay in their order.                          *)
SortedByPrice(items) ==
    LET before(i, j) == \/ compareDecimal(items[i], items[j])
                        \/ ~compareDecimal(items[j], items[i]) /\ i < j
    IN Sorted(items, before)

FirstOnes(items, limit) == SubSeq(items, 1, Min({Len(items), limit}))

(* A mutant: the list is cut before the suspicious offers leave it.        *)
SelectThenTrust(items, limit) == filterTrusted(FirstOnes(SortedByPrice(items), limit))

SelectStockOffers(items, limit) == FirstOnes(filterTrusted(SortedByPrice(items)), limit)

-----------------------------------------------------------------------------
(* Properties of one list                                                  *)

(* However low the prices of a group lie, at least half of those that can  *)
(* be read keep their trust (MarkSuspicious with a percent below 100): one *)
(* dear offer cannot hide all the others.                                  *)
HalfKeepTrust(items, percent, query) ==
    LET marked == MarkSuspicious(items, percent, query)
        group(i) == {j \in DOMAIN items :
                        Readable(items[j]) /\ peers(query, items[j]) = peers(query, items[i])}
    IN \A i \in DOMAIN items :
          2 * Cardinality({j \in group(i) : marked[j].suspicious})
              <= Cardinality(group(i))

(* The offers whose stock is asked for are the cheapest that are trusted:   *)
(* no trusted offer is left out for a dearer one, none comes twice, and as  *)
(* many are kept as the limit allows (SelectStockOffers).                   *)
CheapestTrusted(items, percent, query, limit) ==
    LET marked == MarkSuspicious(items, percent, query)
        chosen == SelectStockOffers(marked, limit)
        trusted == {i \in DOMAIN marked : ~marked[i].suspicious}
    IN /\ Len(chosen) = Min({limit, Cardinality(trusted)})
       /\ \E picked \in kSubset(Len(chosen), trusted) :
             /\ \A i \in picked, j \in trusted \ picked : ~compareDecimal(marked[j], marked[i])
             /\ \A o \in ToSet(chosen) : \E i \in picked : marked[i] = o

=============================================================================
