--------------------------- MODULE MCOfferSearch ---------------------------
(***************************************************************************)
(* Small instances of OfferSearch for TLC: three stores and a provider, in *)
(* setups that put each client beside others.                              *)
(***************************************************************************)
EXTENDS OfferSearch

Card == <<"k">>
Printing == <<"k", Bracket, "9">>
Other == <<"k", "l">>

Item(store, host, n, title, price, units) ==
    [id |-> store \o n, store |-> store, host |-> host, title |-> title, edition |-> <<>>,
     kind |-> "single", price |-> price, units |-> units, mechanics |-> ""]

(* What may arrive while a shelf is read.                                  *)
New(s) == IF s = Agg THEN Item("ga", "a.cl", "new", Card, 4, 1) ELSE Item(s, s \o ".cl", "new", Card, 4, 1)

(* Three products of a store: the card, another one and a printing.        *)
Three(store) ==
    << Item(store, store \o ".cl", "1", Card, 4, 1),
       Item(store, store \o ".cl", "2", Other, 3, 1),
       Item(store, store \o ".cl", "3", Printing, 9, 1) >>

(* Two full pages.                                                         *)
Four(store) == Three(store) \o << Item(store, store \o ".cl", "4", Card, 1, 0) >>

Unpriced(store) == << Item(store, store \o ".cl", "5", Card, 0, 1) >> \o SubSeq(Three(store), 1, 1)

(* Every offer of a list points at the list.                               *)
List(store) == [i \in 1..3 |-> [Three(store)[i] EXCEPT !.host = ListHost]]

(* What an aggregator knows of stores a and b, and of a seller of its own. *)
Gathered ==
    << Item("ga", "a.cl", "1", Card, 5, 1), Item("gb", "b.cl", "2", Card, 6, 1),
       Item("gz", "agg.cl", "3", Card, 7, 1) >>

Boxes(store) ==
    << [Item(store, store \o ".cl", "1", <<"k", Space, "l">>, 50, 1) EXCEPT !.kind = "sealed"],
       [Item(store, store \o ".cl", "2", <<"k", Space, "9">>, 60, 1) EXCEPT !.kind = "sealed"] >>

Single(match) == [name |-> Card, match |-> match, kind |-> ""]
SealedQuery == [name |-> Card, match |-> "", kind |-> "sealed"]

Plain ==
    [query |-> Single(""), game |-> "magic", sources |-> <<"a", "b">>,
     client |-> [s \in {Agg, "a", "b", "c"} |-> None],
     host |-> [s \in {Agg, "a", "b", "c"} |-> s \o ".cl"],
     shelf |-> [s \in {Agg, "a", "b", "c"} |-> <<>>],
     fresh |-> [s \in {Agg, "a", "b", "c"} |-> New(s)],
     cached |-> [s \in {Agg, "a", "b", "c"} |-> None],
     singlesOnly |-> {}, sealedOnly |-> {}, loops |-> {}, community |-> TRUE,
     library |-> [state |-> "none", sets |-> {}]]

(* Stores a and b with their clients and shelves, and a provider.          *)
With(provider, a, b, shelfA, shelfB) ==
    [Plain EXCEPT !.client[Agg] = provider, !.client["a"] = a, !.client["b"] = b,
                  !.shelf["a"] = shelfA, !.shelf["b"] = shelfB,
                  !.shelf[Agg] = IF provider = None THEN <<>> ELSE Gathered]

(* A third store waits for a turn of the other two.                        *)
Third(s, client, products) ==
    [s EXCEPT !.sources = <<"a", "b", "c">>, !.client["c"] = client, !.shelf["c"] = products]

PageSetups ==
    { With(None, "woocommerce", "shopify", Four("a"), Three("b")),
      With(None, "prestashop", "jumpseller", Three("a"), Three("b")),
      With(None, "jumpseller", "jumpseller", Three("a"), SubSeq(Three("b"), 1, 1)) }

WideSetups ==
    { [With(None, "woocommerce", "prestashop", Three("a"), Three("b")) EXCEPT !.query = Single("includes")],
      [With(None, "shopify", "jumpseller", SubSeq(Three("a"), 1, 2), SubSeq(Three("b"), 1, 2))
          EXCEPT !.query = Single("includes")] }

ProviderSetups ==
    { With("tcgmatch", "woocommerce", "prestashop", Three("a"), Three("b")),
      [With("scrycl", "shopify", "moxfield", SubSeq(Three("a"), 1, 1), List("b"))
          EXCEPT !.community = FALSE, !.host["b"] = "", !.fresh["b"].host = ListHost],
      [With("scrycl", "jumpseller", "moxfield", SubSeq(Three("a"), 1, 1), <<>>)
          EXCEPT !.cached["b"] = List("b"), !.host["b"] = "", !.fresh["b"].host = ListHost] }

(* Products without a price, and stores that answer the same page again.   *)
TroubledSetups ==
    { Third(With(None, "woocommerce", "jumpseller", Unpriced("a"), Unpriced("b")),
            "prestashop", Unpriced("c")),
      Third([With(None, "shopify", "jumpseller", Three("a"), SubSeq(Three("b"), 1, 1))
                EXCEPT !.loops = {"a", "b"}],
            "woocommerce", SubSeq(Three("c"), 1, 1)),
      [With(None, "woocommerce", "prestashop", SubSeq(Three("a"), 1, 2), Three("b"))
          EXCEPT !.loops = {"a", "b"}] }

(* Two printings of one name, one of them known to the second catalog.     *)
Printings(first, second) ==
    << [Item("ga", "agg.cl", "1", Card, 5, 1) EXCEPT !.mechanics = first],
       [Item("gb", "agg.cl", "2", Printing, 9, 1) EXCEPT !.mechanics = second] >>

PokemonSetups ==
    { [With("tcgmatch", "woocommerce", "prestashop", SubSeq(Three("a"), 1, 1), <<>>)
          EXCEPT !.game = "pokemon", !.shelf[Agg] = Printings(pair[1], pair[2]),
                 !.fresh[Agg].mechanics = "m1"] :
        pair \in {<<"m1", "m2">>, <<"m1", "m1">>, <<"m1", "">>} }

SealedSetups ==
    { [With("tcgmatch", "woocommerce", "shopify", Boxes("a"), Boxes("b"))
          EXCEPT !.query = SealedQuery, !.singlesOnly = {"b"},
                 !.library = [state |-> lib, sets |-> {<<"l">>}],
                 !.shelf[Agg] = Boxes("ga")] : lib \in {"loaded", "failed"} }

AllSetups == PageSetups \union WideSetups \union ProviderSetups \union TroubledSetups
                 \union PokemonSetups \union SealedSetups

=============================================================================
