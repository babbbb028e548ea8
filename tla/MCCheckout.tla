----------------------------- MODULE MCCheckout -----------------------------
(***************************************************************************)
(* Stores of every platform, one whose pages count and that no client of   *)
(* its own answers for, a Moxfield list and a host nobody configured.      *)
(* The calls cover a product asked in two lines, lines of two and three    *)
(* stores, an aggregator's offer that names no product, a product without  *)
(* variants, and an offer the search found in its last item only.          *)
(***************************************************************************)
EXTENDS Checkout, TLC

CONSTANTS a, b, w, g, x, y, z, q, p

From(host, store, source, page, link, variant) ==
    [host |-> host, store |-> store, source |-> source, page |-> page, link |-> link, variant |-> variant]

(* s1, s2: two variants of a Shopify store; w1: WooCommerce; j1: Jumpseller; *)
(* j2: Jumpseller without variants; j3: what an aggregator says of j1; p1: a *)
(* store whose pages count; m1, m2: entries of a list and of one that is no *)
(* longer configured; u1: a store nobody configured; t1: what an aggregator *)
(* says of the WooCommerce product.                                        *)
MCOfferOf ==
    [s1 |-> From("shop", "Shop", "shop", a, a, a),
     s2 |-> From("shop", "Shop", "agg", b, None, None),
     w1 |-> From("woo", "Woo", "woo", w, None, w),
     w2 |-> From("woo", "Woo", "woo", g, None, g),
     t1 |-> From("woo", "Woo", "agg", w, None, None),
     m1 |-> From("moxfield.com", "Lister", "moxfield", x, None, None),
     m2 |-> From("moxfield.com", "Other", "moxfield", z, None, None),
     j1 |-> From("jump", "Jump", "jump", y, y, y),
     j2 |-> From("jump", "Jump", "jump", q, None, None),
     j3 |-> From("jump", "Jump", "agg", y, None, None),
     p1 |-> From("page", "Page", "page", p, None, p),
     u1 |-> From("gone", "Gone", "agg", y, None, None)]

MCHomeOf == (a :> "shop") @@ (b :> "shop") @@ (w :> "woo") @@ (g :> "woo") @@ (x :> "list") @@ (z :> "dropped")
    @@ (y :> "jump") @@ (q :> "jump") @@ (p :> "page")
MCPlatform == [shop |-> "shopify", woo |-> "woocommerce", jump |-> "jumpseller", page |-> "prestashop"]
MCShows == [shop |-> "count", woo |-> "sells", page |-> "count"]

On(n, sale, count) == [units |-> n, sale |-> sale, count |-> count]
MCStocks == {[v \in Variants |-> On(n, "open", "kept")] : n \in 1..MaxUnits}

(* A list only has units; a Shopify store always says whether it sells; the *)
(* pages and forms of the other stores say all there is.                   *)
Plain == {On(n, "open", "kept") : n \in 0..MaxUnits}
Sold == Plain \union {On(MaxUnits, "closed", "kept"), On(0, "open", "unlimited"), On(MaxUnits, "open", "missing")}
Spoken == [units : {0, MaxUnits}, sale : {"open", "closed", "unclear"}, count : {"kept", "unlimited", "missing"}]
MCShelves ==
    [v \in Variants |->
        CASE v \in {x, z} -> Plain
          [] v \in {y, q, p} -> Plain \union Spoken
          [] v \in {w, g} -> Sold \union {On(MaxUnits, "unclear", "kept")}
          [] OTHER -> Sold]

MCItems == <<{"s1", "w1"}, {"w2", "t1", "u1"}, {"s2", "m1", "m2", "j1", "j2", "j3", "p1"}>>

Wants(id, n) == [id |-> id, units |-> n]
Asks(kind, lines) == [kind |-> kind, lines |-> lines]

MCCalls == {
    Asks("stock", <<Wants("s1", 1), Wants("m1", 1), Wants("w1", 1)>>),
    Asks("stock", <<Wants("j1", 1), Wants("u1", 1), Wants("s2", 1)>>),
    Asks("stock", <<Wants("j2", 1), Wants("p1", 1), Wants("j3", 1)>>),
    Asks("verify", <<Wants("m1", 1), Wants("s1", 1), Wants("m2", 1)>>),
    Asks("links", <<Wants("s1", 1), Wants("w1", 2), Wants("s1", 2)>>),
    Asks("links", <<Wants("s2", 1), Wants("m1", 1), Wants("m2", 1)>>),
    Asks("links", <<>>),
    Asks("quote", <<Wants("w1", 1), Wants("s1", 2), Wants("w1", 1)>>),
    Asks("quote", <<Wants("w1", 1), Wants("w2", 1), Wants("u1", 1)>>),
    Asks("quote", <<Wants("s1", 1), Wants("t1", 1), Wants("s1", 1)>>),
    Asks("order", <<Wants("w1", 1), Wants("w2", 1), Wants("w1", 1)>>),
    Asks("order", <<Wants("w1", 1), Wants("s1", 1)>>),
    Asks("order", <<Wants("w1", 3)>>)}

=============================================================================
