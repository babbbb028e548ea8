--------------------------- MODULE MCOfferShaping ---------------------------
(***************************************************************************)
(* Small instance of OfferShaping and Catalog for TLC: every title of a    *)
(* few marks is typed mark after mark, every list of a few offers is put   *)
(* together offer after offer, with a name and a query to read them by,    *)
(* and every small stores.yaml is written entry after entry.               *)
(***************************************************************************)
EXTENDS OfferShaping, Catalog

CONSTANTS
    MaxMarks,  \* bound: the marks of a title
    MaxOffers, \* bound: the offers of a list
    MaxEntries, \* bound: the stores and providers of a config
    Percent,   \* SuspiciousPercent
    Limit      \* how many offers the caller asks for

VARIABLES title, name, items, query, config
vars == <<title, name, items, query, config>>

(* A percent of the median above 100 could mark the dear half too, and     *)
(* readIntOr takes any from 1 on; the one that is configured is 30         *)
(* (MUCHI_SUSPICIOUS_PRICE_PERCENT), and without an environment too.       *)
ASSUME ShapingAssumption == Percent \in 0..100 /\ Limit \in Nat

Names == { <<"k">>, <<"K", Space, "l">>, <<"k", "l">>, <<"k", Dash, "l">> }
Queries == [name : {<<"k">>}, match : {"exact", "includes"}, kind : {"single"}]

(* The card an offer is of, its currency and its price.                    *)
Offers ==
    {[title |-> x[1], edition |-> <<>>, game |-> "magic", function |-> "", product |-> "",
      key |-> <<>>, kind |-> "single", price |-> x[3], currency |-> x[2], suspicious |-> FALSE] :
        x \in {<<"k">>} \X {"clp", "usd"} \X {1, 2, 5}
                 \union {<<"k", "l">>} \X {"clp"} \X {1, 5, NoPrice}}

(* The entries of stores.yaml; the second game may be disabled.            *)
Games == [magic : [enabled : {TRUE}, origins : {{"moxfield"}, {"shopify"}, {"shopify", "moxfield", "html"}}],
          pokemon : [enabled : BOOLEAN, origins : {{"shopify"}}]]
GameSets == {{"magic"}, {"magic", "pokemon"}}
StoreEntries ==
    [enabled : BOOLEAN, searched : {"absent", "no"}, platform : {"", "shopify", "html"},
     lists : {{}, {"l"}}, games : GameSets, singles : {"absent", "no"}, sealed : {"yes", "no"}]
ProviderEntries ==
    [enabled : BOOLEAN, games : GameSets, singles : {"absent", "no"}, sealed : {"yes", "no"}]

PausedProvider ==
    [enabled |-> FALSE, games |-> {"magic"}, singles |-> "absent", sealed |-> "yes"]
(* A config with one entry more, or with another one in its place.         *)
Also(entries, key, entry) ==
    [k \in DOMAIN entries \union {key} |-> IF k = key THEN entry ELSE entries[k]]

NoEntries == [games |-> <<>>, providers |-> <<>>, stores |-> <<>>]

Init ==
    /\ title = <<>>
    /\ items = <<>>
    /\ name \in Names
    /\ query \in Queries
    /\ config = NoEntries

TypeMark ==
    /\ items = <<>> /\ config = NoEntries
    /\ query.match = "exact"
    /\ Len(title) < MaxMarks
    /\ \E mark \in Marks : title' = Append(title, mark)
    /\ UNCHANGED <<name, items, query, config>>

AddOffer ==
    /\ title = <<>> /\ config = NoEntries
    /\ name = <<"k">>
    /\ Len(items) < MaxOffers
    /\ \E o \in Offers : items' = Append(items, o)
    /\ UNCHANGED <<title, name, query, config>>

WriteGames ==
    /\ title = <<>> /\ items = <<>> /\ config = NoEntries
    /\ name = <<"k">> /\ query.match = "exact"
    /\ \E games \in Games :
          config' = [config EXCEPT !.games = games, !.providers = Also(@, "scrycl", PausedProvider)]
    /\ UNCHANGED <<title, name, items, query>>

(* A config has one provider or more: the first one is paused.             *)
Entries == Cardinality(DOMAIN config.stores)
             + Cardinality({p \in DOMAIN config.providers : config.providers[p] # PausedProvider})

WriteStore ==
    /\ config.games # <<>> /\ Entries < MaxEntries
    /\ \E d \in {"d1", "d2"} \ DOMAIN config.stores, entry \in StoreEntries :
          /\ d = "d2" => "d1" \in DOMAIN config.stores
          /\ config' = [config EXCEPT !.stores = Also(@, d, entry)]
    /\ UNCHANGED <<title, name, items, query>>

WriteProvider ==
    /\ config.games # <<>> /\ Entries < MaxEntries /\ DOMAIN config.stores \subseteq {"d1"}
    /\ \E p \in ProviderTypes, entry \in ProviderEntries :
          /\ p \in DOMAIN config.providers => config.providers[p] = PausedProvider
          /\ config' = [config EXCEPT !.providers = Also(@, p, entry)]
    /\ UNCHANGED <<title, name, items, query>>

Next == TypeMark \/ AddOffer \/ WriteGames \/ WriteStore \/ WriteProvider
Spec == Init /\ [][Next]_vars

-----------------------------------------------------------------------------
(* OfferTitles: wider questions keep what narrower ones keep.              *)
Wider == WellSpaced(title) => WiderKeepsNarrower(title, name)

(* OfferTitles: accepted printings of a card share one key.                *)
OneKey == WellSpaced(title) => OneKeyPerCard(title, name)

(* OfferShaping: half of every price group stays trusted.                  *)
HalfTrusted == HalfKeepTrust(NameCards(items), Percent, query)

(* OfferShaping: stock is asked for the cheapest trusted offers.           *)
Cheapest == CheapestTrusted(NameCards(items), Percent, query, Limit)

(* Catalog: the selector and the search read a valid config alike.         *)
NoDrift == ValidateConfig(config) => SelectorAndSearchAgree(config)

=============================================================================
