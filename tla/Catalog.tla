------------------------------ MODULE Catalog ------------------------------
(***************************************************************************)
(* Who answers for a game, read from stores.yaml in two places: the        *)
(* selector counts what the stores and providers of a game sell            *)
(* (internal/stores/directory/support.go) and the search asks the sources  *)
(* that internal/catalog builds and offer_service.go keeps.                *)
(*                                                                         *)
(* A config is a record of games, search_providers and stores.  Providers  *)
(* are named by their type.  A flag of a store or provider is "yes", "no"  *)
(* or "absent".  A source is named by its store, and by the label of its   *)
(* list when it is one of Moxfield.                                        *)
(***************************************************************************)
EXTENDS Naturals, FiniteSets

ProviderTypes == {"scrycl", "tcgmatch", "tcgdex"}
Platforms == {"jumpseller", "shopify", "woocommerce", "prestashop", "html"}

(* The platforms whose client searches a catalog: openClient knows no html. *)
Searchable == Platforms \ {"html"}

(* Absent means yes.                                                       *)
Says(flag) == flag # "no"
ServesSingles(provider) == Says(provider.singles)
ServesSealed(provider) == Says(provider.sealed)
SellsSingles(store) == Says(store.singles)
SellsSealed(store) == Says(store.sealed)
IsSearched(store) == Says(store.searched)

-----------------------------------------------------------------------------
(* What the start of the program refuses                                   *)

validateGames(games) ==
    /\ DOMAIN games # {}
    /\ \A g \in DOMAIN games : games[g].origins # {} /\ "" \notin games[g].origins

validateSearchProviders(providers, games) ==
    /\ DOMAIN providers # {}
    /\ \A p \in DOMAIN providers : /\ p \in ProviderTypes
                                   /\ providers[p].games # {}
                                   /\ providers[p].games \subseteq DOMAIN games

(* A store without a platform only lists inventory.                        *)
validateChecker(store) == store.platform \in Platforms \union {""}

ValidateConfig(config) ==
    /\ validateGames(config.games)
    /\ validateSearchProviders(config.providers, config.games)
    /\ \A d \in DOMAIN config.stores :
          /\ config.stores[d].games # {}
          /\ config.stores[d].games \subseteq DOMAIN config.games
          /\ validateChecker(config.stores[d])

-----------------------------------------------------------------------------
(* The selector                                                            *)

(* A mutant: a game of Moxfield counts its stores without a list too.      *)
AnswersWithoutList(store, game, key) ==
    /\ store.enabled /\ IsSearched(store) /\ key \in store.games
    /\ "moxfield" \in game.origins \/ store.platform \in game.origins

storeAnswers(store, game, key) ==
    /\ store.enabled /\ IsSearched(store) /\ key \in store.games
    /\ \/ store.lists # {} /\ "moxfield" \in game.origins
       \/ store.platform \in game.origins

EnabledGames(config) == {g \in DOMAIN config.games : config.games[g].enabled}
providersOf(config, key) ==
    {p \in DOMAIN config.providers :
        config.providers[p].enabled /\ key \in config.providers[p].games}
storesOf(config, key) ==
    {d \in DOMAIN config.stores : storeAnswers(config.stores[d], config.games[key], key)}

(* An enabled game with what some provider or store of it sells; a game    *)
(* that sells nothing is not shown.                                        *)
SupportedGames(config) ==
    LET found(g) ==
            [key |-> g,
             singles |-> \/ \E p \in providersOf(config, g) : ServesSingles(config.providers[p])
                         \/ \E d \in storesOf(config, g) : SellsSingles(config.stores[d]),
             sealed |-> \/ \E p \in providersOf(config, g) : ServesSealed(config.providers[p])
                        \/ \E d \in storesOf(config, g) : SellsSealed(config.stores[d])]
    IN {game \in {found(g) : g \in EnabledGames(config)} : game.singles \/ game.sealed}

(* GameSupport.Asked                                                       *)
Offered(config, key, sealed) ==
    \E game \in SupportedGames(config) :
        game.key = key /\ IF sealed THEN game.sealed ELSE game.singles

-----------------------------------------------------------------------------
(* The search                                                              *)

Finder(config, domain) ==
    config.stores[domain].enabled /\ config.stores[domain].platform \in Searchable

configuredSources(config, domain, allowed) ==
    LET store == config.stores[domain]
    IN {[host |-> domain, label |-> list] :
            list \in IF "moxfield" \in allowed THEN store.lists ELSE {}}
       \union (IF store.platform \in allowed /\ Finder(config, domain)
               THEN {[host |-> domain, label |-> ""]} ELSE {})

SourcesByGame(config) ==
    LET sold(g) == {d \in DOMAIN config.stores :
                       /\ config.stores[d].enabled /\ IsSearched(config.stores[d])
                       /\ g \in config.stores[d].games}
    IN [g \in EnabledGames(config) |->
           UNION {configuredSources(config, d, config.games[g].origins) : d \in sold(g)}]

(* The provider of a game.  Of several the last one of the map's order     *)
(* stays, whichever that is; nothing searches tcgdex.                      *)
Providers(config, key) == providersOf(config, key) \ {"tcgdex"}

(* The marks: names of sources that are not asked for one kind.  A list of *)
(* Moxfield has another name than its store.                               *)
marked(names) == {[host |-> n, label |-> ""] : n \in names}
SealedOnly(config) ==
    marked({d \in DOMAIN config.stores : ~SellsSingles(config.stores[d])})
SinglesOnly(config) ==
    marked({p \in DOMAIN config.providers : ~ServesSealed(config.providers[p])}
           \union {d \in DOMAIN config.stores : ~SellsSealed(config.stores[d])})

(* Who is asked a question of a kind, provider being the one that stayed.  *)
AskedFor(config, key, sealed, provider) ==
    (SourcesByGame(config)[key] \union marked({provider} \ {""}))
        \ IF sealed THEN SinglesOnly(config) ELSE SealedOnly(config)

-----------------------------------------------------------------------------
(* Property                                                                *)

Stayed(config, key) == IF Providers(config, key) = {} THEN {""} ELSE Providers(config, key)

(* Every answerer of the game has a client, and it has one provider.       *)
AllBuilt(config, key) ==
    /\ Cardinality(providersOf(config, key)) <= 1 /\ "tcgdex" \notin providersOf(config, key)
    /\ \A d \in storesOf(config, key) : config.stores[d].platform # "html"

(* What the selector offers somebody is asked for, as far as every one it  *)
(* counted can be built; and no store is asked through its own catalog for *)
(* a kind that the selector does not offer (storeAnswers "repeats the rule *)
(* that builds the sources" against SourcesByGame and the marks).          *)
SelectorAndSearchAgree(config) ==
    \A key \in EnabledGames(config), sealed \in BOOLEAN :
        \A provider \in Stayed(config, key) :
            LET asked == AskedFor(config, key, sealed, provider)
            IN /\ Offered(config, key, sealed) /\ AllBuilt(config, key) => asked # {}
               /\ \A s \in asked : s.host \in DOMAIN config.stores /\ s.label = ""
                                      => Offered(config, key, sealed)

=============================================================================
