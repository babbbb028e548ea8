------------------------- MODULE OfferShapingProofs -------------------------
(***************************************************************************)
(* What the shaping of a list keeps for every list of offers, title and    *)
(* query, and what a catalog keeps for every stores.yaml.                  *)
(***************************************************************************)
EXTENDS MCOfferShaping, FiniteSetTheorems, FunctionTheorems, TLAPS

-----------------------------------------------------------------------------
(* Catalogs                                                                *)

(* A store is named by its domain, and no domain is the name of a provider. *)
DomainsOnly(conf) == DOMAIN conf.stores \intersect (ProviderTypes \union {""}) = {}

LEMMA OneProviderStays ==
    ASSUME NEW conf, ValidateConfig(conf), NEW key, AllBuilt(conf, key),
           NEW p \in providersOf(conf, key), NEW provider \in Stayed(conf, key)
    PROVE  provider = p /\ p \in ProviderTypes
<1> DEFINE built == providersOf(conf, key)
<1>1. built \subseteq ProviderTypes
    BY DEF ValidateConfig, validateSearchProviders, providersOf
<1>2. IsFiniteSet(built)
    <2>1. ProviderTypes = ({"scrycl"} \union {"tcgmatch"}) \union {"tcgdex"}
        BY DEF ProviderTypes
    <2>2. IsFiniteSet({"scrycl"}) /\ IsFiniteSet({"tcgmatch"}) /\ IsFiniteSet({"tcgdex"})
        BY FS_Singleton
    <2>3. IsFiniteSet(ProviderTypes)
        BY <2>1, <2>2, FS_Union
    <2> QED BY <1>1, <2>3, FS_Subset
<1>3. Cardinality(built) <= 1 /\ "tcgdex" \notin built
    BY DEF AllBuilt
<1>4. provider \in built
    BY <1>3 DEF Stayed, Providers
<1> HIDE DEF built
<1>5. ASSUME provider # p PROVE FALSE
    <2>1. {provider, p} \subseteq built
        BY <1>4 DEF built
    <2>2. Cardinality({provider, p}) = 2
        <3>1. IsFiniteSet({p}) /\ Cardinality({p}) = 1
            BY FS_Singleton
        <3>2. Cardinality({p} \union {provider}) = 2
            BY <1>5, <3>1, FS_AddElement
        <3> QED BY <3>2, {p} \union {provider} = {provider, p}
    <2>3. Cardinality({provider, p}) <= Cardinality(built) /\ Cardinality(built) \in Nat
        BY <1>2, <2>1, FS_Subset, FS_CardinalityType
    <2> QED BY <1>3, <2>2, <2>3
<1> QED BY <1>1, <1>5 DEF built

(* Who the selector counts for a kind.                                     *)
Counted(conf, key, sealed) ==
    \/ \E p \in providersOf(conf, key) :
          IF sealed THEN ServesSealed(conf.providers[p]) ELSE ServesSingles(conf.providers[p])
    \/ \E d \in storesOf(conf, key) :
          IF sealed THEN SellsSealed(conf.stores[d]) ELSE SellsSingles(conf.stores[d])

LEMMA OfferedWhenCounted ==
    ASSUME NEW conf, NEW key \in EnabledGames(conf), NEW sealed \in BOOLEAN
    PROVE  Offered(conf, key, sealed) <=> Counted(conf, key, sealed)
<1> DEFINE found(g) ==
            [key |-> g,
             singles |-> \/ \E p \in providersOf(conf, g) : ServesSingles(conf.providers[p])
                         \/ \E d \in storesOf(conf, g) : SellsSingles(conf.stores[d]),
             sealed |-> \/ \E p \in providersOf(conf, g) : ServesSealed(conf.providers[p])
                        \/ \E d \in storesOf(conf, g) : SellsSealed(conf.stores[d])]
<1>1. SupportedGames(conf) = {game \in {found(g) : g \in EnabledGames(conf)} : game.singles \/ game.sealed}
    BY DEF SupportedGames
<1>2. \A g : /\ found(g).key = g
             /\ found(g).singles <=> Counted(conf, g, FALSE)
             /\ found(g).sealed <=> Counted(conf, g, TRUE)
    BY DEF Counted
<1> HIDE DEF found
<1>3. Offered(conf, key, sealed) <=>
         \E g \in EnabledGames(conf) :
             /\ found(g).singles \/ found(g).sealed
             /\ found(g).key = key
             /\ IF sealed THEN found(g).sealed ELSE found(g).singles
    BY <1>1 DEF Offered
<1> QED BY <1>2, <1>3

(* A source of a store answers the selector for it, and the other way     *)
(* round when its platform has a client.                                   *)
LEMMA SourcesAnswer ==
    ASSUME NEW conf, ValidateConfig(conf), NEW key \in EnabledGames(conf)
    PROVE  /\ \A s \in SourcesByGame(conf)[key] :
                  s.host \in storesOf(conf, key) /\ s = [host |-> s.host, label |-> s.label]
           /\ \A d \in storesOf(conf, key) : conf.stores[d].platform # "html" =>
                  \E s \in SourcesByGame(conf)[key] : s.host = d /\ s = [host |-> d, label |-> s.label]
<1> DEFINE sold == {d \in DOMAIN conf.stores :
                       /\ conf.stores[d].enabled /\ IsSearched(conf.stores[d])
                       /\ key \in conf.stores[d].games}
           origins == conf.games[key].origins
<1>1. SourcesByGame(conf)[key] = UNION {configuredSources(conf, d, origins) : d \in sold}
    BY DEF SourcesByGame
<1>2. \A d \in sold : \A s \in configuredSources(conf, d, origins) :
         s.host = d /\ d \in storesOf(conf, key) /\ s = [host |-> d, label |-> s.label]
    <2> SUFFICES ASSUME NEW d \in sold, NEW s \in configuredSources(conf, d, origins)
                 PROVE  s.host = d /\ d \in storesOf(conf, key) /\ s = [host |-> d, label |-> s.label]
        OBVIOUS
    <2>1. CASE "moxfield" \in origins /\ \E list \in conf.stores[d].lists : s = [host |-> d, label |-> list]
        BY <2>1 DEF storesOf, storeAnswers
    <2>2. CASE conf.stores[d].platform \in origins /\ s = [host |-> d, label |-> ""]
        BY <2>2 DEF storesOf, storeAnswers
    <2> QED BY <2>1, <2>2 DEF configuredSources
<1>3. ASSUME NEW d \in storesOf(conf, key), conf.stores[d].platform # "html"
      PROVE  d \in sold /\ \E s \in configuredSources(conf, d, origins) : s = [host |-> d, label |-> s.label]
    <2>1. d \in sold /\ storeAnswers(conf.stores[d], conf.games[key], key)
        BY <1>3 DEF storesOf, storeAnswers
    <2>2. CASE conf.stores[d].lists # {} /\ "moxfield" \in origins
        <3>1. PICK list \in conf.stores[d].lists : TRUE
            BY <2>2
        <3>2. [host |-> d, label |-> list] \in configuredSources(conf, d, origins)
            BY <2>2, <3>1 DEF configuredSources
        <3> QED BY <2>1, <3>2
    <2>3. CASE conf.stores[d].platform \in origins
        <3>1. conf.stores[d].platform \in Platforms \union {""} /\ "" \notin origins
            BY <2>1 DEF ValidateConfig, validateChecker, validateGames, EnabledGames
        <3>2. Finder(conf, d)
            BY <1>3, <2>1, <2>3, <3>1 DEF Finder, Searchable
        <3>3. [host |-> d, label |-> ""] \in configuredSources(conf, d, origins)
            BY <2>3, <3>2 DEF configuredSources
        <3> QED BY <2>1, <3>3
    <2> QED BY <2>1, <2>2, <2>3 DEF storeAnswers
<1> HIDE DEF sold, origins
<1>4. ASSUME NEW s \in SourcesByGame(conf)[key]
      PROVE  s.host \in storesOf(conf, key) /\ s = [host |-> s.host, label |-> s.label]
    BY <1>1, <1>2
<1>5. ASSUME NEW d \in storesOf(conf, key), conf.stores[d].platform # "html"
      PROVE  \E s \in SourcesByGame(conf)[key] : s.host = d /\ s = [host |-> d, label |-> s.label]
    <2>1. PICK s \in configuredSources(conf, d, origins) : s = [host |-> d, label |-> s.label] /\ d \in sold
        BY <1>3, <1>5
    <2>2. s \in SourcesByGame(conf)[key]
        BY <1>1, <2>1
    <2> QED BY <1>2, <2>1, <2>2
<1> QED BY <1>4, <1>5

LEMMA MarkedIs ==
    ASSUME NEW names, NEW s \in marked(names)
    PROVE  s.host \in names /\ s.label = ""
<1>1. PICK n \in names : s = [host |-> n, label |-> ""]
    BY DEF marked
<1> QED BY <1>1

(* The mark of a store or of a provider that does not sell a kind.         *)
LEMMA MarkedNames ==
    ASSUME NEW conf, NEW sealed \in BOOLEAN, NEW s,
           s \in IF sealed THEN SinglesOnly(conf) ELSE SealedOnly(conf)
    PROVE  /\ s.label = ""
           /\ \/ /\ s.host \in DOMAIN conf.stores
                 /\ ~IF sealed THEN SellsSealed(conf.stores[s.host]) ELSE SellsSingles(conf.stores[s.host])
              \/ sealed /\ s.host \in DOMAIN conf.providers /\ ~ServesSealed(conf.providers[s.host])
<1>1. CASE sealed
    <2> DEFINE quiet == {p \in DOMAIN conf.providers : ~ServesSealed(conf.providers[p])}
                           \union {d \in DOMAIN conf.stores : ~SellsSealed(conf.stores[d])}
    <2>1. s \in marked(quiet)
        BY <1>1 DEF SinglesOnly
    <2>2. s.host \in quiet /\ s.label = ""
        <3> HIDE DEF quiet
        <3> QED BY <2>1, MarkedIs
    <2> QED BY <1>1, <2>2
<1>2. CASE ~sealed
    <2> DEFINE quiet == {d \in DOMAIN conf.stores : ~SellsSingles(conf.stores[d])}
    <2>1. s \in marked(quiet)
        BY <1>2 DEF SealedOnly
    <2>2. s.host \in quiet /\ s.label = ""
        <3> HIDE DEF quiet
        <3> QED BY <2>1, MarkedIs
    <2> QED BY <1>2, <2>2
<1> QED BY <1>1, <1>2

(* The selector (storeAnswers, SupportedGames) and the search (the sources *)
(* and marks of internal/catalog) read every valid config alike.           *)
THEOREM NoConfigDrifts ==
    ASSUME NEW conf, ValidateConfig(conf), DomainsOnly(conf)
    PROVE  SelectorAndSearchAgree(conf)
<1> SUFFICES ASSUME NEW key \in EnabledGames(conf), NEW sealed \in BOOLEAN,
                    NEW provider \in Stayed(conf, key)
             PROVE  /\ Offered(conf, key, sealed) /\ AllBuilt(conf, key)
                           => AskedFor(conf, key, sealed, provider) # {}
                    /\ \A s \in AskedFor(conf, key, sealed, provider) :
                           s.host \in DOMAIN conf.stores /\ s.label = "" => Offered(conf, key, sealed)
    BY DEF SelectorAndSearchAgree
<1> DEFINE silent == IF sealed THEN SinglesOnly(conf) ELSE SealedOnly(conf)
           asked == AskedFor(conf, key, sealed, provider)
<1>1. asked = (SourcesByGame(conf)[key] \union marked({provider} \ {""})) \ silent
    BY DEF AskedFor
<1>2. \A s \in silent :
         /\ s.label = ""
         /\ \/ /\ s.host \in DOMAIN conf.stores
               /\ ~IF sealed THEN SellsSealed(conf.stores[s.host]) ELSE SellsSingles(conf.stores[s.host])
            \/ sealed /\ s.host \in DOMAIN conf.providers /\ ~ServesSealed(conf.providers[s.host])
    BY MarkedNames
<1>3. DOMAIN conf.providers \subseteq ProviderTypes /\ \A d \in DOMAIN conf.stores : d \notin ProviderTypes
    BY DEF ValidateConfig, validateSearchProviders, DomainsOnly
<1> HIDE DEF asked, silent
<1>4. ASSUME Offered(conf, key, sealed), AllBuilt(conf, key) PROVE asked # {}
    <2>1. CASE \E p \in providersOf(conf, key) :
                  IF sealed THEN ServesSealed(conf.providers[p]) ELSE ServesSingles(conf.providers[p])
        <3>1. PICK p \in providersOf(conf, key) :
                  IF sealed THEN ServesSealed(conf.providers[p]) ELSE ServesSingles(conf.providers[p])
            BY <2>1
        <3>2. provider = p /\ p \in ProviderTypes
            BY <1>4, OneProviderStays
        <3> DEFINE s == [host |-> p, label |-> ""]
        <3>3. s \in marked({provider} \ {""})
            BY <3>2 DEF marked, ProviderTypes
        <3>4. s \notin silent
            BY <1>2, <1>3, <3>1, <3>2
        <3> QED BY <1>1, <3>3, <3>4
    <2>2. CASE \E d \in storesOf(conf, key) :
                  IF sealed THEN SellsSealed(conf.stores[d]) ELSE SellsSingles(conf.stores[d])
        <3>1. PICK d \in storesOf(conf, key) :
                  IF sealed THEN SellsSealed(conf.stores[d]) ELSE SellsSingles(conf.stores[d])
            BY <2>2
        <3>2. d \in DOMAIN conf.stores /\ conf.stores[d].platform # "html"
            BY <1>4 DEF AllBuilt, storesOf
        <3>3. PICK s \in SourcesByGame(conf)[key] : s.host = d
            BY <3>2, SourcesAnswer
        <3>4. s \notin silent
            BY <1>2, <1>3, <3>1, <3>2, <3>3
        <3> QED BY <1>1, <3>3, <3>4
    <2>3. Counted(conf, key, sealed)
        BY <1>4, OfferedWhenCounted
    <2> QED BY <2>1, <2>2, <2>3 DEF Counted
<1>5. ASSUME NEW s \in asked, s.host \in DOMAIN conf.stores, s.label = "" PROVE Offered(conf, key, sealed)
    <2>1. s \in SourcesByGame(conf)[key]
        <3>1. provider \in ProviderTypes \union {""}
            BY <1>3 DEF Stayed, Providers, providersOf
        <3>2. s \in marked({provider} \ {""}) => s.host = provider /\ provider # ""
            <4>1. ASSUME s \in marked({provider} \ {""}) PROVE s.host \in {provider} \ {""}
                BY <4>1, MarkedIs
            <4> QED BY <4>1
        <3>3. s \notin marked({provider} \ {""})
            BY <1>3, <1>5, <3>1, <3>2
        <3> QED BY <1>1, <3>3
    <2>2. s.host \in storesOf(conf, key) /\ s = [host |-> s.host, label |-> ""]
        BY <1>5, <2>1, SourcesAnswer
    <2>3. IF sealed THEN SellsSealed(conf.stores[s.host]) ELSE SellsSingles(conf.stores[s.host])
        <3>1. ASSUME ~IF sealed THEN SellsSealed(conf.stores[s.host]) ELSE SellsSingles(conf.stores[s.host])
              PROVE  s \in silent
            BY <1>5, <2>2, <3>1 DEF silent, SinglesOnly, SealedOnly, marked
        <3> QED BY <1>1, <1>5, <3>1
    <2> QED BY <2>2, <2>3, OfferedWhenCounted DEF Counted
<1> QED BY <1>4, <1>5 DEF asked

-----------------------------------------------------------------------------
(* Lists: what Keep gives                                                  *)

(* The lemmas that OfferSearchProofs has of lists too, which speaks of      *)
(* other variables.                                                        *)

(* A family of subsets of a finite set has a least member by inclusion:    *)
(* the induction that the lemmas on lists below are made of.               *)
LEMMA LeastSubset ==
    ASSUME NEW S, IsFiniteSet(S), NEW family, family # {}, \A T \in family : T \in SUBSET S
    PROVE  \E low \in family : \A T \in family : T \subseteq low => T = low
<1>1. family \subseteq FiniteSubsetsOf(S)
    BY FS_FiniteSubsetsOfFinite, Zenon
<1>2. IsWellFoundedOn(StrictSubsetOrdering(S), FiniteSubsetsOf(S))
    BY FS_StrictSubsetOrderingWellFounded, Zenon
<1>3. PICK least \in family : \A T \in family : <<T, least>> \notin StrictSubsetOrdering(S)
    BY <1>1, <1>2, WFMin, Zenon
<1> QED BY <1>3 DEF StrictSubsetOrdering

LEMMA SmallestOfFinite ==
    ASSUME NEW S \in SUBSET Nat, IsFiniteSet(S), S # {}
    PROVE  \E m \in S : \A k \in S : m <= k
<1> DEFINE family == {{k \in S : k <= m} : m \in S}
<1>1. \A T \in family : T \in SUBSET S
    OBVIOUS
<1>5. family # {}
    OBVIOUS
<1> HIDE DEF family
<1>2. PICK least \in family : \A T \in family : T \subseteq least => T = least
    <2>1. IsFiniteSet(S)
        OBVIOUS
    <2>2. \E low \in family : \A T \in family : T \subseteq low => T = low
        BY <2>1, <1>1, <1>5, LeastSubset
    <2> QED BY <2>2
<1>3. PICK m \in S : least = {k \in S : k <= m}
    BY DEF family
<1>4. ASSUME NEW k \in S, ~(m <= k) PROVE FALSE
    <2> DEFINE below == {j \in S : j <= k}
    <2>1. k <= m
        BY <1>4
    <2>2. below \subseteq least
        <3> SUFFICES ASSUME NEW j \in below PROVE j \in S /\ j <= m
            BY <1>3
        <3>1. j \in Nat /\ k \in Nat /\ m \in Nat
            OBVIOUS
        <3> QED BY <2>1, <3>1
    <2>3. below = least
        BY <1>2, <2>2 DEF family
    <2>4. m \in below
        BY <1>3, <2>3
    <2> QED BY <1>4, <2>4
<1> QED BY <1>4

(* Numbers have a smallest one among them.                                 *)
LEMMA SmallestOf ==
    ASSUME NEW S \in SUBSET Nat, S # {}
    PROVE  \E m \in S : \A k \in S : m <= k
<1>1. PICK top \in S : TRUE
    OBVIOUS
<1> DEFINE low == {k \in S : k <= top}
<1>2. low \in SUBSET Nat /\ top \in low /\ \A k \in low : k <= top
    <2>1. top \in Nat /\ low \subseteq S /\ S \subseteq Nat
        OBVIOUS
    <2>2. top \in low
        BY <2>1
    <2>3. \A k \in low : k <= top
        OBVIOUS
    <2> QED
        <3> HIDE DEF low
        <3> QED BY <2>1, <2>2, <2>3
<1>3. IsFiniteSet(low)
    BY <1>2, FS_BoundedSetOfNaturals
<1>4. \A k \in S : k \in low \/ (k \in Nat /\ top \in Nat /\ top < k)
    OBVIOUS
<1>5. low \subseteq S
    OBVIOUS
<1> HIDE DEF low
<1>6. PICK m \in low : \A k \in low : m <= k
    BY <1>2, <1>3, SmallestOfFinite
<1> QED BY <1>2, <1>4, <1>5, <1>6

LEMMA MinIsLeast ==
    ASSUME NEW S \in SUBSET Nat, S # {}
    PROVE  Min(S) \in S /\ \A k \in S : Min(S) <= k
BY SmallestOf DEF Min

(* What is built step by step up to a number exists.                       *)
Grows(f, N, X, base, step) ==
    /\ f \in [0..N -> X] /\ f[0] = base
    /\ \A n \in 1..N : f[n] = step[<<n, f[n - 1]>>]

LEMMA Built ==
    ASSUME NEW N \in Nat, NEW X, NEW base \in X, NEW step \in [(1..N) \X X -> X]
    PROVE  \E f : Grows(f, N, X, base, step)
<1> DEFINE Upto(k, f) == f \in [0..k -> X] /\ f[0] = base
                             /\ \A n \in 1..k : f[n] = step[<<n, f[n - 1]>>]
           missing == {k \in 0..N : ~\E f : Upto(k, f)}
<1>1. missing \in SUBSET Nat
    OBVIOUS
<1>2. ASSUME missing # {} PROVE FALSE
    <2>1. PICK k \in missing : \A j \in missing : k <= j
        <3> HIDE DEF missing
        <3> QED BY <1>1, <1>2, SmallestOf
    <2>2. k \in 0..N /\ ~\E f : Upto(k, f)
        OBVIOUS
    <2>3. k # 0
        <3>1. Upto(0, [n \in 0..0 |-> base])
            OBVIOUS
        <3> QED BY <2>2, <3>1
    <2>4. k - 1 \in 0..N /\ k - 1 \notin missing
        BY <2>1, <2>2, <2>3
    <2>5. PICK f : Upto(k - 1, f)
        BY <2>4
    <2> DEFINE g == [n \in 0..k |-> IF n = k THEN step[<<k, f[k - 1]>>] ELSE f[n]]
    <2>6. step[<<k, f[k - 1]>>] \in X
        BY <2>2, <2>3, <2>5
    <2>7. g \in [0..k -> X]
        BY <2>2, <2>3, <2>5, <2>6
    <2>8. g[0] = base
        BY <2>2, <2>3, <2>5
    <2>9. \A n \in 1..k : g[n] = step[<<n, g[n - 1]>>]
        <3> SUFFICES ASSUME NEW n \in 1..k PROVE g[n] = step[<<n, g[n - 1]>>]
            OBVIOUS
        <3>1. g[n - 1] = f[n - 1]
            BY <2>2
        <3>2. n # k => n \in 1..k - 1 /\ g[n] = f[n]
            BY <2>2
        <3>3. n = k => g[n] = step[<<n, f[n - 1]>>]
            BY <2>2
        <3> HIDE DEF g
        <3> QED BY <2>5, <3>1, <3>2, <3>3
    <2>10. Upto(k, g)
        <3> HIDE DEF g
        <3> QED BY <2>7, <2>8, <2>9
    <2> QED BY <2>2, <2>10
<1>3. N \in 0..N /\ N \notin missing
    BY <1>2
<1> QED BY <1>3 DEF Grows

(* The recursion of Keep has a solution, and it is made of lists.          *)
Kept(kept, list, places, S) ==
    /\ kept \in [0..Len(list) -> Seq(S)]
    /\ kept[0] = <<>> /\ Keep(list, places) = kept[Len(list)]
    /\ \A n \in 1..Len(list) :
          kept[n] = IF n \in places THEN Append(kept[n - 1], list[n]) ELSE kept[n - 1]

LEMMA KeepBuilt ==
    ASSUME NEW S, NEW list \in Seq(S), NEW places
    PROVE  \E kept : Kept(kept, list, places, S)
<1> DEFINE N == Len(list)
           step == [c \in (1..N) \X Seq(S) |->
                       IF c[1] \in places THEN Append(c[2], list[c[1]]) ELSE c[2]]
           Def(f) == [n \in 0..N |->
                         IF n = 0 THEN <<>>
                         ELSE IF n \in places THEN Append(f[n - 1], list[n])
                         ELSE f[n - 1]]
<1>1. step \in [(1..N) \X Seq(S) -> Seq(S)]
    <2> SUFFICES ASSUME NEW c \in (1..N) \X Seq(S) PROVE step[c] \in Seq(S)
        OBVIOUS
    <2>1. c[1] \in 1..N /\ c[2] \in Seq(S) /\ list[c[1]] \in S
        OBVIOUS
    <2> QED BY <2>1
<1>2. N \in Nat /\ <<>> \in Seq(S)
    OBVIOUS
<1>3. PICK f : Grows(f, N, Seq(S), <<>>, step)
    <2> HIDE DEF step, N
    <2> QED BY <1>1, <1>2, Built
<1>4. f \in [0..N -> Seq(S)] /\ f[0] = <<>>
    <2> HIDE DEF step, N
    <2> QED BY <1>3 DEF Grows
<1>5. \A n \in 1..N : f[n] = IF n \in places THEN Append(f[n - 1], list[n]) ELSE f[n - 1]
    <2> SUFFICES ASSUME NEW n \in 1..N
                 PROVE f[n] = IF n \in places THEN Append(f[n - 1], list[n]) ELSE f[n - 1]
        OBVIOUS
    <2>1. n - 1 \in 0..N
        OBVIOUS
    <2>2. f[n - 1] \in Seq(S) /\ <<n, f[n - 1]>> \in (1..N) \X Seq(S)
        BY <1>4, <2>1
    <2>3. f[n] = step[<<n, f[n - 1]>>]
        BY <1>3 DEF Grows
    <2> QED BY <2>2, <2>3
<1>6. f = Def(f)
    <2>1. \A n \in 0..N : f[n] = Def(f)[n]
        <3> SUFFICES ASSUME NEW n \in 0..N PROVE f[n] = Def(f)[n]
            OBVIOUS
        <3> HIDE DEF step
        <3>1. CASE n = 0
            BY <1>4, <3>1
        <3>2. CASE n # 0
            <4>1. n \in 1..N
                BY <3>2
            <4> QED BY <1>5, <3>2, <4>1
        <3> QED BY <3>1, <3>2
    <2>2. f = [n \in 0..N |-> f[n]]
        BY <1>4
    <2> QED BY <2>1, <2>2
<1> DEFINE kept == CHOOSE g : g = Def(g)
<1>7. kept = Def(kept)
    BY <1>6
<1>8. ASSUME NEW k \in 0..N, kept[k] # f[k] PROVE FALSE
    <2> DEFINE wrong == {j \in 0..N : kept[j] # f[j]}
    <2>1. wrong \in SUBSET Nat /\ wrong # {}
        <3> HIDE DEF kept
        <3>1. k \in wrong
            BY <1>8
        <3> QED BY <3>1
    <2>2. PICK j \in wrong : \A i \in wrong : j <= i
        <3> HIDE DEF wrong
        <3> QED BY <2>1, SmallestOf
    <2>3. j \in 0..N /\ kept[j] # f[j]
        OBVIOUS
    <2>4. kept[j] = IF j = 0 THEN <<>> ELSE IF j \in places THEN Append(kept[j - 1], list[j]) ELSE kept[j - 1]
        BY <1>7, <2>3
    <2>5. j # 0
        BY <1>4, <2>3, <2>4
    <2>6. j \in 1..N /\ j - 1 \in 0..N /\ j - 1 \notin wrong
        BY <2>2, <2>3, <2>5
    <2>7. kept[j - 1] = f[j - 1]
        BY <2>6
    <2> HIDE DEF kept, wrong, step, Def
    <2> QED BY <1>5, <2>3, <2>4, <2>5, <2>6, <2>7
<1>9. Keep(list, places) = kept[N]
    BY DEF Keep
<1>10. N \in 0..N /\ kept[N] = f[N]
    BY <1>8
<1> HIDE DEF kept, Def, step
<1> QED BY <1>4, <1>5, <1>9, <1>10 DEF Kept

(* at tells where the items of kept stood: at some of the first k places,   *)
(* in their order, at all that were chosen and at no other.                *)
Chosen(kept, list, places, k, at) ==
    /\ at \in [1..Len(kept) -> 1..k]
    /\ \A n \in 1..Len(kept) : kept[n] = list[at[n]] /\ at[n] \in places
    /\ \A m, n \in 1..Len(kept) : m < n => at[m] < at[n]
    /\ \A i \in 1..k : i \in places => \E n \in 1..Len(kept) : at[n] = i

LEMMA OneMoreChosen ==
    ASSUME NEW S, NEW list \in Seq(S), NEW places, NEW k \in 1..Len(list), NEW kept \in Seq(S),
           NEW at, Chosen(kept, list, places, k - 1, at), k \in places
    PROVE  \E more : Chosen(Append(kept, list[k]), list, places, k, more)
<1> DEFINE N == Len(kept)
           longer == Append(kept, list[k])
           more == [n \in 1..N + 1 |-> IF n = N + 1 THEN k ELSE at[n]]
<1>1. N \in Nat /\ k \in Nat /\ Len(longer) = N + 1 /\ longer[N + 1] = list[k]
         /\ \A n \in 1..N : longer[n] = kept[n]
    OBVIOUS
<1>2. /\ at \in [1..N -> 1..k - 1]
      /\ \A n \in 1..N : kept[n] = list[at[n]] /\ at[n] \in places
      /\ \A m, n \in 1..N : m < n => at[m] < at[n]
      /\ \A i \in 1..k - 1 : i \in places => \E n \in 1..N : at[n] = i
    BY DEF Chosen
<1> HIDE DEF N, longer
<1>3. more[N + 1] = k /\ \A n \in 1..N : more[n] = at[n] /\ at[n] \in 1..k - 1
    BY <1>1, <1>2
<1>4. \A n \in 1..N + 1 : n = N + 1 \/ n \in 1..N
    BY <1>1
<1>5. more \in [1..N + 1 -> 1..k]
    BY <1>1, <1>2, <1>4
<1> HIDE DEF more
<1>6. \A n \in 1..N + 1 : longer[n] = list[more[n]] /\ more[n] \in places
    BY <1>1, <1>2, <1>3, <1>4
<1>7. \A m, n \in 1..N + 1 : m < n => more[m] < more[n]
    <2> SUFFICES ASSUME NEW m \in 1..N + 1, NEW n \in 1..N + 1, m < n PROVE more[m] < more[n]
        OBVIOUS
    <2>1. m \in 1..N
        BY <1>1
    <2>2. CASE n = N + 1
        BY <1>1, <1>3, <2>1, <2>2
    <2>3. CASE n \in 1..N
        BY <1>2, <1>3, <2>1, <2>3
    <2> QED BY <1>4, <2>2, <2>3
<1>8. \A i \in 1..k : i \in places => \E n \in 1..N + 1 : more[n] = i
    <2> SUFFICES ASSUME NEW i \in 1..k, i \in places PROVE \E n \in 1..N + 1 : more[n] = i
        OBVIOUS
    <2>1. CASE i = k
        BY <1>1, <1>3, <2>1
    <2>2. CASE i # k
        <3>1. i \in 1..k - 1
            BY <1>1, <2>2
        <3>2. PICK n \in 1..N : at[n] = i
            BY <1>2, <3>1
        <3>3. n \in 1..N + 1 /\ more[n] = i
            BY <1>1, <1>3, <3>2
        <3> QED BY <3>3
    <2> QED BY <2>1, <2>2
<1>9. Chosen(longer, list, places, k, more)
    BY <1>1, <1>5, <1>6, <1>7, <1>8 DEF Chosen
<1> QED BY <1>9 DEF longer

LEMMA NoneMoreChosen ==
    ASSUME NEW S, NEW list \in Seq(S), NEW places, NEW k \in 1..Len(list), NEW kept \in Seq(S),
           NEW at, Chosen(kept, list, places, k - 1, at), k \notin places
    PROVE  Chosen(kept, list, places, k, at)
<1>1. \A i \in 1..k : i \in places => i \in 1..k - 1
    OBVIOUS
<1>2. \A i \in 1..k - 1 : i \in 1..k
    OBVIOUS
<1> QED BY <1>1, <1>2 DEF Chosen

(* What Keep gives: a list of the same items, those at the places, in order. *)
LEMMA KeepChooses ==
    ASSUME NEW S, NEW list \in Seq(S), NEW places
    PROVE  /\ Keep(list, places) \in Seq(S)
           /\ \E at : Chosen(Keep(list, places), list, places, Len(list), at)
<1> DEFINE N == Len(list)
<1>5. PICK kept : Kept(kept, list, places, S)
    BY KeepBuilt
<1>1. /\ kept \in [0..N -> Seq(S)] /\ kept[0] = <<>> /\ Keep(list, places) = kept[N]
      /\ \A n \in 1..N :
            kept[n] = IF n \in places THEN Append(kept[n - 1], list[n]) ELSE kept[n - 1]
    BY <1>5 DEF Kept
<1> DEFINE missing == {k \in 0..N : ~\E at : Chosen(kept[k], list, places, k, at)}
<1>2. N \in Nat
    OBVIOUS
<1>3. ASSUME missing # {} PROVE FALSE
    <2>1. PICK k \in missing : \A j \in missing : k <= j
        <3>1. missing \in SUBSET Nat
            OBVIOUS
        <3> HIDE DEF missing
        <3> QED BY <1>3, <3>1, SmallestOf
    <2>2. k \in 0..N /\ ~\E at : Chosen(kept[k], list, places, k, at)
        OBVIOUS
    <2>3. k # 0
        <3>1. Chosen(<<>>, list, places, 0, <<>>)
            BY DEF Chosen
        <3> QED BY <1>1, <2>2, <3>1
    <2>4. k \in 1..N /\ k - 1 \in 0..N /\ k - 1 \notin missing
        <3>1. k \in 1..N /\ k - 1 \in 0..N /\ k - 1 < k
            BY <1>2, <2>2, <2>3
        <3> HIDE DEF missing, N
        <3> QED BY <2>1, <3>1
    <2>5. PICK at : Chosen(kept[k - 1], list, places, k - 1, at)
        BY <2>4
    <2>6. kept[k - 1] \in Seq(S) /\ k \in 1..Len(list)
        BY <1>1, <2>4
    <2>7. kept[k] = IF k \in places THEN Append(kept[k - 1], list[k]) ELSE kept[k - 1]
        BY <1>1, <2>4
    <2> HIDE DEF missing, N
    <2>8. CASE k \in places
        <3>1. \E more : Chosen(Append(kept[k - 1], list[k]), list, places, k, more)
            BY <2>5, <2>6, <2>8, OneMoreChosen
        <3> QED BY <2>2, <2>7, <2>8, <3>1
    <2>9. CASE k \notin places
        <3>1. Chosen(kept[k - 1], list, places, k, at)
            BY <2>5, <2>6, <2>9, NoneMoreChosen
        <3> QED BY <2>2, <2>7, <2>9, <3>1
    <2> QED BY <2>8, <2>9
<1>4. N \in 0..N /\ N \notin missing
    BY <1>2, <1>3
<1> QED BY <1>1, <1>4

-----------------------------------------------------------------------------
(* Orders: a finite set has one member of each rank                        *)

Before(S, R, i) == {j \in S : <<j, i>> \in R}

StrictOrder(S, R) ==
    /\ \A i \in S : <<i, i>> \notin R
    /\ \A i, j, k \in S : <<i, j>> \in R /\ <<j, k>> \in R => <<i, k>> \in R
    /\ \A i, j \in S : i # j => <<i, j>> \in R \/ <<j, i>> \in R

LEMMA RanksGrow ==
    ASSUME NEW S, IsFiniteSet(S), NEW R, StrictOrder(S, R), NEW i \in S
    PROVE  /\ Cardinality(Before(S, R, i)) \in 0..Cardinality(S) - 1
           /\ \A j \in S : <<i, j>> \in R => Cardinality(Before(S, R, i)) < Cardinality(Before(S, R, j))
<1>1. \A j \in S : IsFiniteSet(Before(S, R, j)) /\ Cardinality(Before(S, R, j)) \in Nat
    <2> SUFFICES ASSUME NEW j \in S
                 PROVE  IsFiniteSet(Before(S, R, j)) /\ Cardinality(Before(S, R, j)) \in Nat
        OBVIOUS
    <2>1. Before(S, R, j) \in SUBSET S
        BY DEF Before
    <2> QED BY <2>1, FS_Subset, FS_CardinalityType
<1>2. ASSUME NEW T, IsFiniteSet(T), Before(S, R, i) \subseteq T, i \in T
      PROVE  Cardinality(Before(S, R, i)) < Cardinality(T)
    <2>1. i \notin Before(S, R, i)
        BY DEF Before, StrictOrder
    <2>2. Cardinality(Before(S, R, i)) <= Cardinality(T)
              /\ Cardinality(Before(S, R, i)) # Cardinality(T)
        BY <1>2, <2>1, FS_Subset
    <2>3. Cardinality(T) \in Nat
        BY <1>2, FS_CardinalityType
    <2> QED BY <1>1, <2>2, <2>3
<1>3. Cardinality(Before(S, R, i)) < Cardinality(S)
    BY <1>2 DEF Before
<1>4. ASSUME NEW j \in S, <<i, j>> \in R
      PROVE  Cardinality(Before(S, R, i)) < Cardinality(Before(S, R, j))
    <2>1. Before(S, R, i) \subseteq Before(S, R, j) /\ i \in Before(S, R, j)
        BY <1>4 DEF Before, StrictOrder
    <2> QED BY <1>1, <1>2, <2>1
<1>5. Cardinality(S) \in Nat
    BY FS_CardinalityType
<1> QED BY <1>1, <1>3, <1>4, <1>5

LEMMA OneOfEachRank ==
    ASSUME NEW S, IsFiniteSet(S), NEW R, StrictOrder(S, R), NEW n \in 1..Cardinality(S)
    PROVE  \E i \in S : Cardinality(Before(S, R, i)) = n - 1
<1> DEFINE N == Cardinality(S)
           rank == [i \in S |-> Cardinality(Before(S, R, i))]
<1>1. N \in Nat /\ \A i \in S : rank[i] \in 0..N - 1
    BY FS_CardinalityType, RanksGrow
<1>2. \A i, j \in S : <<i, j>> \in R => rank[i] < rank[j]
    BY RanksGrow
<1>3. \A i, j \in S : rank[i] = rank[j] => i = j
    <2> SUFFICES ASSUME NEW i \in S, NEW j \in S, i # j PROVE rank[i] # rank[j]
        OBVIOUS
    <2>1. <<i, j>> \in R \/ <<j, i>> \in R
        BY DEF StrictOrder
    <2> HIDE DEF rank, N
    <2> QED BY <1>1, <1>2, <2>1
<1>4. rank \in [S -> 0..N - 1]
    BY <1>1
<1>5. IsFiniteSet(0..N - 1) /\ Cardinality(0..N - 1) = N
    <2>1. 0 \in Int /\ N - 1 \in Int
        BY <1>1
    <2>2. Cardinality(0..N - 1) = IF 0 > N - 1 THEN 0 ELSE N - 1 - 0 + 1
        BY <2>1, FS_Interval
    <2> QED BY <1>1, <2>1, <2>2, FS_Interval
<1> HIDE DEF rank
<1>6. rank \in Injection(S, 0..N - 1)
    BY <1>3, <1>4, Fun_IsInj
<1>7. rank \in Surjection(S, 0..N - 1)
    BY <1>5, <1>6, FS_Injection DEF N
<1>8. n - 1 \in 0..N - 1
    BY <1>1
<1>9. PICK i \in S : rank[i] = n - 1
    <2>1. \A t \in 0..N - 1 : \E i \in S : rank[i] = t
        BY <1>7 DEF Surjection
    <2> QED BY <1>8, <2>1
<1> QED BY <1>9 DEF rank

-----------------------------------------------------------------------------
(* Prices: half of every group keeps its trust                             *)

LEMMA PlacesCount == ASSUME NEW n \in Nat PROVE IsFiniteSet(1..n) /\ Cardinality(1..n) = n
<1>1. IsFiniteSet(1..n) /\ Cardinality(1..n) = IF 1 > n THEN 0 ELSE n - 1 + 1
    BY FS_Interval
<1> QED BY <1>1

(* Some price of a list has any given place once they rise.                *)
LEMMA RisingPrice ==
    ASSUME NEW prices \in Seq(Nat), NEW n \in 1..Len(prices)
    PROVE  LET price == InRisingOrder(prices, n)
           IN /\ price \in ToSet(prices)
              /\ Cardinality({i \in DOMAIN prices : prices[i] < price}) < n
<1> DEFINE S == 1..Len(prices)
           R == {p \in S \X S : prices[p[1]] < prices[p[2]] \/ (prices[p[1]] = prices[p[2]] /\ p[1] < p[2])}
           below(price) == {i \in DOMAIN prices : prices[i] < price}
           upto(price) == {i \in DOMAIN prices : prices[i] <= price}
<1>1. DOMAIN prices = S /\ Len(prices) \in Nat /\ \A i \in S : prices[i] \in Nat /\ i \in Nat
    OBVIOUS
<1>2. IsFiniteSet(S) /\ Cardinality(S) = Len(prices)
    BY <1>1, PlacesCount
<1>3. \A i, j \in S : <<i, j>> \in R
         <=> prices[i] < prices[j] \/ (prices[i] = prices[j] /\ i < j)
    OBVIOUS
<1> HIDE DEF R
<1>4. StrictOrder(S, R)
    <2>1. \A i \in S : <<i, i>> \notin R
        BY <1>1, <1>3
    <2>2. \A i, j, k \in S : <<i, j>> \in R /\ <<j, k>> \in R => <<i, k>> \in R
        BY <1>1, <1>3
    <2>3. \A i, j \in S : i # j => <<i, j>> \in R \/ <<j, i>> \in R
        BY <1>1, <1>3
    <2> QED BY <2>1, <2>2, <2>3 DEF StrictOrder
<1>5. PICK i \in S : Cardinality(Before(S, R, i)) = n - 1
    BY <1>2, <1>4, OneOfEachRank
<1> HIDE DEF S
<1>6. Before(S, R, i) \in SUBSET S /\ IsFiniteSet(Before(S, R, i))
    BY <1>2, FS_Subset DEF Before
<1>7. Cardinality(below(prices[i])) < n
    <2>1. below(prices[i]) \in SUBSET Before(S, R, i)
        BY <1>1, <1>3 DEF Before
    <2>2. IsFiniteSet(below(prices[i])) /\ Cardinality(below(prices[i])) <= n - 1
        BY <1>5, <1>6, <2>1, FS_Subset
    <2>3. Cardinality(below(prices[i])) \in Nat
        BY <2>2, FS_CardinalityType
    <2> QED BY <2>2, <2>3
<1>8. Cardinality(upto(prices[i])) >= n
    <2> DEFINE more == Before(S, R, i) \union {i}
    <2>1. i \notin Before(S, R, i)
        BY <1>4 DEF Before, StrictOrder
    <2>2. Cardinality(more) = n
        <3>1. Cardinality(more) = Cardinality(Before(S, R, i)) + 1
            BY <1>6, <2>1, FS_AddElement
        <3>2. n \in Nat
            BY <1>1
        <3> QED BY <1>5, <3>1, <3>2
    <2>3. more \in SUBSET upto(prices[i])
        <3> SUFFICES ASSUME NEW j \in Before(S, R, i) PROVE j \in upto(prices[i])
            BY <1>1
        <3>1. j \in S /\ (prices[j] < prices[i] \/ (prices[j] = prices[i] /\ j < i))
            BY <1>3 DEF Before
        <3> QED BY <1>1, <3>1
    <2>4. IsFiniteSet(upto(prices[i]))
        <3>1. upto(prices[i]) \in SUBSET S
            BY <1>1
        <3> QED BY <1>2, <3>1, FS_Subset
    <2>5. Cardinality(more) <= Cardinality(upto(prices[i])) /\ Cardinality(upto(prices[i])) \in Nat
        <3> HIDE DEF more, upto
        <3> QED BY <2>3, <2>4, FS_Subset, FS_CardinalityType
    <2> QED BY <2>2, <2>5
<1>9. prices[i] \in ToSet(prices)
    BY <1>1 DEF ToSet
<1>10. \E price \in ToSet(prices) : Cardinality(below(price)) < n /\ Cardinality(upto(price)) >= n
    BY <1>7, <1>8, <1>9
<1>11. InRisingOrder(prices, n)
          = CHOOSE price \in ToSet(prices) : Cardinality(below(price)) < n /\ Cardinality(upto(price)) >= n
    BY DEF InRisingOrder
<1> DEFINE price == InRisingOrder(prices, n)
<1>12. price \in ToSet(prices) /\ Cardinality(below(price)) < n
    <2> HIDE DEF below, upto
    <2> QED BY <1>10, <1>11
<1> QED BY <1>12

(* Where the items kept stood: each of them at one place, each place once. *)
LEMMA KeptPlaces ==
    ASSUME NEW S, NEW list \in Seq(S), NEW places \in SUBSET DOMAIN list, NEW at,
           Chosen(Keep(list, places), list, places, Len(list), at)
    PROVE  at \in Bijection(1..Len(Keep(list, places)), places)
<1> DEFINE kept == Keep(list, places)
<1>1. kept \in Seq(S) /\ DOMAIN list = 1..Len(list)
    BY KeepChooses
<1> HIDE DEF kept
<1>2. at \in [1..Len(kept) -> 1..Len(list)] /\ \A n \in 1..Len(kept) : at[n] \in places
    BY DEF Chosen, kept
<1>3. at \in [1..Len(kept) -> places]
    BY <1>2
<1>4. ASSUME NEW m \in 1..Len(kept), NEW n \in 1..Len(kept), at[m] = at[n] PROVE m = n
    <2>1. \A k, l \in 1..Len(kept) : k < l => at[k] < at[l]
        BY DEF Chosen, kept
    <2>2. Len(kept) \in Nat /\ at[m] \in Nat
        BY <1>1, <1>2
    <2> QED BY <1>4, <2>1, <2>2
<1>5. \A i \in places : \E n \in 1..Len(kept) : at[n] = i
    BY <1>1 DEF Chosen, kept
<1> QED BY <1>3, <1>4, <1>5, Fun_IsBij DEF kept

(* An offer as it comes to be marked.                                      *)
Unmarked(o) ==
    /\ {"price", "suspicious"} \subseteq DOMAIN o
    /\ o.price \in Nat \union {NoPrice} /\ o.suspicious = FALSE

LEMMA MarkedBelowMedian ==
    ASSUME NEW S, NEW list \in Seq(S), NEW percent \in 0..100, NEW question, NEW i \in DOMAIN list,
           Unmarked(list[i]), Readable(list[i]),
           NEW median \in Nat, median = findPriceMedian(list, question, peers(question, list[i])),
           MarkSuspicious(list, percent, question)[i].suspicious
    PROVE  list[i].price < median
<1>1. MarkSuspicious(list, percent, question)[i]
         = [list[i] EXCEPT !.suspicious = list[i].suspicious \/ pricedLow(list[i], median, percent)]
    BY DEF MarkSuspicious
<1>2. pricedLow(list[i], median, percent)
    BY <1>1 DEF Unmarked
<1>3. list[i].price \in Nat
    BY DEF Unmarked, Readable, parseCents
<1>4. list[i].price * 100 < median * percent
    BY <1>2 DEF pricedLow
<1> DEFINE price == list[i].price
<1>5. price \in Nat /\ price * 100 < median * percent
    BY <1>3, <1>4
<1> HIDE DEF price
<1>6. median * percent <= median * 100
    OBVIOUS
<1>7. price < median
    BY <1>5, <1>6
<1> QED BY <1>7 DEF price

(* The offers of a group below its median are not more than the others.    *)
LEMMA MedianDivides ==
    ASSUME NEW S, NEW list \in Seq(S), \A i \in DOMAIN list : Unmarked(list[i]), NEW question, NEW group
    PROVE  LET median == findPriceMedian(list, question, group)
               places == {j \in DOMAIN list : Readable(list[j]) /\ peers(question, list[j]) = group}
           IN /\ median \in Nat /\ IsFiniteSet(places)
              /\ 2 * Cardinality({j \in places : list[j].price < median}) <= Cardinality(places)
<1> DEFINE places == {j \in DOMAIN list : Readable(list[j]) /\ peers(question, list[j]) = group}
           members == Keep(list, places)
           prices == [k \in DOMAIN members |-> members[k].price]
           N == Len(members)
           median == findPriceMedian(list, question, group)
           low == {j \in places : list[j].price < median}
<1>1. members \in Seq(S) /\ places \in SUBSET DOMAIN list
    BY KeepChooses
<1>2. PICK at : Chosen(members, list, places, Len(list), at)
    BY KeepChooses
<1>3. groupOfferPrices(list, question, group) = prices
    BY DEF groupOfferPrices, Select
<1>4. \A j \in places : list[j].price \in Nat
    BY DEF Unmarked, Readable, parseCents
<1> HIDE DEF places
<1>5. at \in Bijection(1..N, places)
    BY <1>1, <1>2, KeptPlaces
<1>6. N \in Nat /\ DOMAIN members = 1..N
    BY <1>1
<1>7. at \in [1..N -> places] /\ at \in Injection(1..N, places) /\ at \in Surjection(1..N, places)
    BY <1>5, Fun_BijectionProperties
<1>8. \A k \in 1..N : members[k] = list[at[k]]
    BY <1>2 DEF Chosen
<1> HIDE DEF members
<1>9. prices \in Seq(Nat) /\ Len(prices) = N /\ \A k \in 1..N : prices[k] = list[at[k]].price
    <2>1. \A k \in 1..N : members[k].price \in Nat
        BY <1>4, <1>7, <1>8
    <2> QED BY <1>6, <1>8, <2>1
<1>10. IsFiniteSet(places) /\ Cardinality(places) = N
    <2>1. IsFiniteSet(1..N) /\ Cardinality(1..N) = N
        BY <1>6, PlacesCount
    <2>2. ExistsBijection(1..N, places)
        BY <1>5 DEF ExistsBijection
    <2> QED BY <2>1, <2>2, FS_Bijection
<1>11. median = IF prices = <<>> THEN 0 ELSE InRisingOrder(prices, (Len(prices) \div 2) + 1)
    BY <1>3 DEF findPriceMedian
<1> HIDE DEF prices, N, median
<1>12. CASE prices = <<>>
    <2>1. median = 0
        BY <1>11, <1>12
    <2>2. low = {}
        BY <1>4, <2>1
    <2>3. Cardinality(low) = 0
        BY <2>2, FS_EmptySet
    <2> QED BY <1>6, <1>10, <2>1, <2>3 DEF median, places
<1>13. CASE prices # <<>>
    <2> DEFINE n == (N \div 2) + 1
               below == {k \in DOMAIN prices : prices[k] < median}
    <2>1. N > 0 /\ n \in 1..N /\ DOMAIN prices = 1..N
        BY <1>6, <1>9, <1>13
    <2>2. median = InRisingOrder(prices, n)
        BY <1>9, <1>11, <1>13
    <2>3. median \in ToSet(prices) /\ Cardinality(below) < n
        BY <1>9, <2>1, <2>2, RisingPrice
    <2>4. median \in Nat
        BY <1>9, <2>3 DEF ToSet
    <2> DEFINE place == [j \in low |-> CHOOSE k \in 1..N : at[k] = j]
    <2>5. \A j \in low : place[j] \in below /\ at[place[j]] = j
        <3> SUFFICES ASSUME NEW j \in low PROVE place[j] \in below /\ at[place[j]] = j
            OBVIOUS
        <3>1. \E k \in 1..N : at[k] = j
            BY <1>7 DEF Surjection
        <3>2. place[j] \in 1..N /\ at[place[j]] = j
            BY <3>1
        <3> HIDE DEF place
        <3> QED BY <1>9, <2>1, <3>2
    <2>6. IsFiniteSet(below) /\ Cardinality(below) \in Nat
        <3>1. below \in SUBSET (1..N) /\ IsFiniteSet(1..N)
            BY <1>6, <2>1, PlacesCount
        <3> HIDE DEF below
        <3> QED BY <3>1, FS_Subset, FS_CardinalityType
    <2>7. place \in [low -> below]
        <3>1. place = [j \in low |-> place[j]]
            OBVIOUS
        <3> HIDE DEF place, below, low
        <3> QED BY <2>5, <3>1
    <2> HIDE DEF place, below, low
    <2>8. place \in Injection(low, below)
        BY <2>5, <2>7, Fun_IsInj
    <2>9. IsFiniteSet(low) /\ Cardinality(low) <= Cardinality(below)
        BY <2>6, <2>8, FS_Injection
    <2>10. Cardinality(low) \in Nat
        BY <2>9, FS_CardinalityType
    <2>11. 2 * Cardinality(low) <= N
        BY <1>6, <2>3, <2>6, <2>9, <2>10
    <2> QED BY <1>10, <2>4, <2>11 DEF median, places, low
<1> QED BY <1>12, <1>13

(* MarkSuspicious: however low the prices of a group lie, half of those    *)
(* that can be read stay trusted.                                          *)
THEOREM HalfKept ==
    ASSUME NEW S, NEW list \in Seq(S), \A i \in DOMAIN list : Unmarked(list[i]),
           NEW percent \in 0..100, NEW question
    PROVE  HalfKeepTrust(list, percent, question)
<1> DEFINE judged == MarkSuspicious(list, percent, question)
           places(i) == {j \in DOMAIN list :
                            Readable(list[j]) /\ peers(question, list[j]) = peers(question, list[i])}
<1> SUFFICES ASSUME NEW i \in DOMAIN list
             PROVE  2 * Cardinality({j \in places(i) : judged[j].suspicious}) <= Cardinality(places(i))
    BY DEF HalfKeepTrust
<1> DEFINE median == findPriceMedian(list, question, peers(question, list[i]))
           low == {j \in places(i) : list[j].price < median}
           hidden == {j \in places(i) : judged[j].suspicious}
<1>1. median \in Nat /\ IsFiniteSet(places(i)) /\ 2 * Cardinality(low) <= Cardinality(places(i))
    BY MedianDivides
<1>2. hidden \in SUBSET low
    <2> SUFFICES ASSUME NEW j \in places(i), judged[j].suspicious PROVE list[j].price < median
        OBVIOUS
    <2>1. j \in DOMAIN list /\ Readable(list[j]) /\ peers(question, list[j]) = peers(question, list[i])
        OBVIOUS
    <2>2. median = findPriceMedian(list, question, peers(question, list[j]))
        BY <2>1
    <2> QED BY <1>1, <2>1, <2>2, MarkedBelowMedian
<1>3. low \in SUBSET places(i)
    OBVIOUS
<1>4. IsFiniteSet(low) /\ Cardinality(hidden) <= Cardinality(low)
    <2> HIDE DEF low, hidden, places
    <2> QED BY <1>1, <1>2, <1>3, FS_Subset
<1>5. Cardinality(low) \in Nat /\ Cardinality(hidden) \in Nat /\ Cardinality(places(i)) \in Nat
    <2> HIDE DEF low, hidden, places
    <2>1. IsFiniteSet(hidden)
        BY <1>2, <1>4, FS_Subset
    <2> QED BY <1>1, <1>4, <2>1, FS_CardinalityType
<1> HIDE DEF low, places
<1> QED BY <1>1, <1>4, <1>5

-----------------------------------------------------------------------------
(* Stock: the cheapest trusted offers                                      *)

Priced(o) == o.price \in Nat \union {NoPrice}

(* Where the items of a sorted list stood.                                 *)
Rises(list, rising, at) ==
    /\ at \in Bijection(1..Len(list), 1..Len(list))
    /\ Len(rising) = Len(list) /\ \A n \in 1..Len(list) : rising[n] = list[at[n]]
    /\ \A m, n \in 1..Len(list) : m < n => ~compareDecimal(list[at[n]], list[at[m]])

LEMMA SortedRises ==
    ASSUME NEW S, NEW list \in Seq(S), \A i \in DOMAIN list : Priced(list[i])
    PROVE  SortedByPrice(list) \in Seq(S) /\ \E at : Rises(list, SortedByPrice(list), at)
<1> DEFINE D == DOMAIN list
           N == Len(list)
           before(i, j) == \/ compareDecimal(list[i], list[j])
                           \/ ~compareDecimal(list[j], list[i]) /\ i < j
           R == {p \in D \X D : before(p[1], p[2])}
           below(i) == {j \in D : before(j, i)}
           place(n) == CHOOSE i \in D : Cardinality(below(i)) = n - 1
           at == [n \in D |-> place(n)]
           rising == SortedByPrice(list)
<1>1. D = 1..N /\ N \in Nat
    OBVIOUS
<1>2. IsFiniteSet(D) /\ Cardinality(D) = N
    BY <1>1, PlacesCount
<1>3. \A i, j \in D : before(i, j) <=>
          \/ list[i].price # NoPrice /\ (list[j].price = NoPrice \/ list[i].price < list[j].price)
          \/ i < j /\ ~(list[j].price # NoPrice /\ (list[i].price = NoPrice \/ list[j].price < list[i].price))
    BY DEF compareDecimal, Readable, parseCents
<1>4. \A i \in D : list[i].price \in Int /\ i \in Int /\ NoPrice \in Int
    BY <1>1 DEF Priced, NoPrice
<1>5. \A i, j \in D : <<i, j>> \in R <=> before(i, j)
    OBVIOUS
<1>6. rising = [n \in D |-> list[CHOOSE i \in D : Cardinality(below(i)) = n - 1]]
    BY DEF SortedByPrice, Sorted
<1>7. rising = [n \in D |-> list[at[n]]]
    BY <1>6
<1> HIDE DEF R, before, rising
<1>8. StrictOrder(D, R)
    <2>1. \A i \in D : <<i, i>> \notin R
        BY <1>3, <1>4, <1>5
    <2>2. ASSUME NEW i \in D, NEW j \in D, NEW k \in D, <<i, j>> \in R, <<j, k>> \in R PROVE <<i, k>> \in R
        BY <1>3, <1>4, <1>5, <2>2
    <2>3. \A i, j \in D : i # j => <<i, j>> \in R \/ <<j, i>> \in R
        BY <1>3, <1>4, <1>5
    <2> QED BY <2>1, <2>2, <2>3 DEF StrictOrder
<1> HIDE DEF D
<1>9. \A i \in D : below(i) = Before(D, R, i)
    BY <1>5 DEF Before
<1>10. \A n \in D : at[n] \in D /\ Cardinality(Before(D, R, at[n])) = n - 1
    <2> SUFFICES ASSUME NEW n \in D PROVE at[n] \in D /\ Cardinality(Before(D, R, at[n])) = n - 1
        OBVIOUS
    <2>1. \E i \in D : Cardinality(Before(D, R, i)) = n - 1
        BY <1>1, <1>2, <1>8, OneOfEachRank
    <2>2. \E i \in D : Cardinality(below(i)) = n - 1
        BY <1>9, <2>1
    <2>3. at[n] = CHOOSE i \in D : Cardinality(below(i)) = n - 1
        OBVIOUS
    <2> HIDE DEF at, below
    <2>4. at[n] \in D /\ Cardinality(below(at[n])) = n - 1
        BY <2>2, <2>3
    <2> QED BY <1>9, <2>4
<1>11. at \in [D -> D]
    <2>1. at = [n \in D |-> at[n]]
        <3> HIDE DEF place
        <3> QED OBVIOUS
    <2> HIDE DEF at
    <2> QED BY <1>10, <2>1
<1> HIDE DEF at, place, below
<1>12. ASSUME NEW m \in D, NEW n \in D, m < n PROVE <<at[m], at[n]>> \in R
    <2>1. at[m] # at[n]
        BY <1>1, <1>10, <1>12
    <2>2. <<at[m], at[n]>> \in R \/ <<at[n], at[m]>> \in R
        BY <1>8, <1>10, <2>1 DEF StrictOrder
    <2>3. ASSUME <<at[n], at[m]>> \in R PROVE FALSE
        <3>1. Cardinality(Before(D, R, at[n])) < Cardinality(Before(D, R, at[m]))
            BY <1>2, <1>8, <1>10, <2>3, RanksGrow
        <3> QED BY <1>1, <1>10, <1>12, <3>1
    <2> QED BY <2>2, <2>3
<1>13. \A m, n \in D : at[m] = at[n] => m = n
    BY <1>1, <1>10
<1>14. at \in Bijection(D, D)
    <2>1. at \in Injection(D, D)
        BY <1>11, <1>13, Fun_IsInj
    <2>2. at \in Surjection(D, D)
        BY <1>2, <2>1, FS_Injection
    <2> QED BY <2>1, <2>2, Fun_IsBij
<1>15. \A m, n \in D : m < n => ~compareDecimal(list[at[n]], list[at[m]])
    <2> SUFFICES ASSUME NEW m \in D, NEW n \in D, m < n PROVE ~compareDecimal(list[at[n]], list[at[m]])
        OBVIOUS
    <2>1. before(at[m], at[n])
        BY <1>5, <1>10, <1>12
    <2> QED BY <1>4, <1>10, <2>1 DEF before, compareDecimal, Readable, parseCents
<1>16. rising \in Seq(S) /\ Len(rising) = N /\ \A n \in D : rising[n] = list[at[n]]
    <2>1. \A n \in D : list[at[n]] \in S
        BY <1>1, <1>10
    <2> QED BY <1>1, <1>7, <2>1
<1> QED BY <1>1, <1>14, <1>15, <1>16 DEF Rises, rising

Pairs(f, A, B) ==
    /\ f \in [A -> B] /\ (\A a, b \in A : f[a] = f[b] => a = b)
    /\ \A b \in B : \E a \in A : f[a] = b

LEMMA Paired == ASSUME NEW A, NEW B, NEW f \in Bijection(A, B) PROVE Pairs(f, A, B)
<1>1. f \in [A -> B] /\ f \in Injection(A, B) /\ f \in Surjection(A, B)
    BY Fun_BijectionProperties
<1>2. \A a, b \in A : f[a] = f[b] => a = b
    BY <1>1, Fun_InjectionProperties
<1>3. \A b \in B : \E a \in A : f[a] = b
    BY <1>1 DEF Surjection
<1> QED BY <1>1, <1>2, <1>3 DEF Pairs

LEMMA PartFromFirst ==
    ASSUME NEW T, NEW list \in Seq(T), NEW L \in Nat, L <= Len(list)
    PROVE  LET part == SubSeq(list, 1, L)
           IN Len(part) = L /\ DOMAIN part = 1..L /\ \A n \in 1..L : part[n] = list[n]
OBVIOUS

LEMMA FewerOf ==
    ASSUME NEW a \in Nat, NEW b \in Nat
    PROVE  Min({a, b}) \in {a, b} /\ Min({a, b}) <= a /\ Min({a, b}) <= b /\ Min({a, b}) \in Nat
<1> DEFINE both == {a, b}
<1>1. both \in SUBSET Nat /\ both # {} /\ a \in both /\ b \in both
    OBVIOUS
<1> HIDE DEF both
<1>2. Min(both) \in both /\ \A k \in both : Min(both) <= k
    BY <1>1, MinIsLeast
<1>3. Min(both) <= a /\ Min(both) <= b /\ Min(both) \in Nat
    BY <1>1, <1>2
<1> QED BY <1>2, <1>3 DEF both

(* A selection of a sorted list: its items are at some places of the list  *)
(* itself, one place each, the ones that pass.                             *)
LEMMA TrustedPlaces ==
    ASSUME NEW S, NEW list \in Seq(S), \A i \in DOMAIN list : Priced(list[i]),
           NEW kept, kept = filterTrusted(SortedByPrice(list)),
           NEW trusted, trusted = {i \in DOMAIN list : ~list[i].suspicious}
    PROVE  /\ kept \in Seq(S)
           /\ \E place : /\ place \in Bijection(1..Len(kept), trusted)
                         /\ \A n \in 1..Len(kept) : kept[n] = list[place[n]]
                         /\ \A m, n \in 1..Len(kept) :
                               m < n => ~compareDecimal(list[place[n]], list[place[m]])
<1> DEFINE rising == SortedByPrice(list)
           open == {n \in DOMAIN rising : ~rising[n].suspicious}
           N == Len(list)
           K == Len(kept)
<1>1. rising \in Seq(S) /\ kept = Keep(rising, open)
    BY SortedRises DEF filterTrusted, Select
<1>2. PICK at : Rises(list, rising, at)
    BY SortedRises
<1>3. kept \in Seq(S) /\ open \in SUBSET DOMAIN rising
    BY <1>1, KeepChooses
<1>4. PICK c : Chosen(kept, rising, open, Len(rising), c)
    BY <1>1, KeepChooses
<1>5. c \in Bijection(1..K, open)
    BY <1>1, <1>3, <1>4, KeptPlaces
<1>6. /\ at \in [1..N -> 1..N] /\ (\A m, n \in 1..N : at[m] = at[n] => m = n)
      /\ \A i \in 1..N : \E n \in 1..N : at[n] = i
    <2>1. at \in Bijection(1..N, 1..N)
        BY <1>2 DEF Rises
    <2> HIDE DEF N
    <2>2. Pairs(at, 1..N, 1..N)
        BY <2>1, Paired
    <2> QED BY <2>2 DEF Pairs
<1>7. /\ c \in [1..K -> open] /\ (\A m, n \in 1..K : c[m] = c[n] => m = n)
      /\ \A n \in open : \E k \in 1..K : c[k] = n
    <2>1. c \in Bijection(1..K, open)
        BY <1>5
    <2> HIDE DEF open, K
    <2>2. Pairs(c, 1..K, open)
        BY <2>1, Paired
    <2> QED BY <2>2 DEF Pairs
<1>8. DOMAIN list = 1..N /\ DOMAIN rising = 1..N /\ N \in Nat /\ K \in Nat
    BY <1>1, <1>2, <1>3 DEF Rises
<1>9. \A n \in 1..N : rising[n] = list[at[n]]
    BY <1>2 DEF Rises
<1>10. \A n \in 1..N : n \in open <=> at[n] \in trusted
    BY <1>6, <1>8, <1>9
<1>11. open \subseteq 1..N
    BY <1>8
<1>12. \A k \in 1..K : kept[k] = rising[c[k]]
    BY <1>4 DEF Chosen
<1>13. \A m, n \in 1..K : m < n => c[m] < c[n]
    BY <1>4 DEF Chosen
<1>14. \A m, n \in 1..N : m < n => ~compareDecimal(list[at[n]], list[at[m]])
    BY <1>2 DEF Rises
<1>15. trusted \subseteq 1..N
    BY <1>8
<1> HIDE DEF rising, open, N, K
<1> DEFINE place == [k \in 1..K |-> at[c[k]]]
<1>16. \A k \in 1..K : place[k] = at[c[k]] /\ c[k] \in 1..N
    BY <1>7, <1>11
<1>17. place \in [1..K -> trusted]
    BY <1>7, <1>10, <1>16
<1> HIDE DEF place
<1>18. place \in Bijection(1..K, trusted)
    <2>1. \A m, n \in 1..K : place[m] = place[n] => m = n
        BY <1>6, <1>7, <1>16
    <2>2. \A i \in trusted : \E k \in 1..K : place[k] = i
        BY <1>6, <1>7, <1>10, <1>15, <1>16
    <2> QED BY <1>17, <2>1, <2>2, Fun_IsBij
<1>19. \A n \in 1..K : kept[n] = list[place[n]]
    BY <1>9, <1>12, <1>16
<1>20. \A m, n \in 1..K : m < n => ~compareDecimal(list[place[n]], list[place[m]])
    BY <1>13, <1>14, <1>16
<1> QED BY <1>3, <1>18, <1>19, <1>20 DEF K

(* SelectStockOffers: no trusted offer is left out for a dearer one, none  *)
(* comes twice, and as many are kept as the limit allows.                  *)
THEOREM CheapestKept ==
    ASSUME NEW S, NEW list \in Seq(S), NEW percent, NEW question, NEW limit \in Nat,
           \A i \in DOMAIN list : Priced(MarkSuspicious(list, percent, question)[i])
    PROVE  CheapestTrusted(list, percent, question, limit)
<1> DEFINE judged == MarkSuspicious(list, percent, question)
           kept == filterTrusted(SortedByPrice(judged))
           trusted == {i \in DOMAIN judged : ~judged[i].suspicious}
           chosen == SelectStockOffers(judged, limit)
           K == Len(kept)
           L == Min({K, limit})
<1>1. judged \in Seq({judged[i] : i \in DOMAIN list}) /\ DOMAIN judged = DOMAIN list
    <2>1. judged = [i \in 1..Len(list) |-> judged[i]] /\ Len(list) \in Nat /\ DOMAIN list = 1..Len(list)
        BY DEF MarkSuspicious
    <2> HIDE DEF judged
    <2> QED BY <2>1
<1>2. \A i \in DOMAIN judged : Priced(judged[i])
    BY <1>1
<1> DEFINE T == {judged[i] : i \in DOMAIN list}
<1>3. judged \in Seq(T)
    BY <1>1
<1> HIDE DEF judged, T
<1>4. kept \in Seq(T)
    BY <1>2, <1>3, TrustedPlaces
<1>5. PICK place : /\ place \in Bijection(1..K, trusted)
                   /\ \A n \in 1..K : kept[n] = judged[place[n]]
                   /\ \A m, n \in 1..K : m < n => ~compareDecimal(judged[place[n]], judged[place[m]])
    BY <1>2, <1>3, TrustedPlaces
<1>6. /\ place \in [1..K -> trusted] /\ (\A m, n \in 1..K : place[m] = place[n] => m = n)
      /\ \A i \in trusted : \E n \in 1..K : place[n] = i
    <2>1. place \in Bijection(1..K, trusted)
        BY <1>5
    <2> HIDE DEF trusted, K
    <2>2. Pairs(place, 1..K, trusted)
        BY <2>1, Paired
    <2> QED BY <2>2 DEF Pairs
<1>7. chosen = SubSeq(kept, 1, L)
    BY DEF SelectStockOffers, FirstOnes
<1>8. K \in Nat /\ DOMAIN kept = 1..K
    BY <1>4
<1> HIDE DEF kept
<1>9. L \in {K, limit} /\ L <= K /\ L <= limit /\ L \in Nat
    BY <1>8, FewerOf
<1> HIDE DEF trusted
<1>10. Cardinality(trusted) = K
    <2>1. IsFiniteSet(1..K) /\ Cardinality(1..K) = K
        BY <1>8, PlacesCount
    <2>2. ExistsBijection(1..K, trusted)
        BY <1>5 DEF ExistsBijection
    <2> QED BY <2>1, <2>2, FS_Bijection
<1>11. L = Min({limit, Cardinality(trusted)})
    <2>1. {limit, Cardinality(trusted)} = {K, limit}
        BY <1>10
    <2> QED BY <2>1
<1>12. Len(chosen) = L /\ DOMAIN chosen = 1..L /\ \A n \in 1..L : chosen[n] = kept[n]
    <2> HIDE DEF L, chosen
    <2> QED BY <1>4, <1>7, <1>9, PartFromFirst
<1> HIDE DEF L, K, chosen
<1> DEFINE picked == {place[n] : n \in 1..L}
<1>13. 1..L \subseteq 1..K
    BY <1>8, <1>9
<1>14. picked \in kSubset(Len(chosen), trusted)
    <2>1. picked \subseteq trusted
        BY <1>6, <1>13
    <2> DEFINE first == [n \in 1..L |-> place[n]]
    <2>2. first \in [1..L -> picked] /\ \A n \in 1..L : first[n] = place[n]
        OBVIOUS
    <2>3. \A i \in picked : \E n \in 1..L : first[n] = i
        OBVIOUS
    <2> HIDE DEF first, picked
    <2>4. \A m, n \in 1..L : first[m] = first[n] => m = n
        BY <1>6, <1>13, <2>2
    <2>5. first \in Bijection(1..L, picked)
        BY <2>2, <2>3, <2>4, Fun_IsBij
    <2>6. Cardinality(picked) = L
        <3>1. IsFiniteSet(1..L) /\ Cardinality(1..L) = L
            BY <1>9, PlacesCount
        <3>2. ExistsBijection(1..L, picked)
            BY <2>5 DEF ExistsBijection
        <3> QED BY <3>1, <3>2, FS_Bijection
    <2> QED BY <1>12, <2>1, <2>6 DEF kSubset
<1>15. ASSUME NEW i \in picked, NEW j \in trusted \ picked PROVE ~compareDecimal(judged[j], judged[i])
    <2>1. PICK m \in 1..L : i = place[m]
        OBVIOUS
    <2>2. PICK n \in 1..K : place[n] = j
        BY <1>6, <1>15
    <2>3. n \notin 1..L
        BY <1>15, <2>2
    <2>4. m \in 1..K /\ m < n
        BY <1>8, <1>9, <1>13, <2>3
    <2> QED BY <1>5, <2>1, <2>2, <2>4
<1>16. ASSUME NEW o \in ToSet(chosen) PROVE \E i \in picked : judged[i] = o
    <2>1. PICK n \in 1..L : chosen[n] = o
        BY <1>12 DEF ToSet
    <2>2. o = judged[place[n]] /\ place[n] \in picked
        BY <1>5, <1>12, <1>13, <2>1
    <2> QED BY <2>2
<1> HIDE DEF picked
<1>17. \E some \in kSubset(Len(chosen), trusted) :
          /\ \A i \in some, j \in trusted \ some : ~compareDecimal(judged[j], judged[i])
          /\ \A o \in ToSet(chosen) : \E i \in some : judged[i] = o
    BY <1>14, <1>15, <1>16
<1> QED BY <1>11, <1>12, <1>17 DEF CheapestTrusted, chosen, trusted, judged

-----------------------------------------------------------------------------
(* Titles: wider questions keep what narrower ones keep                    *)

LEMMA MarksHold ==
    /\ editionBrackets \subseteq Marks /\ editionDashes \subseteq Marks /\ Gaps \subseteq Marks
    /\ "k" \in Marks /\ Loud \in Marks
    /\ DOMAIN quotePairs = {1, 2}
    /\ quotePairs[1][1] = Opening /\ quotePairs[1][2] = Closing
    /\ quotePairs[2][1] = Straight /\ quotePairs[2][2] = Straight
    /\ Opening \in Marks /\ Closing \in Marks /\ Straight \in Marks
<1>1. editionBrackets \subseteq Marks /\ editionDashes \subseteq Marks /\ Gaps \subseteq Marks
    BY DEF Marks, Gaps
<1>2. "k" \in Marks /\ Loud \in Marks
    BY DEF Marks, Pieces
<1>3. DOMAIN quotePairs = {1, 2}
    BY DEF quotePairs
<1>4. /\ quotePairs[1][1] = Opening /\ quotePairs[1][2] = Closing
      /\ quotePairs[2][1] = Straight /\ quotePairs[2][2] = Straight
    BY DEF quotePairs
<1>5. Opening \in Marks /\ Closing \in Marks /\ Straight \in Marks
    BY DEF Marks
<1> QED BY <1>1, <1>2, <1>3, <1>4, <1>5

LEMMA SameList ==
    ASSUME NEW S, NEW p \in Seq(S), NEW q \in Seq(S), Len(p) = Len(q),
           \A k \in 1..Len(p) : p[k] = q[k]
    PROVE  p = q
<1>1. DOMAIN p = 1..Len(p) /\ DOMAIN q = 1..Len(q)
    OBVIOUS
<1>2. p = [k \in 1..Len(p) |-> p[k]] /\ q = [k \in 1..Len(q) |-> q[k]]
    OBVIOUS
<1> QED BY <1>1, <1>2

(* A piece with something before it and after it.                          *)
LEMMA JoinedIs ==
    ASSUME NEW S, NEW p \in Seq(S), NEW q \in Seq(S)
    PROVE  /\ p \o q \in Seq(S) /\ Len(p \o q) = Len(p) + Len(q)
           /\ \A k \in 1..Len(p) : (p \o q)[k] = p[k]
           /\ \A k \in 1..Len(q) : (p \o q)[Len(p) + k] = q[k]
OBVIOUS

LEMMA Enclosed ==
    ASSUME NEW S, NEW a \in S, NEW n \in Seq(S), NEW z \in S
    PROVE  /\ <<a>> \o n \o <<z>> \in Seq(S) /\ Len(<<a>> \o n \o <<z>>) = Len(n) + 2
           /\ (<<a>> \o n \o <<z>>)[1] = a
           /\ (<<a>> \o n \o <<z>>)[Len(n) + 2] = z
           /\ \A k \in 1..Len(n) : (<<a>> \o n \o <<z>>)[1 + k] = n[k]
<1> DEFINE p == <<a>> \o n
<1>1. /\ p \in Seq(S) /\ Len(p) = Len(n) + 1 /\ p[1] = a /\ Len(n) \in Nat
      /\ \A k \in 1..Len(n) : p[1 + k] = n[k]
    <2>1. <<a>> \in Seq(S) /\ Len(<<a>>) = 1 /\ <<a>>[1] = a /\ Len(n) \in Nat
        OBVIOUS
    <2>2. /\ p \in Seq(S) /\ Len(p) = 1 + Len(n)
          /\ \A k \in 1..1 : p[k] = <<a>>[k]
          /\ \A k \in 1..Len(n) : p[1 + k] = n[k]
        BY <2>1, JoinedIs
    <2> QED BY <2>1, <2>2
<1> HIDE DEF p
<1>2. <<z>> \in Seq(S) /\ Len(<<z>>) = 1 /\ <<z>>[1] = z
    OBVIOUS
<1>3. /\ p \o <<z>> \in Seq(S) /\ Len(p \o <<z>>) = Len(n) + 2
      /\ \A k \in 1..(Len(n) + 1) : (p \o <<z>>)[k] = p[k]
      /\ \A k \in 1..1 : (p \o <<z>>)[Len(n) + 1 + k] = <<z>>[k]
    BY <1>1, <1>2, JoinedIs
<1>4. (p \o <<z>>)[Len(n) + 2] = z
    BY <1>1, <1>2, <1>3
<1>5. (p \o <<z>>)[1] = a
    BY <1>1, <1>3
<1>6. ASSUME NEW k \in 1..Len(n) PROVE (p \o <<z>>)[1 + k] = n[k]
    <2>1. 1 + k \in 1..(Len(n) + 1)
        BY <1>1
    <2> QED BY <1>1, <1>3, <2>1
<1> QED BY <1>3, <1>4, <1>5, <1>6 DEF p

LEMMA AtMeans ==
    ASSUME NEW S, NEW t \in Seq(S), NEW p \in Seq(S), NEW i \in Nat \ {0}, i + Len(p) - 1 <= Len(t)
    PROVE  At(p, t, i) <=> \A k \in 1..Len(p) : t[i + k - 1] = p[k]
<1> DEFINE part == SubSeq(t, i, i + Len(p) - 1)
<1>1. Len(p) \in Nat /\ Len(t) \in Nat
    OBVIOUS
<1>2. part \in Seq(S) /\ Len(part) = Len(p) /\ \A k \in 1..Len(p) : part[k] = t[i + k - 1]
    <2>1. \A k \in i..(i + Len(p) - 1) : t[k] \in S
        BY <1>1
    <2> QED BY <1>1, <2>1
<1> HIDE DEF part
<1>3. part = p <=> \A k \in 1..Len(p) : part[k] = p[k]
    <2>1. ASSUME \A k \in 1..Len(p) : part[k] = p[k] PROVE part = p
        BY <1>1, <1>2, <2>1, SameList
    <2> QED BY <2>1
<1> QED BY <1>2, <1>3 DEF At, part

(* A piece of what occurs occurs.                                          *)
LEMMA PieceOccurs ==
    ASSUME NEW S, NEW t \in Seq(S), NEW p \in Seq(S), NEW i \in Nat \ {0}, i + Len(p) - 1 <= Len(t),
           At(p, t, i), NEW w \in Seq(S), NEW j \in Nat \ {0}, j + Len(w) - 1 <= Len(p),
           \A k \in 1..Len(w) : w[k] = p[j + k - 1]
    PROVE  Occurs(w, t)
<1> DEFINE at == i + j - 1
<1>1. Len(w) \in Nat /\ Len(p) \in Nat /\ Len(t) \in Nat
    OBVIOUS
<1>2. at \in Nat \ {0} /\ at + Len(w) - 1 <= Len(t) /\ at \in 1..(Len(t) - Len(w) + 1)
    BY <1>1
<1>3. \A k \in 1..Len(p) : t[i + k - 1] = p[k]
    BY AtMeans
<1>4. \A k \in 1..Len(w) : t[at + k - 1] = w[k]
    <2> SUFFICES ASSUME NEW k \in 1..Len(w) PROVE t[at + k - 1] = w[k]
        OBVIOUS
    <2>1. j + k - 1 \in 1..Len(p) /\ i + (j + k - 1) - 1 = at + k - 1
        BY <1>1
    <2> QED BY <1>3, <2>1
<1>5. At(w, t, at)
    <2> HIDE DEF at
    <2> QED BY <1>2, <1>4, AtMeans
<1> QED BY <1>2, <1>5 DEF Occurs

LEMMA OccursMeans ==
    ASSUME NEW S, NEW t \in Seq(S), NEW p \in Seq(S), Occurs(p, t)
    PROVE  \E i \in Nat \ {0} : i + Len(p) - 1 <= Len(t) /\ At(p, t, i)
<1>1. PICK i \in 1..(Len(t) - Len(p) + 1) : At(p, t, i)
    BY DEF Occurs
<1>2. Len(t) \in Nat /\ Len(p) \in Nat
    OBVIOUS
<1>3. i \in Nat \ {0} /\ i + Len(p) - 1 <= Len(t)
    BY <1>2
<1> QED BY <1>1, <1>3

LEMMA Normalized ==
    ASSUME NEW text \in Seq(Marks)
    PROVE  /\ NormalizeCard(text) \in Seq(Marks) /\ Len(NormalizeCard(text)) = Len(text)
           /\ \A i \in 1..Len(text) :
                 NormalizeCard(text)[i] = IF text[i] = Loud THEN "k" ELSE text[i]
<1> DEFINE N == Len(text)
           word(i) == IF text[i] = Loud THEN "k" ELSE text[i]
<1>1. N \in Nat /\ DOMAIN text = 1..N /\ \A i \in 1..N : word(i) \in Marks
    BY MarksHold
<1>2. NormalizeCard(text) = [i \in 1..N |-> word(i)]
    BY <1>1 DEF NormalizeCard
<1> HIDE DEF word
<1>3. NormalizeCard(text) \in Seq(Marks) /\ Len(NormalizeCard(text)) = N
    BY <1>1, <1>2
<1>4. \A i \in 1..N : NormalizeCard(text)[i] = word(i)
    BY <1>2
<1> QED BY <1>3, <1>4 DEF word

LEMMA MatchesContains ==
    ASSUME NEW text \in Seq(Marks), NEW card \in Seq(Marks), MatchesCard(text, card)
    PROVE  ContainsCard(text, card)
<1> DEFINE t == NormalizeCard(text)
           n == NormalizeCard(card)
<1>1. t \in Seq(Marks) /\ n \in Seq(Marks) /\ Len(n) \in Nat /\ Len(t) \in Nat
    BY Normalized
<1>2. /\ n # <<>>
      /\ \/ t = n
         \/ \E mark \in Marks : StartsWith(t, Append(n, mark))
         \/ \E mark, end \in Marks : Occurs(<<mark>> \o n \o <<end>>, t)
    <2>1. /\ n # <<>>
          /\ \/ t = n
             \/ \E bracket \in editionBrackets : StartsWith(t, Append(n, bracket))
             \/ followsCode(t, n)
             \/ quotesCardName(t, n)
        BY DEF MatchesCard
    <2> HIDE DEF t, n
    <2>2. editionBrackets \subseteq Marks /\ editionDashes \subseteq Marks
        BY MarksHold
    <2>3. followsCode(t, n) => \E mark \in Marks : StartsWith(t, Append(n, mark))
        BY <2>2 DEF followsCode
    <2>4. quotesCardName(t, n) => \E mark, end \in Marks : Occurs(<<mark>> \o n \o <<end>>, t)
        <3> SUFFICES ASSUME quotesCardName(t, n)
                     PROVE  \E mark, end \in Marks : Occurs(<<mark>> \o n \o <<end>>, t)
            OBVIOUS
        <3>1. PICK k \in DOMAIN quotePairs :
                 Occurs(<<quotePairs[k][1]>> \o n \o <<quotePairs[k][2]>>, t)
            BY DEF quotesCardName
        <3>2. quotePairs[k][1] \in Marks /\ quotePairs[k][2] \in Marks
            BY MarksHold
        <3> QED BY <3>1, <3>2
    <2> QED BY <2>1, <2>2, <2>3, <2>4
<1> HIDE DEF t, n
<1>3. CASE t = n
    <2>1. 1 + Len(n) - 1 <= Len(t) /\ \A k \in 1..Len(n) : t[1 + k - 1] = n[k]
        BY <1>1, <1>3
    <2>2. At(n, t, 1)
        BY <1>1, <2>1, AtMeans
    <2>3. 1 \in 1..(Len(t) - Len(n) + 1)
        BY <1>1, <1>3
    <2> QED BY <1>2, <2>2, <2>3 DEF ContainsCard, Occurs, t, n
<1>4. CASE \E mark \in Marks : StartsWith(t, Append(n, mark))
    <2>1. PICK mark \in Marks : StartsWith(t, Append(n, mark))
        BY <1>4
    <2> DEFINE p == Append(n, mark)
    <2>2. p \in Seq(Marks) /\ Len(p) = Len(n) + 1 /\ \A k \in 1..Len(n) : n[k] = p[k]
        BY <1>1
    <2>3. At(p, t, 1) /\ Len(p) <= Len(t)
        BY <2>1 DEF StartsWith
    <2> HIDE DEF p
    <2> DEFINE one == 1
    <2>4. /\ one \in Nat \ {0} /\ one + Len(p) - 1 <= Len(t) /\ At(p, t, one)
          /\ one + Len(n) - 1 <= Len(p) /\ \A k \in 1..Len(n) : n[k] = p[one + k - 1]
        BY <1>1, <2>2, <2>3
    <2> HIDE DEF one
    <2>5. Occurs(n, t)
        BY <1>1, <2>2, <2>3, <2>4, PieceOccurs
    <2> QED BY <1>2, <2>5 DEF ContainsCard, t, n
<1>5. CASE \E mark, end \in Marks : Occurs(<<mark>> \o n \o <<end>>, t)
    <2>1. PICK mark \in Marks, end \in Marks : Occurs(<<mark>> \o n \o <<end>>, t)
        BY <1>5
    <2> DEFINE p == <<mark>> \o n \o <<end>>
    <2>2. p \in Seq(Marks) /\ Len(p) = Len(n) + 2 /\ \A k \in 1..Len(n) : p[1 + k] = n[k]
        BY <1>1, Enclosed
    <2>3. PICK i \in Nat \ {0} : i + Len(p) - 1 <= Len(t) /\ At(p, t, i)
        <3>1. Occurs(p, t) /\ p \in Seq(Marks)
            BY <2>1, <2>2
        <3> HIDE DEF p
        <3> QED BY <1>1, <3>1, OccursMeans
    <2> HIDE DEF p
    <2> DEFINE two == 2
    <2>4. /\ two \in Nat \ {0} /\ two + Len(n) - 1 <= Len(p)
          /\ \A k \in 1..Len(n) : n[k] = p[two + k - 1]
        <3>1. \A k \in 1..Len(n) : two + k - 1 = 1 + k
            BY <1>1
        <3>2. two \in Nat \ {0} /\ two + Len(n) - 1 <= Len(p)
            BY <1>1, <2>2
        <3> HIDE DEF two
        <3> QED BY <2>2, <3>1, <3>2
    <2> HIDE DEF two
    <2>5. Occurs(n, t)
        BY <1>1, <2>2, <2>3, <2>4, PieceOccurs
    <2> QED BY <1>2, <2>5 DEF ContainsCard, t, n
<1> QED BY <1>2, <1>3, <1>4, <1>5

(* A name that strings.Fields left has a first word.                       *)
LEMMA NameHasWord ==
    ASSUME NEW n \in Seq(Marks), n # <<>>, n[1] \notin Gaps
    PROVE  Words(n) # {}
<1> DEFINE gaps == {i \in 1..Len(n) : n[i] \in Gaps}
           N == Len(n)
<1>1. N \in Nat /\ N >= 1 /\ DOMAIN n = 1..N
    OBVIOUS
<1>2. \E last \in 1..N : /\ \A i \in 1..last : n[i] \notin Gaps
                           /\ (last = N \/ n[last + 1] \in Gaps)
    <2>1. CASE gaps = {}
        <3>1. N \in 1..N /\ \A i \in 1..N : n[i] \notin Gaps
            BY <1>1, <2>1
        <3> QED BY <3>1
    <2>2. CASE gaps # {}
        <3>1. gaps \in SUBSET Nat
            OBVIOUS
        <3> HIDE DEF gaps
        <3>2. PICK m \in gaps : \A k \in gaps : m <= k
            BY <2>2, <3>1, SmallestOf
        <3>3. m \in 1..N /\ n[m] \in Gaps /\ m # 1
            BY <3>2 DEF gaps
        <3>4. \A i \in 1..m - 1 : n[i] \notin Gaps
            <4> SUFFICES ASSUME NEW i \in 1..m - 1, n[i] \in Gaps PROVE FALSE
                OBVIOUS
            <4>1. i \in gaps
                BY <1>1, <3>3 DEF gaps
            <4> QED BY <3>2, <3>3, <4>1
        <3>5. m - 1 \in 1..N /\ (m - 1) + 1 = m
            BY <1>1, <3>3
        <3> QED BY <3>3, <3>4, <3>5
    <2> QED BY <2>1, <2>2
<1>3. PICK last \in 1..N : /\ \A i \in 1..last : n[i] \notin Gaps
                            /\ (last = N \/ n[last + 1] \in Gaps)
    BY <1>2
<1> DEFINE places == {p \in (DOMAIN n) \X (DOMAIN n) :
                         /\ p[1] <= p[2]
                         /\ \A i \in p[1]..p[2] : n[i] \notin Gaps
                         /\ p[1] = 1 \/ n[p[1] - 1] \in Gaps
                         /\ p[2] = Len(n) \/ n[p[2] + 1] \in Gaps}
<1>4. <<1, last>> \in places
    <2> DEFINE p == <<1, last>>
    <2>1. p \in (DOMAIN n) \X (DOMAIN n) /\ p[1] = 1 /\ p[2] = last
        BY <1>1
    <2> HIDE DEF p
    <2>2. p[1] <= p[2] /\ \A i \in p[1]..p[2] : n[i] \notin Gaps
        <3>1. p[1] <= p[2]
            BY <1>1, <2>1
        <3>2. p[1]..p[2] = 1..last
            BY <2>1
        <3> QED BY <1>3, <3>1, <3>2
    <2>3. p[2] = Len(n) \/ n[p[2] + 1] \in Gaps
        BY <1>3, <2>1
    <2>4. p \in places
        BY <2>1, <2>2, <2>3
    <2> QED BY <2>4 DEF p
<1>5. \A p \in places : SubSeq(n, p[1], p[2]) \in Words(n)
    BY DEF Words
<1> HIDE DEF places
<1> QED BY <1>4, <1>5

LEMMA ContainsCovers ==
    ASSUME NEW text \in Seq(Marks), NEW card \in Seq(Marks), card # <<>> => card[1] \notin Gaps,
           ContainsCard(text, card)
    PROVE  CoversCard(text, card)
<1> DEFINE t == NormalizeCard(text)
           n == NormalizeCard(card)
<1>1. t \in Seq(Marks) /\ n \in Seq(Marks) /\ Len(n) = Len(card)
         /\ \A i \in 1..Len(card) : n[i] = IF card[i] = Loud THEN "k" ELSE card[i]
    BY Normalized
<1>2. n # <<>> /\ Occurs(n, t)
    BY DEF ContainsCard
<1> HIDE DEF t, n
<1>3. n[1] \notin Gaps
    <2>1. 1 \in 1..Len(card) /\ card # <<>>
        BY <1>1, <1>2
    <2> QED BY <1>1, <2>1 DEF Gaps, editionDashes, Space, Dash, EnDash
<1>4. Words(n) # {}
    BY <1>1, <1>2, <1>3, NameHasWord
<1>5. PICK i \in Nat \ {0} : i + Len(n) - 1 <= Len(t) /\ At(n, t, i)
    BY <1>1, <1>2, OccursMeans
<1>6. ASSUME NEW word \in Words(n) PROVE Occurs(word, t)
    <2>1. Len(n) \in Nat /\ DOMAIN n = 1..Len(n)
        BY <1>1
    <2>2. CASE \E j \in DOMAIN n : word = <<n[j]>>
        <3>1. PICK j \in DOMAIN n : word = <<n[j]>>
            BY <2>2
        <3>2. word \in Seq(Marks) /\ Len(word) = 1 /\ j + Len(word) - 1 <= Len(n)
                 /\ j \in Nat \ {0} /\ \A k \in 1..Len(word) : word[k] = n[j + k - 1]
            BY <1>1, <2>1, <3>1
        <3> QED BY <1>1, <1>5, <3>2, PieceOccurs
    <2>3. CASE \E j, l \in DOMAIN n : j <= l /\ word = SubSeq(n, j, l)
        <3>1. PICK j \in DOMAIN n, l \in DOMAIN n : j <= l /\ word = SubSeq(n, j, l)
            BY <2>3
        <3>2. \A k \in j..l : n[k] \in Marks
            BY <1>1, <2>1, <3>1
        <3>3. word \in Seq(Marks) /\ Len(word) = l - j + 1 /\ j + Len(word) - 1 <= Len(n)
                 /\ j \in Nat \ {0} /\ \A k \in 1..Len(word) : word[k] = n[j + k - 1]
            BY <1>1, <2>1, <3>1, <3>2
        <3> QED BY <1>1, <1>5, <3>3, PieceOccurs
    <2>4. \/ \E j \in DOMAIN n : word = <<n[j]>>
          \/ \E j, l \in DOMAIN n : j <= l /\ word = SubSeq(n, j, l)
        BY <1>6 DEF Words
    <2> QED BY <2>2, <2>3, <2>4
<1> QED BY <1>4, <1>6 DEF CoversCard, n, t

-----------------------------------------------------------------------------
(* Titles: the printings of one card share its key                         *)

Quotes == {Opening, Closing, Straight}
(* A name without a dash, as strings.Fields and NormalizeCard leave it.     *)
Bare(n) == n \in Seq(Pieces \union Codes \union {Space}) /\ n # <<>>

LEMMA MinIs ==
    ASSUME NEW S \in SUBSET Nat, NEW m \in S, \A k \in S : m <= k
    PROVE  Min(S) = m
<1>1. S # {}
    OBVIOUS
<1>2. Min(S) \in S /\ Min(S) <= m /\ m <= Min(S)
    BY <1>1, MinIsLeast
<1>3. Min(S) \in Nat /\ m \in Nat
    <2>1. S \subseteq Nat
        OBVIOUS
    <2> QED BY <1>2, <2>1
<1> QED BY <1>2, <1>3

LEMMA FirstIs ==
    ASSUME NEW S, NEW t \in Seq(S), NEW marks, NEW p \in DOMAIN t, t[p] \in marks,
           \A j \in 1..(p - 1) : t[j] \notin marks
    PROVE  FirstOf(marks, t) = p
<1> DEFINE places == {i \in DOMAIN t : t[i] \in marks}
<1>1. DOMAIN t = 1..Len(t) /\ Len(t) \in Nat
    OBVIOUS
<1>2. places \in SUBSET Nat /\ p \in places
    BY <1>1
<1>3. \A k \in places : p <= k
    <2> SUFFICES ASSUME NEW k \in places, k < p PROVE FALSE
        BY <1>1
    <2> QED BY <1>1
<1> HIDE DEF places
<1>4. Min(places) = p /\ places # {}
    BY <1>2, <1>3, MinIs
<1> QED BY <1>4 DEF FirstOf, places

LEMMA FirstNone ==
    ASSUME NEW t, NEW marks, \A i \in DOMAIN t : t[i] \notin marks
    PROVE  FirstOf(marks, t) = 0
BY DEF FirstOf

LEMMA FirstLater ==
    ASSUME NEW S, NEW t \in Seq(S), NEW marks, NEW p \in Nat, \A j \in 1..p : t[j] \notin marks
    PROVE  FirstOf(marks, t) = 0 \/ (FirstOf(marks, t) \in Nat /\ FirstOf(marks, t) > p)
<1> DEFINE places == {i \in DOMAIN t : t[i] \in marks}
<1>1. DOMAIN t = 1..Len(t) /\ Len(t) \in Nat
    OBVIOUS
<1>2. places \in SUBSET Nat /\ \A k \in places : k > p
    BY <1>1
<1>3. CASE places = {}
    BY <1>3 DEF FirstOf
<1>4. CASE places # {}
    <2> HIDE DEF places
    <2>1. Min(places) \in Nat /\ Min(places) > p
        BY <1>2, <1>4, MinIsLeast
    <2> QED BY <1>4, <2>1 DEF FirstOf, places
<1> QED BY <1>3, <1>4

(* The dashes made plain and the marks normalized.                         *)
LEMMA Plain ==
    ASSUME NEW text \in Seq(Marks)
    PROVE  LET t == NormalizeCard(text)
               plain == NormalizeCard(plainDashes(text))
           IN /\ plain \in Seq(Marks) /\ Len(plain) = Len(t) /\ t \in Seq(Marks) /\ Len(t) \in Nat
              /\ \A i \in 1..Len(t) : plain[i] = IF t[i] = EnDash THEN Dash ELSE t[i]
<1> DEFINE N == Len(text)
           dashed == plainDashes(text)
           t == NormalizeCard(text)
           plain == NormalizeCard(dashed)
<1>1. N \in Nat /\ DOMAIN text = 1..N /\ Dash \in Marks
    BY MarksHold DEF editionDashes
<1>2. dashed = [i \in 1..N |-> IF text[i] = EnDash THEN Dash ELSE text[i]]
    BY <1>1 DEF plainDashes
<1>3. /\ dashed \in Seq(Marks) /\ Len(dashed) = N
      /\ \A i \in 1..N : dashed[i] = IF text[i] = EnDash THEN Dash ELSE text[i]
    <2>1. \A i \in 1..N : (IF text[i] = EnDash THEN Dash ELSE text[i]) \in Marks
        BY <1>1
    <2> HIDE DEF dashed
    <2>2. dashed \in Seq(Marks) /\ Len(dashed) = N
        BY <1>1, <1>2, <2>1
    <2> QED BY <1>2, <2>2
<1> HIDE DEF dashed
<1>4. /\ t \in Seq(Marks) /\ Len(t) = N
      /\ \A i \in 1..N : t[i] = IF text[i] = Loud THEN "k" ELSE text[i]
    BY Normalized
<1>5. /\ plain \in Seq(Marks) /\ Len(plain) = N
      /\ \A i \in 1..N : plain[i] = IF dashed[i] = Loud THEN "k" ELSE dashed[i]
    BY <1>3, Normalized
<1> HIDE DEF t, plain
<1>6. Dash # Loud /\ EnDash # Loud /\ EnDash # "k"
    BY DEF Dash, EnDash, Loud
<1>7. \A i \in 1..N : plain[i] = IF t[i] = EnDash THEN Dash ELSE t[i]
    BY <1>3, <1>4, <1>5, <1>6
<1> QED BY <1>1, <1>4, <1>5, <1>7 DEF t, plain, dashed

LEMMA BareMarks ==
    ASSUME NEW n, Bare(n)
    PROVE  /\ n \in Seq(Marks) /\ Len(n) \in Nat \ {0} /\ DOMAIN n = 1..Len(n)
           /\ \A i \in 1..Len(n) : /\ n[i] \in Marks /\ n[i] \notin Quotes /\ n[i] \notin {Bracket}
                                    /\ n[i] \notin {Dash} /\ n[i] \notin {EnDash}
<1> DEFINE Plainest == Pieces \union Codes \union {Space}
<1>1. \A mark \in Plainest : /\ mark \in Marks /\ mark \notin Quotes /\ mark \notin {Bracket}
                             /\ mark \notin {Dash} /\ mark \notin {EnDash}
    <2>1. Plainest \subseteq Marks
        BY DEF Marks, Gaps
    <2>2. Plainest \intersect Quotes = {}
        BY DEF Pieces, Codes, Space, Quotes, Opening, Closing, Straight
    <2>3. Bracket \notin Plainest /\ Dash \notin Plainest /\ EnDash \notin Plainest
        BY DEF Pieces, Codes, Space, Bracket, Dash, EnDash
    <2> HIDE DEF Plainest
    <2> QED BY <2>1, <2>2, <2>3
<1>2. n \in Seq(Plainest) /\ n # <<>>
    BY DEF Bare
<1> HIDE DEF Plainest
<1>3. Len(n) \in Nat /\ DOMAIN n = 1..Len(n) /\ \A i \in 1..Len(n) : n[i] \in Plainest
    BY <1>2
<1>4. Len(n) # 0
    BY <1>2
<1>5. n \in Seq(Marks)
    BY <1>1, <1>3, <1>2
<1> QED BY <1>1, <1>3, <1>4, <1>5

LEMMA NothingQuoted ==
    ASSUME NEW t, \A i \in DOMAIN t : t[i] \notin Quotes
    PROVE  readQuotedName(t) = <<>>
<1> DEFINE from(n) == FirstOf({quotePairs[n][1]}, t)
<1>1. \A n \in DOMAIN quotePairs : from(n) = 0
    <2> SUFFICES ASSUME NEW n \in DOMAIN quotePairs PROVE from(n) = 0
        OBVIOUS
    <2>1. quotePairs[n][1] \in Quotes
        BY MarksHold DEF Quotes
    <2> QED BY <2>1, FirstNone
<1>2. \A n \in DOMAIN quotePairs : ~(FirstOf({quotePairs[n][1]}, t) > 0)
    BY <1>1
<1> QED BY <1>2 DEF readQuotedName

(* A name and nothing more is not cut.                                     *)
LEMMA BareStays ==
    ASSUME NEW n, Bare(n)
    PROVE  trimPrintingTail(n) = n
<1>1. \A b \in editionBrackets : FirstOf({b}, n) = 0
    BY BareMarks, FirstNone DEF editionBrackets
<1>2. \A d \in editionDashes : FirstOf({d}, n) = 0
    BY BareMarks, FirstNone DEF editionDashes
<1> DEFINE brackets == {FirstOf({b}, n) : b \in editionBrackets}
           dashes == {i \in {FirstOf({d}, n) : d \in editionDashes} : OpensWithCode(After(n, i))}
           cuts == {i \in brackets \union dashes : i > 1}
<1>3. brackets \subseteq {0} /\ dashes \subseteq {0}
    BY <1>1, <1>2
<1> HIDE DEF brackets, dashes
<1>4. cuts = {}
    <2> SUFFICES ASSUME NEW i \in cuts PROVE FALSE
        OBVIOUS
    <2>1. i \in brackets \union dashes /\ i > 1
        OBVIOUS
    <2>2. i = 0
        BY <1>3, <2>1
    <2> QED BY <2>1, <2>2
<1> QED BY <1>4 DEF trimPrintingTail, brackets, dashes, cuts

(* What follows a name is cut when it begins with a bracket, or with a     *)
(* dash and a code.                                                        *)
LEMMA TailIsCut ==
    ASSUME NEW n, Bare(n), NEW t \in Seq(Marks), \A i \in DOMAIN t : t[i] \notin {EnDash},
           Len(n) + 1 <= Len(t), \A k \in 1..Len(n) : t[k] = n[k],
           \/ t[Len(n) + 1] = Bracket
           \/ t[Len(n) + 1] = Dash /\ OpensWithCode(After(t, Len(n) + 1))
    PROVE  trimPrintingTail(t) = n
<1> DEFINE cut == Len(n) + 1
           brackets == {FirstOf({b}, t) : b \in editionBrackets}
           dashes == {i \in {FirstOf({d}, t) : d \in editionDashes} : OpensWithCode(After(t, i))}
           cuts == {i \in brackets \union dashes : i > 1}
<1>1. /\ Len(n) \in Nat \ {0} /\ Len(t) \in Nat /\ DOMAIN t = 1..Len(t) /\ cut \in DOMAIN t /\ cut \in Nat
      /\ cut > 1 /\ cut - 1 = Len(n)
    BY BareMarks
<1>2. \A k \in 1..(cut - 1) : t[k] \notin {Bracket} /\ t[k] \notin {Dash}
    BY <1>1, BareMarks
<1>3. FirstOf({EnDash}, t) = 0
    BY FirstNone
<1>4. t[cut] = Bracket \/ (t[cut] = Dash /\ OpensWithCode(After(t, cut)))
    OBVIOUS
<1>5. Bracket # Dash
    BY DEF Bracket, Dash
<1> HIDE DEF cut
<1>6. \A mark \in {Bracket, Dash} : IF t[cut] = mark THEN FirstOf({mark}, t) = cut
                                    ELSE FirstOf({mark}, t) = 0
                                            \/ (FirstOf({mark}, t) \in Nat /\ FirstOf({mark}, t) > cut)
    <2> SUFFICES ASSUME NEW mark \in {Bracket, Dash}
                 PROVE  IF t[cut] = mark THEN FirstOf({mark}, t) = cut
                        ELSE FirstOf({mark}, t) = 0
                                \/ (FirstOf({mark}, t) \in Nat /\ FirstOf({mark}, t) > cut)
        OBVIOUS
    <2>1. \A k \in 1..(cut - 1) : t[k] \notin {mark}
        BY <1>2
    <2>2. CASE t[cut] = mark
        <3>1. t[cut] \in {mark}
            BY <2>2
        <3> QED BY <1>1, <2>1, <2>2, <3>1, FirstIs
    <2>3. CASE t[cut] # mark
        <3>1. \A k \in 1..cut : t[k] \notin {mark}
            BY <1>1, <2>1, <2>3
        <3> QED BY <1>1, <2>3, <3>1, FirstLater
    <2> QED BY <2>2, <2>3
<1> DEFINE bracket == FirstOf({Bracket}, t)
           dash == FirstOf({Dash}, t)
<1>7. brackets = {bracket} /\ dashes = {i \in {dash, 0} : OpensWithCode(After(t, i))}
    <2>1. brackets = {bracket}
        BY DEF editionBrackets
    <2>2. {FirstOf({d}, t) : d \in editionDashes} = {dash, 0}
        BY <1>3 DEF editionDashes
    <2> QED BY <2>1, <2>2
<1> HIDE DEF bracket, dash, brackets, dashes
<1>8. /\ bracket = cut \/ bracket = 0 \/ (bracket \in Nat /\ bracket > cut)
      /\ dash = cut \/ dash = 0 \/ (dash \in Nat /\ dash > cut)
      /\ bracket = cut \/ (dash = cut /\ OpensWithCode(After(t, cut)))
    BY <1>4, <1>5, <1>6 DEF bracket, dash
<1>9. cut \in cuts
    BY <1>1, <1>7, <1>8
<1>10. \A i \in cuts : i \in Nat /\ cut <= i
    BY <1>1, <1>7, <1>8
<1> HIDE DEF cuts
<1>11. cuts # {} /\ Min(cuts) = cut
    <2>1. cuts \in SUBSET Nat
        BY <1>10
    <2> QED BY <1>9, <1>10, <2>1, MinIs
<1>12. trimPrintingTail(t) = SubSeq(t, 1, cut - 1)
    BY <1>11 DEF trimPrintingTail, cuts, brackets, dashes
<1>13. SubSeq(t, 1, Len(n)) = n
    <2>1. /\ SubSeq(t, 1, Len(n)) \in Seq(Marks) /\ Len(SubSeq(t, 1, Len(n))) = Len(n)
          /\ \A k \in 1..Len(n) : SubSeq(t, 1, Len(n))[k] = t[k]
        BY <1>1
    <2> QED BY <2>1, BareMarks, SameList
<1> QED BY <1>1, <1>12, <1>13

LEMMA PartOf ==
    ASSUME NEW S, NEW t \in Seq(S), NEW i \in Nat, NEW b \in Nat, i <= b, b <= Len(t)
    PROVE  /\ SubSeq(t, i + 1, b) \in Seq(S) /\ Len(SubSeq(t, i + 1, b)) = b - i
           /\ \A k \in 1..(b - i) : SubSeq(t, i + 1, b)[k] = t[i + k]
<1> DEFINE part == SubSeq(t, i + 1, b)
<1>1. Len(t) \in Nat /\ \A k \in (i + 1)..b : t[k] \in S
    OBVIOUS
<1>2. part \in Seq(S) /\ Len(part) = b - i
    BY <1>1
<1>3. \A k \in 1..(b - i) : part[k] = t[(i + 1) + k - 1]
    BY <1>1
<1>4. \A k \in 1..(b - i) : (i + 1) + k - 1 = i + k
    OBVIOUS
<1> HIDE DEF part
<1>5. \A k \in 1..(b - i) : part[k] = t[i + k]
    BY <1>3, <1>4
<1> QED BY <1>2, <1>5 DEF part

(* A name between the only quotes of a title is what is read.              *)
LEMMA NameQuoted ==
    ASSUME NEW n, Bare(n), NEW t \in Seq(Marks), NEW pair \in {1, 2}, NEW i \in Nat \ {0},
           i + Len(n) + 1 <= Len(t),
           t[i] = quotePairs[pair][1], t[i + Len(n) + 1] = quotePairs[pair][2],
           \A k \in 1..Len(n) : t[i + k] = n[k],
           \A j \in DOMAIN t : t[j] \in Quotes => j = i \/ j = i + Len(n) + 1
    PROVE  readQuotedName(t) = n
<1> DEFINE L == Len(n)
           rest == After(t, i)
           from(m) == FirstOf({quotePairs[m][1]}, t)
           to(m) == FirstOf({quotePairs[m][2]}, After(t, from(m)))
           found == {m \in DOMAIN quotePairs : from(m) > 0 /\ to(m) > 1}
<1>1. L \in Nat \ {0} /\ Len(t) \in Nat /\ DOMAIN t = 1..Len(t) /\ i \in DOMAIN t /\ i + L + 1 \in DOMAIN t
    BY BareMarks
<1>2. quotePairs[pair][1] \in Quotes /\ quotePairs[pair][2] \in Quotes
    BY MarksHold DEF Quotes
<1>3. from(pair) = i
    <2>1. \A j \in 1..(i - 1) : t[j] \notin {quotePairs[pair][1]}
        BY <1>1, <1>2
    <2>2. t[i] \in {quotePairs[pair][1]}
        OBVIOUS
    <2> QED BY <1>1, <2>1, <2>2, FirstIs
<1>4. rest \in Seq(Marks) /\ Len(rest) = Len(t) - i /\ \A k \in 1..(Len(t) - i) : rest[k] = t[i + k]
    <2>1. i \in Nat /\ Len(t) \in Nat /\ i <= Len(t) /\ Len(t) <= Len(t)
        BY <1>1
    <2>2. rest = SubSeq(t, i + 1, Len(t))
        BY DEF After
    <2> HIDE DEF rest
    <2> QED BY <2>1, <2>2, PartOf
<1> HIDE DEF rest
<1>5. to(pair) = L + 1
    <2> DEFINE marks == {quotePairs[pair][2]}
               last == L + 1
    <2>1. last \in 1..(Len(t) - i) /\ i + last = i + L + 1 /\ DOMAIN rest = 1..(Len(t) - i)
        BY <1>1, <1>4
    <2>2. rest[last] \in marks
        BY <1>4, <2>1
    <2>3. ASSUME NEW j \in 1..(last - 1) PROVE rest[j] \notin marks
        <3>1. j \in 1..L /\ j \in 1..(Len(t) - i)
            BY <1>1
        <3>2. rest[j] = n[j] /\ n[j] \notin Quotes
            BY <1>4, <3>1, BareMarks
        <3> QED BY <1>2, <3>2
    <2> HIDE DEF marks, last
    <2>4. FirstOf(marks, rest) = last
        BY <1>4, <2>1, <2>2, <2>3, FirstIs
    <2> QED BY <1>3, <2>4 DEF rest, marks, last
<1>6. pair = 2 => from(1) = 0
    <2> SUFFICES ASSUME pair = 2 PROVE from(1) = 0
        OBVIOUS
    <2>1. \A j \in DOMAIN t : t[j] \notin {quotePairs[1][1]}
        <3> SUFFICES ASSUME NEW j \in DOMAIN t, t[j] = Opening PROVE FALSE
            BY MarksHold
        <3>1. j = i \/ j = i + L + 1
            BY DEF Quotes
        <3>2. t[j] = Straight
            BY <3>1, MarksHold
        <3> QED BY <3>2 DEF Opening, Straight
    <2> QED BY <2>1, FirstNone
<1> HIDE DEF from, to, L
<1>7. pair \in found /\ \A m \in found : m \in Nat /\ pair <= m
    <2>1. DOMAIN quotePairs = {1, 2} /\ from(pair) > 0 /\ to(pair) > 1
        BY <1>1, <1>3, <1>5, MarksHold
    <2>2. pair \in found
        BY <2>1
    <2>3. ASSUME NEW m \in found PROVE m \in Nat /\ pair <= m
        <3>1. m \in {1, 2} /\ from(m) > 0
            BY <2>1
        <3> QED BY <1>6, <3>1
    <2> QED BY <2>2, <2>3
<1> HIDE DEF found
<1>8. found # {} /\ Min(found) = pair
    <2>1. found \in SUBSET Nat
        BY <1>7
    <2> QED BY <1>7, <2>1, MinIs
<1>9. readQuotedName(t) = SubSeq(t, from(pair) + 1, from(pair) + to(pair) - 1)
    BY <1>8 DEF readQuotedName, found, from, to
<1>10. readQuotedName(t) = SubSeq(t, i + 1, i + L)
    <2>1. i + (L + 1) - 1 = i + L
        BY <1>1
    <2> QED BY <1>3, <1>5, <1>9, <2>1
<1>11. SubSeq(t, i + 1, i + L) = n
    <2> DEFINE part == SubSeq(t, i + 1, i + L)
    <2>1. i + L \in Nat /\ i <= i + L /\ i + L <= Len(t) /\ (i + L) - i = L
        BY <1>1
    <2>2. part \in Seq(Marks) /\ Len(part) = L /\ \A k \in 1..L : part[k] = t[i + k]
        BY <1>1, <2>1, PartOf
    <2> HIDE DEF part
    <2>3. part = n
        BY <2>2, BareMarks, SameList DEF L
    <2> QED BY <2>3 DEF part
<1> QED BY <1>10, <1>11

LEMMA StartMeans ==
    ASSUME NEW S, NEW t \in Seq(S), NEW p \in Seq(S), StartsWith(t, p)
    PROVE  \A k \in 1..Len(p) : t[k] = p[k]
<1>1. Len(p) \in Nat /\ Len(t) \in Nat /\ Len(p) <= Len(t) /\ SubSeq(t, 1, 1 + Len(p) - 1) = p
    BY DEF StartsWith, At
<1>2. 1 + Len(p) - 1 = Len(p)
    BY <1>1
<1>3. \A k \in 1..Len(p) : SubSeq(t, 1, Len(p))[k] = t[k]
    BY <1>1
<1> QED BY <1>1, <1>2, <1>3

LEMMA QuotedAt ==
    ASSUME NEW n \in Seq(Marks), NEW t \in Seq(Marks), quotesCardName(t, n)
    PROVE  \E pair \in {1, 2}, i \in Nat \ {0} :
              /\ i + Len(n) + 1 <= Len(t)
              /\ t[i] = quotePairs[pair][1] /\ t[i + Len(n) + 1] = quotePairs[pair][2]
              /\ \A k \in 1..Len(n) : t[i + k] = n[k]
<1>1. PICK pair \in {1, 2} : Occurs(<<quotePairs[pair][1]>> \o n \o <<quotePairs[pair][2]>>, t)
    BY MarksHold DEF quotesCardName
<1> DEFINE a == quotePairs[pair][1]
           z == quotePairs[pair][2]
           p == <<a>> \o n \o <<z>>
           L == Len(n)
<1>2. a \in Marks /\ z \in Marks /\ L \in Nat /\ Len(t) \in Nat
    BY MarksHold
<1> HIDE DEF a, z
<1>3. /\ p \in Seq(Marks) /\ Len(p) = L + 2 /\ p[1] = a /\ p[L + 2] = z
      /\ \A k \in 1..L : p[1 + k] = n[k]
    BY <1>2, Enclosed
<1>4. Occurs(p, t)
    BY <1>1 DEF a, z
<1> HIDE DEF p
<1>5. PICK i \in Nat \ {0} : i + Len(p) - 1 <= Len(t) /\ At(p, t, i)
    BY <1>3, <1>4, OccursMeans
<1>6. \A k \in 1..(L + 2) : t[i + k - 1] = p[k]
    <2>1. p \in Seq(Marks)
        BY <1>3
    <2>2. \A k \in 1..Len(p) : t[i + k - 1] = p[k]
        BY <1>5, <2>1, AtMeans
    <2> QED BY <1>3, <2>2
<1>7. i + L + 1 <= Len(t)
    BY <1>2, <1>3, <1>5
<1>8. t[i] = a
    <2>1. 1 \in 1..(L + 2) /\ i + 1 - 1 = i
        BY <1>2
    <2> QED BY <1>3, <1>6, <2>1
<1>9. t[i + L + 1] = z
    <2>1. L + 2 \in 1..(L + 2) /\ i + (L + 2) - 1 = i + L + 1
        BY <1>2
    <2> QED BY <1>3, <1>6, <2>1
<1>10. ASSUME NEW k \in 1..L PROVE t[i + k] = n[k]
    <2>1. 1 + k \in 1..(L + 2) /\ i + (1 + k) - 1 = i + k
        BY <1>2
    <2> QED BY <1>3, <1>6, <2>1
<1> QED BY <1>7, <1>8, <1>9, <1>10 DEF a, z

(* ReadCardKey: each printing of a card that an exact question accepts     *)
(* (MatchesCard) has the key of the card.                                  *)
THEOREM PrintingsShareKey ==
    ASSUME NEW text \in Seq(Marks), NEW card \in Seq(Marks), Bare(NormalizeCard(card)),
           MatchesCard(text, card), QuotesOnlyTheName(NormalizeCard(text), NormalizeCard(card))
    PROVE  ReadCardKey(text) = NormalizeCard(card)
<1> DEFINE n == NormalizeCard(card)
           t == NormalizeCard(text)
           plain == NormalizeCard(plainDashes(text))
           L == Len(n)
           quotes == {i \in DOMAIN t : t[i] \in Quotes}
<1>1. /\ plain \in Seq(Marks) /\ Len(plain) = Len(t) /\ t \in Seq(Marks) /\ Len(t) \in Nat
      /\ \A i \in 1..Len(t) : plain[i] = IF t[i] = EnDash THEN Dash ELSE t[i]
    BY Plain
<1>2. /\ n \in Seq(Marks) /\ L \in Nat \ {0} /\ DOMAIN n = 1..L /\ n # <<>>
      /\ \A i \in 1..L : n[i] \notin Quotes /\ n[i] # EnDash
    <2>1. Bare(n)
        OBVIOUS
    <2> HIDE DEF n
    <2> QED BY <2>1, BareMarks DEF Bare
<1>3. \/ t = n
      \/ \E bracket \in editionBrackets : StartsWith(t, Append(n, bracket))
      \/ followsCode(t, n)
      \/ quotesCardName(t, n)
    BY DEF MatchesCard
<1>4. quotes = {} \/ (Cardinality(quotes) = 2 /\ quotesCardName(t, n))
    BY DEF QuotesOnlyTheName, Quotes
<1>5. ReadCardKey(text) = LET quoted == readQuotedName(plain)
                          IN IF quoted # <<>> THEN quoted ELSE trimPrintingTail(plain)
    BY DEF ReadCardKey
<1>6. Bare(n)
    OBVIOUS
<1> HIDE DEF n, t, plain
<1>7. DOMAIN plain = 1..Len(t) /\ DOMAIN t = 1..Len(t)
    BY <1>1
<1>8. /\ \A i \in DOMAIN plain : plain[i] \notin {EnDash}
      /\ \A i \in DOMAIN plain : plain[i] \in Quotes => t[i] \in Quotes /\ plain[i] = t[i]
      /\ \A i \in DOMAIN plain : t[i] \in Quotes => plain[i] = t[i]
    BY <1>1, <1>7 DEF Dash, EnDash, Quotes, Opening, Closing, Straight
<1>9. CASE quotes = {}
    <2>1. readQuotedName(plain) = <<>>
        BY <1>7, <1>8, <1>9, NothingQuoted
    <2>2. ~quotesCardName(t, n)
        <3> SUFFICES ASSUME quotesCardName(t, n) PROVE FALSE
            OBVIOUS
        <3>1. PICK pair \in {1, 2}, i \in Nat \ {0} :
                 i + L + 1 <= Len(t) /\ t[i] = quotePairs[pair][1]
            <4>1. t \in Seq(Marks) /\ n \in Seq(Marks)
                BY <1>1, <1>2
            <4> QED BY <4>1, QuotedAt
        <3>2. i \in DOMAIN t /\ quotePairs[pair][1] \in Quotes
            BY <1>1, <1>2, <1>7, <3>1, MarksHold DEF Quotes
        <3> QED BY <1>9, <3>1, <3>2
    <2>3. CASE t = n
        <3>1. plain = n
            BY <1>1, <1>2, <2>3, SameList
        <3>2. trimPrintingTail(plain) = n
            BY <1>6, <3>1, BareStays
        <3>3. ReadCardKey(text) = n
            BY <1>5, <2>1, <3>2
        <3> QED BY <3>3 DEF n
    <2>4. ASSUME NEW mark \in Marks, StartsWith(t, Append(n, mark))
          PROVE  /\ L + 1 <= Len(t) /\ t[L + 1] = mark /\ \A k \in 1..L : plain[k] = n[k]
        <3> DEFINE p == Append(n, mark)
        <3>1. /\ p \in Seq(Marks) /\ Len(p) = L + 1 /\ p[L + 1] = mark
              /\ \A k \in 1..L : p[k] = n[k]
            BY <1>2
        <3>2. Len(p) <= Len(t) /\ At(p, t, 1)
            BY <2>4 DEF StartsWith
        <3>3. \A k \in 1..Len(p) : t[k] = p[k]
            BY <1>1, <2>4, <3>1, StartMeans
        <3> HIDE DEF p
        <3>4. \A k \in 1..(L + 1) : t[k] = p[k]
            BY <3>1, <3>3
        <3>5. L + 1 <= Len(t) /\ L + 1 \in 1..(L + 1) /\ \A k \in 1..L : k \in 1..(L + 1) /\ k \in 1..Len(t)
            BY <1>1, <1>2, <3>1, <3>2
        <3> QED BY <1>1, <1>2, <3>1, <3>4, <3>5
    <2>5. CASE \E bracket \in editionBrackets : StartsWith(t, Append(n, bracket))
        <3>1. StartsWith(t, Append(n, Bracket)) /\ Bracket \in Marks
            BY <2>5, MarksHold DEF editionBrackets
        <3>2. L + 1 <= Len(t) /\ t[L + 1] = Bracket /\ \A k \in 1..L : plain[k] = n[k]
            BY <2>4, <3>1
        <3>3. plain[L + 1] = Bracket /\ L + 1 <= Len(plain)
            <4>1. L + 1 \in 1..Len(t)
                BY <1>1, <1>2, <3>2
            <4>2. Bracket # EnDash
                BY DEF Bracket, EnDash
            <4> QED BY <1>1, <3>2, <4>1, <4>2
        <3>4. trimPrintingTail(plain) = n
            BY <1>1, <1>6, <1>8, <3>2, <3>3, TailIsCut
        <3>5. ReadCardKey(text) = n
            BY <1>5, <2>1, <3>4
        <3> QED BY <3>5 DEF n
    <2>6. CASE followsCode(t, n)
        <3>1. PICK dash \in editionDashes :
                 StartsWith(t, Append(n, dash)) /\ OpensWithCode(After(t, L + 1))
            BY <2>6 DEF followsCode
        <3>2. dash \in Marks /\ dash \in {Dash, EnDash}
            BY MarksHold DEF editionDashes
        <3>3. L + 1 <= Len(t) /\ t[L + 1] = dash /\ \A k \in 1..L : plain[k] = n[k]
            BY <2>4, <3>1, <3>2
        <3>4. plain[L + 1] = Dash /\ L + 1 <= Len(plain)
            BY <1>1, <1>2, <3>2, <3>3
        <3>5. OpensWithCode(After(plain, L + 1))
            <4> DEFINE M == Len(t) - (L + 1)
                       before == After(t, L + 1)
                       after == After(plain, L + 1)
            <4>1. L + 1 \in Nat /\ L + 1 <= Len(t) /\ Len(t) \in Nat /\ M \in Nat
                BY <1>1, <1>2, <3>3
            <4>2. /\ before \in Seq(Marks) /\ Len(before) = M
                  /\ \A k \in 1..M : before[k] = t[(L + 1) + k]
                BY <1>1, <4>1, PartOf DEF After
            <4>3. /\ after \in Seq(Marks) /\ Len(after) = M
                  /\ \A k \in 1..M : after[k] = plain[(L + 1) + k]
                BY <1>1, <4>1, PartOf DEF After
            <4>4. OpensWithCode(before)
                BY <3>1
            <4> HIDE DEF before, after
            <4>5. DOMAIN before = 1..M /\ DOMAIN after = 1..M
                BY <4>2, <4>3
            <4>6. \A k \in 1..M : (L + 1) + k \in 1..Len(t)
                BY <4>1
            <4>7. \A k \in 1..M : after[k] = IF before[k] = EnDash THEN Dash ELSE before[k]
                BY <1>1, <4>2, <4>3, <4>6
            <4>8. EnDash \in Gaps /\ Dash \in Gaps /\ EnDash \notin Codes
                BY DEF Gaps, editionDashes, Codes, EnDash
            <4>9. \A k \in 1..M : before[k] \in Codes => after[k] \in Codes
                BY <4>7, <4>8
            <4>10. \A k \in 1..M : before[k] \notin Gaps \union editionBrackets
                                      => after[k] \notin Gaps \union editionBrackets
                BY <4>7, <4>8
            <4>11. PICK i \in 1..M : /\ before[i] \in Codes
                                     /\ \A j \in 1..i : before[j] \notin Gaps \union editionBrackets
                BY <4>4, <4>5 DEF OpensWithCode
            <4>12. \A j \in 1..i : j \in 1..M
                BY <4>1
            <4>13. OpensWithCode(after)
                BY <4>5, <4>9, <4>10, <4>11, <4>12 DEF OpensWithCode
            <4> QED BY <4>13 DEF after
        <3>6. trimPrintingTail(plain) = n
            BY <1>1, <1>6, <1>8, <3>3, <3>4, <3>5, TailIsCut
        <3>7. ReadCardKey(text) = n
            BY <1>5, <2>1, <3>6
        <3> QED BY <3>7 DEF n
    <2> QED BY <1>3, <2>2, <2>3, <2>5, <2>6
<1>10. CASE Cardinality(quotes) = 2 /\ quotesCardName(t, n)
    <2>1. PICK pair \in {1, 2}, i \in Nat \ {0} :
             /\ i + L + 1 <= Len(t)
             /\ t[i] = quotePairs[pair][1] /\ t[i + L + 1] = quotePairs[pair][2]
             /\ \A k \in 1..L : t[i + k] = n[k]
        BY <1>1, <1>2, <1>10, QuotedAt
    <2> DEFINE j == i + L + 1
    <2>2. i \in DOMAIN t /\ j \in DOMAIN t /\ i # j
        BY <1>1, <1>2, <1>7, <2>1
    <2>3. quotePairs[pair][1] \in Quotes /\ quotePairs[pair][2] \in Quotes
        BY MarksHold DEF Quotes
    <2>4. i \in quotes /\ j \in quotes
        BY <2>1, <2>2, <2>3
    <2> HIDE DEF j
    <2>5. quotes = {i, j}
        <3>1. quotes \subseteq 1..Len(t)
            BY <1>7
        <3>2. IsFiniteSet(quotes)
            BY <1>1, <3>1, PlacesCount, FS_Subset
        <3> HIDE DEF quotes
        <3>3. IsFiniteSet({j}) /\ Cardinality({j}) = 1
            BY FS_Singleton
        <3>4. Cardinality({j} \union {i}) = 2
            <4>1. i \notin {j}
                BY <2>2
            <4> DEFINE both == {j} \union {i}
            <4>2. Cardinality(both) = Cardinality({j}) + 1
                BY <3>3, <4>1, FS_AddElement
            <4>3. Cardinality(both) = 1 + 1
                BY <3>3, <4>2
            <4> HIDE DEF both
            <4>4. Cardinality(both) = 2
                BY <4>3
            <4> QED BY <4>4 DEF both
        <3>5. {j} \union {i} = {i, j} /\ {i, j} \subseteq quotes
            BY <2>4
        <3> QED BY <1>10, <3>2, <3>4, <3>5, FS_Subset
    <2>6. /\ plain[i] = quotePairs[pair][1] /\ plain[j] = quotePairs[pair][2]
          /\ \A k \in DOMAIN plain : plain[k] \in Quotes => k = i \/ k = j
        <3>1. i \in DOMAIN plain /\ j \in DOMAIN plain
            BY <1>7, <2>2
        <3>2. \A k \in DOMAIN plain : plain[k] \in Quotes => k \in quotes
            BY <1>7, <1>8
        <3> HIDE DEF quotes
        <3>3. \A k \in DOMAIN plain : plain[k] \in Quotes => k = i \/ k = j
            BY <2>5, <3>2
        <3>4. t[i] \in Quotes /\ t[j] \in Quotes
            BY <2>1, <2>3 DEF j
        <3> QED BY <1>8, <2>1, <3>1, <3>3, <3>4 DEF j
    <2>7. \A k \in 1..L : plain[i + k] = n[k]
        <3> SUFFICES ASSUME NEW k \in 1..L PROVE plain[i + k] = n[k]
            OBVIOUS
        <3>1. i + k \in 1..Len(t)
            BY <1>1, <1>2, <2>1
        <3> QED BY <1>1, <1>2, <2>1, <3>1
    <2>8. readQuotedName(plain) = n
        <3>1. /\ plain \in Seq(Marks) /\ i + Len(n) + 1 <= Len(plain)
              /\ \A k \in DOMAIN plain : plain[k] \in Quotes => k = i \/ k = i + Len(n) + 1
              /\ plain[i + Len(n) + 1] = quotePairs[pair][2]
            BY <1>1, <2>1, <2>6 DEF j
        <3> QED BY <1>6, <2>6, <2>7, <3>1, NameQuoted
    <2>9. ReadCardKey(text) = n
        BY <1>2, <1>5, <2>8
    <2> QED BY <2>9 DEF n
<1> QED BY <1>4, <1>9, <1>10

LEMMA NameIsItsKey ==
    ASSUME NEW card \in Seq(Marks), Bare(NormalizeCard(card))
    PROVE  ReadCardKey(card) = NormalizeCard(card)
<1> DEFINE n == NormalizeCard(card)
           plain == NormalizeCard(plainDashes(card))
<1>1. /\ plain \in Seq(Marks) /\ Len(plain) = Len(n) /\ n \in Seq(Marks) /\ Len(n) \in Nat
      /\ \A i \in 1..Len(n) : plain[i] = IF n[i] = EnDash THEN Dash ELSE n[i]
    BY Plain
<1>2. Bare(n)
    OBVIOUS
<1>3. ReadCardKey(card) = LET quoted == readQuotedName(plain)
                          IN IF quoted # <<>> THEN quoted ELSE trimPrintingTail(plain)
    BY DEF ReadCardKey
<1> HIDE DEF n, plain
<1>4. \A i \in 1..Len(n) : n[i] \notin {EnDash} /\ n[i] \notin Quotes
    BY <1>2, BareMarks
<1>5. plain = n
    BY <1>1, <1>4, SameList
<1>6. readQuotedName(n) = <<>> /\ trimPrintingTail(n) = n
    BY <1>1, <1>2, <1>4, NothingQuoted, BareStays
<1>7. ReadCardKey(card) = n
    BY <1>3, <1>5, <1>6
<1> QED BY <1>7 DEF n

-----------------------------------------------------------------------------
(* What TLC types, for every bound                                         *)

(* Titles are made of the marks, names and questions are those of the      *)
(* instance, and the keys of its stores are domains.                       *)
Shaped ==
    /\ title \in Seq(Marks) /\ name \in Names /\ query \in Queries /\ items \in Seq(Offers)
    /\ config = [games |-> config.games, providers |-> config.providers, stores |-> config.stores]
    /\ DOMAIN config.stores \subseteq {"d1", "d2"}

LEMMA ShapedFirst == Init => Shaped
<1> SUFFICES ASSUME Init PROVE Shaped
    OBVIOUS
<1>1. <<>> \in Seq(Marks) /\ <<>> \in Seq(Offers)
    OBVIOUS
<1>2. config.stores = <<>> /\ config.games = <<>> /\ config.providers = <<>>
    BY DEF Init, NoEntries
<1>3. DOMAIN <<>> = {}
    OBVIOUS
<1> QED BY <1>1, <1>2, <1>3 DEF Init, Shaped, NoEntries

LEMMA ShapedStays == Shaped /\ [Next]_vars => Shaped'
<1> SUFFICES ASSUME Shaped, [Next]_vars PROVE Shaped'
    OBVIOUS
<1>1. CASE TypeMark
    BY <1>1 DEF TypeMark, Shaped
<1>2. CASE AddOffer
    BY <1>2 DEF AddOffer, Shaped
<1>3. CASE WriteGames
    BY <1>3 DEF WriteGames, Shaped
<1>4. CASE WriteStore
    <2>1. PICK d \in {"d1", "d2"}, entry \in StoreEntries :
             config' = [config EXCEPT !.stores = Also(config.stores, d, entry)]
        BY <1>4 DEF WriteStore
    <2>2. DOMAIN Also(config.stores, d, entry) = DOMAIN config.stores \union {d}
        BY DEF Also
    <2> HIDE DEF Also
    <2>3. config' = [games |-> config.games, providers |-> config.providers,
                     stores |-> Also(config.stores, d, entry)]
        BY <2>1 DEF Shaped
    <2> QED BY <1>4, <2>2, <2>3 DEF WriteStore, Shaped
<1>5. CASE WriteProvider
    BY <1>5 DEF WriteProvider, Shaped
<1>6. CASE UNCHANGED vars
    BY <1>6 DEF vars, Shaped
<1> QED BY <1>1, <1>2, <1>3, <1>4, <1>5, <1>6 DEF Next

(* The names of the instance begin with a piece.                           *)
LEMMA NamesRead == \A n \in Names : n \in Seq(Marks) /\ n[1] \notin Gaps
<1>1. {"k", "l", "K", Space, Dash} \subseteq Marks
    BY DEF Marks, Pieces, Loud, Gaps, editionDashes
<1>2. "k" \notin Gaps /\ "K" \notin Gaps
    BY DEF Gaps, editionDashes, Space, Dash, EnDash
<1>3. /\ <<"k">> \in Seq(Marks) /\ <<"k">>[1] = "k"
      /\ <<"K", Space, "l">> \in Seq(Marks) /\ <<"K", Space, "l">>[1] = "K"
      /\ <<"k", "l">> \in Seq(Marks) /\ <<"k", "l">>[1] = "k"
      /\ <<"k", Dash, "l">> \in Seq(Marks) /\ <<"k", Dash, "l">>[1] = "k"
    BY <1>1
<1> QED BY <1>2, <1>3 DEF Names

LEMMA AlwaysShaped == Spec => []Shaped
BY ShapedFirst, ShapedStays, PTL DEF Spec

(* Catalog: the selector and the search read every valid config alike,     *)
(* whatever the number of its stores and providers.                        *)
THEOREM NoDriftHolds == Spec => []NoDrift
<1>1. Shaped => NoDrift
    <2> SUFFICES ASSUME Shaped, ValidateConfig(config) PROVE SelectorAndSearchAgree(config)
        BY DEF NoDrift
    <2>1. DomainsOnly(config)
        BY DEF Shaped, DomainsOnly, ProviderTypes
    <2> QED BY <2>1, NoConfigDrifts
<1> QED BY <1>1, AlwaysShaped, PTL

(* Every offer of the instance comes unmarked, with a price or NoPrice.    *)
LEMMA NamedOffers ==
    ASSUME Shaped
    PROVE  /\ NameCards(items) \in Seq({NameCards(items)[i] : i \in DOMAIN items})
           /\ DOMAIN NameCards(items) = DOMAIN items
           /\ \A i \in DOMAIN items : Unmarked(NameCards(items)[i])
<1> DEFINE named == NameCards(items)
<1>1. Len(items) \in Nat /\ DOMAIN items = 1..Len(items) /\ \A i \in DOMAIN items : items[i] \in Offers
    BY DEF Shaped
<1>2. \A o \in Offers : Unmarked(o)
    <2> SUFFICES ASSUME NEW o \in Offers PROVE Unmarked(o)
        OBVIOUS
    <2> DEFINE cards == {<<"k">>} \X {"clp", "usd"} \X {1, 2, 5}
                           \union {<<"k", "l">>} \X {"clp"} \X {1, 5, NoPrice}
               offer(x) == [title |-> x[1], edition |-> <<>>, game |-> "magic", function |-> "",
                            product |-> "", key |-> <<>>, kind |-> "single", price |-> x[3],
                            currency |-> x[2], suspicious |-> FALSE]
    <2>1. PICK x \in cards : o = offer(x)
        <3> HIDE DEF cards, offer
        <3>1. Offers = {offer(x) : x \in cards}
            BY DEF Offers, cards, offer
        <3> QED BY <3>1
    <2>2. x[3] \in {1, 2, 5, NoPrice}
        <3>1. CASE x \in {<<"k">>} \X {"clp", "usd"} \X {1, 2, 5}
            BY <3>1
        <3>2. CASE x \in {<<"k", "l">>} \X {"clp"} \X {1, 5, NoPrice}
            BY <3>2
        <3> QED BY <3>1, <3>2
    <2> HIDE DEF cards
    <2>3. /\ DOMAIN o = {"title", "edition", "game", "function", "product", "key", "kind", "price",
                         "currency", "suspicious"}
          /\ o.price \in {1, 2, 5, NoPrice} /\ o.suspicious = FALSE
        BY <2>1, <2>2
    <2> QED BY <2>3 DEF Unmarked
<1>3. \A i \in DOMAIN items : named[i] = [items[i] EXCEPT !.key = readOfferKey(items[i])]
    BY DEF NameCards
<1>4. DOMAIN named = 1..Len(items) /\ named = [i \in 1..Len(items) |-> named[i]]
    BY <1>1 DEF NameCards
<1>5. \A i \in DOMAIN items : Unmarked(named[i])
    <2> SUFFICES ASSUME NEW i \in DOMAIN items PROVE Unmarked(named[i])
        OBVIOUS
    <2>1. Unmarked(items[i])
        BY <1>1, <1>2
    <2> HIDE DEF named
    <2>2. DOMAIN named[i] = DOMAIN items[i] /\ named[i].price = items[i].price
             /\ named[i].suspicious = items[i].suspicious
        BY <1>3, <2>1 DEF Unmarked
    <2> QED BY <2>1, <2>2 DEF Unmarked
<1> HIDE DEF named
<1>6. named \in Seq({named[i] : i \in DOMAIN items})
    BY <1>1, <1>4
<1> QED BY <1>1, <1>4, <1>5, <1>6 DEF named

(* OfferShaping: half of every price group stays trusted, whatever the     *)
(* length of the list and the percent that is configured.                  *)
THEOREM HalfTrustedHolds == Spec => []HalfTrusted
<1>1. Shaped => HalfTrusted
    <2> SUFFICES ASSUME Shaped PROVE HalfKeepTrust(NameCards(items), Percent, query)
        BY DEF HalfTrusted
    <2> DEFINE named == NameCards(items)
    <2>1. named \in Seq({named[i] : i \in DOMAIN items}) /\ \A i \in DOMAIN named : Unmarked(named[i])
        BY NamedOffers
    <2>2. Percent \in 0..100
        BY ShapingAssumption
    <2> HIDE DEF named
    <2>3. HalfKeepTrust(named, Percent, query)
        BY <2>1, <2>2, HalfKept
    <2> QED BY <2>3 DEF named
<1> QED BY <1>1, AlwaysShaped, PTL

(* OfferShaping: stock is asked for the cheapest trusted offers, whatever  *)
(* the length of the list and the number that is asked for.                *)
THEOREM CheapestHolds == Spec => []Cheapest
<1>1. Shaped => Cheapest
    <2> SUFFICES ASSUME Shaped PROVE CheapestTrusted(NameCards(items), Percent, query, Limit)
        BY DEF Cheapest
    <2> DEFINE named == NameCards(items)
    <2>1. named \in Seq({named[i] : i \in DOMAIN items}) /\ \A i \in DOMAIN named : Unmarked(named[i])
        BY NamedOffers
    <2>2. Limit \in Nat
        BY ShapingAssumption
    <2> HIDE DEF named
    <2>3. ASSUME NEW i \in DOMAIN named PROVE Priced(MarkSuspicious(named, Percent, query)[i])
        <3>1. "price" \in DOMAIN named[i] /\ named[i].price \in Nat \union {NoPrice}
            BY <2>1 DEF Unmarked
        <3>2. PICK mark : MarkSuspicious(named, Percent, query)[i] = [named[i] EXCEPT !.suspicious = mark]
            BY DEF MarkSuspicious
        <3>3. MarkSuspicious(named, Percent, query)[i].price = named[i].price
            BY <3>1, <3>2
        <3> QED BY <3>1, <3>3 DEF Priced
    <2>4. CheapestTrusted(named, Percent, query, Limit)
        BY <2>1, <2>2, <2>3, CheapestKept
    <2> QED BY <2>4 DEF named
<1> QED BY <1>1, AlwaysShaped, PTL

(* OfferTitles: wider questions keep what narrower ones keep, for titles   *)
(* of any length.                                                          *)
THEOREM WiderHolds == Spec => []Wider
<1>1. Shaped => Wider
    <2> SUFFICES ASSUME Shaped PROVE WiderKeepsNarrower(title, name)
        BY DEF Wider
    <2>1. name \in Seq(Marks) /\ (name # <<>> => name[1] \notin Gaps)
        BY NamesRead DEF Shaped
    <2>2. title \in Seq(Marks)
        BY DEF Shaped
    <2> QED BY <2>1, <2>2, MatchesContains, ContainsCovers DEF WiderKeepsNarrower
<1> QED BY <1>1, AlwaysShaped, PTL

LEMMA NamesBare ==
    ASSUME NEW n \in Names, \A i \in DOMAIN n : n[i] \notin editionDashes
    PROVE  Bare(NormalizeCard(n))
<1> DEFINE Plainest == Pieces \union Codes \union {Space}
<1>1. {"k", "l", Space} \subseteq Plainest /\ Loud = "K"
    BY DEF Pieces, Loud
<1>2. n # <<"k", Dash, "l">>
    <2>1. <<"k", Dash, "l">>[2] \in editionDashes /\ 2 \in DOMAIN <<"k", Dash, "l">>
        BY DEF editionDashes
    <2> QED BY <2>1
<1>3. Len(n) \in Nat \ {0} /\ \A i \in 1..Len(n) : n[i] \in {"k", "l", Space, Loud}
    BY <1>1, <1>2 DEF Names
<1>4. /\ NormalizeCard(n) \in Seq(Marks) /\ Len(NormalizeCard(n)) = Len(n)
      /\ \A i \in 1..Len(n) : NormalizeCard(n)[i] = IF n[i] = Loud THEN "k" ELSE n[i]
    BY NamesRead, Normalized
<1> DEFINE m == NormalizeCard(n)
<1> HIDE DEF m, Plainest
<1>5. \A i \in 1..Len(m) : m[i] \in Plainest
    BY <1>1, <1>3, <1>4 DEF m
<1>6. m \in Seq(Plainest) /\ m # <<>>
    BY <1>3, <1>4, <1>5 DEF m
<1> QED BY <1>6 DEF Bare, m, Plainest

(* OfferTitles: accepted printings of a card share one key, for titles of  *)
(* any length.                                                             *)
THEOREM OneKeyHolds == Spec => []OneKey
<1>1. Shaped => OneKey
    <2> SUFFICES ASSUME Shaped PROVE OneKeyPerCard(title, name)
        BY DEF OneKey
    <2> SUFFICES ASSUME MatchesCard(title, name),
                        QuotesOnlyTheName(NormalizeCard(title), NormalizeCard(name)),
                        \A i \in DOMAIN name : name[i] \notin editionDashes
                 PROVE  ReadCardKey(title) = ReadCardKey(name)
        BY DEF OneKeyPerCard
    <2>1. title \in Seq(Marks) /\ name \in Names
        BY DEF Shaped
    <2>2. name \in Seq(Marks) /\ Bare(NormalizeCard(name))
        BY <2>1, NamesRead, NamesBare
    <2> QED BY <2>1, <2>2, PrintingsShareKey, NameIsItsKey
<1> QED BY <1>1, AlwaysShaped, PTL

=============================================================================
