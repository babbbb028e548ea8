------------------------- MODULE OfferSearchProofs -------------------------
(***************************************************************************)
(* What OfferSearch keeps for every question, every number of stores and   *)
(* turns and every page size: the types, with the turns and the gate, and  *)
(* what an answer shows of the offers that came.  The first part is about  *)
(* lists: what the selections and the deduplication of OfferShaping give.  *)
(***************************************************************************)
EXTENDS OfferSearch, FiniteSetTheorems, TLAPS

-----------------------------------------------------------------------------
(* Lists                                                                   *)

(* A family of subsets of a finite set has a least member by inclusion:    *)
(* the induction that the lemmas on lists below are made of.               *)
LEMMA LeastSubset ==
    ASSUME NEW S, IsFiniteSet(S), NEW family, family # {}, \A T \in family : T \in SUBSET S
    PROVE  \E low \in family : \A T \in family : T \subseteq low => T = low
<1>1. family \subseteq FiniteSubsetsOf(S)
    BY FS_FiniteSubsetsOfFinite, Zenon
<1>2. IsWellFoundedOn(StrictSubsetOrdering(S), FiniteSubsetsOf(S))
    BY FS_StrictSubsetOrderingWellFounded, Zenon
<1>3. PICK least \in family : \A T \in family : <<T, least>> \notin StrictSubsetOrdering(S)
    BY <1>1, <1>2, WFMin, Zenon
<1> QED BY <1>3 DEF StrictSubsetOrdering

LEMMA SmallestOfFinite ==
    ASSUME NEW S \in SUBSET Nat, IsFiniteSet(S), S # {}
    PROVE  \E m \in S : \A k \in S : m <= k
<1> DEFINE family == {{k \in S : k <= m} : m \in S}
<1>1. \A T \in family : T \in SUBSET S
    OBVIOUS
<1>5. family # {}
    OBVIOUS
<1> HIDE DEF family
<1>2. PICK least \in family : \A T \in family : T \subseteq least => T = least
    <2>1. IsFiniteSet(S)
        OBVIOUS
    <2>2. \E low \in family : \A T \in family : T \subseteq low => T = low
        BY <2>1, <1>1, <1>5, LeastSubset
    <2> QED BY <2>2
<1>3. PICK m \in S : least = {k \in S : k <= m}
    BY DEF family
<1>4. ASSUME NEW k \in S, ~(m <= k) PROVE FALSE
    <2> DEFINE below == {j \in S : j <= k}
    <2>1. k <= m
        BY <1>4
    <2>2. below \subseteq least
        <3> SUFFICES ASSUME NEW j \in below PROVE j \in S /\ j <= m
            BY <1>3
        <3>1. j \in Nat /\ k \in Nat /\ m \in Nat
            OBVIOUS
        <3> QED BY <2>1, <3>1
    <2>3. below = least
        BY <1>2, <2>2 DEF family
    <2>4. m \in below
        BY <1>3, <2>3
    <2> QED BY <1>4, <2>4
<1> QED BY <1>4

(* Numbers have a smallest one among them.                                 *)
LEMMA SmallestOf ==
    ASSUME NEW S \in SUBSET Nat, S # {}
    PROVE  \E m \in S : \A k \in S : m <= k
<1>1. PICK top \in S : TRUE
    OBVIOUS
<1> DEFINE low == {k \in S : k <= top}
<1>2. low \in SUBSET Nat /\ top \in low /\ \A k \in low : k <= top
    <2>1. top \in Nat /\ low \subseteq S /\ S \subseteq Nat
        OBVIOUS
    <2>2. top \in low
        BY <2>1
    <2>3. \A k \in low : k <= top
        OBVIOUS
    <2> QED
        <3> HIDE DEF low
        <3> QED BY <2>1, <2>2, <2>3
<1>3. IsFiniteSet(low)
    BY <1>2, FS_BoundedSetOfNaturals
<1>4. \A k \in S : k \in low \/ (k \in Nat /\ top \in Nat /\ top < k)
    OBVIOUS
<1>5. low \subseteq S
    OBVIOUS
<1> HIDE DEF low
<1>6. PICK m \in low : \A k \in low : m <= k
    BY <1>2, <1>3, SmallestOfFinite
<1> QED BY <1>2, <1>4, <1>5, <1>6

LEMMA MinIsLeast ==
    ASSUME NEW S \in SUBSET Nat, S # {}
    PROVE  Min(S) \in S /\ \A k \in S : Min(S) <= k
BY SmallestOf DEF Min

(* A part of a list, from one place to another, is a list.                 *)
LEMMA PartOfList ==
    ASSUME NEW S, NEW list \in Seq(S), NEW from \in Nat \ {0}, NEW a \in Nat
    PROVE  SubSeq(list, from, Min({a, Len(list)})) \in Seq(S)
<1>1. Min({a, Len(list)}) \in {a, Len(list)} /\ Min({a, Len(list)}) <= Len(list)
    <2> DEFINE ends == {a, Len(list)}
    <2>1. ends \in SUBSET Nat /\ ends # {} /\ Len(list) \in ends
        OBVIOUS
    <2> HIDE DEF ends
    <2>2. Min(ends) \in ends /\ Min(ends) <= Len(list)
        BY <2>1, MinIsLeast
    <2> QED BY <2>2 DEF ends
<1>2. \A i \in from..Min({a, Len(list)}) : list[i] \in S
    BY <1>1
<1> QED BY <1>1, <1>2

(* What is built step by step up to a number exists.                       *)
Grows(f, N, X, base, step) ==
    /\ f \in [0..N -> X] /\ f[0] = base
    /\ \A n \in 1..N : f[n] = step[<<n, f[n - 1]>>]

LEMMA Built ==
    ASSUME NEW N \in Nat, NEW X, NEW base \in X, NEW step \in [(1..N) \X X -> X]
    PROVE  \E f : Grows(f, N, X, base, step)
<1> DEFINE Upto(k, f) == f \in [0..k -> X] /\ f[0] = base
                             /\ \A n \in 1..k : f[n] = step[<<n, f[n - 1]>>]
           missing == {k \in 0..N : ~\E f : Upto(k, f)}
<1>1. missing \in SUBSET Nat
    OBVIOUS
<1>2. ASSUME missing # {} PROVE FALSE
    <2>1. PICK k \in missing : \A j \in missing : k <= j
        <3> HIDE DEF missing
        <3> QED BY <1>1, <1>2, SmallestOf
    <2>2. k \in 0..N /\ ~\E f : Upto(k, f)
        OBVIOUS
    <2>3. k # 0
        <3>1. Upto(0, [n \in 0..0 |-> base])
            OBVIOUS
        <3> QED BY <2>2, <3>1
    <2>4. k - 1 \in 0..N /\ k - 1 \notin missing
        BY <2>1, <2>2, <2>3
    <2>5. PICK f : Upto(k - 1, f)
        BY <2>4
    <2> DEFINE g == [n \in 0..k |-> IF n = k THEN step[<<k, f[k - 1]>>] ELSE f[n]]
    <2>6. step[<<k, f[k - 1]>>] \in X
        BY <2>2, <2>3, <2>5
    <2>7. g \in [0..k -> X]
        BY <2>2, <2>3, <2>5, <2>6
    <2>8. g[0] = base
        BY <2>2, <2>3, <2>5
    <2>9. \A n \in 1..k : g[n] = step[<<n, g[n - 1]>>]
        <3> SUFFICES ASSUME NEW n \in 1..k PROVE g[n] = step[<<n, g[n - 1]>>]
            OBVIOUS
        <3>1. g[n - 1] = f[n - 1]
            BY <2>2
        <3>2. n # k => n \in 1..k - 1 /\ g[n] = f[n]
            BY <2>2
        <3>3. n = k => g[n] = step[<<n, f[n - 1]>>]
            BY <2>2
        <3> HIDE DEF g
        <3> QED BY <2>5, <3>1, <3>2, <3>3
    <2>10. Upto(k, g)
        <3> HIDE DEF g
        <3> QED BY <2>7, <2>8, <2>9
    <2> QED BY <2>2, <2>10
<1>3. N \in 0..N /\ N \notin missing
    BY <1>2
<1> QED BY <1>3 DEF Grows

(* The recursion of Keep has a solution, and it is made of lists.          *)
Kept(kept, items, places, S) ==
    /\ kept \in [0..Len(items) -> Seq(S)]
    /\ kept[0] = <<>> /\ Keep(items, places) = kept[Len(items)]
    /\ \A n \in 1..Len(items) :
          kept[n] = IF n \in places THEN Append(kept[n - 1], items[n]) ELSE kept[n - 1]

LEMMA KeepBuilt ==
    ASSUME NEW S, NEW items \in Seq(S), NEW places
    PROVE  \E kept : Kept(kept, items, places, S)
<1> DEFINE N == Len(items)
           step == [c \in (1..N) \X Seq(S) |->
                       IF c[1] \in places THEN Append(c[2], items[c[1]]) ELSE c[2]]
           Def(f) == [n \in 0..N |->
                         IF n = 0 THEN <<>>
                         ELSE IF n \in places THEN Append(f[n - 1], items[n])
                         ELSE f[n - 1]]
<1>1. step \in [(1..N) \X Seq(S) -> Seq(S)]
    <2> SUFFICES ASSUME NEW c \in (1..N) \X Seq(S) PROVE step[c] \in Seq(S)
        OBVIOUS
    <2>1. c[1] \in 1..N /\ c[2] \in Seq(S) /\ items[c[1]] \in S
        OBVIOUS
    <2> QED BY <2>1
<1>2. N \in Nat /\ <<>> \in Seq(S)
    OBVIOUS
<1>3. PICK f : Grows(f, N, Seq(S), <<>>, step)
    <2> HIDE DEF step, N
    <2> QED BY <1>1, <1>2, Built
<1>4. f \in [0..N -> Seq(S)] /\ f[0] = <<>>
    <2> HIDE DEF step, N
    <2> QED BY <1>3 DEF Grows
<1>5. \A n \in 1..N : f[n] = IF n \in places THEN Append(f[n - 1], items[n]) ELSE f[n - 1]
    <2> SUFFICES ASSUME NEW n \in 1..N
                 PROVE f[n] = IF n \in places THEN Append(f[n - 1], items[n]) ELSE f[n - 1]
        OBVIOUS
    <2>1. n - 1 \in 0..N
        OBVIOUS
    <2>2. f[n - 1] \in Seq(S) /\ <<n, f[n - 1]>> \in (1..N) \X Seq(S)
        BY <1>4, <2>1
    <2>3. f[n] = step[<<n, f[n - 1]>>]
        BY <1>3 DEF Grows
    <2> QED BY <2>2, <2>3
<1>6. f = Def(f)
    <2>1. \A n \in 0..N : f[n] = Def(f)[n]
        <3> SUFFICES ASSUME NEW n \in 0..N PROVE f[n] = Def(f)[n]
            OBVIOUS
        <3> HIDE DEF step
        <3>1. CASE n = 0
            BY <1>4, <3>1
        <3>2. CASE n # 0
            <4>1. n \in 1..N
                BY <3>2
            <4> QED BY <1>5, <3>2, <4>1
        <3> QED BY <3>1, <3>2
    <2>2. f = [n \in 0..N |-> f[n]]
        BY <1>4
    <2> QED BY <2>1, <2>2
<1> DEFINE kept == CHOOSE g : g = Def(g)
<1>7. kept = Def(kept)
    BY <1>6
<1>8. ASSUME NEW k \in 0..N, kept[k] # f[k] PROVE FALSE
    <2> DEFINE wrong == {j \in 0..N : kept[j] # f[j]}
    <2>1. wrong \in SUBSET Nat /\ wrong # {}
        <3> HIDE DEF kept
        <3>1. k \in wrong
            BY <1>8
        <3> QED BY <3>1
    <2>2. PICK j \in wrong : \A i \in wrong : j <= i
        <3> HIDE DEF wrong
        <3> QED BY <2>1, SmallestOf
    <2>3. j \in 0..N /\ kept[j] # f[j]
        OBVIOUS
    <2>4. kept[j] = IF j = 0 THEN <<>> ELSE IF j \in places THEN Append(kept[j - 1], items[j]) ELSE kept[j - 1]
        BY <1>7, <2>3
    <2>5. j # 0
        BY <1>4, <2>3, <2>4
    <2>6. j \in 1..N /\ j - 1 \in 0..N /\ j - 1 \notin wrong
        BY <2>2, <2>3, <2>5
    <2>7. kept[j - 1] = f[j - 1]
        BY <2>6
    <2> HIDE DEF kept, wrong, step, Def
    <2> QED BY <1>5, <2>3, <2>4, <2>5, <2>6, <2>7
<1>9. Keep(items, places) = kept[N]
    BY DEF Keep
<1>10. N \in 0..N /\ kept[N] = f[N]
    BY <1>8
<1> HIDE DEF kept, Def, step
<1> QED BY <1>4, <1>5, <1>9, <1>10 DEF Kept

(* at tells where the items of kept stood: at some of the first k places,   *)
(* in their order, at all that were chosen and at no other.                *)
Chosen(kept, items, places, k, at) ==
    /\ at \in [1..Len(kept) -> 1..k]
    /\ \A n \in 1..Len(kept) : kept[n] = items[at[n]] /\ at[n] \in places
    /\ \A m, n \in 1..Len(kept) : m < n => at[m] < at[n]
    /\ \A i \in 1..k : i \in places => \E n \in 1..Len(kept) : at[n] = i

LEMMA OneMoreChosen ==
    ASSUME NEW S, NEW items \in Seq(S), NEW places, NEW k \in 1..Len(items), NEW kept \in Seq(S),
           NEW at, Chosen(kept, items, places, k - 1, at), k \in places
    PROVE  \E more : Chosen(Append(kept, items[k]), items, places, k, more)
<1> DEFINE N == Len(kept)
           longer == Append(kept, items[k])
           more == [n \in 1..N + 1 |-> IF n = N + 1 THEN k ELSE at[n]]
<1>1. N \in Nat /\ k \in Nat /\ Len(longer) = N + 1 /\ longer[N + 1] = items[k]
         /\ \A n \in 1..N : longer[n] = kept[n]
    OBVIOUS
<1>2. /\ at \in [1..N -> 1..k - 1]
      /\ \A n \in 1..N : kept[n] = items[at[n]] /\ at[n] \in places
      /\ \A m, n \in 1..N : m < n => at[m] < at[n]
      /\ \A i \in 1..k - 1 : i \in places => \E n \in 1..N : at[n] = i
    BY DEF Chosen
<1> HIDE DEF N, longer
<1>3. more[N + 1] = k /\ \A n \in 1..N : more[n] = at[n] /\ at[n] \in 1..k - 1
    BY <1>1, <1>2
<1>4. \A n \in 1..N + 1 : n = N + 1 \/ n \in 1..N
    BY <1>1
<1>5. more \in [1..N + 1 -> 1..k]
    BY <1>1, <1>2, <1>4
<1> HIDE DEF more
<1>6. \A n \in 1..N + 1 : longer[n] = items[more[n]] /\ more[n] \in places
    BY <1>1, <1>2, <1>3, <1>4
<1>7. \A m, n \in 1..N + 1 : m < n => more[m] < more[n]
    <2> SUFFICES ASSUME NEW m \in 1..N + 1, NEW n \in 1..N + 1, m < n PROVE more[m] < more[n]
        OBVIOUS
    <2>1. m \in 1..N
        BY <1>1
    <2>2. CASE n = N + 1
        BY <1>1, <1>3, <2>1, <2>2
    <2>3. CASE n \in 1..N
        BY <1>2, <1>3, <2>1, <2>3
    <2> QED BY <1>4, <2>2, <2>3
<1>8. \A i \in 1..k : i \in places => \E n \in 1..N + 1 : more[n] = i
    <2> SUFFICES ASSUME NEW i \in 1..k, i \in places PROVE \E n \in 1..N + 1 : more[n] = i
        OBVIOUS
    <2>1. CASE i = k
        BY <1>1, <1>3, <2>1
    <2>2. CASE i # k
        <3>1. i \in 1..k - 1
            BY <1>1, <2>2
        <3>2. PICK n \in 1..N : at[n] = i
            BY <1>2, <3>1
        <3>3. n \in 1..N + 1 /\ more[n] = i
            BY <1>1, <1>3, <3>2
        <3> QED BY <3>3
    <2> QED BY <2>1, <2>2
<1>9. Chosen(longer, items, places, k, more)
    BY <1>1, <1>5, <1>6, <1>7, <1>8 DEF Chosen
<1> QED BY <1>9 DEF longer

LEMMA NoneMoreChosen ==
    ASSUME NEW S, NEW items \in Seq(S), NEW places, NEW k \in 1..Len(items), NEW kept \in Seq(S),
           NEW at, Chosen(kept, items, places, k - 1, at), k \notin places
    PROVE  Chosen(kept, items, places, k, at)
<1>1. \A i \in 1..k : i \in places => i \in 1..k - 1
    OBVIOUS
<1>2. \A i \in 1..k - 1 : i \in 1..k
    OBVIOUS
<1> QED BY <1>1, <1>2 DEF Chosen

(* What Keep gives: a list of the same items, those at the places, in order. *)
LEMMA KeepChooses ==
    ASSUME NEW S, NEW items \in Seq(S), NEW places
    PROVE  /\ Keep(items, places) \in Seq(S)
           /\ \E at : Chosen(Keep(items, places), items, places, Len(items), at)
<1> DEFINE N == Len(items)
<1>5. PICK kept : Kept(kept, items, places, S)
    BY KeepBuilt
<1>1. /\ kept \in [0..N -> Seq(S)] /\ kept[0] = <<>> /\ Keep(items, places) = kept[N]
      /\ \A n \in 1..N :
            kept[n] = IF n \in places THEN Append(kept[n - 1], items[n]) ELSE kept[n - 1]
    BY <1>5 DEF Kept
<1> DEFINE missing == {k \in 0..N : ~\E at : Chosen(kept[k], items, places, k, at)}
<1>2. N \in Nat
    OBVIOUS
<1>3. ASSUME missing # {} PROVE FALSE
    <2>1. PICK k \in missing : \A j \in missing : k <= j
        <3>1. missing \in SUBSET Nat
            OBVIOUS
        <3> HIDE DEF missing
        <3> QED BY <1>3, <3>1, SmallestOf
    <2>2. k \in 0..N /\ ~\E at : Chosen(kept[k], items, places, k, at)
        OBVIOUS
    <2>3. k # 0
        <3>1. Chosen(<<>>, items, places, 0, <<>>)
            BY DEF Chosen
        <3> QED BY <1>1, <2>2, <3>1
    <2>4. k \in 1..N /\ k - 1 \in 0..N /\ k - 1 \notin missing
        <3>1. k \in 1..N /\ k - 1 \in 0..N /\ k - 1 < k
            BY <1>2, <2>2, <2>3
        <3> HIDE DEF missing, N
        <3> QED BY <2>1, <3>1
    <2>5. PICK at : Chosen(kept[k - 1], items, places, k - 1, at)
        BY <2>4
    <2>6. kept[k - 1] \in Seq(S) /\ k \in 1..Len(items)
        BY <1>1, <2>4
    <2>7. kept[k] = IF k \in places THEN Append(kept[k - 1], items[k]) ELSE kept[k - 1]
        BY <1>1, <2>4
    <2> HIDE DEF missing, N
    <2>8. CASE k \in places
        <3>1. \E more : Chosen(Append(kept[k - 1], items[k]), items, places, k, more)
            BY <2>5, <2>6, <2>8, OneMoreChosen
        <3> QED BY <2>2, <2>7, <2>8, <3>1
    <2>9. CASE k \notin places
        <3>1. Chosen(kept[k - 1], items, places, k, at)
            BY <2>5, <2>6, <2>9, NoneMoreChosen
        <3> QED BY <2>2, <2>7, <2>9, <3>1
    <2> QED BY <2>8, <2>9
<1>4. N \in 0..N /\ N \notin missing
    BY <1>2, <1>3
<1> QED BY <1>1, <1>4

LEMMA KeepInto ==
    ASSUME NEW S, NEW items \in Seq(S), NEW places, NEW T,
           \A i \in DOMAIN items : i \in places => items[i] \in T
    PROVE  Keep(items, places) \in Seq(T)
<1> DEFINE kept == Keep(items, places)
<1>1. kept \in Seq(S) /\ DOMAIN items = 1..Len(items)
    BY KeepChooses
<1>2. PICK at : Chosen(kept, items, places, Len(items), at)
    BY KeepChooses
<1> HIDE DEF kept
<1>3. \A n \in 1..Len(kept) : kept[n] \in T
    <2> SUFFICES ASSUME NEW n \in 1..Len(kept) PROVE kept[n] \in T
        OBVIOUS
    <2>1. at[n] \in 1..Len(items) /\ at[n] \in places /\ kept[n] = items[at[n]]
        BY <1>2 DEF Chosen
    <2> QED BY <1>1, <2>1
<1> QED BY <1>1, <1>3 DEF kept

LEMMA KeepBrings ==
    ASSUME NEW S, NEW items \in Seq(S), NEW places, NEW i \in DOMAIN items, i \in places
    PROVE  \E n \in DOMAIN Keep(items, places) : Keep(items, places)[n] = items[i]
<1> DEFINE kept == Keep(items, places)
<1>1. kept \in Seq(S) /\ DOMAIN items = 1..Len(items)
    BY KeepChooses
<1>2. PICK at : Chosen(kept, items, places, Len(items), at)
    BY KeepChooses
<1> HIDE DEF kept
<1>3. PICK n \in 1..Len(kept) : at[n] = i
    BY <1>1, <1>2 DEF Chosen
<1>4. n \in DOMAIN kept /\ kept[n] = items[i]
    BY <1>1, <1>2, <1>3 DEF Chosen
<1> QED BY <1>4 DEF kept

(* Offers of one identity come once, and every identity comes.             *)
Firsts(items) ==
    {i \in DOMAIN items : \A j \in 1..(i - 1) : identity(items[j]) # identity(items[i])}

LEMMA DeduplicateKeeps ==
    ASSUME NEW items
    PROVE  DeduplicateOffers(items) = Keep(items, Firsts(items))
BY DEF DeduplicateOffers, Firsts

LEMMA OnceEach ==
    ASSUME NEW S, NEW items \in Seq(S), NEW once, once = DeduplicateOffers(items)
    PROVE  /\ once \in Seq(S)
           /\ \A m, n \in DOMAIN once : identity(once[m]) = identity(once[n]) => m = n
           /\ \A i \in DOMAIN items :
                 \E n \in DOMAIN once : identity(once[n]) = identity(items[i])
<1> DEFINE places == Firsts(items)
<1>1. once \in Seq(S) /\ once = Keep(items, places) /\ DOMAIN items = 1..Len(items)
         /\ DOMAIN once = 1..Len(once)
    BY DeduplicateKeeps, KeepChooses
<1>2. PICK at : Chosen(once, items, places, Len(items), at)
    BY <1>1, KeepChooses
<1>3. \A i \in DOMAIN items, j \in DOMAIN items :
         j \in places /\ i < j => identity(items[i]) # identity(items[j])
    BY <1>1 DEF Firsts
<1> HIDE DEF places
<1>4. ASSUME NEW m \in DOMAIN once, NEW n \in DOMAIN once, m < n,
             identity(once[m]) = identity(once[n])
      PROVE FALSE
    <2>1. at[m] \in DOMAIN items /\ at[n] \in DOMAIN items /\ at[n] \in places /\ at[m] < at[n]
             /\ once[m] = items[at[m]] /\ once[n] = items[at[n]]
        BY <1>1, <1>2, <1>4 DEF Chosen
    <2> QED BY <1>3, <1>4, <2>1
<1>5. \A m, n \in DOMAIN once : identity(once[m]) = identity(once[n]) => m = n
    <2> SUFFICES ASSUME NEW m \in DOMAIN once, NEW n \in DOMAIN once,
                        identity(once[m]) = identity(once[n]), m # n
                 PROVE FALSE
        OBVIOUS
    <2>1. m < n \/ n < m
        BY <1>1
    <2> QED BY <1>4, <2>1
<1>6. ASSUME NEW i \in DOMAIN items
      PROVE \E n \in DOMAIN once : identity(once[n]) = identity(items[i])
    <2> DEFINE same == {j \in DOMAIN items : identity(items[j]) = identity(items[i])}
    <2>1. same \in SUBSET Nat /\ i \in same
        BY <1>1
    <2>2. PICK first \in same : \A j \in same : first <= j
        <3> HIDE DEF same
        <3> QED BY <2>1, SmallestOf
    <2>3. first \in places
        <3> SUFFICES ASSUME NEW j \in 1..(first - 1), identity(items[j]) = identity(items[first])
                     PROVE FALSE
            BY DEF places, Firsts
        <3>1. j \in same /\ j < first
            BY <1>1
        <3> HIDE DEF same
        <3>2. first \in Nat /\ j \in Nat
            BY <2>1, <3>1
        <3> QED BY <2>2, <3>1, <3>2
    <2>4. PICK n \in DOMAIN once : once[n] = items[first]
        BY <1>1, <2>3, KeepBrings
    <2> QED BY <2>4
<1> QED BY <1>1, <1>5, <1>6

(* Lists put one after the other are a list of the same items.             *)
(* flat holds what lists after the first have been put together so far.    *)
Flat(flat, seqs, S) ==
    /\ flat \in [0..Len(seqs) - 1 -> Seq(S)]
    /\ flat[0] = seqs[1] /\ FlattenSeq(seqs) = flat[Len(seqs) - 1]
    /\ \A n \in 1..Len(seqs) - 1 : flat[n] = flat[n - 1] \o seqs[n + 1]

LEMMA FlattenBuilt ==
    ASSUME NEW S, NEW seqs \in Seq(Seq(S)), Len(seqs) # 0
    PROVE  \E flat : Flat(flat, seqs, S)
<1> DEFINE N == Len(seqs)
           M == N - 1
           step == [c \in (1..M) \X Seq(S) |-> c[2] \o seqs[c[1] + 1]]
           Def(f) == [i \in 1..N |-> IF i = 1 THEN seqs[i] ELSE f[i - 1] \o seqs[i]]
           flatten == CHOOSE g : g = Def(g)
<1>1. M \in Nat /\ N \in Nat /\ seqs[1] \in Seq(S)
    OBVIOUS
<1>2. step \in [(1..M) \X Seq(S) -> Seq(S)]
    <2> SUFFICES ASSUME NEW c \in (1..M) \X Seq(S) PROVE step[c] \in Seq(S)
        OBVIOUS
    <2>1. c[1] \in 1..M /\ c[2] \in Seq(S)
        OBVIOUS
    <2>2. seqs[c[1] + 1] \in Seq(S)
        BY <1>1, <2>1
    <2> QED BY <2>1, <2>2
<1>3. PICK f : Grows(f, M, Seq(S), seqs[1], step)
    <2> HIDE DEF M, step
    <2> QED BY <1>1, <1>2, Built
<1>4. f \in [0..M -> Seq(S)] /\ f[0] = seqs[1]
    <2> HIDE DEF M, step
    <2> QED BY <1>3 DEF Grows
<1>5. \A n \in 1..M : f[n] = f[n - 1] \o seqs[n + 1]
    <2> SUFFICES ASSUME NEW n \in 1..M PROVE f[n] = f[n - 1] \o seqs[n + 1]
        OBVIOUS
    <2>1. n - 1 \in 0..M
        BY <1>1
    <2>2. f[n - 1] \in Seq(S) /\ <<n, f[n - 1]>> \in (1..M) \X Seq(S)
        BY <1>4, <2>1
    <2>3. f[n] = step[<<n, f[n - 1]>>]
        BY <1>3 DEF Grows
    <2> QED BY <2>2, <2>3
<1> DEFINE flat == [i \in 1..N |-> f[i - 1]]
<1>6. flat = Def(flat)
    <2>1. \A i \in 1..N : flat[i] = Def(flat)[i]
        <3> SUFFICES ASSUME NEW i \in 1..N PROVE flat[i] = Def(flat)[i]
            OBVIOUS
        <3> HIDE DEF step
        <3>1. CASE i = 1
            BY <1>4, <3>1
        <3>2. CASE i # 1
            <4>1. i - 1 \in 1..M /\ i - 1 \in 1..N /\ (i - 1) + 1 = i
                BY <3>2
            <4>2. f[i - 1] = f[(i - 1) - 1] \o seqs[i]
                BY <1>5, <4>1
            <4>3. flat[i - 1] = f[(i - 1) - 1] /\ flat[i] = f[i - 1]
                BY <4>1
            <4> HIDE DEF flat
            <4> QED BY <3>2, <4>2, <4>3
        <3> QED BY <3>1, <3>2
    <2> HIDE DEF step
    <2> QED BY <2>1
<1>7. flatten = Def(flatten)
    <2> HIDE DEF flat
    <2> QED BY <1>6
<1>8. ASSUME NEW k \in 1..N, flatten[k] # f[k - 1] PROVE FALSE
    <2> DEFINE wrong == {j \in 1..N : flatten[j] # f[j - 1]}
    <2>1. wrong \in SUBSET Nat /\ wrong # {}
        <3> HIDE DEF flatten, step, Def, flat
        <3>1. k \in wrong
            BY <1>8
        <3>2. \A j \in 1..N : j \in Nat
            BY <1>1
        <3> QED BY <3>1, <3>2
    <2>2. PICK j \in wrong : \A i \in wrong : j <= i
        <3> HIDE DEF wrong
        <3> QED BY <2>1, SmallestOf
    <2>3. j \in 1..N /\ flatten[j] # f[j - 1]
        OBVIOUS
    <2>4. flatten[j] = IF j = 1 THEN seqs[j] ELSE flatten[j - 1] \o seqs[j]
        BY <1>7, <2>3
    <2>5. j # 1
        BY <1>4, <2>3, <2>4
    <2>6. j - 1 \in 1..M /\ j - 1 \in 1..N /\ (j - 1) + 1 = j /\ ~(j <= j - 1)
        BY <2>3, <2>5
    <2> HIDE DEF flatten, wrong, step, Def, flat
    <2>7. j - 1 \notin wrong
        BY <2>2, <2>6
    <2>8. flatten[j - 1] = f[(j - 1) - 1]
        BY <2>6, <2>7 DEF wrong
    <2>9. f[j - 1] = f[(j - 1) - 1] \o seqs[j]
        BY <1>5, <2>6
    <2> QED BY <2>3, <2>4, <2>5, <2>8, <2>9
<1>9. FlattenSeq(seqs) = flatten[N]
    BY DEF FlattenSeq
<1>10. N \in 1..N /\ N - 1 \in 0..M
    BY <1>1
<1>11. flatten[N] = f[N - 1] /\ f[N - 1] \in Seq(S)
    <2> HIDE DEF flatten, step, Def, flat
    <2> QED BY <1>4, <1>8, <1>10
<1>12. Flat(f, seqs, S)
    <2> HIDE DEF flatten, step, Def, flat
    <2> QED BY <1>4, <1>5, <1>9, <1>11 DEF Flat
<1> QED BY <1>12

LEMMA FlattenLists ==
    ASSUME NEW S, NEW seqs \in Seq(Seq(S))
    PROVE  FlattenSeq(seqs) \in Seq(S)
<1>1. CASE Len(seqs) = 0
    <2>1. FlattenSeq(seqs) = seqs /\ seqs = <<>>
        BY <1>1 DEF FlattenSeq
    <2> QED BY <2>1
<1>2. CASE Len(seqs) # 0
    <2>1. PICK flat : Flat(flat, seqs, S)
        BY <1>2, FlattenBuilt
    <2>2. Len(seqs) - 1 \in 0..Len(seqs) - 1
        BY <1>2
    <2> QED BY <2>1, <2>2 DEF Flat
<1> QED BY <1>1, <1>2

LEMMA FlattenBrings ==
    ASSUME NEW S, NEW seqs \in Seq(Seq(S)), NEW i \in DOMAIN seqs, NEW n \in DOMAIN seqs[i]
    PROVE  \E m \in DOMAIN FlattenSeq(seqs) : FlattenSeq(seqs)[m] = seqs[i][n]
<1> DEFINE M == Len(seqs) - 1
           x == seqs[i][n]
           Has(list) == \E m \in DOMAIN list : list[m] = x
<1>1. Len(seqs) # 0 /\ Len(seqs) \in Nat /\ i \in 1..Len(seqs)
    OBVIOUS
<1>2. PICK flat : Flat(flat, seqs, S)
    BY <1>1, FlattenBuilt
<1>3. M \in Nat /\ i - 1 \in 0..M /\ M \in 0..M
    BY <1>1
<1>4. /\ flat \in [0..M -> Seq(S)] /\ flat[0] = seqs[1] /\ FlattenSeq(seqs) = flat[M]
      /\ \A k \in 1..M : flat[k] = flat[k - 1] \o seqs[k + 1]
    BY <1>2 DEF Flat
<1>5. \A j \in 1..Len(seqs) : seqs[j] \in Seq(S)
    OBVIOUS
<1>6. \A k \in 1..M : k + 1 \in 1..Len(seqs) /\ k - 1 \in 0..M
    BY <1>1
<1> HIDE DEF M
<1>7. Has(flat[i - 1])
    <2>1. CASE i = 1
        BY <1>4, <2>1
    <2>2. CASE i # 1
        <3>1. i - 1 \in 1..M /\ (i - 1) + 1 = i
            BY <1>1, <1>3, <2>2
        <3>2. flat[i - 1] = flat[(i - 1) - 1] \o seqs[i]
            BY <1>4, <3>1
        <3>3. flat[(i - 1) - 1] \in Seq(S) /\ seqs[i] \in Seq(S)
            BY <1>1, <1>4, <1>5, <1>6, <3>1
        <3> DEFINE a == flat[(i - 1) - 1]
                   b == seqs[i]
        <3>4. n \in DOMAIN b /\ b[n] = x /\ a \in Seq(S) /\ b \in Seq(S) /\ flat[i - 1] = a \o b
            BY <3>2, <3>3
        <3> HIDE DEF a, b, x
        <3>5. Len(a) + n \in DOMAIN (a \o b) /\ (a \o b)[Len(a) + n] = b[n]
            BY <3>4
        <3> QED BY <3>4, <3>5
    <2> QED BY <2>1, <2>2
<1> DEFINE lost == {k \in i - 1..M : ~Has(flat[k])}
<1>8. ASSUME lost # {} PROVE FALSE
    <2>1. lost \in SUBSET Nat
        BY <1>1, <1>3
    <2>2. PICK k \in lost : \A j \in lost : k <= j
        <3> HIDE DEF lost
        <3> QED BY <1>8, <2>1, SmallestOf
    <2>3. k \in i - 1..M /\ ~Has(flat[k])
        OBVIOUS
    <2>4. k # i - 1
        BY <1>7, <2>3
    <2>5. k \in 1..M /\ k - 1 \in i - 1..M /\ ~(k <= k - 1)
        BY <1>1, <1>3, <2>3, <2>4
    <2> HIDE DEF x
    <2>6. Has(flat[k - 1])
        <3>1. k - 1 \notin lost
            <4> HIDE DEF lost
            <4> QED BY <2>2, <2>5
        <3> QED BY <2>5, <3>1
    <2>7. flat[k] = flat[k - 1] \o seqs[k + 1] /\ flat[k - 1] \in Seq(S) /\ seqs[k + 1] \in Seq(S)
        BY <1>4, <1>5, <1>6, <2>5
    <2>8. PICK m \in DOMAIN flat[k - 1] : flat[k - 1][m] = x
        BY <2>6
    <2>9. m \in DOMAIN flat[k] /\ flat[k][m] = x
        <3> DEFINE a == flat[k - 1]
                   b == seqs[k + 1]
        <3>1. a \in Seq(S) /\ b \in Seq(S) /\ m \in DOMAIN a /\ a[m] = x /\ flat[k] = a \o b
            BY <2>7, <2>8
        <3> HIDE DEF a, b
        <3>2. m \in DOMAIN (a \o b) /\ (a \o b)[m] = a[m]
            BY <3>1
        <3> QED BY <3>1, <3>2
    <2> QED BY <2>3, <2>9
<1>9. Has(flat[M])
    <2>1. M \in i - 1..M
        BY <1>3
    <2> QED BY <1>8, <2>1
<1> QED BY <1>4, <1>9

-----------------------------------------------------------------------------
(* What the clients and the shaping pick out of a list                     *)

LEMMA SelectAccepted == ASSUME NEW T, NEW list \in Seq(T) PROVE Accepted(list) \in Seq(T)
<1>1. Accepted(list) = Keep(list, {i \in DOMAIN list : AcceptsTitle(query, list[i].title)})
    BY DEF Accepted, Select
<1> QED BY <1>1, KeepChooses

LEMMA SelectMiniatures == ASSUME NEW T, NEW list \in Seq(T) PROVE Miniatures(list) \in Seq(T)
<1>1. Miniatures(list) = Keep(list, {i \in DOMAIN list :
                                        MatchesCard(list[i].title, query.name) /\ list[i].price > 0})
    BY DEF Miniatures, Select
<1> QED BY <1>1, KeepChooses

LEMMA SelectSellable == ASSUME NEW T, NEW list \in Seq(T) PROVE Sellable(list) \in Seq(T)
<1>1. Sellable(list) = Keep(list, {i \in DOMAIN list : list[i].units > 0})
    BY DEF Sellable, Select
<1> QED BY <1>1, KeepChooses

LEMMA SelectEntries ==
    ASSUME NEW T, NEW list \in Seq(T)
    PROVE  Entries(list) \in Seq(T) /\ Listings(list) \in Seq(T)
<1>1. Entries(list) = Keep(list, {i \in DOMAIN list : list[i].units > 0 /\ list[i].price > 0})
    BY DEF Entries, Select
<1>2. Listings(list) = Keep(list, {i \in DOMAIN list : list[i].units > 0 /\ list[i].price > 0})
    BY DEF Listings, Select
<1> QED BY <1>1, <1>2, KeepChooses

LEMMA SelectProductPage ==
    ASSUME NEW s, NEW id, NEW T, shelf[s] \in Seq(T)
    PROVE  /\ ProductPage(s, id) \in Seq(T)
           /\ ProductPage(s, id) \in Seq({p \in T : p.id = id})
<1> DEFINE places == {i \in DOMAIN shelf[s] : shelf[s][i].id = id}
<1>1. ProductPage(s, id) = Keep(shelf[s], places)
    BY DEF ProductPage, Select
<1>2. \A i \in DOMAIN shelf[s] : i \in places => shelf[s][i] \in {p \in T : p.id = id}
    OBVIOUS
<1> HIDE DEF places
<1>3. Keep(shelf[s], places) \in Seq({p \in T : p.id = id})
    BY <1>2, KeepInto
<1> QED BY <1>1, <1>3, KeepChooses

LEMMA SelectDirect ==
    ASSUME NEW T, NEW list \in Seq(T), NEW direct
    PROVE  preferDirectOffers(list, direct) \in Seq({o \in T : o.host \notin direct})
<1> DEFINE places == {i \in DOMAIN list : list[i].host \notin direct}
<1>1. preferDirectOffers(list, direct) = Keep(list, places)
    BY DEF preferDirectOffers, Select
<1>2. \A i \in DOMAIN list : i \in places => list[i] \in {o \in T : o.host \notin direct}
    OBVIOUS
<1> HIDE DEF places
<1> QED BY <1>1, <1>2, KeepInto

LEMMA SelectSites ==
    ASSUME NEW T, NEW list \in Seq(T) PROVE withoutCommunityOffers(list) \in Seq(T)
<1>1. withoutCommunityOffers(list) = Keep(list, {i \in DOMAIN list : list[i].host # setup.host[Agg]})
    BY DEF withoutCommunityOffers, Select
<1> QED BY <1>1, KeepChooses

LEMMA SelectSources ==
    ASSUME NEW T, NEW list \in Seq(T), NEW excluded
    PROVE  /\ keepSources(list, excluded) \in Seq(ToSet(list) \ excluded)
           /\ ToSet(keepSources(list, excluded)) = ToSet(list) \ excluded
<1> DEFINE places == {i \in DOMAIN list : list[i] \notin excluded}
           kept == keepSources(list, excluded)
<1>1. kept = Keep(list, places)
    BY DEF keepSources, Select
<1>2. \A i \in DOMAIN list : i \in places => list[i] \in ToSet(list) \ excluded
    BY DEF ToSet
<1>3. \A i \in DOMAIN list : list[i] \notin excluded => i \in places
    OBVIOUS
<1> HIDE DEF places, kept
<1>4. kept \in Seq(ToSet(list) \ excluded)
    BY <1>1, <1>2, KeepInto
<1>5. ASSUME NEW x \in ToSet(list) \ excluded PROVE x \in ToSet(kept)
    <2>1. PICK i \in DOMAIN list : list[i] = x
        BY DEF ToSet
    <2>2. \E n \in DOMAIN kept : kept[n] = x
        BY <1>1, <1>3, <2>1, KeepBrings
    <2> QED BY <2>2 DEF ToSet
<1>6. \A n \in DOMAIN kept : kept[n] \in ToSet(list) \ excluded
    BY <1>4
<1> QED BY <1>4, <1>5, <1>6 DEF kept, ToSet

LEMMA PartOfPage ==
    ASSUME NEW T, NEW list \in Seq(T), NEW n \in Nat \ {0} PROVE Page(list, n) \in Seq(T)
<1>1. (n - 1) * PageSize + 1 \in Nat \ {0} /\ n * PageSize \in Nat
    <2>4. PageSize \in Nat
        BY OfferSearchAssumption
    <2>1. PageSize \in Nat /\ n \in Nat /\ n - 1 \in Nat
        BY <2>4
    <2>2. \A a, b \in Nat : a * b \in Nat
        OBVIOUS
    <2>3. (n - 1) * PageSize \in Nat /\ n * PageSize \in Nat
        BY ONLY <2>1, <2>2
    <2> QED BY <2>3
<1> QED BY <1>1, PartOfList DEF Page

LEMMA IdsOf ==
    ASSUME NEW T, NEW list \in Seq(T), NEW I, \A p \in T : p.id \in I
    PROVE  Ids(list) \in Seq(I)
BY DEF Ids

-----------------------------------------------------------------------------
(* The inductive invariant                                                 *)

Looks(p) == <<p.id, p.store, p.host, p.title, p.edition, p.kind, p.mechanics>>

(* What may stand on the shelf of s.                                       *)
Stock(s) == {p \in Product : \E g \in Goods(setup, s) : Looks(p) = Looks(g)}

(* Only the provider whose listings carry the kind is asked by the kind.   *)
OfKind(s, p) == Kind(s) = "tcgmatch" => p.kind = query.kind
Wanted(s) == {id \in STRING : Kind(s) = "tcgmatch" =>
                                  \E p \in Stock(s) : p.id = id /\ p.kind = query.kind}

(* An offer o of the product p by the client of s.                         *)
Offering(s, o, p) ==
    /\ o.source = s /\ o.url = p.id /\ o.variant = p.id
    /\ o.store = p.store /\ o.host = p.host /\ o.title = p.title /\ o.edition = p.edition
    /\ Kind(s) = "tcgmatch" => /\ o.game = setup.game /\ o.product = p.id
                               /\ o.function \in {"", p.mechanics} /\ p.kind = query.kind
OffersOf(s) == {o \in Offer : \E p \in Stock(s) : Offering(s, o, p)}

(* What the client of s may have done: one that waits or failed has no     *)
(* offer, one that reads products a product left, one that reads cards a   *)
(* card.                                                                   *)
WalkOf(s) ==
    {w \in Walk :
        /\ w.left \in Seq(Wanted(s)) /\ w.found \in Seq(OffersOf(s))
        /\ w.step \in {"waiting", "failed"} => w.found = <<>>
        /\ w.step \in {"currency", "reading"} => w.left # <<>>
        /\ w.step = "cards" => w.links # <<>>
        /\ w.step \in {"briefs", "cards"} => s = Agg}

ShelvesHold == \A s \in DOMAIN setup.client : shelf[s] \in Seq(Stock(s))
WalksHold == \A s \in DOMAIN setup.client : walk[s] \in WalkOf(s)

(* The answer was made of what the walks found, and they have ended.       *)
AnswerHolds ==
    /\ answer.state # "none" => \A s \in Walkers : walk[s].step \in Ended
    /\ answer.items = IF answer.state = "found"
                      THEN MarkSuspicious(Named(OneOfEach(queryGameSources)), SuspiciousPercent, query)
                      ELSE <<>>

OfferInv == TypeOK /\ ShelvesHold /\ WalksHold /\ AnswerHolds

-----------------------------------------------------------------------------
(* A setup                                                                 *)

LEMMA SetupShape ==
    ASSUME setup \in Setups, NEW names, names = DOMAIN setup.client
    PROVE  /\ setup.sources \in Seq(names \ {Agg}) /\ Agg \in names /\ names \subseteq STRING
           /\ setup.host \in [names -> STRING]
           /\ setup.shelf \in [names -> Seq(Product)] /\ setup.fresh \in [names -> Product]
           /\ setup.cached \in [names -> Seq(Product) \union {None}]
           /\ setup.query \in [name : Seq(Marks), match : {"", "exact", "includes"},
                                kind : {"", "single", "sealed"}]
           /\ setup.game \in STRING
           /\ Hosted(setup) /\ Printed(setup)
BY OfferSearchAssumption DEF Shaped

LEMMA Askers ==
    ASSUME setup \in Setups
    PROVE  /\ Stores \subseteq DOMAIN setup.client \ {Agg} /\ Stores \subseteq STRING
           /\ IsFiniteSet(Stores)
           /\ Walkers \subseteq DOMAIN setup.client
           /\ Agg \in Walkers <=> hasProvider
           /\ \A s \in Walkers : s = Agg \/ s \in Stores
           /\ Agg \in STRING /\ None \notin Stores
<1> DEFINE names == DOMAIN setup.client
           sources == setup.sources
<1>1. sources \in Seq(names \ {Agg}) /\ Agg \in names /\ names \subseteq STRING
    BY SetupShape
<1> HIDE DEF sources
<1>2. ToSet(sources) \subseteq names \ {Agg}
    BY <1>1 DEF ToSet
<1>3. IsFiniteSet(ToSet(sources))
    <2> DEFINE places == 1..Len(sources)
    <2>1. IsFiniteSet(places)
        <3>1. 1 \in Int /\ Len(sources) \in Int
            BY <1>1
        <3> QED BY <3>1, FS_Interval
    <2>4. sources \in [places -> ToSet(sources)]
        BY <1>1 DEF ToSet
    <2>2. \A x \in ToSet(sources) : \E i \in places : sources[i] = x
        BY <1>1 DEF ToSet
    <2> HIDE DEF places
    <2>3. sources \in Surjection(places, ToSet(sources))
        BY <2>2, <2>4 DEF Surjection
    <2> QED BY <2>1, <2>3, FS_Surjection
<1>4. IsFiniteSet(Stores)
    <2>1. Stores \subseteq ToSet(sources)
        BY DEF Stores, sources
    <2> QED BY <1>3, <2>1, FS_Subset
<1> QED BY <1>1, <1>2, <1>4, OfferSearchAssumption DEF Stores, Walkers, sources, Agg

LEMMA QueryShape ==
    ASSUME setup \in Setups
    PROVE  query.kind \in {"single", "sealed"}
<1>1. setup.query \in [name : Seq(Marks), match : {"", "exact", "includes"},
                       kind : {"", "single", "sealed"}]
    BY SetupShape
<1> QED BY <1>1 DEF query, settleQuery

(* Products of one id look alike on one shelf, and have one host on any.   *)
LEMMA OneLook ==
    ASSUME setup \in Setups, NEW s \in DOMAIN setup.client, NEW t \in DOMAIN setup.client,
           NEW p \in Stock(s), NEW q \in Stock(t), p.id = q.id
    PROVE  /\ p.host = q.host /\ (s = t => Looks(p) = Looks(q))
           /\ Agg \notin {s, t} => p.title = q.title /\ p.edition = q.edition
<1>1. PICK g \in Goods(setup, s) : Looks(p) = Looks(g)
    BY DEF Stock
<1>2. PICK h \in Goods(setup, t) : Looks(q) = Looks(h)
    BY DEF Stock
<1>3. Printed(setup)
    BY SetupShape
<1>4. g.id = h.id
    BY <1>1, <1>2 DEF Looks
<1>5. /\ g.host = h.host /\ (s = t => <<g.store, g.title, g.edition, g.kind, g.mechanics>>
                                         = <<h.store, h.title, h.edition, h.kind, h.mechanics>>)
      /\ Agg \notin {s, t} => <<g.title, g.edition>> = <<h.title, h.edition>>
    BY <1>3, <1>4 DEF Printed
<1>6. p.host = q.host
    BY <1>1, <1>2, <1>5 DEF Looks
<1>7. s = t => Looks(g) = Looks(h)
    BY <1>4, <1>5 DEF Looks
<1>8. Agg \notin {s, t} => p.title = q.title /\ p.edition = q.edition
    BY <1>1, <1>2, <1>5 DEF Looks
<1> QED BY <1>1, <1>2, <1>6, <1>7, <1>8

-----------------------------------------------------------------------------
(* What a client builds                                                    *)

LEMMA OfferBuilt ==
    ASSUME OfferInv, NEW s \in DOMAIN setup.client, NEW p \in Stock(s), OfKind(s, p)
    PROVE  buildOffer(s)[p] \in OffersOf(s)
<1>1. p \in Product /\ s \in STRING /\ setup.game \in STRING
    BY SetupShape DEF OfferInv, TypeOK, Stock
<1> DEFINE o == buildOffer(s)[p]
           game == IF Kind(s) = "tcgmatch" THEN setup.game ELSE ""
           function == IF p.id \in walk[s].known THEN p.mechanics ELSE ""
           product == IF Kind(s) = "tcgmatch" THEN p.id ELSE ""
           status == IF p.units > 0 THEN "available" ELSE "unavailable"
<1>2. o = [source |-> s, store |-> p.store, host |-> p.host, url |-> p.id, variant |-> p.id,
           title |-> p.title, edition |-> p.edition, key |-> <<>>, kind |-> "", game |-> game,
           function |-> function, product |-> product, price |-> p.price, currency |-> "clp",
           suspicious |-> FALSE, status |-> status]
    BY <1>1 DEF buildOffer
<1>3. p.id \in STRING /\ p.store \in STRING /\ p.host \in STRING /\ p.title \in Seq(Marks)
         /\ p.edition \in Seq(Marks) /\ p.mechanics \in STRING /\ p.price \in Int
    BY <1>1 DEF Product
<1>4. game \in STRING /\ function \in STRING /\ product \in STRING
         /\ status \in {"available", "unavailable", "unknown"}
    BY <1>1, <1>3, OfferSearchAssumption
<1>5. Kind(s) = "tcgmatch" => game = setup.game /\ product = p.id
    OBVIOUS
<1>6. function \in {"", p.mechanics}
    OBVIOUS
<1> HIDE DEF o, game, function, product, status
<1>7. o \in Offer
    <2>1. p.id \in STRING /\ p.store \in STRING /\ p.host \in STRING
        BY <1>3
    <2>2. p.title \in Seq(Marks) /\ p.edition \in Seq(Marks) /\ p.price \in Int
        BY <1>3
    <2> QED BY ONLY <1>1, <1>2, <1>4, <2>1, <2>2 DEF Offer
<1>8. Offering(s, o, p)
    BY <1>2, <1>5, <1>6 DEF Offering, OfKind
<1> QED BY <1>7, <1>8 DEF OffersOf, o

LEMMA OffersBuilt ==
    ASSUME OfferInv, NEW s \in DOMAIN setup.client, NEW list \in Seq(Stock(s)),
           \A i \in DOMAIN list : OfKind(s, list[i])
    PROVE  Offers(s, list) \in Seq(OffersOf(s))
<1>1. \A i \in DOMAIN list : buildOffer(s)[list[i]] \in OffersOf(s)
    BY OfferBuilt
<1>2. DOMAIN list = 1..Len(list) /\ Len(list) \in Nat
    OBVIOUS
<1> QED BY <1>1, <1>2 DEF Offers

LEMMA OffersAdded ==
    ASSUME OfferInv, NEW s \in DOMAIN setup.client, Kind(s) # "tcgmatch",
           NEW list \in Seq(Stock(s))
    PROVE  Offers(s, list) \in Seq(OffersOf(s)) /\ walk[s].found \o Offers(s, list) \in Seq(OffersOf(s))
<1>1. Offers(s, list) \in Seq(OffersOf(s))
    BY OffersBuilt DEF OfKind
<1>2. walk[s].found \in Seq(OffersOf(s))
    BY DEF OfferInv, WalksHold, WalkOf
<1> QED BY <1>1, <1>2

-----------------------------------------------------------------------------
(* What a reply makes of a walk                                            *)

LEMMA WalkParts ==
    ASSUME NEW s, NEW w \in WalkOf(s)
    PROVE  /\ w.step \in Steps /\ w.page \in Nat \ {0} /\ w.links \in Seq(STRING)
           /\ w.left \in Seq(STRING) /\ w.left \in Seq(Wanted(s)) /\ w.known \in SUBSET STRING
           /\ w.found \in Seq(OffersOf(s)) /\ w.found \in Seq(Offer)
           /\ w.step \in {"currency", "reading"} => w.left # <<>>
           /\ w.step = "cards" => w.links # <<>>
           /\ w = [step |-> w.step, page |-> w.page, links |-> w.links, left |-> w.left,
                   known |-> w.known, found |-> w.found]
BY DEF WalkOf, Walk

LEMMA WalkMade ==
    ASSUME NEW s, NEW w \in Walk,
           w.left \in Seq(Wanted(s)), w.found \in Seq(OffersOf(s)),
           w.step \in {"waiting", "failed"} => w.found = <<>>,
           w.step \in {"currency", "reading"} => w.left # <<>>,
           w.step = "cards" => w.links # <<>>,
           w.step \in {"briefs", "cards"} => s = Agg
    PROVE  w \in WalkOf(s)
BY DEF WalkOf

LEMMA ListTypes ==
    ASSUME NEW s
    PROVE  /\ \A left \in Seq(Wanted(s)) : left \in Seq(STRING)
           /\ \A found \in Seq(OffersOf(s)) : found \in Seq(Offer)
           /\ <<>> \in Seq(OffersOf(s)) /\ <<>> \in Seq(Wanted(s))
BY DEF Wanted, OffersOf

LEMMA WalkFails ==
    ASSUME NEW s, NEW w \in WalkOf(s)
    PROVE  Failed(w) \in WalkOf(s) /\ Failed(w).step = "failed"
<1> DEFINE next == Failed(w)
<1>1. w \in Walk /\ w.left \in Seq(Wanted(s)) /\ <<>> \in Seq(Offer)
    BY DEF WalkOf
<1>2. next \in Walk /\ next.step = "failed" /\ next.found = <<>> /\ next.left = w.left
    BY <1>1 DEF Failed, Walk, Steps, Ended
<1> HIDE DEF next
<1>3. next \in WalkOf(s)
    BY <1>1, <1>2, WalkMade, ListTypes
<1> QED BY <1>2, <1>3 DEF next

LEMMA WalkIsDone ==
    ASSUME NEW s, NEW w \in WalkOf(s), NEW found \in Seq(OffersOf(s))
    PROVE  Done(w, found) \in WalkOf(s) /\ Done(w, found).step = "done"
<1> DEFINE next == Done(w, found)
<1>1. w \in Walk /\ w.left \in Seq(Wanted(s)) /\ found \in Seq(Offer)
    BY ListTypes DEF WalkOf
<1>2. next \in Walk /\ next.step = "done" /\ next.found = found /\ next.left = w.left
    BY <1>1 DEF Done, Walk, Steps, Ended
<1> HIDE DEF next
<1>3. next \in WalkOf(s)
    BY <1>1, <1>2, WalkMade
<1> QED BY <1>2, <1>3 DEF next

-----------------------------------------------------------------------------
(* Every step keeps the invariant                                          *)

Busy == {s \in Stores : Requesting(s)}
GateHolds ==
    gate \in Stores \union {None} /\ (gate # None => Kind(gate) = "jumpseller" /\ Requesting(gate))

LEMMA SameSetup ==
    ASSUME UNCHANGED setup
    PROVE  /\ Stores' = Stores /\ Walkers' = Walkers
           /\ \A s : Stock(s)' = Stock(s) /\ WalkOf(s)' = WalkOf(s) /\ Kind(s)' = Kind(s)
<1>1. Stores' = Stores /\ Walkers' = Walkers
    BY DEF Stores, Walkers, Unasked, query, hasProvider, Kind
<1>2. ASSUME NEW s PROVE Stock(s)' = Stock(s) /\ Kind(s)' = Kind(s)
    BY DEF Stock, Goods, Kind
<1>3. ASSUME NEW s PROVE WalkOf(s)' = WalkOf(s)
    <2>1. query' = query /\ setup'.game = setup.game
        BY DEF query
    <2>2. Wanted(s)' = Wanted(s)
        BY <1>2, <2>1 DEF Wanted
    <2>3. \A o, p : Offering(s, o, p)' <=> Offering(s, o, p)
        BY <1>2, <2>1 DEF Offering
    <2>4. OffersOf(s)' = OffersOf(s)
        BY <1>2, <2>3 DEF OffersOf
    <2> QED BY <2>2, <2>4 DEF WalkOf
<1> QED BY <1>1, <1>2, <1>3

(* A reply to a request that is under way makes the walk of its client.    *)
LEMMA RepliedKeeps ==
    ASSUME OfferInv, NEW s \in Walkers, NEW w \in WalkOf(s), Replied(s, w),
           walk[s].step \notin Ended, s # Agg => Requesting(s),
           w.step # "waiting", faults' \in 0..MaxFaults
    PROVE  OfferInv'
<1> DEFINE names == DOMAIN setup.client
<1>1. /\ setup \in Setups /\ shelf \in [names -> Seq(Product)] /\ walk \in [names -> Walk]
      /\ turns \in 0..maxConcurrentSources /\ turns = Cardinality(Busy)
      /\ gate \in Stores \union {None}
      /\ gate # None => Kind(gate) = "jumpseller" /\ Requesting(gate)
      /\ expired \in BOOLEAN /\ answer.state \in {"none", "error", "found"} /\ moves \in 0..MaxMoves
    BY DEF OfferInv, TypeOK, Busy
<1>2. /\ walk' = [walk EXCEPT ![s] = w] /\ turns' = TurnsAfter(s, w)
      /\ gate' = IF gate = s THEN None ELSE gate
      /\ UNCHANGED <<setup, world, expired, answer>>
    BY DEF Replied
<1>3. setup' = setup /\ shelf' = shelf /\ moves' = moves /\ expired' = expired /\ answer' = answer
    BY <1>2 DEF world
<1>4. /\ Stores \subseteq names \ {Agg} /\ IsFiniteSet(Stores) /\ s \in names
      /\ s = Agg \/ s \in Stores
      /\ None \notin Stores
    BY <1>1, Askers
<1>5. /\ Stores' = Stores /\ Walkers' = Walkers /\ names' = names
      /\ \A t : Stock(t)' = Stock(t) /\ WalkOf(t)' = WalkOf(t) /\ Kind(t)' = Kind(t)
    BY <1>3, SameSetup
<1>6. w \in Walk /\ w.step \in Steps
    BY DEF WalkOf, Walk
<1>7. walk' \in [names -> Walk] /\ walk'[s] = w /\ \A t \in names \ {s} : walk'[t] = walk[t]
    BY <1>1, <1>2, <1>4, <1>6
<1>8. \A t \in names \ {s} : Requesting(t)' <=> Requesting(t)
    BY <1>7 DEF Requesting
<1>9. s \in Stores => s \in Busy /\ (Requesting(s)' \/ w.step \in Ended)
                      /\ ~(Requesting(s)' /\ w.step \in Ended)
    <2> SUFFICES ASSUME s \in Stores
                 PROVE s \in Busy /\ (Requesting(s)' \/ w.step \in Ended)
                         /\ ~(Requesting(s)' /\ w.step \in Ended)
        OBVIOUS
    <2>1. s # Agg /\ s \in Busy
        BY <1>4 DEF Busy
    <2>2. w.step \notin {"briefs", "cards", "waiting"}
        BY <2>1 DEF WalkOf
    <2> QED BY <1>6, <1>7, <2>1, <2>2 DEF Requesting, Steps, Ended
<1>10. turns' \in 0..maxConcurrentSources /\ turns' = Cardinality(Busy')
    <2>1. IsFiniteSet(Busy) /\ Cardinality(Busy) \in Nat
        BY <1>4, FS_Subset, FS_CardinalityType DEF Busy
    <2>2. CASE s \in Stores /\ w.step \in Ended
        <3>1. Busy' = Busy \ {s} /\ s \in Busy
            BY <1>4, <1>5, <1>8, <1>9, <2>2 DEF Busy
        <3>2. Cardinality(Busy') = Cardinality(Busy) - 1 /\ Cardinality(Busy') \in Nat
            <4>1. Cardinality(Busy \ {s}) = Cardinality(Busy) - 1 /\ IsFiniteSet(Busy \ {s})
                BY <2>1, <3>1, FS_RemoveElement
            <4> QED BY <3>1, <4>1, FS_CardinalityType
        <3>3. turns' = turns - 1
            BY <1>2, <1>4, <2>2 DEF TurnsAfter
        <3>4. maxConcurrentSources \in Nat
            BY OfferSearchAssumption
        <3>5. turns \in 0..maxConcurrentSources /\ turns = Cardinality(Busy)
            BY <1>1
        <3> QED BY ONLY <2>1, <3>2, <3>3, <3>4, <3>5
    <2>3. CASE ~(s \in Stores /\ w.step \in Ended)
        <3>1. Busy' = Busy
            BY <1>4, <1>5, <1>8, <1>9, <2>3 DEF Busy
        <3>2. turns' = turns
            BY <1>2, <1>4, <2>3 DEF TurnsAfter
        <3> QED BY <1>1, <3>1, <3>2
    <2> QED BY <2>2, <2>3
<1>11. gate' = None \/ (gate' = gate /\ gate \in names \ {s} /\ gate \in Stores)
    BY <1>1, <1>2, <1>4
<1>12. GateHolds'
    <2>1. CASE gate' = None
        BY <2>1 DEF GateHolds
    <2>2. CASE gate' # None
        <3>1. gate' = gate /\ gate \in names \ {s} /\ gate \in Stores /\ gate # None
            BY <1>11, <2>2
        <3>2. Kind(gate) = "jumpseller" /\ Requesting(gate)
            BY <1>1, <3>1
        <3>3. setup'.client[gate] = "jumpseller"
            BY <1>3, <3>2 DEF Kind
        <3>4. walk'[gate].step \in {"searching", "currency", "reading"}
            BY <1>7, <3>1, <3>2 DEF Requesting
        <3> QED BY <1>5, <3>1, <3>3, <3>4 DEF GateHolds, Requesting, Kind
    <2> QED BY <2>1, <2>2
<1>13. TypeOK'
    <2>2. setup' \in Setups /\ shelf' \in [DOMAIN setup'.client -> Seq(Product)]
             /\ walk' \in [DOMAIN setup'.client -> Walk]
        BY <1>1, <1>3, <1>7
    <2>3. expired' \in BOOLEAN /\ answer'.state \in {"none", "error", "found"} /\ moves' \in 0..MaxMoves
        BY <1>1, <1>3
    <2> QED BY <1>5, <1>10, <1>12, <2>2, <2>3 DEF TypeOK, Busy, GateHolds
<1>14. ShelvesHold' /\ WalksHold'
    <2>1. ShelvesHold'
        BY <1>3, <1>5 DEF OfferInv, ShelvesHold
    <2>2. ASSUME NEW t \in names PROVE walk'[t] \in WalkOf(t)
        BY <1>7, <2>2 DEF OfferInv, WalksHold
    <2>3. WalksHold'
        BY <1>3, <1>5, <2>2 DEF WalksHold
    <2> QED BY <2>1, <2>3
<1>15. answer.state = "none"
    BY DEF OfferInv, AnswerHolds
<1>16. AnswerHolds'
    BY <1>3, <1>15 DEF OfferInv, AnswerHolds
<1> QED BY <1>13, <1>14, <1>16 DEF OfferInv

LEMMA AnsweredKeeps ==
    ASSUME OfferInv, NEW s \in Walkers, NEW client, NEW step, NEW w \in WalkOf(s),
           Answered(s, client, step), Replied(s, w), w.step # "waiting",
           \/ step \in {"searching", "currency", "reading"}
           \/ step \in {"briefs", "cards"} /\ s = Agg
    PROVE  OfferInv'
<1>1. walk[s].step = step /\ faults' = faults
    BY DEF Answered
<1>2. step \notin Ended /\ (s # Agg => Requesting(s))
    BY <1>1 DEF Ended, Requesting
<1>3. faults' \in 0..MaxFaults
    BY <1>1 DEF OfferInv, TypeOK
<1> QED BY <1>1, <1>2, <1>3, RepliedKeeps

(* The products that a client is answered stand on the shelf.              *)
LEMMA ListedStock ==
    ASSUME OfferInv, NEW s \in Walkers, NEW n \in Nat \ {0}
    PROVE  /\ s \in DOMAIN setup.client /\ shelf[s] \in Seq(Stock(s)) /\ Listed(s, n) \in Seq(Stock(s))
           /\ Page(Available(s), n) \in Seq(Stock(s))
           /\ Page(Available(s), 1) \in Seq(Stock(s))
<1>1. s \in DOMAIN setup.client
    BY Askers DEF OfferInv, TypeOK
<1>2. shelf[s] \in Seq(Stock(s))
    BY <1>1 DEF OfferInv, ShelvesHold
<1>3. Available(s) \in Seq(Stock(s))
    BY <1>2, SelectSellable DEF Available
<1>4. 1 \in Nat \ {0} /\ (IF s \in setup.loops THEN 1 ELSE n) \in Nat \ {0}
    OBVIOUS
<1>5. Listed(s, n) \in Seq(Stock(s))
    BY <1>2, <1>4, PartOfPage DEF Listed
<1> QED BY <1>1, <1>2, <1>3, <1>4, <1>5, PartOfPage

LEMMA WalkTurnsPage ==
    ASSUME NEW s, NEW w \in WalkOf(s), w.step = "searching", NEW found \in Seq(OffersOf(s)),
           NEW next, next = [w EXCEPT !.page = @ + 1, !.found = found]
    PROVE  next \in WalkOf(s) /\ next.step # "waiting"
<1>1. w \in Walk /\ w.left \in Seq(Wanted(s)) /\ found \in Seq(Offer)
    BY ListTypes DEF WalkOf
<1>4. PICK page \in Nat \ {0} : page = w.page + 1
    BY <1>1 DEF Walk
<1>5. next = [w EXCEPT !.page = page, !.found = found]
    BY <1>4
<1>2. next \in Walk /\ next.step = "searching" /\ next.found = found /\ next.left = w.left
    BY ONLY <1>1, <1>5, w.step = "searching" DEF Walk
<1>3. next \in WalkOf(s)
    BY <1>1, <1>2, WalkMade
<1> QED BY <1>2, <1>3

LEMMA ReadWooPageKeeps ==
    ASSUME OfferInv, NEW s \in Walkers, ReadWooPage(s) PROVE OfferInv'
<1> DEFINE w == walk[s]
           page == Listed(s, w.page)
           kept == Accepted(page)
           found == w.found \o Offers(s, kept)
           more == [w EXCEPT !.page = @ + 1, !.found = found]
           next == IF ~Priced(kept) THEN Failed(w) ELSE IF LastWooPage(page) THEN Done(w, found) ELSE more
<1>1. Answered(s, "woocommerce", "searching") /\ Replied(s, next)
    BY DEF ReadWooPage
<1>2. w \in WalkOf(s) /\ s \in DOMAIN setup.client /\ w.page \in Nat \ {0}
         /\ w.step = "searching" /\ Kind(s) # "tcgmatch"
    <2>1. s \in DOMAIN setup.client
        BY Askers DEF OfferInv, TypeOK
    <2> QED BY <1>1, <2>1, WalkParts DEF OfferInv, WalksHold, Answered
<1>3. kept \in Seq(Stock(s))
    BY <1>2, ListedStock, SelectAccepted
<1> HIDE DEF kept, page
<1>4. found \in Seq(OffersOf(s))
    BY <1>2, <1>3, OffersAdded
<1> HIDE DEF w, found
<1>5. Failed(w) \in WalkOf(s) /\ Failed(w).step = "failed"
    BY <1>2, WalkFails
<1>6. Done(w, found) \in WalkOf(s) /\ Done(w, found).step = "done"
    BY <1>2, <1>4, WalkIsDone
<1>7. more \in WalkOf(s) /\ more.step # "waiting"
    BY <1>2, <1>4, WalkTurnsPage
<1> HIDE DEF more
<1>8. next \in WalkOf(s) /\ next.step # "waiting"
    BY <1>5, <1>6, <1>7
<1> HIDE DEF next
<1> QED BY <1>1, <1>8, AnsweredKeeps

LEMMA WalkHere ==
    ASSUME OfferInv, NEW s \in Walkers
    PROVE  /\ s \in DOMAIN setup.client /\ walk[s] \in WalkOf(s) /\ walk[s].page \in Nat \ {0}
           /\ walk[s].found \in Seq(OffersOf(s)) /\ walk[s].links \in Seq(STRING)
           /\ walk[s].left \in Seq(Wanted(s)) /\ walk[s].known \in SUBSET STRING
           /\ shelf[s] \in Seq(Stock(s))
<1>1. s \in DOMAIN setup.client
    BY Askers DEF OfferInv, TypeOK
<1>2. walk[s] \in WalkOf(s) /\ shelf[s] \in Seq(Stock(s))
    BY <1>1 DEF OfferInv, WalksHold, ShelvesHold
<1> QED BY <1>1, <1>2, WalkParts

LEMMA ReadPrestaPageKeeps ==
    ASSUME OfferInv, NEW s \in Walkers, ReadPrestaPage(s) PROVE OfferInv'
<1> DEFINE w == walk[s]
           page == Listed(s, w.page)
           kept == Miniatures(page)
           found == w.found \o Offers(s, kept)
           more == [w EXCEPT !.page = @ + 1, !.found = found]
           next == IF ~HasNext(s, w.page) THEN Done(w, DeduplicateOffers(found))
                   ELSE IF w.page = MaxPages THEN Failed(w) ELSE more
<1>1. Answered(s, "prestashop", "searching") /\ Replied(s, next)
    BY DEF ReadPrestaPage
<1>2. w \in WalkOf(s) /\ s \in DOMAIN setup.client /\ w.page \in Nat \ {0}
         /\ w.step = "searching" /\ Kind(s) # "tcgmatch"
    BY <1>1, WalkHere DEF Answered
<1>3. kept \in Seq(Stock(s))
    BY <1>2, ListedStock, SelectMiniatures
<1> HIDE DEF kept, page
<1>4. found \in Seq(OffersOf(s))
    BY <1>2, <1>3, OffersAdded
<1> HIDE DEF w, found
<1>5. Failed(w) \in WalkOf(s) /\ Failed(w).step = "failed"
    BY <1>2, WalkFails
<1>6. Done(w, DeduplicateOffers(found)) \in WalkOf(s)
         /\ Done(w, DeduplicateOffers(found)).step = "done"
    BY <1>2, <1>4, WalkIsDone, OnceEach
<1>7. more \in WalkOf(s) /\ more.step # "waiting"
    BY <1>2, <1>4, WalkTurnsPage
<1> HIDE DEF more
<1>8. next \in WalkOf(s) /\ next.step # "waiting"
    BY <1>5, <1>6, <1>7
<1> HIDE DEF next
<1> QED BY <1>1, <1>8, AnsweredKeeps

LEMMA WalkLists ==
    ASSUME NEW s, NEW w \in WalkOf(s), w.step = "searching", NEW links \in Seq(STRING),
           NEW next, next = [w EXCEPT !.page = @ + 1, !.links = links]
    PROVE  next \in WalkOf(s) /\ next.step # "waiting"
<1>1. w \in Walk /\ w.left \in Seq(Wanted(s)) /\ w.found \in Seq(OffersOf(s))
    BY DEF WalkOf
<1>2. PICK page \in Nat \ {0} : page = w.page + 1
    BY <1>1 DEF Walk
<1>3. next = [w EXCEPT !.page = page, !.links = links]
    BY <1>2
<1>4. next \in Walk /\ next.step = "searching" /\ next.found = w.found /\ next.left = w.left
    BY ONLY <1>1, <1>3, w.step = "searching", links \in Seq(STRING) DEF Walk
<1>5. next \in WalkOf(s)
    BY <1>1, <1>4, WalkMade
<1> QED BY <1>4, <1>5

LEMMA WalkReadsLinks ==
    ASSUME NEW s, NEW w \in WalkOf(s), NEW links \in Seq(STRING), links # <<>>,
           links \in Seq(Wanted(s)),
           NEW next, next = [w EXCEPT !.step = "currency", !.links = links, !.left = links]
    PROVE  next \in WalkOf(s) /\ next.step # "waiting"
<1>1. w \in Walk /\ w.found \in Seq(OffersOf(s))
    BY DEF WalkOf
<1>2. next \in Walk /\ next.step = "currency" /\ next.found = w.found /\ next.left = links
    BY <1>1 DEF Walk, Steps
<1>3. next \in WalkOf(s)
    BY <1>1, <1>2, WalkMade
<1> QED BY <1>2, <1>3

LEMMA WalkReads ==
    ASSUME NEW s, NEW w \in WalkOf(s), w.left # <<>>,
           NEW next, next = [w EXCEPT !.step = "reading"]
    PROVE  next \in WalkOf(s) /\ next.step # "waiting"
<1>1. w \in Walk /\ w.found \in Seq(OffersOf(s)) /\ w.left \in Seq(Wanted(s))
    BY DEF WalkOf
<1>2. next \in Walk /\ next.step = "reading" /\ next.found = w.found /\ next.left = w.left
    BY <1>1 DEF Walk, Steps
<1>3. next \in WalkOf(s)
    BY <1>1, <1>2, WalkMade
<1> QED BY <1>2, <1>3

LEMMA RestOfList ==
    ASSUME NEW S, NEW list \in Seq(S), list # <<>>
    PROVE  Tail(list) \in Seq(S) /\ Head(list) \in S /\ (Len(list) # 1 => Tail(list) # <<>>)
<1>1. Len(list) \in Nat /\ Len(list) > 0
    OBVIOUS
<1>2. Tail(list) \in Seq(S) /\ Len(Tail(list)) = Len(list) - 1
    BY <1>1
<1>3. Len(list) # 1 => Len(Tail(list)) # 0
    BY <1>1, <1>2
<1>4. list[1] \in S
    BY <1>1
<1>5. Len(<<>>) = 0
    OBVIOUS
<1> QED BY <1>2, <1>3, <1>4, <1>5

LEMMA WalkNextProduct ==
    ASSUME NEW s, NEW w \in WalkOf(s), w.step = "reading", NEW found \in Seq(OffersOf(s))
    PROVE  NextProduct(w, found) \in WalkOf(s) /\ NextProduct(w, found).step # "waiting"
<1> DEFINE once == DeduplicateOffers(found)
           next == [w EXCEPT !.left = Tail(@), !.found = found]
<1>1. Done(w, once) \in WalkOf(s) /\ Done(w, once).step = "done"
    BY OnceEach, WalkIsDone
<1>2. w \in Walk /\ w.left \in Seq(Wanted(s)) /\ w.left # <<>> /\ found \in Seq(Offer)
    BY ListTypes DEF WalkOf
<1>3. CASE Len(w.left) # 1
    <2>1. PICK left \in Seq(Wanted(s)) : left = Tail(w.left) /\ left # <<>>
        BY <1>2, <1>3, RestOfList
    <2>2. next = [w EXCEPT !.left = left, !.found = found] /\ left \in Seq(STRING)
        BY <2>1, ListTypes
    <2>3. next \in Walk /\ next.step = "reading" /\ next.found = found /\ next.left = left
        BY ONLY <1>2, <2>2, w.step = "reading" DEF Walk
    <2> HIDE DEF next
    <2>4. next \in WalkOf(s)
        BY <1>2, <2>1, <2>3, WalkMade
    <2>5. NextProduct(w, found) = next
        BY <1>3 DEF NextProduct, next
    <2> QED BY <2>3, <2>4, <2>5
<1>4. CASE Len(w.left) = 1
    BY <1>1, <1>4 DEF NextProduct
<1> QED BY <1>3, <1>4

(* Clients other than tcgmatch's read whatever product they find.          *)
LEMMA AnyWanted ==
    ASSUME NEW s, Kind(s) # "tcgmatch"
    PROVE  Seq(Wanted(s)) = Seq(STRING) /\ \A list \in Seq(Stock(s)) : Ids(list) \in Seq(STRING)
<1>1. Wanted(s) = STRING
    BY DEF Wanted
<1>2. \A p \in Stock(s) : p.id \in STRING
    BY DEF Stock, Product
<1> QED BY <1>1, <1>2, IdsOf

LEMMA SearchShopifyKeeps ==
    ASSUME OfferInv, NEW s \in Walkers, SearchShopify(s) PROVE OfferInv'
<1> DEFINE w == walk[s]
           n == IF s \in setup.loops THEN 1 ELSE w.page
           page == Page(Available(s), n)
           fresh == Select(Ids(page), LAMBDA id : ~Contains(w.links, id))
           links == w.links \o fresh
           goesOn == s \in setup.loops \/ Len(Available(s)) > w.page * PageSize
           more == [w EXCEPT !.page = @ + 1, !.links = links]
           read == [w EXCEPT !.step = "currency", !.links = links, !.left = links]
           next == IF w.page > 1 /\ fresh = <<>> THEN Failed(w)
                   ELSE IF goesOn THEN more
                   ELSE IF links = <<>> THEN Done(w, <<>>) ELSE read
<1>1. Answered(s, "shopify", "searching") /\ Replied(s, next)
    BY DEF SearchShopify
<1>2. w \in WalkOf(s) /\ w.page \in Nat \ {0} /\ w.links \in Seq(STRING)
         /\ w.step = "searching" /\ Kind(s) # "tcgmatch"
    BY <1>1, WalkHere DEF Answered
<1>3. Ids(page) \in Seq(STRING)
    BY <1>2, ListedStock, AnyWanted
<1> DEFINE ids == Ids(page)
           seen == w.links
<1>11. fresh = Keep(ids, {i \in DOMAIN ids : ~Contains(seen, ids[i])})
    BY DEF Select
<1> HIDE DEF page, goesOn, ids, fresh, w, seen
<1>4. fresh \in Seq(STRING)
    <2>1. ids \in Seq(STRING)
        BY <1>3 DEF ids
    <2> QED BY <1>11, <2>1, KeepChooses
<1>5. links \in Seq(STRING) /\ links \in Seq(Wanted(s))
    BY <1>2, <1>4, AnyWanted
<1> HIDE DEF links
<1>6. Failed(w) \in WalkOf(s) /\ Failed(w).step = "failed"
    BY <1>2, WalkFails
<1>7. Done(w, <<>>) \in WalkOf(s) /\ Done(w, <<>>).step = "done"
    BY <1>2, WalkIsDone, ListTypes
<1>8. more \in WalkOf(s) /\ more.step # "waiting"
    BY <1>2, <1>5, WalkLists
<1>9. links # <<>> => read \in WalkOf(s) /\ read.step # "waiting"
    BY <1>2, <1>5, WalkReadsLinks
<1> HIDE DEF more, read
<1>10. next \in WalkOf(s) /\ next.step # "waiting"
    BY <1>6, <1>7, <1>8, <1>9
<1> HIDE DEF next
<1> QED BY <1>1, <1>10, AnsweredKeeps

LEMMA ReadCurrencyKeeps ==
    ASSUME OfferInv, NEW s \in Walkers, ReadCurrency(s) PROVE OfferInv'
<1> DEFINE next == [walk[s] EXCEPT !.step = "reading"]
<1>1. Answered(s, "shopify", "currency") /\ Replied(s, next)
    BY DEF ReadCurrency
<1>2. walk[s] \in WalkOf(s) /\ walk[s].left # <<>>
    BY <1>1, WalkHere, WalkParts DEF Answered
<1>3. next \in WalkOf(s) /\ next.step # "waiting"
    BY <1>2, WalkReads
<1> HIDE DEF next
<1> QED BY <1>1, <1>3, AnsweredKeeps

LEMMA ReadShopifyProductKeeps ==
    ASSUME OfferInv, NEW s \in Walkers, ReadShopifyProduct(s) PROVE OfferInv'
<1> DEFINE w == walk[s]
           page == ProductPage(s, Head(w.left))
           kept == Sellable(Accepted(page))
           found == w.found \o Offers(s, kept)
           next == IF page = <<>> \/ ~Priced(kept) THEN Failed(w) ELSE NextProduct(w, found)
<1>1. Answered(s, "shopify", "reading") /\ Replied(s, next)
    BY DEF ReadShopifyProduct
<1>2. w \in WalkOf(s) /\ s \in DOMAIN setup.client /\ w.step = "reading" /\ Kind(s) # "tcgmatch"
         /\ shelf[s] \in Seq(Stock(s))
    BY <1>1, WalkHere DEF Answered
<1>3. kept \in Seq(Stock(s))
    BY <1>2, SelectProductPage, SelectAccepted, SelectSellable
<1> HIDE DEF kept, page
<1>4. found \in Seq(OffersOf(s))
    BY <1>2, <1>3, OffersAdded
<1> HIDE DEF w, found
<1>5. Failed(w) \in WalkOf(s) /\ Failed(w).step = "failed"
    BY <1>2, WalkFails
<1>6. NextProduct(w, found) \in WalkOf(s) /\ NextProduct(w, found).step # "waiting"
    BY <1>2, <1>4, WalkNextProduct
<1>7. next \in WalkOf(s) /\ next.step # "waiting"
    BY <1>5, <1>6
<1> HIDE DEF next
<1> QED BY <1>1, <1>7, AnsweredKeeps

LEMMA WalkPlans ==
    ASSUME NEW s, NEW w \in WalkOf(s), w.step = "searching", NEW links \in Seq(STRING),
           NEW left \in Seq(Wanted(s)), NEW next,
           next = [w EXCEPT !.page = @ + 1, !.links = links, !.left = left]
    PROVE  next \in WalkOf(s) /\ next.step # "waiting"
<1>1. w \in Walk /\ w.found \in Seq(OffersOf(s)) /\ left \in Seq(STRING)
    BY ListTypes DEF WalkOf
<1>2. PICK page \in Nat \ {0} : page = w.page + 1
    BY <1>1 DEF Walk
<1>3. next = [w EXCEPT !.page = page, !.links = links, !.left = left]
    BY <1>2
<1>4. next \in Walk /\ next.step = "searching" /\ next.found = w.found /\ next.left = left
    BY ONLY <1>1, <1>3, w.step = "searching", links \in Seq(STRING) DEF Walk
<1>5. next \in WalkOf(s)
    BY <1>1, <1>4, WalkMade
<1> QED BY <1>4, <1>5

LEMMA SearchJumpsellerKeeps ==
    ASSUME OfferInv, NEW s \in Walkers, SearchJumpseller(s) PROVE OfferInv'
<1> DEFINE w == walk[s]
           page == Listed(s, w.page)
           seen == w.links
           fresh == Select(page, LAMBDA p : ~Contains(w.links, p.id))
           ids == Ids(fresh)
           paths == Ids(Accepted(fresh))
           links == w.links \o ids
           left == w.left \o paths
           read == [w EXCEPT !.page = @ + 1, !.links = @ \o ids, !.left = @ \o paths]
           index == [w EXCEPT !.step = "reading"]
           next == IF page = <<>> THEN IF w.left = <<>> THEN Done(w, <<>>) ELSE index
                   ELSE IF fresh = <<>> THEN Failed(w) ELSE read
<1>1. Answered(s, "jumpseller", "searching") /\ Replied(s, next)
    BY DEF SearchJumpseller
<1>2. w \in WalkOf(s) /\ w.page \in Nat \ {0} /\ w.links \in Seq(STRING)
         /\ w.left \in Seq(Wanted(s)) /\ w.step = "searching" /\ Kind(s) # "tcgmatch"
    BY <1>1, WalkHere DEF Answered
<1>3. page \in Seq(Stock(s))
    BY <1>2, ListedStock
<1>4. fresh = Keep(page, {i \in DOMAIN page : ~Contains(seen, page[i].id)})
    BY DEF Select
<1>13. read = [w EXCEPT !.page = @ + 1, !.links = links, !.left = left]
    OBVIOUS
<1> HIDE DEF page, fresh, seen
<1>5. fresh \in Seq(Stock(s)) /\ Accepted(fresh) \in Seq(Stock(s))
    BY <1>3, <1>4, KeepChooses, SelectAccepted
<1>6. ids \in Seq(STRING) /\ paths \in Seq(Wanted(s))
    BY <1>2, <1>5, AnyWanted
<1> HIDE DEF ids, paths, w
<1>7. links \in Seq(STRING) /\ left \in Seq(Wanted(s))
    BY <1>2, <1>6
<1> HIDE DEF links, left, read
<1>8. read \in WalkOf(s) /\ read.step # "waiting"
    BY <1>2, <1>7, <1>13, WalkPlans
<1>9. w.left # <<>> => index \in WalkOf(s) /\ index.step # "waiting"
    BY <1>2, WalkReads
<1>10. Failed(w) \in WalkOf(s) /\ Failed(w).step = "failed"
    BY <1>2, WalkFails
<1>11. Done(w, <<>>) \in WalkOf(s) /\ Done(w, <<>>).step = "done"
    BY <1>2, WalkIsDone, ListTypes
<1> HIDE DEF index
<1>12. next \in WalkOf(s) /\ next.step # "waiting"
    BY <1>8, <1>9, <1>10, <1>11
<1> HIDE DEF next
<1> QED BY <1>1, <1>12, AnsweredKeeps

LEMMA ReadJumpsellerProductKeeps ==
    ASSUME OfferInv, NEW s \in Walkers, ReadJumpsellerProduct(s) PROVE OfferInv'
<1> DEFINE w == walk[s]
           page == ProductPage(s, Head(w.left))
           kept == Sellable(Accepted(page))
           found == w.found \o Offers(s, kept)
           next == IF ~Parsed(page) THEN Failed(w) ELSE NextProduct(w, found)
<1>1. Answered(s, "jumpseller", "reading") /\ Replied(s, next)
    BY DEF ReadJumpsellerProduct
<1>2. w \in WalkOf(s) /\ s \in DOMAIN setup.client /\ w.step = "reading" /\ Kind(s) # "tcgmatch"
         /\ shelf[s] \in Seq(Stock(s))
    BY <1>1, WalkHere DEF Answered
<1>3. kept \in Seq(Stock(s))
    BY <1>2, SelectProductPage, SelectAccepted, SelectSellable
<1> HIDE DEF kept, page
<1>4. found \in Seq(OffersOf(s))
    BY <1>2, <1>3, OffersAdded
<1> HIDE DEF w, found
<1>5. Failed(w) \in WalkOf(s) /\ Failed(w).step = "failed"
    BY <1>2, WalkFails
<1>6. NextProduct(w, found) \in WalkOf(s) /\ NextProduct(w, found).step # "waiting"
    BY <1>2, <1>4, WalkNextProduct
<1>7. next \in WalkOf(s) /\ next.step # "waiting"
    BY <1>5, <1>6
<1> HIDE DEF next
<1> QED BY <1>1, <1>7, AnsweredKeeps

(* A list that was kept is stock as much as one that is read.              *)
LEMMA InventoryStock ==
    ASSUME OfferInv, NEW s \in DOMAIN setup.client PROVE Inventory(s) \in Seq(Stock(s))
<1>1. CASE setup.cached[s] = None
    BY <1>1 DEF OfferInv, ShelvesHold, Inventory
<1>2. CASE setup.cached[s] # None
    <2> DEFINE list == setup.cached[s]
    <2>1. list \in Seq(Product)
        BY <1>2, SetupShape DEF OfferInv, TypeOK
    <2>2. \A i \in DOMAIN list : list[i] \in Goods(setup, s)
        BY <1>2 DEF Goods, ToSet
    <2>3. \A i \in DOMAIN list : list[i] \in Stock(s)
        BY <2>1, <2>2 DEF Stock
    <2> QED BY <1>2, <2>1, <2>3 DEF Inventory
<1> QED BY <1>1, <1>2

LEMMA ReadListKeeps ==
    ASSUME OfferInv, NEW s \in Walkers, ReadList(s) PROVE OfferInv'
<1> DEFINE w == walk[s]
           kept == Accepted(Entries(Inventory(s)))
           found == Offers(s, kept)
           next == Done(w, found)
<1>1. Answered(s, "moxfield", "searching") /\ Replied(s, next)
    BY DEF ReadList
<1>2. w \in WalkOf(s) /\ s \in DOMAIN setup.client /\ Kind(s) # "tcgmatch"
    BY <1>1, WalkHere DEF Answered
<1>3. kept \in Seq(Stock(s))
    BY <1>2, InventoryStock, SelectEntries, SelectAccepted
<1> HIDE DEF kept
<1>4. found \in Seq(OffersOf(s))
    BY <1>2, <1>3, OffersAdded
<1> HIDE DEF w, found
<1>5. next \in WalkOf(s) /\ next.step = "done"
    BY <1>2, <1>4, WalkIsDone
<1> HIDE DEF next
<1> QED BY <1>1, <1>5, AnsweredKeeps

LEMMA WalkReadsOn ==
    ASSUME NEW s, NEW w \in WalkOf(s)
    PROVE  ReadOn(w) \in WalkOf(s) /\ ReadOn(w).step # "waiting"
<1> DEFINE next == [w EXCEPT !.step = "reading"]
<1>1. Done(w, <<>>) \in WalkOf(s) /\ Done(w, <<>>).step = "done"
    BY WalkIsDone, ListTypes
<1>2. w.left # <<>> => next \in WalkOf(s) /\ next.step # "waiting"
    BY WalkReads
<1> HIDE DEF next
<1> QED BY <1>1, <1>2 DEF ReadOn, next

LEMMA WalkChooses ==
    ASSUME NEW s, NEW w \in WalkOf(s), w.step = "searching", NEW left \in Seq(Wanted(s)),
           NEW next, next = [w EXCEPT !.left = left]
    PROVE  next \in WalkOf(s)
<1>1. w \in Walk /\ w.found \in Seq(OffersOf(s)) /\ left \in Seq(STRING)
    BY ListTypes DEF WalkOf
<1>2. next \in Walk /\ next.step = "searching" /\ next.found = w.found /\ next.left = left
    BY ONLY <1>1, w.step = "searching", next = [w EXCEPT !.left = left] DEF Walk
<1> QED BY <1>1, <1>2, WalkMade

LEMMA WalkAsksBriefs ==
    ASSUME NEW w \in WalkOf(Agg), w.step = "searching", NEW next, next = [w EXCEPT !.step = "briefs"]
    PROVE  next \in WalkOf(Agg) /\ next.step # "waiting"
<1>1. w \in Walk /\ w.found \in Seq(OffersOf(Agg)) /\ w.left \in Seq(Wanted(Agg))
    BY DEF WalkOf
<1>2. next \in Walk /\ next.step = "briefs" /\ next.found = w.found /\ next.left = w.left
    BY <1>1 DEF Walk, Steps
<1> QED BY <1>1, <1>2, WalkMade

LEMMA WalkAsksCards ==
    ASSUME NEW w \in WalkOf(Agg), NEW cards \in Seq(STRING), cards # <<>>,
           NEW next, next = [w EXCEPT !.step = "cards", !.links = cards]
    PROVE  next \in WalkOf(Agg) /\ next.step # "waiting"
<1>1. w \in Walk /\ w.found \in Seq(OffersOf(Agg)) /\ w.left \in Seq(Wanted(Agg))
    BY DEF WalkOf
<1>2. next \in Walk /\ next.step = "cards" /\ next.found = w.found /\ next.left = w.left
         /\ next.links = cards
    BY <1>1 DEF Walk, Steps
<1> QED BY <1>1, <1>2, WalkMade

LEMMA WalkAfterCard ==
    ASSUME NEW w \in WalkOf(Agg), w.step = "cards", NEW known \in SUBSET STRING
    PROVE  AfterCard(w, known) \in WalkOf(Agg) /\ AfterCard(w, known).step # "waiting"
<1> DEFINE next == [w EXCEPT !.links = Tail(@), !.known = known]
<1>1. w \in Walk /\ w.found \in Seq(OffersOf(Agg)) /\ w.left \in Seq(Wanted(Agg))
         /\ w.links \in Seq(STRING) /\ w.links # <<>>
    BY WalkParts DEF WalkOf
<1>2. PICK links \in Seq(STRING) : links = Tail(w.links) /\ (Len(w.links) # 1 => links # <<>>)
    BY <1>1, RestOfList
<1>3. next = [w EXCEPT !.links = links, !.known = known]
    BY <1>2
<1>4. next \in Walk /\ next.step = "cards" /\ next.found = w.found /\ next.left = w.left
         /\ next.links = links
    BY ONLY <1>1, <1>3, w.step = "cards", known \in SUBSET STRING, links \in Seq(STRING) DEF Walk
<1>7. AfterCard(w, known) = IF Len(w.links) = 1 THEN ReadOn(next) ELSE next
    BY DEF AfterCard
<1> HIDE DEF next
<1>5. CASE Len(w.links) # 1
    <2>1. next \in WalkOf(Agg)
        BY <1>1, <1>2, <1>4, <1>5, WalkMade
    <2> QED BY <1>4, <1>5, <1>7, <2>1
<1>6. CASE Len(w.links) = 1
    <2> DEFINE read == [next EXCEPT !.step = "reading"]
               over == Done(next, <<>>)
    <2>6. <<>> \in Seq(Offer)
        OBVIOUS
    <2>1. over \in Walk /\ over.step = "done" /\ over.left = w.left /\ over.found = <<>>
        BY <1>4, <2>6 DEF Walk, Done, Steps, Ended
    <2>2. read \in Walk /\ read.step = "reading" /\ read.left = w.left /\ read.found = w.found
        BY <1>4 DEF Walk, Steps
    <2>3. AfterCard(w, known) = IF next.left = <<>> THEN over ELSE read
        BY <1>6, <1>7 DEF ReadOn
    <2> HIDE DEF read, over
    <2>4. over \in WalkOf(Agg)
        BY <1>1, <2>1, WalkMade, ListTypes
    <2>5. w.left # <<>> => read \in WalkOf(Agg)
        BY <1>1, <2>2, WalkMade
    <2> QED BY <1>4, <2>1, <2>2, <2>3, <2>4, <2>5
<1> QED BY <1>5, <1>6

(* The catalog is the beginning of the shelf.                              *)
LEMMA CatalogStock ==
    ASSUME OfferInv, Agg \in Walkers
    PROVE  Catalog \in Seq(Stock(Agg))
<1>1. shelf[Agg] \in Seq(Stock(Agg))
    BY WalkHere
<1>2. CatalogLimit \in Nat
    BY OfferSearchAssumption
<1> QED BY <1>1, <1>2, PartOfList DEF Catalog

LEMMA CatalogIds ==
    ASSUME OfferInv, Agg \in Walkers
    PROVE  /\ Ids(Select(Accepted(Catalog), LAMBDA p : p.kind = query.kind)) \in Seq(Wanted(Agg))
           /\ Catalog # <<>> => Ids(selectPokemonCards) \in Seq(STRING)
<1> DEFINE list == Accepted(Catalog)
           kept == Select(list, LAMBDA p : p.kind = query.kind)
           wanted == {p \in Stock(Agg) : p.kind = query.kind}
<1>1. Catalog \in Seq(Stock(Agg)) /\ list \in Seq(Stock(Agg))
    BY CatalogStock, SelectAccepted
<1>2. \A p \in Stock(Agg) : p.id \in STRING
    BY DEF Stock, Product
<1>3. kept \in Seq(wanted)
    <2> DEFINE places == {i \in DOMAIN list : list[i].kind = query.kind}
    <2>1. kept = Keep(list, places)
        BY DEF Select
    <2>2. \A i \in DOMAIN list : i \in places => list[i] \in wanted
        BY <1>1
    <2> HIDE DEF places, kept, wanted, list
    <2> QED BY <1>1, <2>1, <2>2, KeepInto
<1>4. \A p \in wanted : p.id \in Wanted(Agg)
    BY <1>2 DEF Wanted
<1>5. Ids(kept) \in Seq(Wanted(Agg))
    <2> HIDE DEF kept, wanted
    <2> QED BY <1>3, <1>4, IdsOf
<1>6. selectPokemonCards \in Seq(Stock(Agg))
    <2> DEFINE test(p) == p.mechanics # "" /\ ContainsCard(p.title, ReadCardName(Catalog[1].title))
    <2>1. selectPokemonCards = Keep(Catalog, {i \in DOMAIN Catalog : test(Catalog[i])})
        BY DEF selectPokemonCards, Select
    <2> HIDE DEF test
    <2> QED BY <1>1, <2>1, KeepChooses
<1>7. Ids(selectPokemonCards) \in Seq(STRING)
    BY <1>2, <1>6, IdsOf
<1> QED BY <1>5, <1>7

LEMMA SearchCatalogKeeps ==
    ASSUME OfferInv, Agg \in Walkers, SearchCatalog PROVE OfferInv'
<1> DEFINE w == walk[Agg]
           left == Ids(Select(Accepted(Catalog), LAMBDA p : p.kind = query.kind))
           read == [w EXCEPT !.left = left]
           briefs == [read EXCEPT !.step = "briefs"]
           pokemon == setup.game = "pokemon" /\ ~Sealed(query) /\ Catalog # <<>>
           next == IF pokemon THEN briefs ELSE ReadOn(read)
<1>1. Answered(Agg, "tcgmatch", "searching") /\ Replied(Agg, next)
    BY DEF SearchCatalog
<1>2. w \in WalkOf(Agg) /\ w.step = "searching" /\ left \in Seq(Wanted(Agg))
    BY <1>1, WalkHere, CatalogIds DEF Answered
<1> HIDE DEF left, pokemon, w
<1>3. read \in WalkOf(Agg) /\ read.step = "searching"
    <2>1. read \in WalkOf(Agg)
        BY <1>2, WalkChooses
    <2>2. w \in Walk
        BY <1>2 DEF WalkOf
    <2> QED BY <1>2, <2>1, <2>2 DEF Walk
<1> HIDE DEF read
<1>4. briefs \in WalkOf(Agg) /\ briefs.step # "waiting"
    BY <1>3, WalkAsksBriefs
<1>5. ReadOn(read) \in WalkOf(Agg) /\ ReadOn(read).step # "waiting"
    BY <1>3, WalkReadsOn
<1> HIDE DEF briefs
<1>6. next \in WalkOf(Agg) /\ next.step # "waiting"
    BY <1>4, <1>5
<1> HIDE DEF next
<1> QED BY <1>1, <1>6, AnsweredKeeps

LEMMA ReadBriefsKeeps ==
    ASSUME OfferInv, Agg \in Walkers, ReadBriefs PROVE OfferInv'
<1> DEFINE w == walk[Agg]
           cards == IF Catalog = <<>> THEN <<>> ELSE Ids(selectPokemonCards)
           more == [w EXCEPT !.step = "cards", !.links = cards]
           next == IF cards = <<>> THEN ReadOn(w) ELSE more
<1>1. Answered(Agg, "tcgmatch", "briefs") /\ Replied(Agg, next)
    BY DEF ReadBriefs
<1>2. w \in WalkOf(Agg) /\ cards \in Seq(STRING)
    <2>1. <<>> \in Seq(STRING)
        OBVIOUS
    <2>2. Catalog # <<>> => Ids(selectPokemonCards) \in Seq(STRING)
        BY CatalogIds
    <2>3. w \in WalkOf(Agg)
        BY WalkHere
    <2> QED BY ONLY <2>1, <2>2, <2>3
<1> HIDE DEF cards, w
<1>3. cards # <<>> => more \in WalkOf(Agg) /\ more.step # "waiting"
    BY <1>2, WalkAsksCards
<1>4. ReadOn(w) \in WalkOf(Agg) /\ ReadOn(w).step # "waiting"
    BY <1>2, WalkReadsOn
<1> HIDE DEF more
<1>5. next \in WalkOf(Agg) /\ next.step # "waiting"
    BY <1>3, <1>4
<1> HIDE DEF next
<1> QED BY <1>1, <1>5, AnsweredKeeps

LEMMA ReadPokemonCardKeeps ==
    ASSUME OfferInv, Agg \in Walkers, ReadPokemonCard PROVE OfferInv'
<1> DEFINE w == walk[Agg]
           known == w.known \union {Head(w.links)}
           next == AfterCard(w, known)
<1>1. Answered(Agg, "tcgmatch", "cards") /\ Replied(Agg, next)
    BY DEF ReadPokemonCard
<1>2. w \in WalkOf(Agg) /\ w.step = "cards"
    BY <1>1, WalkHere DEF Answered
<1> HIDE DEF w
<1>3. known \in SUBSET STRING
    <2>1. w.known \in SUBSET STRING /\ w.links \in Seq(STRING) /\ w.links # <<>>
        BY <1>2, WalkParts
    <2> QED BY <2>1, RestOfList
<1> HIDE DEF known
<1>4. next \in WalkOf(Agg) /\ next.step # "waiting"
    BY <1>2, <1>3, WalkAfterCard
<1> HIDE DEF next
<1> QED BY <1>1, <1>4, AnsweredKeeps

LEMMA FunctionFailsKeeps ==
    ASSUME OfferInv, Agg \in Walkers, FunctionFails PROVE OfferInv'
<1> DEFINE w == walk[Agg]
           next == IF w.step = "briefs" THEN ReadOn(w) ELSE AfterCard(w, w.known)
<1>1. /\ w.step \in {"briefs", "cards"} /\ Replied(Agg, next)
      /\ faults' = faults \/ (faults < MaxFaults /\ faults' = faults + 1)
    BY DEF FunctionFails
<1>2. w \in WalkOf(Agg) /\ w.known \in SUBSET STRING
    BY WalkHere
<1>3. faults' \in 0..MaxFaults
    <2>1. faults \in 0..MaxFaults /\ MaxFaults \in Nat
        BY OfferSearchAssumption DEF OfferInv, TypeOK
    <2> QED BY <1>1, <2>1
<1>4. walk[Agg].step \notin Ended
    BY <1>1 DEF Ended
<1> HIDE DEF w
<1>5. ReadOn(w) \in WalkOf(Agg) /\ ReadOn(w).step # "waiting"
    BY <1>2, WalkReadsOn
<1>6. w.step = "cards" => AfterCard(w, w.known) \in WalkOf(Agg) /\ AfterCard(w, w.known).step # "waiting"
    BY <1>2, WalkAfterCard
<1>7. next \in WalkOf(Agg) /\ next.step # "waiting"
    BY <1>1, <1>5, <1>6
<1> HIDE DEF next
<1> QED BY <1>1, <1>3, <1>4, <1>7, RepliedKeeps

(* The listings of a product of the kind asked for are of that kind.       *)
LEMMA ListingsBuilt ==
    ASSUME OfferInv, Agg \in Walkers, Kind(Agg) = "tcgmatch", walk[Agg].left # <<>>,
           NEW listings, listings = Listings(ProductPage(Agg, Head(walk[Agg].left)))
    PROVE  listings \in Seq(Stock(Agg)) /\ Offers(Agg, listings) \in Seq(OffersOf(Agg))
<1> DEFINE id == Head(walk[Agg].left)
           page == ProductPage(Agg, id)
           here == {p \in Stock(Agg) : p.id = id}
<1>1. /\ shelf[Agg] \in Seq(Stock(Agg)) /\ Agg \in DOMAIN setup.client
      /\ walk[Agg].left \in Seq(Wanted(Agg)) /\ setup \in Setups
    BY WalkHere DEF OfferInv, TypeOK
<1>2. PICK q \in Stock(Agg) : q.id = id /\ q.kind = query.kind
    <2>1. id \in Wanted(Agg)
        BY <1>1, RestOfList
    <2> QED BY <2>1 DEF Wanted
<1>3. \A p \in here : p.kind = query.kind
    <2> SUFFICES ASSUME NEW p \in Stock(Agg), p.id = id PROVE p.kind = query.kind
        OBVIOUS
    <2>1. Looks(p) = Looks(q)
        BY <1>1, <1>2, OneLook
    <2> QED BY <1>2, <2>1 DEF Looks
<1>4. listings \in Seq(here)
    <2>1. page \in Seq(here)
        BY <1>1, SelectProductPage
    <2> HIDE DEF here
    <2> QED BY <2>1, SelectEntries
<1>5. listings \in Seq(Stock(Agg)) /\ \A i \in DOMAIN listings : OfKind(Agg, listings[i])
    BY <1>3, <1>4 DEF OfKind
<1>6. Offers(Agg, listings) \in Seq(OffersOf(Agg))
    BY <1>1, <1>5, OffersBuilt
<1> QED BY <1>5, <1>6

LEMMA ReadListingsKeeps ==
    ASSUME OfferInv, Agg \in Walkers, ReadListings PROVE OfferInv'
<1> DEFINE w == walk[Agg]
           more == Offers(Agg, Listings(ProductPage(Agg, Head(w.left))))
           found == w.found \o more
           next == NextProduct(w, found)
<1>1. Answered(Agg, "tcgmatch", "reading") /\ Replied(Agg, next)
    BY DEF ReadListings
<1>2. /\ w \in WalkOf(Agg) /\ w.step = "reading" /\ Kind(Agg) = "tcgmatch"
      /\ w.found \in Seq(OffersOf(Agg)) /\ w.left # <<>>
    BY <1>1, WalkHere, WalkParts DEF Answered
<1>3. more \in Seq(OffersOf(Agg))
    BY <1>2, ListingsBuilt
<1> HIDE DEF more, w
<1>4. found \in Seq(OffersOf(Agg))
    BY <1>2, <1>3
<1> HIDE DEF found
<1>5. next \in WalkOf(Agg) /\ next.step # "waiting"
    BY <1>2, <1>4, WalkNextProduct
<1> HIDE DEF next
<1> QED BY <1>1, <1>5, AnsweredKeeps

LEMMA UnknownStock ==
    ASSUME NEW s, NEW o \in OffersOf(s) PROVE [o EXCEPT !.status = "unknown"] \in OffersOf(s)
<1> DEFINE u == [o EXCEPT !.status = "unknown"]
<1>1. PICK p \in Stock(s) : Offering(s, o, p)
    BY DEF OffersOf
<1>2. o \in Offer
    BY DEF OffersOf
<1>3. u \in Offer
    BY ONLY <1>2 DEF Offer
<1>4. u.source = o.source /\ u.url = o.url /\ u.variant = o.variant /\ u.store = o.store
         /\ u.host = o.host /\ u.title = o.title /\ u.edition = o.edition /\ u.game = o.game
         /\ u.product = o.product /\ u.function = o.function
    BY ONLY <1>2 DEF Offer
<1> HIDE DEF u
<1>5. Offering(s, u, p)
    BY <1>1, <1>4 DEF Offering
<1> QED BY <1>3, <1>5 DEF OffersOf, u

(* What the page of a card offers, before and after the same is left out.  *)
LEMMA CardOffers ==
    ASSUME OfferInv, Agg \in Walkers, Kind(Agg) # "tcgmatch", NEW list, list = shelf[Agg], NEW items,
           items = [i \in DOMAIN list |-> [buildOffer(Agg)[list[i]] EXCEPT !.status = "unknown"]]
    PROVE  /\ items \in Seq(OffersOf(Agg)) /\ CardPage = DeduplicateOffers(items)
           /\ \A i \in DOMAIN list : buildOffer(Agg)[list[i]] \in OffersOf(Agg)
           /\ CardPage \in Seq(OffersOf(Agg))
<1>1. list \in Seq(Stock(Agg)) /\ Agg \in DOMAIN setup.client
    BY WalkHere
<1>2. \A i \in DOMAIN list : buildOffer(Agg)[list[i]] \in OffersOf(Agg)
    BY <1>1, OfferBuilt DEF OfKind
<1>3. items \in Seq(OffersOf(Agg))
    <2>1. \A i \in DOMAIN list : [buildOffer(Agg)[list[i]] EXCEPT !.status = "unknown"] \in OffersOf(Agg)
        BY <1>2, UnknownStock
    <2>2. DOMAIN list = 1..Len(list) /\ Len(list) \in Nat
        BY <1>1
    <2> QED BY <2>1, <2>2
<1>4. CardPage = DeduplicateOffers(items)
    BY DEF CardPage
<1>5. CardPage \in Seq(OffersOf(Agg))
    BY <1>3, <1>4, OnceEach
<1> QED BY <1>2, <1>3, <1>4, <1>5

LEMMA ReadCardPageKeeps ==
    ASSUME OfferInv, Agg \in Walkers, ReadCardPage PROVE OfferInv'
<1> DEFINE w == walk[Agg]
           found == IF setup.community THEN CardPage ELSE withoutCommunityOffers(CardPage)
           next == IF ~Priced(shelf[Agg]) THEN Failed(w) ELSE Done(w, found)
<1>1. Answered(Agg, "scrycl", "searching") /\ Replied(Agg, next)
    BY DEF ReadCardPage
<1>2. w \in WalkOf(Agg) /\ Kind(Agg) # "tcgmatch"
    BY <1>1, WalkHere DEF Answered
<1>3. found \in Seq(OffersOf(Agg))
    BY <1>2, CardOffers, SelectSites
<1> HIDE DEF found, w
<1>4. Failed(w) \in WalkOf(Agg) /\ Failed(w).step = "failed"
    BY <1>2, WalkFails
<1>5. Done(w, found) \in WalkOf(Agg) /\ Done(w, found).step = "done"
    BY <1>2, <1>3, WalkIsDone
<1>6. next \in WalkOf(Agg) /\ next.step # "waiting"
    BY <1>4, <1>5
<1> HIDE DEF next
<1> QED BY <1>1, <1>6, AnsweredKeeps

LEMMA RequestFailsKeeps ==
    ASSUME OfferInv, NEW s \in Walkers, RequestFails(s) PROVE OfferInv'
<1> DEFINE next == Failed(walk[s])
<1>1. Requesting(s) /\ Replied(s, next)
      /\ (faults' = faults \/ (faults < MaxFaults /\ faults' = faults + 1))
    BY DEF RequestFails
<1>2. next \in WalkOf(s) /\ next.step = "failed"
    BY WalkHere, WalkFails
<1>3. faults' \in 0..MaxFaults
    <2>1. MaxFaults \in Nat
        BY OfferSearchAssumption
    <2>2. faults \in 0..MaxFaults
        BY DEF OfferInv, TypeOK
    <2> QED BY <1>1, <2>1, <2>2
<1>4. walk[s].step \notin Ended
    BY <1>1 DEF Requesting, Ended
<1> HIDE DEF next
<1> QED BY <1>1, <1>2, <1>3, <1>4, RepliedKeeps

(* Steps that change neither the walks nor who is asked.                   *)
LEMMA StillBusy ==
    ASSUME UNCHANGED <<setup, walk>>
    PROVE  Busy' = Busy /\ \A s : Requesting(s)' <=> Requesting(s)
<1>1. Stores' = Stores
    BY SameSetup
<1> QED BY <1>1 DEF Busy, Requesting

(* A store that waits takes its turn, or gives it up.                      *)
LEMMA TurnKeeps ==
    ASSUME OfferInv, NEW s \in Stores, walk[s].step = "waiting", NEW step \in {"searching", "failed"},
           walk' = [walk EXCEPT ![s].step = step],
           UNCHANGED <<setup, world, gate, expired, answer, faults>>,
           turns' = IF step = "searching" THEN turns + 1 ELSE turns,
           step = "searching" => turns < maxConcurrentSources
    PROVE  OfferInv'
<1> DEFINE names == DOMAIN setup.client
           next == [walk[s] EXCEPT !.step = step]
<1>1. /\ setup \in Setups /\ shelf \in [names -> Seq(Product)] /\ walk \in [names -> Walk]
      /\ turns \in 0..maxConcurrentSources /\ turns = Cardinality(Busy)
      /\ GateHolds /\ faults \in 0..MaxFaults
      /\ expired \in BOOLEAN /\ answer.state \in {"none", "error", "found"} /\ moves \in 0..MaxMoves
    BY DEF OfferInv, TypeOK, Busy, GateHolds
<1>2. /\ setup' = setup /\ shelf' = shelf /\ moves' = moves /\ expired' = expired
      /\ answer' = answer /\ gate' = gate /\ faults' = faults
    BY DEF world
<1>3. s \in names \ {Agg} /\ s \in Walkers /\ IsFiniteSet(Stores) /\ None \notin Stores
    BY <1>1, Askers DEF Walkers
<1>4. /\ Stores' = Stores /\ Walkers' = Walkers /\ names' = names
      /\ \A t : Stock(t)' = Stock(t) /\ WalkOf(t)' = WalkOf(t) /\ Kind(t)' = Kind(t)
    BY <1>2, SameSetup
<1>5. walk[s] \in WalkOf(s) /\ walk[s] \in Walk
    BY <1>1, <1>3, WalkHere
<1>6. next \in Walk /\ next.step = step /\ next.found = <<>> /\ next.left = walk[s].left
    <2>1. step \in Steps
        BY DEF Steps, Ended
    <2>2. walk[s].found = <<>>
        BY <1>5 DEF WalkOf
    <2> QED BY <1>5, <2>1, <2>2 DEF Walk
<1>7. next \in WalkOf(s)
    BY <1>5, <1>6, ListTypes, WalkMade DEF WalkOf
<1>8. walk' \in [names -> Walk] /\ walk'[s] = next /\ \A t \in names \ {s} : walk'[t] = walk[t]
    <2>1. walk' = [walk EXCEPT ![s] = next]
        OBVIOUS
    <2> HIDE DEF next
    <2> QED BY <1>1, <1>3, <1>6, <2>1
<1> HIDE DEF next
<1>9. \A t \in names \ {s} : Requesting(t)' <=> Requesting(t)
    BY <1>8 DEF Requesting
<1>10. s \notin Busy /\ (Requesting(s)' <=> step = "searching")
    BY <1>6, <1>8 DEF Busy, Requesting
<1>11. Stores \subseteq names
    BY <1>1, Askers
<1>12. turns' \in 0..maxConcurrentSources /\ turns' = Cardinality(Busy')
    <2>1. IsFiniteSet(Busy)
        BY <1>3, FS_Subset DEF Busy
    <2>2. CASE step = "searching"
        <3>1. Busy' = Busy \union {s}
            BY <1>4, <1>9, <1>10, <1>11, <2>2 DEF Busy
        <3>2. Cardinality(Busy') = Cardinality(Busy) + 1
            BY <1>10, <2>1, <3>1, FS_AddElement
        <3>3. maxConcurrentSources \in Nat
            BY OfferSearchAssumption
        <3> QED BY <1>1, <2>2, <3>2, <3>3
    <2>3. CASE step # "searching"
        <3>1. Busy' = Busy
            BY <1>4, <1>9, <1>10, <1>11, <2>3 DEF Busy
        <3> QED BY <1>1, <2>3, <3>1
    <2> QED BY <2>2, <2>3
<1>13. GateHolds'
    <2>1. CASE gate = None
        BY <1>2, <2>1 DEF GateHolds
    <2>2. CASE gate # None
        <3>1. gate \in Stores /\ Kind(gate) = "jumpseller" /\ Requesting(gate)
            BY <1>1, <2>2 DEF GateHolds
        <3>2. gate \in names \ {s}
            BY <1>10, <1>11, <3>1 DEF Busy
        <3>3. walk'[gate].step \in {"searching", "currency", "reading"} /\ setup'.client[gate] = "jumpseller"
            BY <1>2, <1>8, <3>1, <3>2 DEF Requesting, Kind
        <3> QED BY <1>2, <1>4, <3>1, <3>3 DEF GateHolds, Requesting, Kind
    <2> QED BY <2>1, <2>2
<1>14. TypeOK'
    <2>1. shelf' \in [DOMAIN setup'.client -> Seq(Product)] /\ walk' \in [DOMAIN setup'.client -> Walk]
             /\ setup' \in Setups
        BY <1>1, <1>2, <1>8
    <2>2. expired' \in BOOLEAN /\ answer'.state \in {"none", "error", "found"} /\ moves' \in 0..MaxMoves
             /\ faults' \in 0..MaxFaults
        BY <1>1, <1>2
    <2> QED BY <1>4, <1>12, <1>13, <2>1, <2>2 DEF TypeOK, Busy, GateHolds
<1>15. ShelvesHold' /\ WalksHold'
    <2>1. ShelvesHold'
        BY <1>2, <1>4 DEF OfferInv, ShelvesHold
    <2>2. ASSUME NEW t \in names PROVE walk'[t] \in WalkOf(t)
        BY <1>7, <1>8, <2>2 DEF OfferInv, WalksHold
    <2> QED BY <1>2, <1>4, <2>1, <2>2 DEF WalksHold
<1>16. AnswerHolds'
    <2>1. walk[s].step \notin Ended
        BY DEF Ended
    <2>2. answer.state = "none" /\ answer.items = <<>>
        BY <1>3, <2>1 DEF OfferInv, AnswerHolds
    <2> QED BY <1>2, <2>2 DEF AnswerHolds
<1> QED BY <1>14, <1>15, <1>16 DEF OfferInv

LEMMA TakeTurnKeeps ==
    ASSUME OfferInv, NEW s \in Stores, TakeTurn(s) PROVE OfferInv'
BY TurnKeeps DEF TakeTurn

LEMMA GiveUpTurnKeeps ==
    ASSUME OfferInv, NEW s \in Stores, GiveUpTurn(s) PROVE OfferInv'
BY TurnKeeps DEF GiveUpTurn

LEMMA TakeGateKeeps ==
    ASSUME OfferInv, NEW s \in Stores, TakeGate(s) PROVE OfferInv'
<1>1. Kind(s) = "jumpseller" /\ Requesting(s) /\ gate' = s
         /\ UNCHANGED <<setup, world, walk, turns, expired, answer, faults>>
    BY DEF TakeGate
<1>2. /\ setup' = setup /\ shelf' = shelf /\ moves' = moves /\ walk' = walk /\ turns' = turns
      /\ expired' = expired /\ answer' = answer /\ faults' = faults
    BY <1>1 DEF world
<1>3. /\ Stores' = Stores /\ Walkers' = Walkers /\ Busy' = Busy
      /\ \A t : Stock(t)' = Stock(t) /\ WalkOf(t)' = WalkOf(t) /\ Kind(t)' = Kind(t)
      /\ \A t : Requesting(t)' <=> Requesting(t)
    BY <1>2, SameSetup, StillBusy
<1>4. GateHolds'
    <2>1. setup'.client[s] = "jumpseller" /\ walk'[s].step \in {"searching", "currency", "reading"}
        BY <1>1, <1>2 DEF Requesting, Kind
    <2> QED BY <1>1, <1>3, <2>1 DEF GateHolds, Requesting, Kind
<1>5. TypeOK'
    <2>1. /\ setup \in Setups /\ shelf \in [DOMAIN setup.client -> Seq(Product)]
          /\ walk \in [DOMAIN setup.client -> Walk]
          /\ turns \in 0..maxConcurrentSources /\ turns = Cardinality(Busy)
          /\ expired \in BOOLEAN /\ answer.state \in {"none", "error", "found"}
          /\ moves \in 0..MaxMoves /\ faults \in 0..MaxFaults
        BY DEF OfferInv, TypeOK, Busy
    <2>2. turns' = Cardinality(Busy')
        BY <1>2, <1>3, <2>1
    <2> QED BY <1>2, <1>4, <2>1, <2>2 DEF TypeOK, Busy, GateHolds
<1>6. ShelvesHold' /\ WalksHold'
    BY <1>2, <1>3 DEF OfferInv, ShelvesHold, WalksHold
<1>7. AnswerHolds'
    <2>1. walk[s].step \notin Ended /\ s \in Walkers
        BY <1>1 DEF Requesting, Ended, Walkers
    <2>2. answer.state = "none" /\ answer.items = <<>>
        BY <2>1 DEF OfferInv, AnswerHolds
    <2> QED BY <1>2, <2>2 DEF AnswerHolds
<1> QED BY <1>5, <1>6, <1>7 DEF OfferInv

(* What the answer is made of changes only with the walks.                 *)
LEMMA SameAnswer ==
    ASSUME UNCHANGED <<setup, walk>>
    PROVE  /\ query' = query
           /\ MarkSuspicious(Named(OneOfEach(queryGameSources)), SuspiciousPercent, query)'
                = MarkSuspicious(Named(OneOfEach(queryGameSources)), SuspiciousPercent, query)
<1>1. setup' = setup /\ walk' = walk
    OBVIOUS
<1>2. Stores' = Stores /\ query' = query /\ hasProvider' = hasProvider /\ Asked' = Asked
    BY <1>1, SameSetup DEF query, hasProvider, Kind, Unasked, Asked
<1>3. readDirectHosts' = readDirectHosts
    BY <1>1, <1>2 DEF readDirectHosts, Fell
<1>4. combineSources' = combineSources
    BY <1>1, <1>2 DEF combineSources
<1>5. queryGameSources' = queryGameSources
    BY <1>1, <1>2, <1>3, <1>4 DEF queryGameSources
<1>6. \A items : Named(items)' = Named(items)
    BY <1>1, <1>2 DEF Named
<1> QED BY <1>2, <1>5, <1>6 DEF OneOfEach

LEMMA CollectOffersKeeps ==
    ASSUME OfferInv, CollectOffers PROVE OfferInv'
<1> DEFINE shown == MarkSuspicious(Named(OneOfEach(queryGameSources)), SuspiciousPercent, query)
           failure == [state |-> "error", items |-> <<>>, faults |-> Fallen, cached |-> FALSE]
           found == [state |-> "found", faults |-> Fallen, cached |-> MayCache, items |-> shown]
<1>1. /\ \A s \in Walkers : walk[s].step \in Ended
      /\ answer' = failure \/ answer' = found
      /\ UNCHANGED <<setup, world, walk, turns, gate, expired, faults>>
    <2>1. /\ \A s \in Walkers : walk[s].step \in Ended
          /\ \E items \in {OneOfEach(queryGameSources)} : \E named \in {Named(items)} :
                answer' = IF Fallen # {} /\ items = <<>> THEN failure
                    ELSE [state |-> "found", faults |-> Fallen, cached |-> MayCache,
                          items |-> MarkSuspicious(named, SuspiciousPercent, query)]
          /\ UNCHANGED <<setup, world, walk, turns, gate, expired, faults>>
        <3> HIDE DEF shown, found
        <3> QED BY DEF CollectOffers
    <2> QED BY <2>1
<1>2. /\ setup' = setup /\ shelf' = shelf /\ moves' = moves /\ walk' = walk /\ turns' = turns
      /\ expired' = expired /\ gate' = gate /\ faults' = faults
    BY <1>1 DEF world
<1>3. /\ Stores' = Stores /\ Walkers' = Walkers /\ Busy' = Busy
      /\ \A t : Stock(t)' = Stock(t) /\ WalkOf(t)' = WalkOf(t) /\ Kind(t)' = Kind(t)
      /\ \A t : Requesting(t)' <=> Requesting(t)
      /\ shown' = shown
    BY <1>2, SameSetup, StillBusy, SameAnswer
<1>4. answer'.state \in {"error", "found"}
         /\ answer'.items = IF answer'.state = "found" THEN shown ELSE <<>>
    <2> HIDE DEF shown
    <2> QED BY <1>1
<1>5. TypeOK'
    <2>1. /\ setup \in Setups /\ shelf \in [DOMAIN setup.client -> Seq(Product)]
          /\ walk \in [DOMAIN setup.client -> Walk]
          /\ turns \in 0..maxConcurrentSources /\ turns = Cardinality(Busy)
          /\ expired \in BOOLEAN /\ GateHolds
          /\ moves \in 0..MaxMoves /\ faults \in 0..MaxFaults
        BY DEF OfferInv, TypeOK, Busy, GateHolds
    <2>2. turns' = Cardinality(Busy')
        BY <1>2, <1>3, <2>1
    <2>3. GateHolds'
        BY <1>2, <1>3, <2>1 DEF GateHolds, Requesting, Kind
    <2>4. answer'.state \in {"none", "error", "found"}
        BY <1>4
    <2> QED BY <1>2, <2>1, <2>2, <2>3, <2>4 DEF TypeOK, Busy, GateHolds
<1>6. ShelvesHold' /\ WalksHold'
    BY <1>2, <1>3 DEF OfferInv, ShelvesHold, WalksHold
<1>7. AnswerHolds'
    <2>1. answer'.items = IF answer'.state = "found" THEN shown' ELSE <<>>
        <3> HIDE DEF shown
        <3> QED BY <1>3, <1>4
    <2>2. \A s \in Walkers' : walk'[s].step \in Ended
        BY <1>1, <1>2, <1>3
    <2> QED BY <2>1, <2>2 DEF AnswerHolds, shown
<1> QED BY <1>5, <1>6, <1>7 DEF OfferInv

LEMMA ExpireKeeps ==
    ASSUME OfferInv, Expire PROVE OfferInv'
<1>1. /\ setup' = setup /\ shelf' = shelf /\ moves' = moves /\ walk' = walk /\ turns' = turns
      /\ expired' = TRUE /\ gate' = gate /\ faults' = faults /\ answer' = answer
      /\ answer.state = "none"
    BY DEF Expire, world
<1>2. /\ Stores' = Stores /\ Walkers' = Walkers /\ Busy' = Busy
      /\ \A t : Stock(t)' = Stock(t) /\ WalkOf(t)' = WalkOf(t) /\ Kind(t)' = Kind(t)
      /\ \A t : Requesting(t)' <=> Requesting(t)
    BY <1>1, SameSetup, StillBusy
<1>3. TypeOK'
    <2>1. /\ setup \in Setups /\ shelf \in [DOMAIN setup.client -> Seq(Product)]
          /\ walk \in [DOMAIN setup.client -> Walk]
          /\ turns \in 0..maxConcurrentSources /\ turns = Cardinality(Busy)
          /\ answer.state \in {"none", "error", "found"} /\ GateHolds
          /\ moves \in 0..MaxMoves /\ faults \in 0..MaxFaults
        BY DEF OfferInv, TypeOK, Busy, GateHolds
    <2>2. turns' = Cardinality(Busy')
        BY <1>1, <1>2, <2>1
    <2>3. GateHolds'
        BY <1>1, <1>2, <2>1 DEF GateHolds, Requesting, Kind
    <2> QED BY <1>1, <2>1, <2>2, <2>3 DEF TypeOK, Busy, GateHolds
<1>4. ShelvesHold' /\ WalksHold'
    BY <1>1, <1>2 DEF OfferInv, ShelvesHold, WalksHold
<1>5. AnswerHolds'
    BY <1>1 DEF OfferInv, AnswerHolds
<1> QED BY <1>3, <1>4, <1>5 DEF OfferInv

LEMMA MoveKeeps ==
    ASSUME OfferInv, NEW s \in Walkers, NEW products \in Seq(Stock(s)), Move(s, products)
    PROVE  OfferInv'
<1> DEFINE names == DOMAIN setup.client
<1>1. /\ setup' = setup /\ walk' = walk /\ turns' = turns
      /\ expired' = expired /\ gate' = gate /\ faults' = faults /\ answer' = answer
      /\ moves' = moves + 1 /\ moves < MaxMoves /\ shelf' = [shelf EXCEPT ![s] = products]
      /\ answer.state = "none"
    BY DEF Move
<1>2. /\ Stores' = Stores /\ Walkers' = Walkers /\ Busy' = Busy
      /\ \A t : Stock(t)' = Stock(t) /\ WalkOf(t)' = WalkOf(t) /\ Kind(t)' = Kind(t)
      /\ \A t : Requesting(t)' <=> Requesting(t)
    BY <1>1, SameSetup, StillBusy
<1>3. /\ setup \in Setups /\ shelf \in [names -> Seq(Product)]
      /\ walk \in [names -> Walk]
      /\ turns \in 0..maxConcurrentSources /\ turns = Cardinality(Busy)
      /\ answer.state \in {"none", "error", "found"} /\ GateHolds /\ expired \in BOOLEAN
      /\ moves \in 0..MaxMoves /\ faults \in 0..MaxFaults
    BY DEF OfferInv, TypeOK, Busy, GateHolds
<1>4. products \in Seq(Product)
    BY DEF Stock
<1>5. shelf' \in [names -> Seq(Product)] /\ shelf'[s] = products
         /\ \A t \in names \ {s} : shelf'[t] = shelf[t]
    BY <1>1, <1>3, <1>4, WalkHere
<1>6. moves' \in 0..MaxMoves
    <2>1. MaxMoves \in Nat
        BY OfferSearchAssumption
    <2> QED BY <1>1, <1>3, <2>1
<1>7. TypeOK'
    <2>2. turns' = Cardinality(Busy')
        BY <1>1, <1>2, <1>3
    <2>3. GateHolds'
        BY <1>1, <1>2, <1>3 DEF GateHolds, Requesting, Kind
    <2>4. shelf' \in [DOMAIN setup'.client -> Seq(Product)] /\ walk' \in [DOMAIN setup'.client -> Walk]
        BY <1>1, <1>3, <1>5
    <2>5. setup' \in Setups /\ expired' \in BOOLEAN /\ answer'.state \in {"none", "error", "found"}
             /\ faults' \in 0..MaxFaults /\ turns' \in 0..maxConcurrentSources
        BY <1>1, <1>3
    <2> QED BY <1>6, <2>2, <2>3, <2>4, <2>5 DEF TypeOK, Busy, GateHolds
<1>8. ShelvesHold'
    <2>1. ASSUME NEW t \in names PROVE shelf'[t] \in Seq(Stock(t))
        BY <1>5, <2>1 DEF OfferInv, ShelvesHold
    <2> QED BY <1>1, <1>2, <2>1 DEF ShelvesHold
<1>9. WalksHold'
    BY <1>1, <1>2 DEF OfferInv, WalksHold
<1>10. AnswerHolds'
    BY <1>1 DEF OfferInv, AnswerHolds
<1> QED BY <1>7, <1>8, <1>9, <1>10 DEF OfferInv

LEMMA ArriveKeeps ==
    ASSUME OfferInv, NEW s \in Walkers, Arrive(s) PROVE OfferInv'
<1> DEFINE products == <<setup.fresh[s]>> \o shelf[s]
<1>1. Move(s, products)
    BY DEF Arrive
<1>2. shelf[s] \in Seq(Stock(s)) /\ s \in DOMAIN setup.client
    BY WalkHere
<1>3. setup.fresh[s] \in Stock(s)
    <2>1. setup.fresh[s] \in Product
        BY <1>2, SetupShape DEF OfferInv, TypeOK
    <2>2. setup.fresh[s] \in Goods(setup, s)
        BY DEF Goods
    <2> QED BY <2>1, <2>2 DEF Stock
<1>4. products \in Seq(Stock(s))
    BY <1>2, <1>3
<1> HIDE DEF products
<1> QED BY <1>1, <1>4, MoveKeeps

LEMMA WithdrawKeeps ==
    ASSUME OfferInv, NEW s \in Walkers, Withdraw(s) PROVE OfferInv'
<1>1. PICK i \in DOMAIN shelf[s] : Move(s, RemoveAt(shelf[s], i))
    BY DEF Withdraw
<1> DEFINE list == shelf[s]
           products == RemoveAt(list, i)
<1>2. list \in Seq(Stock(s))
    BY WalkHere
<1> HIDE DEF list
<1>3. i \in 1..Len(list)
    BY <1>2 DEF list
<1>4. SubSeq(list, 1, i - 1) \in Seq(Stock(s)) /\ SubSeq(list, i + 1, Len(list)) \in Seq(Stock(s))
    BY <1>2, <1>3
<1>5. products \in Seq(Stock(s))
    BY <1>4 DEF RemoveAt
<1>6. Move(s, products)
    BY <1>1 DEF list
<1> HIDE DEF products
<1> QED BY <1>5, <1>6, MoveKeeps

LEMMA SellOutKeeps ==
    ASSUME OfferInv, NEW s \in Walkers, SellOut(s) PROVE OfferInv'
<1>1. PICK i \in DOMAIN shelf[s] : Move(s, [shelf[s] EXCEPT ![i].units = 0])
    BY DEF SellOut
<1> DEFINE list == shelf[s]
           sold == [list[i] EXCEPT !.units = 0]
           products == [list EXCEPT ![i] = sold]
<1>2. list \in Seq(Stock(s))
    BY WalkHere
<1>3. i \in 1..Len(list) /\ list[i] \in Stock(s)
    BY <1>2
<1>4. sold \in Stock(s)
    <2>1. list[i] \in Product
        BY <1>3 DEF Stock
    <2>2. sold \in Product
        BY <2>1 DEF Product
    <2>3. sold.id = list[i].id /\ sold.store = list[i].store /\ sold.host = list[i].host
             /\ sold.title = list[i].title /\ sold.edition = list[i].edition
             /\ sold.kind = list[i].kind /\ sold.mechanics = list[i].mechanics
        BY <2>1 DEF Product
    <2> HIDE DEF sold
    <2>4. Looks(sold) = Looks(list[i])
        BY <2>3 DEF Looks
    <2> QED BY <1>3, <2>2, <2>4 DEF Stock
<1>6. Move(s, products)
    BY <1>1
<1> HIDE DEF list, sold
<1>5. products \in Seq(Stock(s))
    BY <1>2, <1>3, <1>4
<1> HIDE DEF products
<1> QED BY <1>5, <1>6, MoveKeeps

LEMMA InitHolds ==
    ASSUME Init PROVE OfferInv
<1> DEFINE names == DOMAIN setup.client
           first == [Asleep EXCEPT !.step = "searching"]
<1>1. /\ setup \in Setups /\ shelf = setup.shelf
      /\ walk = [s \in names |-> IF s = Agg THEN first ELSE Asleep]
      /\ turns = 0 /\ gate = None /\ expired = FALSE /\ moves = 0 /\ faults = 0
      /\ answer = [state |-> "none", items |-> <<>>, faults |-> {}, cached |-> FALSE]
    BY DEF Init
<1>2. /\ Agg \in names /\ setup.shelf \in [names -> Seq(Product)]
      /\ Stores \subseteq names \ {Agg}
    BY <1>1, SetupShape, Askers
<1>3. Asleep \in Walk /\ Asleep.step = "waiting" /\ Asleep.found = <<>> /\ Asleep.left = <<>>
    <2>1. <<>> \in Seq(STRING) /\ <<>> \in Seq(Offer) /\ {} \in SUBSET STRING /\ 1 \in Nat \ {0}
        OBVIOUS
    <2> QED BY <2>1 DEF Asleep, Walk, Steps
<1>4. first \in Walk /\ first.step = "searching" /\ first.found = <<>> /\ first.left = <<>>
    <2> HIDE DEF Asleep
    <2> QED BY <1>3 DEF Walk, Steps
<1> HIDE DEF first, Asleep
<1>5. \A s : Asleep \in WalkOf(s) /\ first \in WalkOf(s)
    BY <1>3, <1>4, ListTypes, WalkMade
<1>6. Busy = {}
    BY <1>1, <1>2, <1>3 DEF Busy, Requesting
<1>7. TypeOK
    <2>1. walk \in [names -> Walk]
        BY <1>1, <1>3, <1>4
    <2>2. turns = Cardinality(Busy)
        BY <1>1, <1>6, FS_EmptySet
    <2>3. maxConcurrentSources \in Nat /\ MaxMoves \in Nat /\ MaxFaults \in Nat
        BY OfferSearchAssumption
    <2>4. turns \in 0..maxConcurrentSources /\ moves \in 0..MaxMoves /\ faults \in 0..MaxFaults
        BY <1>1, <2>3
    <2> QED BY <1>1, <1>2, <2>1, <2>2, <2>4 DEF TypeOK, Busy
<1>8. ShelvesHold
    <2> SUFFICES ASSUME NEW s \in names PROVE shelf[s] \in Seq(Stock(s))
        BY DEF ShelvesHold
    <2>1. setup.shelf[s] \in Seq(Product)
        BY <1>2
    <2>2. \A i \in DOMAIN setup.shelf[s] : setup.shelf[s][i] \in Stock(s)
        <3> SUFFICES ASSUME NEW i \in DOMAIN setup.shelf[s] PROVE setup.shelf[s][i] \in Stock(s)
            OBVIOUS
        <3>1. setup.shelf[s][i] \in Product
            BY <2>1
        <3>2. setup.shelf[s][i] \in Goods(setup, s)
            BY DEF Goods, ToSet
        <3> QED BY <3>1, <3>2 DEF Stock
    <2> QED BY <1>1, <2>1, <2>2
<1>9. WalksHold
    BY <1>1, <1>5 DEF WalksHold
<1>10. AnswerHolds
    BY <1>1 DEF AnswerHolds
<1> QED BY <1>7, <1>8, <1>9, <1>10 DEF OfferInv

LEMMA StepKeeps ==
    ASSUME OfferInv, [Next]_vars PROVE OfferInv'
<1>1. Stores \subseteq Walkers
    BY DEF Walkers
<1>2. ASSUME NEW s \in Stores, StoreStep(s) PROVE OfferInv'
    <2>1. s \in Walkers
        BY <1>1
    <2> QED BY <1>2, <2>1, TakeTurnKeeps, GiveUpTurnKeeps, TakeGateKeeps, ReadWooPageKeeps,
               ReadPrestaPageKeeps, SearchShopifyKeeps, ReadCurrencyKeeps, ReadShopifyProductKeeps,
               SearchJumpsellerKeeps, ReadJumpsellerProductKeeps, ReadListKeeps, RequestFailsKeeps
            DEF StoreStep
<1>3. ASSUME ProviderStep PROVE OfferInv'
    <2>1. Agg \in Walkers
        BY <1>3 DEF ProviderStep, Walkers
    <2> QED BY <1>3, <2>1, SearchCatalogKeeps, ReadBriefsKeeps, ReadPokemonCardKeeps,
               FunctionFailsKeeps, ReadListingsKeeps, ReadCardPageKeeps, RequestFailsKeeps
            DEF ProviderStep
<1>4. ASSUME NEW s \in Walkers, Arrive(s) \/ Withdraw(s) \/ SellOut(s) PROVE OfferInv'
    BY <1>4, ArriveKeeps, WithdrawKeeps, SellOutKeeps
<1>5. ASSUME UNCHANGED vars PROVE OfferInv'
    <2>1. /\ setup' = setup /\ shelf' = shelf /\ moves' = moves /\ walk' = walk /\ turns' = turns
          /\ expired' = expired /\ gate' = gate /\ faults' = faults /\ answer' = answer
        BY <1>5 DEF vars, world
    <2>2. /\ Stores' = Stores /\ Walkers' = Walkers /\ Busy' = Busy
          /\ \A t : Stock(t)' = Stock(t) /\ WalkOf(t)' = WalkOf(t) /\ Kind(t)' = Kind(t)
          /\ \A t : Requesting(t)' <=> Requesting(t)
        BY <2>1, SameSetup, StillBusy
    <2>3. TypeOK /\ turns = Cardinality(Busy) /\ GateHolds
        BY DEF OfferInv, TypeOK, Busy, GateHolds
    <2>4. GateHolds' /\ turns' = Cardinality(Busy')
        BY <2>1, <2>2, <2>3 DEF GateHolds, Requesting, Kind
    <2>5. TypeOK'
        BY <2>1, <2>3, <2>4 DEF TypeOK, Busy, GateHolds
    <2>6. ShelvesHold' /\ WalksHold'
        BY <2>1, <2>2 DEF OfferInv, ShelvesHold, WalksHold
    <2>7. AnswerHolds'
        BY <2>1, <2>2, SameAnswer DEF OfferInv, AnswerHolds
    <2> QED BY <2>5, <2>6, <2>7 DEF OfferInv
<1> QED BY <1>2, <1>3, <1>4, <1>5, CollectOffersKeeps, ExpireKeeps DEF Next

LEMMA AlwaysHolds == Spec => []OfferInv
<1>1. Init => OfferInv
    BY InitHolds
<1>2. OfferInv /\ [Next]_vars => OfferInv'
    BY StepKeeps
<1> QED BY <1>1, <1>2, PTL DEF Spec

-----------------------------------------------------------------------------
(* What an answer shows                                                    *)

(* x is the offer o, but for what the shaping of an answer sets.           *)
Bears(x, o) ==
    /\ DOMAIN x = {"source", "store", "host", "url", "variant", "title", "edition", "key", "kind",
                   "game", "function", "product", "price", "currency", "suspicious", "status"}
    /\ x.source = o.source /\ x.store = o.store /\ x.host = o.host /\ x.url = o.url
    /\ x.variant = o.variant /\ x.title = o.title /\ x.edition = o.edition /\ x.game = o.game
    /\ x.function = o.function /\ x.product = o.product

(* It has the kind of the question, and the key that this kind gives it.   *)
Carries(x, o) ==
    Bears(x, o) /\ \E y : Bears(y, o) /\ y.kind = query.kind /\ x.key = readOfferKey(y)

(* Which offers of a list belong to the game, and that this is what is     *)
(* said of each alone.                                                     *)
OfGame(o) ==
    \/ ~Sealed(query) \/ setup.library.state # "loaded" \/ setup.library.sets = {}
    \/ NamesSet(o.title, setup.library.sets) \/ NamesSet(o.edition, setup.library.sets)

Shows(shown, items, at) ==
    /\ at \in [DOMAIN shown -> DOMAIN items] /\ DOMAIN shown \subseteq Nat
    /\ \A m, n \in DOMAIN shown : m < n => at[m] < at[n]
    /\ \A n \in DOMAIN shown : Carries(shown[n], items[at[n]])
    /\ \A i \in DOMAIN items : OfGame(items[i]) => \E n \in DOMAIN shown : at[n] = i

LEMMA OfferBears == ASSUME NEW o \in Offer PROVE Bears(o, o)
BY DEF Offer, Bears

(* A list of offers of which each has its kind and its key.                *)
LEMMA NamedEach ==
    ASSUME setup \in Setups, NEW items \in Seq(Offer),
           NEW named, named = NameCards(nameKinds(items, query.kind))
    PROVE  DOMAIN named = DOMAIN items /\ \A i \in DOMAIN items : Carries(named[i], items[i])
<1> DEFINE kinds == nameKinds(items, query.kind)
           kind == query.kind
<1>1. kind \in {"single", "sealed"}
    BY QueryShape
<1> HIDE DEF kind
<1>2. kinds = [i \in DOMAIN items |-> [items[i] EXCEPT !.kind = kind]]
    BY <1>1 DEF nameKinds, kind
<1> HIDE DEF kinds
<1>3. named = [i \in DOMAIN kinds |-> [kinds[i] EXCEPT !.key = readOfferKey(kinds[i])]]
    BY DEF NameCards, kinds
<1>4. ASSUME NEW i \in DOMAIN items PROVE Carries(named[i], items[i])
    <2> DEFINE o == items[i]
               y == kinds[i]
               key == readOfferKey(y)
    <2>1. Bears(o, o)
        BY OfferBears
    <2>2. y = [o EXCEPT !.kind = kind] /\ named[i] = [y EXCEPT !.key = key]
        BY <1>2, <1>3
    <2> HIDE DEF o, y
    <2>3. Bears(y, o) /\ y.kind = kind
        BY ONLY <2>1, <2>2 DEF Bears
    <2>4. key = readOfferKey(y)
        OBVIOUS
    <2> HIDE DEF key
    <2>5. Bears(named[i], o) /\ named[i].key = key
        BY ONLY <2>2, <2>3 DEF Bears
    <2> QED BY <2>3, <2>4, <2>5 DEF Carries, o, kind
<1>5. DOMAIN named = DOMAIN items
    BY <1>2, <1>3
<1> QED BY <1>4, <1>5

LEMMA AloneOfGame ==
    ASSUME NEW o, OfThisGame(o) PROVE OfGame(o)
<1> DEFINE list == <<o>>
           places == {i \in DOMAIN list : \/ NamesSet(list[i].title, setup.library.sets)
                                          \/ NamesSet(list[i].edition, setup.library.sets)}
<1>1. CASE ~Sealed(query) \/ setup.library.state # "loaded" \/ setup.library.sets = {}
    BY <1>1 DEF OfGame
<1>2. CASE ~(~Sealed(query) \/ setup.library.state # "loaded" \/ setup.library.sets = {})
    <2>1. Keep(list, places) # <<>>
        BY <1>2 DEF OfThisGame, keepGameSealed, Select
    <2>2. list \in Seq({o}) /\ Len(list) = 1
        OBVIOUS
    <2> DEFINE kept == Keep(list, places)
    <2> HIDE DEF list, places
    <2>3. kept \in Seq({o})
        BY <2>2, KeepChooses
    <2>4. PICK at : Chosen(kept, list, places, Len(list), at)
        BY <2>2, KeepChooses
    <2>5. kept # <<>>
        BY <2>1
    <2> HIDE DEF kept
    <2>6. 1 \in 1..Len(kept)
        BY <2>3, <2>5
    <2>7. at[1] \in places
        BY <2>4, <2>6 DEF Chosen
    <2>8. \A i \in places : i = 1
        BY <2>2 DEF places
    <2>9. list[1] = o
        BY DEF list
    <2> QED BY <2>7, <2>8, <2>9 DEF places, OfGame
<1> QED BY <1>1, <1>2

LEMMA KeptOfGame ==
    ASSUME NEW T, NEW list \in Seq(T), NEW kept, kept = keepGameSealed(query, list, setup.library)
    PROVE  /\ kept \in Seq(T)
           /\ \E at : /\ at \in [DOMAIN kept -> DOMAIN list]
                      /\ \A m, n \in DOMAIN kept : m < n => at[m] < at[n]
                      /\ \A n \in DOMAIN kept : kept[n] = list[at[n]]
                      /\ \A i \in DOMAIN list : OfGame(list[i]) => \E n \in DOMAIN kept : at[n] = i
<1> DEFINE places == {i \in DOMAIN list : \/ NamesSet(list[i].title, setup.library.sets)
                                          \/ NamesSet(list[i].edition, setup.library.sets)}
<1>1. CASE ~Sealed(query) \/ setup.library.state # "loaded" \/ setup.library.sets = {}
    <2>1. kept = list
        BY <1>1 DEF keepGameSealed
    <2> DEFINE at == [n \in DOMAIN list |-> n]
    <2>2. /\ at \in [DOMAIN kept -> DOMAIN list]
          /\ \A m, n \in DOMAIN kept : m < n => at[m] < at[n]
          /\ \A n \in DOMAIN kept : kept[n] = list[at[n]]
          /\ \A i \in DOMAIN list : OfGame(list[i]) => \E n \in DOMAIN kept : at[n] = i
        BY <2>1
    <2> HIDE DEF at
    <2> QED BY <2>1, <2>2
<1>2. CASE ~(~Sealed(query) \/ setup.library.state # "loaded" \/ setup.library.sets = {})
    <2>1. kept = Keep(list, places)
        BY <1>2 DEF keepGameSealed, Select
    <2>2. \A i \in DOMAIN list : OfGame(list[i]) => i \in places
        BY <1>2 DEF OfGame
    <2> HIDE DEF places
    <2>3. kept \in Seq(T) /\ DOMAIN list = 1..Len(list)
        BY <2>1, KeepChooses
    <2>4. PICK at : Chosen(kept, list, places, Len(list), at)
        BY <2>1, KeepChooses
    <2>5. DOMAIN kept = 1..Len(kept)
        BY <2>3
    <2>6. /\ at \in [DOMAIN kept -> DOMAIN list]
          /\ \A m, n \in DOMAIN kept : m < n => at[m] < at[n]
          /\ \A n \in DOMAIN kept : kept[n] = list[at[n]]
          /\ \A i \in DOMAIN list : OfGame(list[i]) => \E n \in DOMAIN kept : at[n] = i
        BY <2>2, <2>3, <2>4, <2>5 DEF Chosen
    <2> QED BY <2>3, <2>6
<1> QED BY <1>1, <1>2

LEMMA ShownOffers ==
    ASSUME setup \in Setups, NEW items \in Seq(Offer), NEW shown,
           shown = MarkSuspicious(Named(items), SuspiciousPercent, query)
    PROVE  \E at : Shows(shown, items, at)
<1> DEFINE list == NameCards(nameKinds(items, query.kind))
           kept == keepGameSealed(query, list, setup.library)
           low(i) == LET median == findPriceMedian(kept, query, peers(query, kept[i]))
                     IN kept[i].suspicious \/ pricedLow(kept[i], median, SuspiciousPercent)
           T == {list[i] : i \in DOMAIN list}
<1>1. DOMAIN list = DOMAIN items /\ \A i \in DOMAIN items : Carries(list[i], items[i])
    <2> HIDE DEF list
    <2> QED BY NamedEach DEF list
<1>2. list \in Seq(T)
    <2>1. list = [i \in DOMAIN list |-> list[i]]
        BY DEF NameCards
    <2>2. DOMAIN items = 1..Len(items) /\ Len(items) \in Nat
        OBVIOUS
    <2> HIDE DEF list
    <2> QED BY <1>1, <2>1, <2>2
<1>3. shown = [n \in DOMAIN kept |-> [kept[n] EXCEPT !.suspicious = low(n)]]
    BY DEF MarkSuspicious, Named
<1> HIDE DEF T, low
<1>4. kept \in Seq(T)
    <2> HIDE DEF list
    <2> QED BY <1>2, KeptOfGame
<1>5. PICK at : /\ at \in [DOMAIN kept -> DOMAIN list]
                /\ \A m, n \in DOMAIN kept : m < n => at[m] < at[n]
                /\ \A n \in DOMAIN kept : kept[n] = list[at[n]]
                /\ \A i \in DOMAIN list : OfGame(list[i]) => \E n \in DOMAIN kept : at[n] = i
    <2> HIDE DEF list
    <2> QED BY <1>2, KeptOfGame
<1> HIDE DEF list, kept
<1>6. DOMAIN shown = DOMAIN kept /\ DOMAIN kept \subseteq Nat
    BY <1>3, <1>4
<1>7. ASSUME NEW n \in DOMAIN kept PROVE Carries(shown[n], items[at[n]])
    <2> DEFINE x == kept[n]
               o == items[at[n]]
               mark == low(n)
    <2>1. Carries(x, o)
        BY <1>1, <1>5
    <2>2. shown[n] = [x EXCEPT !.suspicious = mark]
        BY <1>3
    <2> HIDE DEF x, o, mark
    <2>3. Bears(x, o)
        BY <2>1 DEF Carries
    <2>4. Bears(shown[n], o) /\ shown[n].key = x.key
        BY ONLY <2>2, <2>3 DEF Bears
    <2> QED BY <2>1, <2>4 DEF Carries, o
<1>8. ASSUME NEW i \in DOMAIN items, OfGame(items[i]) PROVE OfGame(list[i])
    <2>1. list[i].title = items[i].title /\ list[i].edition = items[i].edition
        BY <1>1 DEF Carries, Bears
    <2> QED BY <1>8, <2>1 DEF OfGame
<1>9. Shows(shown, items, at)
    BY <1>1, <1>5, <1>6, <1>7, <1>8 DEF Shows
<1> QED BY <1>9

(* What comes to the answer: what the stores that did not fall offer, and  *)
(* what the provider has of the others.                                    *)
Collected ==
    {o \in Offer : \/ hasProvider /\ o \in OffersOf(Agg) /\ o.host \notin readDirectHosts
                   \/ \E t \in Stores : ~Fell(t) /\ o \in OffersOf(t)}

LEMMA CollectedOffers ==
    ASSUME OfferInv
    PROVE  /\ queryGameSources \in Seq(Collected)
           /\ hasProvider => \A i \in DOMAIN walk[Agg].found :
                 walk[Agg].found[i].host \notin readDirectHosts =>
                    \E n \in DOMAIN queryGameSources : queryGameSources[n] = walk[Agg].found[i]
           /\ \A t \in Stores : \A i \in DOMAIN walk[t].found :
                 \E n \in DOMAIN queryGameSources : queryGameSources[n] = walk[t].found[i]
<1>1. setup \in Setups
    BY DEF OfferInv, TypeOK
<1>2. Asked \in Seq(Stores) /\ ToSet(Asked) = Stores
    <2>1. setup.sources \in Seq(DOMAIN setup.client \ {Agg})
        BY <1>1, SetupShape
    <2> QED BY <2>1, SelectSources DEF Asked, Stores
<1> DEFINE seqs == [i \in DOMAIN Asked |-> walk[Asked[i]].found]
           told == IF hasProvider THEN walk[Agg].found ELSE <<>>
           first == preferDirectOffers(told, readDirectHosts)
<1>3. seqs \in Seq(Seq(Collected))
    <2>1. ASSUME NEW t \in Stores PROVE walk[t].found \in Seq(Collected)
        <3>1. walk[t] \in WalkOf(t)
            BY WalkHere DEF Walkers
        <3>2. walk[t].found \in Seq(OffersOf(t))
            BY <3>1, WalkParts
        <3>3. CASE Fell(t)
            BY <3>1, <3>3 DEF Fell, WalkOf
        <3>4. CASE ~Fell(t)
            <4>1. \A o \in OffersOf(t) : o \in Collected
                BY <3>4 DEF Collected, OffersOf
            <4> QED BY <3>2, <4>1
        <3> QED BY <3>3, <3>4
    <2> HIDE DEF Collected
    <2>2. DOMAIN Asked = 1..Len(Asked) /\ Len(Asked) \in Nat
        BY <1>2
    <2>3. \A i \in DOMAIN Asked : walk[Asked[i]].found \in Seq(Collected)
        BY <1>2, <2>1
    <2> QED BY <2>2, <2>3
<1>4. combineSources \in Seq(Collected)
    <2> HIDE DEF seqs
    <2> QED BY <1>3, FlattenLists DEF combineSources, seqs
<1>5. told \in Seq(OffersOf(Agg)) /\ (~hasProvider => told = <<>>)
    <2>1. hasProvider => walk[Agg].found \in Seq(OffersOf(Agg))
        BY WalkHere DEF Walkers
    <2> QED BY <2>1
<1>6. first \in Seq(Collected)
    <2> DEFINE kept == {o \in OffersOf(Agg) : o.host \notin readDirectHosts}
    <2>1. first \in Seq(kept)
        <3> HIDE DEF told
        <3> QED BY <1>5, SelectDirect
    <2>2. CASE hasProvider
        <3>1. \A o \in kept : o \in Collected
            BY <2>2 DEF Collected, OffersOf
        <3> HIDE DEF kept, first
        <3> QED BY <2>1, <3>1
    <2>3. CASE ~hasProvider
        <3>1. first \in Seq({o \in Collected : o.host \notin readDirectHosts})
            <4>1. told \in Seq(Collected)
                BY <1>5, <2>3
            <4> HIDE DEF told
            <4> QED BY <4>1, SelectDirect
        <3> HIDE DEF first
        <3> QED BY <3>1
    <2> QED BY <2>2, <2>3
<1>7. queryGameSources = first \o combineSources
    BY DEF queryGameSources
<1>8. ASSUME hasProvider, NEW i \in DOMAIN walk[Agg].found,
             walk[Agg].found[i].host \notin readDirectHosts
      PROVE  \E n \in DOMAIN queryGameSources : queryGameSources[n] = walk[Agg].found[i]
    <2>1. told = walk[Agg].found
        BY <1>8
    <2>2. PICK n \in DOMAIN first : first[n] = walk[Agg].found[i]
        <3>1. i \in DOMAIN told /\ told[i].host \notin readDirectHosts
            BY <1>8, <2>1
        <3> HIDE DEF told
        <3> DEFINE places == {k \in DOMAIN told : told[k].host \notin readDirectHosts}
        <3>2. first = Keep(told, places) /\ i \in places
            BY <3>1 DEF preferDirectOffers, Select
        <3> HIDE DEF places, first
        <3>3. \E n \in DOMAIN first : first[n] = told[i]
            BY <1>5, <3>1, <3>2, KeepBrings
        <3> QED BY <2>1, <3>3
    <2> HIDE DEF first, told
    <2>3. n \in DOMAIN queryGameSources /\ queryGameSources[n] = first[n]
        BY <1>4, <1>6, <1>7, <2>2
    <2> QED BY <2>2, <2>3
<1>9. ASSUME NEW t \in Stores, NEW i \in DOMAIN walk[t].found
      PROVE  \E n \in DOMAIN queryGameSources : queryGameSources[n] = walk[t].found[i]
    <2>1. PICK k \in DOMAIN Asked : Asked[k] = t
        BY <1>2 DEF ToSet
    <2>2. k \in DOMAIN seqs /\ seqs[k] = walk[t].found
        BY <2>1
    <2>3. combineSources = FlattenSeq(seqs)
        BY DEF combineSources
    <2> HIDE DEF seqs, first
    <2>4. PICK m \in DOMAIN FlattenSeq(seqs) : FlattenSeq(seqs)[m] = seqs[k][i]
        BY <1>3, <1>9, <2>2, FlattenBrings
    <2>5. m \in DOMAIN combineSources /\ combineSources[m] = walk[t].found[i]
        BY <2>2, <2>3, <2>4
    <2>6. Len(first) + m \in DOMAIN queryGameSources
             /\ queryGameSources[Len(first) + m] = combineSources[m]
        BY <1>4, <1>6, <1>7, <2>5
    <2> QED BY <2>5, <2>6
<1> HIDE DEF first
<1> QED BY <1>4, <1>6, <1>7, <1>8, <1>9

LEMMA AnswerMade ==
    ASSUME OfferInv, answer.state = "found", NEW once, once = OneOfEach(queryGameSources)
    PROVE  /\ setup \in Setups /\ once \in Seq(Collected) /\ once \in Seq(Offer)
           /\ \A m, n \in DOMAIN once : identity(once[m]) = identity(once[n]) => m = n
           /\ \A i \in DOMAIN queryGameSources :
                 \E n \in DOMAIN once : identity(once[n]) = identity(queryGameSources[i])
           /\ \E at : Shows(answer.items, once, at)
<1>1. setup \in Setups
    BY DEF OfferInv, TypeOK
<1>2. queryGameSources \in Seq(Collected)
    BY CollectedOffers
<1>3. once = DeduplicateOffers(queryGameSources)
    BY DEF OneOfEach
<1>4. /\ once \in Seq(Collected)
      /\ \A m, n \in DOMAIN once : identity(once[m]) = identity(once[n]) => m = n
      /\ \A i \in DOMAIN queryGameSources :
            \E n \in DOMAIN once : identity(once[n]) = identity(queryGameSources[i])
    BY <1>2, <1>3, OnceEach
<1>5. once \in Seq(Offer)
    BY <1>4 DEF Collected
<1>6. answer.items = MarkSuspicious(Named(once), SuspiciousPercent, query)
    BY DEF OfferInv, AnswerHolds
<1>7. \E at : Shows(answer.items, once, at)
    BY <1>1, <1>5, <1>6, ShownOffers
<1> QED BY <1>1, <1>4, <1>5, <1>7

(* The shaping moves no offer and renames none, so what was taken once is  *)
(* shown once.                                                             *)
LEMMA OnceInAnswer ==
    ASSUME OfferInv PROVE OfferedOnce
<1>1. CASE answer.state # "found"
    BY <1>1 DEF OfferInv, AnswerHolds, OfferedOnce
<1>2. CASE answer.state = "found"
    <2> DEFINE once == OneOfEach(queryGameSources)
    <2>1. \A m, n \in DOMAIN once : identity(once[m]) = identity(once[n]) => m = n
        BY <1>2, AnswerMade
    <2>2. PICK at : Shows(answer.items, once, at)
        BY <1>2, AnswerMade
    <2> HIDE DEF once
    <2> SUFFICES ASSUME NEW i \in DOMAIN answer.items, NEW j \in DOMAIN answer.items,
                        identity(answer.items[i]) = identity(answer.items[j])
                 PROVE  i = j
        BY DEF OfferedOnce
    <2>3. identity(answer.items[i]) = identity(once[at[i]])
             /\ identity(answer.items[j]) = identity(once[at[j]])
        BY <2>2 DEF Shows, Carries, Bears, identity
    <2>4. at[i] \in DOMAIN once /\ at[j] \in DOMAIN once
        BY <2>2 DEF Shows
    <2>5. at[i] = at[j]
        BY <2>1, <2>3, <2>4
    <2>6. i \in Nat /\ j \in Nat /\ (i < j => at[i] < at[j]) /\ (j < i => at[j] < at[i])
        BY <2>2 DEF Shows
    <2>7. at[i] \in Nat
        <3>1. once \in Seq(Offer)
            BY <1>2, AnswerMade DEF once
        <3> QED BY <2>4, <3>1
    <2> QED BY ONLY <2>5, <2>6, <2>7
<1> QED BY <1>1, <1>2

LEMMA StoreOffer ==
    ASSUME setup \in Setups, NEW t \in Stores, NEW o \in OffersOf(t)
    PROVE  /\ o.source = t /\ o.source # Agg
           /\ o.host = IF setup.host[t] = "" THEN ListHost ELSE setup.host[t]
<1>1. PICK p \in Stock(t) : Offering(t, o, p)
    BY DEF OffersOf
<1>2. PICK g \in Goods(setup, t) : Looks(p) = Looks(g)
    BY DEF Stock
<1>3. Hosted(setup) /\ t \in ToSet(setup.sources) /\ t # Agg
    BY SetupShape, Askers DEF Stores
<1>4. g.host = IF setup.host[t] = "" THEN ListHost ELSE setup.host[t]
    BY <1>2, <1>3 DEF Hosted
<1>5. p.host = g.host
    BY <1>2 DEF Looks
<1> QED BY <1>1, <1>3, <1>4, <1>5 DEF Offering

LEMMA ProviderOffer ==
    ASSUME setup \in Setups, NEW o \in OffersOf(Agg)
    PROVE  o.source = Agg /\ o.host # ListHost
<1>1. PICK p \in Stock(Agg) : Offering(Agg, o, p)
    BY DEF OffersOf
<1>2. PICK g \in Goods(setup, Agg) : Looks(p) = Looks(g)
    BY DEF Stock
<1>3. g.host # ListHost
    BY <1>2, SetupShape DEF Hosted
<1>4. p.host = g.host
    BY <1>2 DEF Looks
<1> QED BY <1>1, <1>3, <1>4 DEF Offering

(* No two stores are asked under one host.                                 *)
LEMMA OneHostEach ==
    ASSUME setup \in Setups, NEW s \in Stores, NEW t \in Stores,
           setup.host[s] = setup.host[t], setup.host[s] # ""
    PROVE  s = t
BY SetupShape DEF Hosted, Stores

LEMMA OneVoice ==
    ASSUME OfferInv PROVE OneVoicePerStore
<1> SUFFICES ASSUME answer.state = "found", hasProvider PROVE OneVoicePerStore
    BY DEF OneVoicePerStore
<1> DEFINE once == OneOfEach(queryGameSources)
           told == walk[Agg].found
<1>1. setup \in Setups /\ once \in Seq(Collected)
         /\ \A i \in DOMAIN queryGameSources :
               \E n \in DOMAIN once : identity(once[n]) = identity(queryGameSources[i])
    BY AnswerMade
<1>2. PICK at : Shows(answer.items, once, at)
    BY AnswerMade
<1> HIDE DEF once
<1>3. told \in Seq(OffersOf(Agg)) /\ Agg \in DOMAIN setup.client
    BY WalkHere DEF Walkers
<1>4. \A i \in DOMAIN told : told[i].host \notin readDirectHosts =>
         \E n \in DOMAIN queryGameSources : queryGameSources[n] = told[i]
    BY CollectedOffers
<1> HIDE DEF told
<1>5. ASSUME NEW i \in DOMAIN told, OfThisGame(told[i]),
             NEW s \in Stores, Fell(s), setup.host[s] = told[i].host
      PROVE  \E j \in DOMAIN answer.items : identity(answer.items[j]) = identity(told[i])
    <2> DEFINE o == told[i]
    <2>1. o \in OffersOf(Agg)
        BY <1>3
    <2>2. o.host \notin readDirectHosts
        <3> SUFFICES ASSUME NEW x \in Stores, ~Fell(x), setup.host[x] = o.host, o.host # ""
                     PROVE  FALSE
            BY DEF readDirectHosts
        <3>1. x = s
            BY <1>1, <1>5, OneHostEach
        <3> QED BY <1>5, <3>1
    <2>3. PICK n \in DOMAIN once : identity(once[n]) = identity(o)
        BY <1>1, <1>4, <2>2
    <2> DEFINE e == once[n]
    <2>4. e \in Collected /\ e.url = o.url
        BY <1>1, <2>3 DEF identity
    <2>5. PICK q \in Stock(Agg) : Offering(Agg, o, q)
        BY <2>1 DEF OffersOf
    <2>6. OfGame(o)
        BY <1>5, AloneOfGame
    <2> HIDE DEF o, e
    <2>7. e.title = o.title /\ e.edition = o.edition
        <3>1. CASE e \in OffersOf(Agg)
            <4>1. PICK p \in Stock(Agg) : Offering(Agg, e, p)
                BY <3>1 DEF OffersOf
            <4>2. p.id = q.id
                BY <2>4, <2>5, <4>1 DEF Offering
            <4>3. Looks(p) = Looks(q)
                BY <1>1, <1>3, <4>2, OneLook
            <4> QED BY <2>5, <4>1, <4>3 DEF Offering, Looks
        <3>2. ASSUME NEW t \in Stores, ~Fell(t), e \in OffersOf(t) PROVE FALSE
            <4>1. PICK p \in Stock(t) : Offering(t, e, p)
                BY <3>2 DEF OffersOf
            <4>2. p.id = q.id
                BY <2>4, <2>5, <4>1 DEF Offering
            <4>3. t \in DOMAIN setup.client
                BY <1>1, Askers
            <4>4. p.host = q.host
                BY <1>1, <1>3, <4>2, <4>3, OneLook
            <4>5. e.host = o.host
                BY <2>5, <4>1, <4>4 DEF Offering
            <4>6. o.host # ListHost
                BY <1>1, <2>1, ProviderOffer
            <4>7. e.host = IF setup.host[t] = "" THEN ListHost ELSE setup.host[t]
                BY <1>1, <3>2, StoreOffer
            <4>8. setup.host[t] = setup.host[s] /\ setup.host[t] # ""
                BY <1>5, <4>5, <4>6, <4>7 DEF o
            <4>9. t = s
                BY <1>1, <4>8, OneHostEach
            <4> QED BY <1>5, <3>2, <4>9
        <3> QED BY <2>4, <3>1, <3>2 DEF Collected
    <2>8. OfGame(once[n])
        BY <2>6, <2>7 DEF OfGame, e
    <2>9. PICK j \in DOMAIN answer.items : at[j] = n
        BY <1>2, <2>3, <2>8 DEF Shows
    <2>10. Bears(answer.items[j], once[n])
        BY <1>2, <2>9 DEF Shows, Carries
    <2>11. identity(answer.items[j]) = identity(once[n])
        BY <2>10 DEF Bears, identity
    <2> QED BY <2>3, <2>11 DEF o
<1>6. ASSUME NEW i \in DOMAIN answer.items, NEW j \in DOMAIN answer.items,
             answer.items[i].source = Agg, answer.items[j].source # Agg,
             answer.items[i].host = answer.items[j].host
      PROVE  FALSE
    <2> DEFINE o == once[at[i]]
               e == once[at[j]]
    <2>1. o \in Collected /\ e \in Collected
        BY <1>1, <1>2 DEF Shows
    <2>2. Bears(answer.items[i], o) /\ Bears(answer.items[j], e)
        BY <1>2 DEF Shows, Carries
    <2>3. o.source = Agg /\ e.source # Agg /\ o.host = e.host
        BY <1>6, <2>2 DEF Bears
    <2> HIDE DEF o, e
    <2>4. o \in OffersOf(Agg) /\ o.host \notin readDirectHosts
        BY <1>1, <2>1, <2>3, StoreOffer DEF Collected
    <2>5. PICK t \in Stores : ~Fell(t) /\ e \in OffersOf(t)
        BY <1>1, <2>1, <2>3, ProviderOffer DEF Collected
    <2>6. e.host = IF setup.host[t] = "" THEN ListHost ELSE setup.host[t]
        BY <1>1, <2>5, StoreOffer
    <2>7. o.host # ListHost
        BY <1>1, <2>4, ProviderOffer
    <2>8. setup.host[t] # "" /\ setup.host[t] = o.host
        BY <2>3, <2>6, <2>7
    <2>9. setup.host[t] \in readDirectHosts
        BY <2>5, <2>8 DEF readDirectHosts
    <2> QED BY <2>4, <2>8, <2>9
<1> QED BY <1>5, <1>6 DEF OneVoicePerStore, told

-----------------------------------------------------------------------------
(* The keys of an answer                                                   *)

LEMMA FirstPlace ==
    ASSUME NEW S, NEW list \in Seq(S), NEW marks
    PROVE  FirstOf(marks, list) \in 0..Len(list)
<1> DEFINE places == {i \in DOMAIN list : list[i] \in marks}
<1>1. places \in SUBSET Nat /\ places \subseteq 1..Len(list) /\ Len(list) \in Nat
    OBVIOUS
<1>2. FirstOf(marks, list) = IF places = {} THEN 0 ELSE Min(places)
    BY DEF FirstOf
<1> HIDE DEF places
<1>3. places # {} => Min(places) \in places
    BY <1>1, MinIsLeast
<1>4. CASE places = {}
    BY <1>1, <1>2, <1>4
<1>5. CASE places # {}
    <2>1. Min(places) \in 1..Len(list)
        BY <1>1, <1>3, <1>5
    <2> QED BY <1>1, <1>2, <1>5, <2>1
<1> QED BY <1>4, <1>5

LEMMA CardKeyIsList ==
    ASSUME NEW title \in Seq(Marks) PROVE ReadCardKey(title) \in Seq(Marks)
<1> DEFINE plain == NormalizeCard(plainDashes(title))
<1>1. plain \in Seq(Marks)
    <2>1. Dash \in Marks /\ "k" \in Marks
        BY DEF Marks, Gaps, editionDashes, Pieces
    <2>2. plainDashes(title) \in Seq(Marks)
        BY <2>1 DEF plainDashes
    <2> QED BY <2>1, <2>2 DEF NormalizeCard
<1> HIDE DEF plain
<1>2. readQuotedName(plain) \in Seq(Marks)
    <2> DEFINE from(n) == FirstOf({quotePairs[n][1]}, plain)
               to(n) == FirstOf({quotePairs[n][2]}, After(plain, from(n)))
               found == {n \in DOMAIN quotePairs : from(n) > 0 /\ to(n) > 1}
    <2>1. readQuotedName(plain) = IF found = {} THEN <<>>
             ELSE SubSeq(plain, from(Min(found)) + 1, from(Min(found)) + to(Min(found)) - 1)
        BY DEF readQuotedName
    <2>2. found \in SUBSET Nat
        <3>1. DOMAIN quotePairs = 1..2
            BY DEF quotePairs
        <3> QED BY <3>1
    <2>3. ASSUME found # {} PROVE SubSeq(plain, from(Min(found)) + 1, from(Min(found)) + to(Min(found)) - 1) \in Seq(Marks)
        <3> DEFINE n == Min(found)
        <3>1. n \in found
            <4> HIDE DEF found
            <4> QED BY <2>2, <2>3, MinIsLeast
        <3>2. from(n) > 0 /\ to(n) > 1
            BY <3>1
        <3> HIDE DEF n
        <3>3. from(n) \in 0..Len(plain)
            BY <1>1, FirstPlace
        <3> DEFINE a == from(n)
                   rest == After(plain, a)
        <3>4. rest \in Seq(Marks) /\ Len(rest) = Len(plain) - a
            <4> HIDE DEF a
            <4>1. a \in 0..Len(plain)
                BY <3>3 DEF a
            <4> QED BY <1>1, <4>1 DEF After
        <3>5. to(n) \in 0..Len(rest)
            <4> HIDE DEF a
            <4>1. FirstOf({quotePairs[n][2]}, rest) \in 0..Len(rest)
                <5> HIDE DEF rest
                <5> QED BY <3>4, FirstPlace
            <4> QED BY <4>1 DEF a
        <3> DEFINE b == to(n)
        <3>6. a \in 1..Len(plain) /\ b \in 2..Len(plain) - a
            BY <1>1, <3>2, <3>3, <3>4, <3>5
        <3> HIDE DEF a, b
        <3>7. SubSeq(plain, a + 1, a + b - 1) \in Seq(Marks)
            <4>1. Len(plain) \in Nat
                BY <1>1
            <4>2. a + 1 \in 1..Len(plain) /\ a + b - 1 \in 1..Len(plain)
                BY ONLY <3>6, <4>1
            <4> QED BY ONLY <1>1, <4>2
        <3> QED BY <3>7 DEF a, b, n
    <2>4. <<>> \in Seq(Marks)
        OBVIOUS
    <2> HIDE DEF found, from, to
    <2> QED BY <2>1, <2>3, <2>4
<1>3. trimPrintingTail(plain) \in Seq(Marks)
    <2> DEFINE brackets == {FirstOf({b}, plain) : b \in editionBrackets}
               dashes == {i \in {FirstOf({d}, plain) : d \in editionDashes} :
                             OpensWithCode(After(plain, i))}
               cuts == {i \in brackets \union dashes : i > 1}
    <2>1. trimPrintingTail(plain) = IF cuts = {} THEN plain ELSE SubSeq(plain, 1, Min(cuts) - 1)
        BY DEF trimPrintingTail
    <2>2. \A b : FirstOf({b}, plain) \in 0..Len(plain)
        BY <1>1, FirstPlace
    <2>3. cuts \in SUBSET Nat /\ cuts \subseteq 2..Len(plain)
        <3>1. Len(plain) \in Nat
            BY <1>1
        <3>2. \A i \in brackets \union dashes : i \in 0..Len(plain)
            BY <2>2
        <3> HIDE DEF brackets, dashes
        <3> QED BY <3>1, <3>2
    <2> HIDE DEF cuts
    <2>4. cuts # {} => Min(cuts) \in cuts
        BY <2>3, MinIsLeast
    <2>5. ASSUME cuts # {} PROVE SubSeq(plain, 1, Min(cuts) - 1) \in Seq(Marks)
        <3> DEFINE m == Min(cuts)
        <3>1. m \in 2..Len(plain)
            BY <2>3, <2>4, <2>5
        <3> HIDE DEF m
        <3>2. SubSeq(plain, 1, m - 1) \in Seq(Marks)
            BY <1>1, <3>1
        <3> QED BY <3>2 DEF m
    <2> QED BY <1>1, <2>1, <2>5
<1> QED BY <1>2, <1>3 DEF ReadCardKey, plain

LEMMA LastTwo ==
    ASSUME NEW S, NEW a \in Seq(S), NEW u, NEW v, NEW z, z = a \o <<u, v>>
    PROVE  Len(z) \in Nat /\ z[Len(z)] = v /\ z[Len(z) - 1] = u
BY Len(a) \in Nat

LEMMA LastThree ==
    ASSUME NEW S, NEW a \in Seq(S), NEW t, NEW u, NEW v, NEW z, z = a \o <<t, u, v>>
    PROVE  Len(z) \in Nat /\ z[Len(z)] = v /\ z[Len(z) - 1] = u
BY Len(a) \in Nat

(* The key of a single of pokemon ends in what tells it from its namesakes. *)
LEMMA SingleKey ==
    ASSUME NEW y, y.kind = "single", y.game = "pokemon", y.product # "", y.title \in Seq(Marks),
           NEW key, key = readOfferKey(y)
    PROVE  /\ y.function # "" => key[Len(key)] = y.function /\ key[Len(key) - 1] = "|"
           /\ y.function = "" => key[Len(key)] = y.product /\ key[Len(key) - 1] = "printing"
<1> DEFINE card == ReadCardKey(y.title)
<1>1. card \in Seq(Marks)
    BY CardKeyIsList
<1>2. key = IF y.function # "" THEN card \o <<"|", y.function>>
            ELSE card \o <<"|", "printing", y.product>>
    <2>1. y.kind # "sealed"
        OBVIOUS
    <2> QED BY <2>1 DEF readOfferKey
<1> HIDE DEF card
<1>3. ASSUME y.function # "" PROVE key[Len(key)] = y.function /\ key[Len(key) - 1] = "|"
    <2> DEFINE last == y.function
               bar == "|"
    <2>1. key = card \o <<bar, last>>
        BY <1>2, <1>3
    <2> HIDE DEF last, bar
    <2>2. key[Len(key)] = last /\ key[Len(key) - 1] = bar
        BY ONLY <1>1, <2>1, LastTwo
    <2> QED BY <2>2 DEF last, bar
<1>4. ASSUME y.function = "" PROVE key[Len(key)] = y.product /\ key[Len(key) - 1] = "printing"
    <2> DEFINE last == y.product
               bar == "|"
               word == "printing"
    <2>1. key = card \o <<bar, word, last>>
        BY <1>2, <1>4
    <2> HIDE DEF last, bar, word
    <2>2. key[Len(key)] = last /\ key[Len(key) - 1] = word
        BY ONLY <1>1, <2>1, LastThree
    <2> QED BY <2>2 DEF last, word
<1> QED BY <1>3, <1>4

LEMMA MechanicsOf ==
    ASSUME setup \in Setups, NEW p \in Stock(Agg)
    PROVE  /\ {q.mechanics : q \in {g \in Goods(setup, Agg) : g.id = p.id}} = {p.mechanics}
           /\ p.kind = "sealed" => p.mechanics = ""
<1>1. PICK g \in Goods(setup, Agg) : Looks(p) = Looks(g)
    BY DEF Stock
<1>2. Printed(setup) /\ Agg \in DOMAIN setup.client
    BY SetupShape
<1>3. g.id = p.id /\ g.mechanics = p.mechanics /\ g.kind = p.kind
    BY <1>1 DEF Looks
<1>4. ASSUME NEW h \in Goods(setup, Agg), h.id = p.id PROVE h.mechanics = p.mechanics
    <2>1. h.id = g.id
        BY <1>3, <1>4
    <2>2. h.host = g.host /\ (Agg = Agg => <<h.store, h.title, h.edition, h.kind, h.mechanics>>
                                              = <<g.store, g.title, g.edition, g.kind, g.mechanics>>)
        BY <1>2, <2>1 DEF Printed
    <2> QED BY <1>3, <2>2
<1>5. p.kind = "sealed" => p.mechanics = ""
    BY <1>2, <1>3 DEF Printed
<1> QED BY <1>3, <1>4, <1>5

(* What the provider of pokemon offers, and the key that it is given.      *)
LEMMA ProviderKey ==
    ASSUME setup \in Setups, setup.game = "pokemon", hasProvider, NEW o \in OffersOf(Agg),
           NEW x, Carries(x, o), NEW p \in Stock(Agg), Offering(Agg, o, p)
    PROVE  /\ x.url = p.id /\ p.kind = query.kind
           /\ query.kind = "single" =>
                 \/ x.key[Len(x.key)] = p.mechanics /\ x.key[Len(x.key) - 1] = "|"
                 \/ x.key[Len(x.key)] = p.id /\ x.key[Len(x.key) - 1] = "printing"
<1>1. Kind(Agg) = "tcgmatch"
    BY SetupShape DEF Printed, hasProvider, Kind
<1>2. PICK y : Bears(y, o) /\ y.kind = query.kind /\ x.key = readOfferKey(y)
    BY DEF Carries
<1>3. o.game = "pokemon" /\ o.product = p.id /\ o.function \in {"", p.mechanics}
         /\ p.kind = query.kind /\ o.url = p.id /\ o.title = p.title
    BY <1>1 DEF Offering
<1>4. p.id # "" /\ p.title \in Seq(Marks)
    BY DEF Stock, Product
<1>5. y.game = "pokemon" /\ y.product = p.id /\ y.function \in {"", p.mechanics} /\ y.title \in Seq(Marks)
    BY <1>2, <1>3, <1>4 DEF Bears
<1>6. x.url = p.id
    BY <1>3 DEF Carries, Bears
<1> DEFINE key == x.key
<1>7. key = readOfferKey(y)
    BY <1>2
<1> HIDE DEF key
<1>8. ASSUME query.kind = "single"
      PROVE  \/ key[Len(key)] = p.mechanics /\ key[Len(key) - 1] = "|"
             \/ key[Len(key)] = p.id /\ key[Len(key) - 1] = "printing"
    <2>1. y.kind = "single"
        BY <1>2, <1>8
    <2>2. /\ y.function # "" => key[Len(key)] = y.function /\ key[Len(key) - 1] = "|"
          /\ y.function = "" => key[Len(key)] = y.product /\ key[Len(key) - 1] = "printing"
        BY <1>4, <1>5, <1>7, <2>1, SingleKey
    <2> QED BY <1>5, <2>2
<1> QED BY <1>3, <1>6, <1>8 DEF key

LEMMA OneFunction ==
    ASSUME OfferInv PROVE OneFunctionPerKey
<1> DEFINE once == OneOfEach(queryGameSources)
           mechanics(x) == {q.mechanics : q \in {g \in Goods(setup, Agg) : g.id = x.url}}
<1> SUFFICES ASSUME NEW i \in DOMAIN answer.items, NEW j \in DOMAIN answer.items,
                    answer.items[i].source = Agg, answer.items[j].source = Agg,
                    setup.game = "pokemon", answer.items[i].key = answer.items[j].key
             PROVE  mechanics(answer.items[i]) = mechanics(answer.items[j])
    BY DEF OneFunctionPerKey
<1>1. answer.state = "found"
    BY DEF OfferInv, AnswerHolds
<1>2. setup \in Setups /\ once \in Seq(Collected)
    BY <1>1, AnswerMade
<1>3. PICK at : Shows(answer.items, once, at)
    BY <1>1, AnswerMade
<1> DEFINE x == answer.items[i]
           z == answer.items[j]
           o == once[at[i]]
           e == once[at[j]]
<1> HIDE DEF once
<1>4. o \in Collected /\ e \in Collected /\ Carries(x, o) /\ Carries(z, e)
    BY <1>2, <1>3 DEF Shows
<1>5. o.source = Agg /\ e.source = Agg
    BY <1>4 DEF Carries, Bears
<1> HIDE DEF o, e
<1>6. hasProvider /\ o \in OffersOf(Agg) /\ e \in OffersOf(Agg)
    BY <1>2, <1>4, <1>5, StoreOffer DEF Collected
<1>7. PICK p \in Stock(Agg) : Offering(Agg, o, p)
    BY <1>6 DEF OffersOf
<1>8. PICK q \in Stock(Agg) : Offering(Agg, e, q)
    BY <1>6 DEF OffersOf
<1>9. x.key = z.key /\ setup.game = "pokemon"
    OBVIOUS
<1>14. mechanics(x) = mechanics(answer.items[i]) /\ mechanics(z) = mechanics(answer.items[j])
    OBVIOUS
<1> HIDE DEF x, z
<1>10. /\ x.url = p.id /\ p.kind = query.kind
       /\ query.kind = "single" =>
             \/ x.key[Len(x.key)] = p.mechanics /\ x.key[Len(x.key) - 1] = "|"
             \/ x.key[Len(x.key)] = p.id /\ x.key[Len(x.key) - 1] = "printing"
    BY <1>2, <1>4, <1>6, <1>7, <1>9, ProviderKey
<1>11. /\ z.url = q.id /\ q.kind = query.kind
       /\ query.kind = "single" =>
             \/ z.key[Len(z.key)] = q.mechanics /\ z.key[Len(z.key) - 1] = "|"
             \/ z.key[Len(z.key)] = q.id /\ z.key[Len(z.key) - 1] = "printing"
    BY <1>2, <1>4, <1>6, <1>8, <1>9, ProviderKey
<1>12. mechanics(x) = {p.mechanics} /\ mechanics(z) = {q.mechanics}
    BY <1>2, <1>10, <1>11, MechanicsOf
<1>13. p.mechanics = q.mechanics
    <2>1. CASE query.kind = "sealed"
        BY <1>2, <1>10, <1>11, <2>1, MechanicsOf
    <2>2. CASE query.kind = "single"
        <3>1. p.mechanics = q.mechanics \/ p.id = q.id
            BY <1>9, <1>10, <1>11, <2>2
        <3>3. Agg \in DOMAIN setup.client
            BY <1>2, SetupShape
        <3>2. p.id = q.id => Looks(p) = Looks(q)
            BY <1>2, <3>3, OneLook
        <3> QED BY <3>1, <3>2 DEF Looks
    <2> QED BY <1>2, <2>1, <2>2, QueryShape
<1> HIDE DEF mechanics
<1> QED BY <1>12, <1>13, <1>14

-----------------------------------------------------------------------------
(* What a walk has brought, and what it still owes                         *)

(* The offers found hold one with the identity of p.                       *)
Brings(found, p) == \E n \in DOMAIN found : identity(found[n]) = <<p.store, p.id, p.id>>

(* What a client reads from, what it must take of it, and both together.   *)
From(s) ==
    IF Kind(s) = "moxfield" THEN Inventory(s) ELSE IF Kind(s) = "tcgmatch" THEN Catalog ELSE shelf[s]

Due(s, p) ==
    /\ p.price > 0
    /\ Kind(s) \in {"shopify", "jumpseller", "moxfield", "tcgmatch"} => p.units > 0
    /\ Kind(s) \notin {"scrycl", "prestashop"} => AcceptsTitle(query, p.title)
    /\ Kind(s) = "prestashop" => MatchesCard(p.title, query.name)
    /\ Kind(s) = "tcgmatch" => p.kind = query.kind
    /\ Kind(s) = "scrycl" => setup.community \/ p.host # setup.host[Agg]

Owed(s) == {p \in ToSet(From(s)) : Due(s, p)}

(* After its pages so far a client has the offers, or the links, of what   *)
(* stood on them; jumpseller keeps for reading whatever it owes of these.  *)
Searched(s, w) ==
    LET before(i) == i <= (w.page - 1) * PageSize IN
    /\ Kind(s) \in {"woocommerce", "prestashop"} /\ s \notin setup.loops =>
          \A i \in DOMAIN shelf[s] : before(i) /\ shelf[s][i] \in Owed(s) => Brings(w.found, shelf[s][i])
    /\ Kind(s) = "shopify" /\ s \notin setup.loops =>
          \A i \in DOMAIN Available(s) : before(i) => Available(s)[i].id \in ToSet(w.links)
    /\ Kind(s) = "jumpseller" /\ s \notin setup.loops =>
          \A i \in DOMAIN shelf[s] : before(i) => shelf[s][i].id \in ToSet(w.links)
    /\ Kind(s) = "jumpseller" =>
          \A p \in Owed(s) : p.id \in ToSet(w.links) => p.id \in ToSet(w.left)

(* What is owed is on a page not read yet, among the products left to read, *)
(* or found.                                                               *)
Covers(s, w) ==
    /\ w.step = "waiting" => w.page = 1 /\ w.links = <<>>
    /\ w.step = "searching" => Searched(s, w)
    /\ w.step \in {"briefs", "cards"} => \A p \in Owed(s) : p.id \in ToSet(w.left)
    /\ w.step \in {"currency", "reading"} =>
          \A p \in Owed(s) : p.id \in ToSet(w.left) \/ Brings(w.found, p)
    /\ w.step = "done" => \A p \in Owed(s) : Brings(w.found, p)

(* The invariant behind WholeWhenCached, beside OfferInv.                  *)
WholeInv ==
    /\ moves = 0 => \A s \in Walkers : Covers(s, walk[s])
    /\ answer.cached => answer.state = "found" /\ Fallen = {}

(* Where a page of a list ends, and what it holds.                         *)
LEMMA PageEnds ==
    ASSUME NEW T, NEW list \in Seq(T), NEW n \in Nat \ {0}
    PROVE  \E a \in Nat, end \in Nat :
              /\ a = (n - 1) * PageSize /\ n * PageSize = a + PageSize /\ PageSize \in Nat \ {0}
              /\ end <= Len(list) /\ end <= a + PageSize /\ end \in {Len(list), a + PageSize}
              /\ Len(Page(list, n)) = IF a < end THEN end - a ELSE 0
              /\ \A k \in 1..(end - a) : Page(list, n)[k] = list[a + k]
<1>1. PageSize \in Nat \ {0}
    BY OfferSearchAssumption
<1>2. (n - 1) * PageSize \in Nat /\ n * PageSize = (n - 1) * PageSize + PageSize
    <2>1. \A x, y \in Nat : x * y \in Nat
        OBVIOUS
    <2>2. n - 1 \in Nat /\ PageSize \in Nat
        BY <1>1
    <2>3. n * PageSize = (n - 1) * PageSize + PageSize
        BY ONLY <2>2, n \in Nat
    <2> QED BY <2>1, <2>2, <2>3
<1>3. PICK a \in Nat : a = (n - 1) * PageSize
    BY <1>2
<1> DEFINE ends == {a + PageSize, Len(list)}
<1>4. ends \in SUBSET Nat /\ ends # {} /\ Len(list) \in ends /\ a + PageSize \in ends
         /\ \A e \in ends : e \in {Len(list), a + PageSize}
    BY <1>1, <1>3
<1> HIDE DEF ends
<1>5. PICK end \in ends : end = Min(ends) /\ \A k \in ends : end <= k
    BY <1>4, MinIsLeast
<1>6. end \in Nat /\ end <= Len(list) /\ end <= a + PageSize /\ end \in {Len(list), a + PageSize}
    BY <1>4, <1>5
<1>7. Page(list, n) = SubSeq(list, a + 1, end)
    BY <1>2, <1>3, <1>5 DEF Page, ends
<1>8. Len(Page(list, n)) = IF a < end THEN end - a ELSE 0
    BY <1>3, <1>6, <1>7
<1>9. \A k \in 1..(end - a) : Page(list, n)[k] = list[a + k]
    BY <1>3, <1>6, <1>7
<1> QED BY <1>1, <1>2, <1>3, <1>6, <1>8, <1>9

LEMMA PageBrings ==
    ASSUME NEW T, NEW list \in Seq(T), NEW n \in Nat \ {0}, NEW i \in DOMAIN list,
           ~(i <= (n - 1) * PageSize), i <= n * PageSize
    PROVE  \E k \in DOMAIN Page(list, n) : Page(list, n)[k] = list[i]
<1>1. PICK a \in Nat, end \in Nat :
         /\ a = (n - 1) * PageSize /\ n * PageSize = a + PageSize /\ PageSize \in Nat \ {0}
         /\ end <= Len(list) /\ end <= a + PageSize /\ end \in {Len(list), a + PageSize}
         /\ Len(Page(list, n)) = IF a < end THEN end - a ELSE 0
         /\ \A k \in 1..(end - a) : Page(list, n)[k] = list[a + k]
    BY PageEnds
<1>2. i \in Nat /\ i <= Len(list) /\ a < i /\ i <= end
    BY <1>1
<1>3. i - a \in 1..(end - a) /\ a + (i - a) = i
    BY <1>2
<1>4. Page(list, n) \in Seq(T)
    BY PartOfPage
<1>5. DOMAIN Page(list, n) = 1..(end - a)
    BY <1>1, <1>2, <1>4
<1>6. Page(list, n)[i - a] = list[a + (i - a)]
    BY <1>1, <1>3
<1> QED BY <1>3, <1>5, <1>6

(* A page that is not full is the last one, and an empty one is past it.   *)
LEMMA PageIsLast ==
    ASSUME NEW T, NEW list \in Seq(T), NEW n \in Nat \ {0}
    PROVE  /\ Len(Page(list, n)) < PageSize => \A i \in DOMAIN list : i <= n * PageSize
           /\ Page(list, n) = <<>> => \A i \in DOMAIN list : i <= (n - 1) * PageSize
<1>1. PICK a \in Nat, end \in Nat :
         /\ a = (n - 1) * PageSize /\ n * PageSize = a + PageSize /\ PageSize \in Nat \ {0}
         /\ end <= Len(list) /\ end <= a + PageSize /\ end \in {Len(list), a + PageSize}
         /\ Len(Page(list, n)) = IF a < end THEN end - a ELSE 0
         /\ \A k \in 1..(end - a) : Page(list, n)[k] = list[a + k]
    BY PageEnds
<1> DEFINE length == Len(Page(list, n))
<1>2. Len(list) \in Nat /\ \A i \in DOMAIN list : i \in Nat /\ i <= Len(list)
    OBVIOUS
<1>3. /\ length < PageSize => Len(list) <= a + PageSize
      /\ length = 0 => Len(list) <= a
    <2>1. length = IF a < end THEN end - a ELSE 0
        BY <1>1
    <2>2. end = Len(list) \/ end = a + PageSize
        BY <1>1
    <2>3. PageSize \in Nat /\ PageSize > 0
        BY <1>1
    <2> HIDE DEF length
    <2> DEFINE N == Len(list)
    <2>4. N \in Nat
        BY <1>2
    <2> HIDE DEF N
    <2>5. end = N \/ end = a + PageSize
        BY <2>2 DEF N
    <2>6. /\ length < PageSize => N <= a + PageSize
          /\ length = 0 => N <= a
        BY ONLY <2>1, <2>3, <2>4, <2>5, a \in Nat, end \in Nat
    <2> QED BY <2>6 DEF N
<1>4. Page(list, n) = <<>> => length = 0
    OBVIOUS
<1> HIDE DEF length
<1>5. a \in Nat /\ PageSize \in Nat
    BY <1>1
<1>6. ASSUME length < PageSize, NEW i \in DOMAIN list PROVE i <= a + PageSize
    BY <1>2, <1>3, <1>5, <1>6
<1>7. ASSUME Page(list, n) = <<>>, NEW i \in DOMAIN list PROVE i <= a
    BY <1>2, <1>3, <1>4, <1>5, <1>7
<1> QED BY <1>1, <1>6, <1>7 DEF length

LEMMA AcceptedBrings ==
    ASSUME NEW T, NEW list \in Seq(T), NEW i \in DOMAIN list, AcceptsTitle(query, list[i].title)
    PROVE  \E n \in DOMAIN Accepted(list) : Accepted(list)[n] = list[i]
<1> DEFINE places == {k \in DOMAIN list : AcceptsTitle(query, list[k].title)}
<1>1. Accepted(list) = Keep(list, places) /\ i \in places
    BY DEF Accepted, Select
<1> HIDE DEF places
<1> QED BY <1>1, KeepBrings

LEMMA MiniaturesBring ==
    ASSUME NEW T, NEW list \in Seq(T), NEW i \in DOMAIN list,
           MatchesCard(list[i].title, query.name), list[i].price > 0
    PROVE  \E n \in DOMAIN Miniatures(list) : Miniatures(list)[n] = list[i]
<1> DEFINE places == {k \in DOMAIN list : MatchesCard(list[k].title, query.name) /\ list[k].price > 0}
<1>1. Miniatures(list) = Keep(list, places) /\ i \in places
    BY DEF Miniatures, Select
<1> HIDE DEF places
<1> QED BY <1>1, KeepBrings

LEMMA SellableBrings ==
    ASSUME NEW T, NEW list \in Seq(T), NEW i \in DOMAIN list, list[i].units > 0
    PROVE  \E n \in DOMAIN Sellable(list) : Sellable(list)[n] = list[i]
<1> DEFINE places == {k \in DOMAIN list : list[k].units > 0}
<1>1. Sellable(list) = Keep(list, places) /\ i \in places
    BY DEF Sellable, Select
<1> HIDE DEF places
<1> QED BY <1>1, KeepBrings

LEMMA EntriesBring ==
    ASSUME NEW T, NEW list \in Seq(T), NEW i \in DOMAIN list, list[i].units > 0, list[i].price > 0
    PROVE  /\ \E n \in DOMAIN Entries(list) : Entries(list)[n] = list[i]
           /\ \E n \in DOMAIN Listings(list) : Listings(list)[n] = list[i]
<1> DEFINE places == {k \in DOMAIN list : list[k].units > 0 /\ list[k].price > 0}
<1>1. Entries(list) = Keep(list, places) /\ Listings(list) = Keep(list, places) /\ i \in places
    BY DEF Entries, Listings, Select
<1> HIDE DEF places
<1> QED BY <1>1, KeepBrings

LEMMA ProductPageBrings ==
    ASSUME NEW s, NEW id, NEW T, shelf[s] \in Seq(T), NEW i \in DOMAIN shelf[s], shelf[s][i].id = id
    PROVE  \E n \in DOMAIN ProductPage(s, id) : ProductPage(s, id)[n] = shelf[s][i]
<1> DEFINE places == {k \in DOMAIN shelf[s] : shelf[s][k].id = id}
<1>1. ProductPage(s, id) = Keep(shelf[s], places) /\ i \in places
    BY DEF ProductPage, Select
<1> HIDE DEF places
<1> QED BY <1>1, KeepBrings

LEMMA OffersBring ==
    ASSUME NEW s, NEW list \in Seq(Stock(s)), NEW p, NEW n \in DOMAIN list, list[n] = p
    PROVE  Brings(Offers(s, list), p)
<1>1. DOMAIN Offers(s, list) = DOMAIN list /\ Offers(s, list)[n] = buildOffer(s)[p] /\ p \in Product
    <2>1. Stock(s) \subseteq Product
        BY DEF Stock
    <2> QED BY <2>1 DEF Offers
<1>2. identity(buildOffer(s)[p]) = <<p.store, p.id, p.id>>
    BY <1>1 DEF buildOffer, identity
<1> QED BY <1>1, <1>2 DEF Brings

LEMMA BringsMore ==
    ASSUME NEW S, NEW found \in Seq(S), NEW more \in Seq(S), NEW p
    PROVE  /\ Brings(found, p) \/ Brings(more, p) => Brings(found \o more, p)
           /\ Brings(found, p) => Brings(DeduplicateOffers(found), p)
<1>1. ASSUME NEW n \in DOMAIN found, identity(found[n]) = <<p.store, p.id, p.id>>
      PROVE  Brings(found \o more, p) /\ Brings(DeduplicateOffers(found), p)
    <2>1. n \in DOMAIN (found \o more) /\ (found \o more)[n] = found[n]
        OBVIOUS
    <2>2. \E m \in DOMAIN DeduplicateOffers(found) :
             identity(DeduplicateOffers(found)[m]) = identity(found[n])
        BY OnceEach
    <2> QED BY <1>1, <2>1, <2>2 DEF Brings
<1>2. ASSUME NEW n \in DOMAIN more, identity(more[n]) = <<p.store, p.id, p.id>>
      PROVE  Brings(found \o more, p)
    <2>1. Len(found) + n \in DOMAIN (found \o more) /\ (found \o more)[Len(found) + n] = more[n]
        OBVIOUS
    <2> QED BY <1>2, <2>1 DEF Brings
<1> QED BY <1>1, <1>2 DEF Brings

LEMMA SameCover ==
    ASSUME setup' = setup, shelf' = shelf
    PROVE  \A s, w : Covers(s, w)' <=> Covers(s, w)
<1>1. query' = query /\ \A s : Kind(s)' = Kind(s)
    BY DEF query, Kind
<1>2. \A s : From(s)' = From(s) /\ Available(s)' = Available(s)
    BY <1>1 DEF From, Inventory, Catalog, Available
<1>3. \A s : Owed(s)' = Owed(s)
    BY <1>1, <1>2 DEF Owed, Due
<1>4. ASSUME NEW s, NEW w PROVE Searched(s, w)' <=> Searched(s, w)
    BY <1>1, <1>2, <1>3 DEF Searched
<1> QED BY <1>3, <1>4 DEF Covers

LEMMA WalkCovers ==
    ASSUME OfferInv, WholeInv, NEW s \in Walkers, NEW w, walk' = [walk EXCEPT ![s] = w],
           walk[s].step \notin Ended, UNCHANGED <<setup, world, answer>>, moves = 0 => Covers(s, w)
    PROVE  WholeInv'
<1>1. setup' = setup /\ shelf' = shelf /\ moves' = moves /\ answer' = answer
    BY DEF world
<1>2. Walkers' = Walkers /\ \A t, x : Covers(t, x)' <=> Covers(t, x)
    BY <1>1, SameSetup, SameCover
<1>3. walk'[s] = w /\ \A t \in Walkers \ {s} : walk'[t] = walk[t]
    <2>1. \A t \in Walkers : t \in DOMAIN walk
        BY WalkHere DEF OfferInv, TypeOK
    <2> QED BY <2>1
<1>4. moves = 0 => \A t \in Walkers : Covers(t, walk'[t])
    BY <1>3 DEF WholeInv
<1>5. moves' = 0 => (\A t \in Walkers : Covers(t, walk[t]))'
    <2> SUFFICES ASSUME moves = 0, NEW t \in Walkers PROVE Covers(t, walk[t])'
        BY <1>1, <1>2
    <2>1. Covers(t, walk'[t])
        BY <1>4
    <2> QED BY <1>2, <2>1
<1>6. answer.state = "none"
    BY DEF OfferInv, AnswerHolds
<1>7. ~answer.cached
    BY <1>6 DEF WholeInv
<1>8. ~answer'.cached
    BY <1>1, <1>7
<1> QED BY <1>5, <1>8 DEF WholeInv

LEMMA RepliedCovers ==
    ASSUME OfferInv, WholeInv, NEW s \in Walkers, NEW w, Replied(s, w), walk[s].step \notin Ended,
           moves = 0 => Covers(s, w)
    PROVE  WholeInv'
<1>1. walk' = [walk EXCEPT ![s] = w] /\ UNCHANGED <<setup, world, answer>>
    BY DEF Replied
<1> QED BY <1>1, WalkCovers

LEMMA AnsweredCovers ==
    ASSUME OfferInv, WholeInv, NEW s \in Walkers, NEW client, NEW step, NEW w,
           Answered(s, client, step), Replied(s, w), step \notin Ended, moves = 0 => Covers(s, w)
    PROVE  WholeInv'
<1>1. walk[s].step = step
    BY DEF Answered
<1> QED BY <1>1, RepliedCovers

LEMMA CoverHere ==
    ASSUME WholeInv, NEW s \in Walkers, moves = 0 PROVE Covers(s, walk[s])
BY DEF WholeInv

(* A walk that ends owes nothing if it failed, and all it promised if not. *)
LEMMA CoversEnd ==
    ASSUME NEW s, NEW w \in Walk, NEW found
    PROVE  /\ Covers(s, Failed(w))
           /\ (\A p \in Owed(s) : Brings(found, p)) => Covers(s, Done(w, found))
<1>1. Failed(w).step = "failed"
    BY DEF Failed, Walk
<1>2. Done(w, found).step = "done" /\ Done(w, found).found = found
    BY DEF Done, Walk
<1> HIDE DEF Failed, Done
<1> QED BY <1>1, <1>2 DEF Covers

LEMMA OwedOnShelf ==
    ASSUME OfferInv, NEW s \in Walkers, Kind(s) = "tcgmatch" => s = Agg, NEW p \in Owed(s)
    PROVE  /\ p \in Stock(s) /\ p \in Product /\ Due(s, p)
           /\ Kind(s) \notin {"moxfield", "tcgmatch"} => \E i \in DOMAIN shelf[s] : shelf[s][i] = p
<1>1. PICK i \in DOMAIN From(s) : From(s)[i] = p
    BY DEF Owed, ToSet
<1>2. s \in DOMAIN setup.client /\ shelf[s] \in Seq(Stock(s)) /\ shelf[Agg] \in Seq(Stock(Agg))
    <2>1. Agg \in DOMAIN setup.client
        BY SetupShape DEF OfferInv, TypeOK
    <2> QED BY <2>1, WalkHere DEF OfferInv, ShelvesHold
<1>3. Stock(s) \subseteq Product /\ Due(s, p)
    BY DEF Stock, Owed
<1>4. CASE Kind(s) = "moxfield"
    <2>1. From(s) \in Seq(Stock(s))
        BY <1>2, <1>4, InventoryStock DEF From
    <2> QED BY <1>1, <1>3, <1>4, <2>1
<1>5. CASE Kind(s) = "tcgmatch"
    <2>1. From(s) = Catalog /\ s = Agg
        BY <1>5 DEF From
    <2>2. Catalog \in Seq(Stock(s))
        BY <2>1, CatalogStock
    <2> QED BY <1>1, <1>3, <1>5, <2>1, <2>2
<1>6. CASE Kind(s) \notin {"moxfield", "tcgmatch"}
    <2>1. From(s) = shelf[s]
        BY <1>6 DEF From
    <2> QED BY <1>1, <1>2, <1>3, <1>6, <2>1
<1> QED BY <1>4, <1>5, <1>6

LEMMA ListedBrings ==
    ASSUME OfferInv, NEW s \in Walkers, NEW n \in Nat \ {0}, NEW m,
           m = IF s \in setup.loops THEN 1 ELSE n, NEW i \in DOMAIN shelf[s],
           ~(i <= (m - 1) * PageSize), i <= m * PageSize
    PROVE  \E k \in DOMAIN Listed(s, n) : Listed(s, n)[k] = shelf[s][i]
<1>1. Listed(s, n) = Page(shelf[s], m) /\ shelf[s] \in Seq(Stock(s)) /\ m \in Nat \ {0}
    BY WalkHere DEF Listed
<1> QED BY <1>1, PageBrings

LEMMA RestHolds ==
    ASSUME NEW S, NEW list \in Seq(S), list # <<>>, NEW id \in ToSet(list), id # Head(list)
    PROVE  id \in ToSet(Tail(list)) /\ Len(list) # 1
<1>1. PICK i \in DOMAIN list : list[i] = id
    BY DEF ToSet
<1>2. i \in 1..Len(list) /\ i # 1
    BY <1>1
<1>3. i - 1 \in DOMAIN Tail(list) /\ Tail(list)[i - 1] = id
    BY <1>1, <1>2
<1> QED BY <1>2, <1>3 DEF ToSet

(* A client that reads product after product owes those that are left.     *)
LEMMA NextCovers ==
    ASSUME NEW s, NEW w \in WalkOf(s), w.step = "reading", Covers(s, w),
           NEW more \in Seq(OffersOf(s)), NEW found, found = w.found \o more,
           \A p \in Owed(s) : p.id = Head(w.left) => Brings(more, p)
    PROVE  Covers(s, NextProduct(w, found))
<1>1. w \in Walk /\ w.left # <<>> /\ w.left \in Seq(STRING) /\ w.found \in Seq(OffersOf(s))
    BY WalkParts DEF WalkOf
<1>2. \A p \in Owed(s) : p.id \in ToSet(w.left) \/ Brings(w.found, p)
    BY DEF Covers
<1>3. found \in Seq(OffersOf(s))
    BY <1>1
<1>4. ASSUME NEW p \in Owed(s)
      PROVE  Brings(found, p) \/ (p.id \in ToSet(Tail(w.left)) /\ Len(w.left) # 1)
    <2>1. CASE Brings(w.found, p)
        BY <1>1, <2>1, BringsMore
    <2>2. CASE p.id \in ToSet(w.left) /\ p.id = Head(w.left)
        BY <1>1, <2>2, BringsMore
    <2>3. CASE p.id \in ToSet(w.left) /\ p.id # Head(w.left)
        BY <1>1, <2>3, RestHolds
    <2> QED BY <1>2, <2>1, <2>2, <2>3
<1>5. CASE Len(w.left) = 1
    <2>1. \A p \in Owed(s) : Brings(DeduplicateOffers(found), p)
        <3> SUFFICES ASSUME NEW p \in Owed(s) PROVE Brings(DeduplicateOffers(found), p)
            OBVIOUS
        <3>1. Brings(found, p)
            BY <1>4, <1>5
        <3> QED BY <1>3, <3>1, BringsMore
    <2> QED BY <1>1, <1>5, <2>1, CoversEnd DEF NextProduct
<1>6. CASE Len(w.left) # 1
    <2> DEFINE next == [w EXCEPT !.left = Tail(@), !.found = found]
    <2>1. next.step = "reading" /\ next.left = Tail(w.left) /\ next.found = found
        BY <1>1 DEF Walk
    <2>2. NextProduct(w, found) = next
        BY <1>6 DEF NextProduct
    <2> HIDE DEF next
    <2>3. \A p \in Owed(s) : p.id \in ToSet(next.left) \/ Brings(next.found, p)
        BY <1>4, <2>1
    <2>4. Covers(s, next)
        BY <2>1, <2>3 DEF Covers
    <2> QED BY <2>2, <2>4
<1> QED BY <1>5, <1>6

(* A page of offers that brings what it owes leaves only the pages after it. *)
LEMMA PageCovers ==
    ASSUME OfferInv, NEW s \in Walkers, Kind(s) \in {"woocommerce", "prestashop"},
           walk[s].step = "searching", Covers(s, walk[s]),
           NEW page, page = Listed(s, walk[s].page),
           NEW more \in Seq(OffersOf(s)), NEW found, found = walk[s].found \o more,
           \A k \in DOMAIN page : page[k] \in Owed(s) => Brings(more, page[k])
    PROVE  /\ \A next : next = [walk[s] EXCEPT !.page = @ + 1, !.found = found] => Covers(s, next)
           /\ Len(page) < PageSize \/ ~HasNext(s, walk[s].page) =>
                 \A p \in Owed(s) : Brings(found, p)
<1> DEFINE w == walk[s]
           n == w.page
<1>1. w \in WalkOf(s) /\ w \in Walk /\ n \in Nat \ {0} /\ w.found \in Seq(OffersOf(s))
         /\ shelf[s] \in Seq(Stock(s)) /\ w.step = "searching"
    BY WalkHere DEF WalkOf
<1>2. s \notin setup.loops => \A i \in DOMAIN shelf[s] :
         i <= (n - 1) * PageSize /\ shelf[s][i] \in Owed(s) => Brings(w.found, shelf[s][i])
    BY <1>1 DEF Covers, Searched
<1> DEFINE m == IF s \in setup.loops THEN 1 ELSE n
<1>3. m \in Nat \ {0} /\ page = Page(shelf[s], m)
    BY <1>1 DEF Listed
<1>4. (s \in setup.loops => m = 1) /\ (s \notin setup.loops => m = n)
    OBVIOUS
<1> HIDE DEF w, n
<1>5. \A i \in DOMAIN shelf[s] :
         i <= (m - 1) * PageSize /\ shelf[s][i] \in Owed(s) => Brings(w.found, shelf[s][i])
    <2> SUFFICES ASSUME NEW i \in DOMAIN shelf[s], i <= (m - 1) * PageSize, shelf[s][i] \in Owed(s)
                 PROVE  Brings(w.found, shelf[s][i])
        OBVIOUS
    <2>1. CASE s \in setup.loops
        <3>1. PageSize \in Nat
            BY OfferSearchAssumption
        <3>2. i \in Nat \ {0} /\ m = 1
            BY <1>1, <1>4, <2>1
        <3>3. i <= (1 - 1) * PageSize
            BY <3>2
        <3>4. FALSE
            BY ONLY <3>1, <3>2, <3>3
        <3> QED BY <3>4
    <2>2. CASE s \notin setup.loops
        BY <1>2, <1>4, <2>2
    <2> QED BY <2>1, <2>2
<1> HIDE DEF m
<1>6. ASSUME NEW i \in DOMAIN shelf[s], i <= m * PageSize, shelf[s][i] \in Owed(s)
      PROVE  Brings(found, shelf[s][i])
    <2>1. CASE i <= (m - 1) * PageSize
        <3>1. Brings(w.found, shelf[s][i])
            BY <1>5, <1>6, <2>1
        <3> QED BY <1>1, <3>1, BringsMore DEF w
    <2>2. CASE ~(i <= (m - 1) * PageSize)
        <3>1. PICK k \in DOMAIN page : page[k] = shelf[s][i]
            BY <1>1, <1>3, <1>6, <2>2, PageBrings
        <3>2. Brings(more, shelf[s][i])
            BY <1>6, <3>1
        <3> QED BY <1>1, <3>2, BringsMore DEF w
    <2> QED BY <2>1, <2>2
<1>7. ASSUME NEW next, next = [w EXCEPT !.page = @ + 1, !.found = found] PROVE Covers(s, next)
    <2>1. next.step = "searching" /\ next.page = n + 1 /\ next.found = found
        BY <1>1, <1>7 DEF Walk, n
    <2>2. s \notin setup.loops => \A i \in DOMAIN shelf[s] :
             i <= (next.page - 1) * PageSize /\ shelf[s][i] \in Owed(s) => Brings(next.found, shelf[s][i])
        <3>3. s \notin setup.loops => next.page - 1 = m
            BY <1>1, <1>4, <2>1 DEF n
        <3>2. s \notin setup.loops => (next.page - 1) * PageSize = m * PageSize
            BY <3>3
        <3> QED BY <1>6, <2>1, <3>2
    <2>3. Searched(s, next)
        BY <2>2 DEF Searched
    <2> QED BY <2>1, <2>3 DEF Covers
<1>8. ASSUME Len(page) < PageSize \/ ~HasNext(s, n), NEW p \in Owed(s) PROVE Brings(found, p)
    <2>1. PICK i \in DOMAIN shelf[s] : shelf[s][i] = p
        BY OwedOnShelf
    <2>2. i <= m * PageSize
        <3>1. CASE Len(page) < PageSize
            BY <1>1, <1>3, <3>1, PageIsLast
        <3>2. CASE ~HasNext(s, n)
            <4>1. ~(Len(shelf[s]) > n * PageSize) /\ m = n
                BY <1>4, <3>2 DEF HasNext
            <4>2. Len(shelf[s]) \in Nat /\ i \in Nat /\ i <= Len(shelf[s])
                BY <1>1
            <4>3. m * PageSize \in Nat
                <5>1. PICK a \in Nat, b \in Nat : m * PageSize = a + b
                    BY <1>1, <1>3, PageEnds
                <5> QED BY <5>1
            <4>4. ~(Len(shelf[s]) > m * PageSize)
                BY <4>1
            <4> DEFINE N == Len(shelf[s])
                       M == m * PageSize
            <4> HIDE DEF N, M
            <4>5. N \in Nat /\ i \in Nat /\ i <= N /\ M \in Nat /\ ~(N > M)
                BY <4>2, <4>3, <4>4 DEF N, M
            <4>6. i <= M
                BY ONLY <4>5
            <4> QED BY <4>6 DEF M
        <3> QED BY <1>8, <3>1, <3>2
    <2> QED BY <1>6, <2>1, <2>2
<1> QED BY <1>7, <1>8 DEF w, n

LEMMA KeptBrings ==
    ASSUME NEW s, NEW list \in Seq(Stock(s)), NEW k \in DOMAIN list, NEW p, list[k] = p
    PROVE  /\ AcceptsTitle(query, p.title) => Brings(Offers(s, Accepted(list)), p)
           /\ AcceptsTitle(query, p.title) /\ p.units > 0 =>
                 Brings(Offers(s, Sellable(Accepted(list))), p)
           /\ MatchesCard(p.title, query.name) /\ p.price > 0 => Brings(Offers(s, Miniatures(list)), p)
<1>1. ASSUME AcceptsTitle(query, p.title)
      PROVE  /\ Brings(Offers(s, Accepted(list)), p)
             /\ p.units > 0 => Brings(Offers(s, Sellable(Accepted(list))), p)
    <2> DEFINE kept == Accepted(list)
    <2>1. kept \in Seq(Stock(s))
        BY SelectAccepted
    <2>2. PICK n \in DOMAIN kept : kept[n] = p
        BY <1>1, AcceptedBrings
    <2> HIDE DEF kept
    <2>3. Brings(Offers(s, kept), p)
        BY <2>1, <2>2, OffersBring
    <2>4. ASSUME p.units > 0 PROVE Brings(Offers(s, Sellable(kept)), p)
        <3>1. PICK m \in DOMAIN Sellable(kept) : Sellable(kept)[m] = p
            BY <2>1, <2>2, <2>4, SellableBrings
        <3>2. Sellable(kept) \in Seq(Stock(s))
            BY <2>1, SelectSellable
        <3> QED BY <3>1, <3>2, OffersBring
    <2> QED BY <2>3, <2>4 DEF kept
<1>2. ASSUME MatchesCard(p.title, query.name), p.price > 0
      PROVE  Brings(Offers(s, Miniatures(list)), p)
    <2>1. PICK n \in DOMAIN Miniatures(list) : Miniatures(list)[n] = p
        BY <1>2, MiniaturesBring
    <2>2. Miniatures(list) \in Seq(Stock(s))
        BY SelectMiniatures
    <2> QED BY <2>1, <2>2, OffersBring
<1> QED BY <1>1, <1>2

LEMMA ReadWooPageCovers ==
    ASSUME OfferInv, WholeInv, NEW s \in Walkers, ReadWooPage(s) PROVE WholeInv'
<1> DEFINE w == walk[s]
           page == Listed(s, w.page)
           kept == Accepted(page)
           more == Offers(s, kept)
           found == w.found \o more
           turned == [w EXCEPT !.page = @ + 1, !.found = found]
           next == IF ~Priced(kept) THEN Failed(w) ELSE IF LastWooPage(page) THEN Done(w, found) ELSE turned
<1>1. Answered(s, "woocommerce", "searching") /\ Replied(s, next)
    BY DEF ReadWooPage
<1>2. Kind(s) = "woocommerce" /\ w.step = "searching"
    BY <1>1 DEF Answered
<1>3. w \in Walk /\ s \in DOMAIN setup.client /\ page \in Seq(Stock(s))
    BY WalkHere, ListedStock DEF WalkOf
<1>4. more \in Seq(OffersOf(s))
    BY <1>2, <1>3, SelectAccepted, OffersAdded
<1>5. \A k \in DOMAIN page : page[k] \in Owed(s) => Brings(more, page[k])
    <2> SUFFICES ASSUME NEW k \in DOMAIN page, page[k] \in Owed(s) PROVE Brings(more, page[k])
        OBVIOUS
    <2>1. AcceptsTitle(query, page[k].title)
        BY <1>2 DEF Owed, Due
    <2> HIDE DEF page
    <2> QED BY <1>3, <2>1, KeptBrings
<1>6. moves = 0 => Covers(s, next)
    <2> SUFFICES ASSUME moves = 0 PROVE Covers(s, next)
        OBVIOUS
    <2>1. Covers(s, w)
        BY CoverHere
    <2> DEFINE last == Len(page) < PageSize
    <2>2. Covers(s, turned) /\ (last => \A p \in Owed(s) : Brings(found, p))
        <3> HIDE DEF more
        <3> QED BY <1>2, <1>4, <1>5, <2>1, PageCovers
    <2>3. LastWooPage(page) => last
        BY DEF LastWooPage
    <2> HIDE DEF turned, last, found, page, kept, w
    <2>4. Covers(s, Failed(w)) /\ (last => Covers(s, Done(w, found)))
        BY <1>3, <2>2, CoversEnd
    <2> QED BY <2>2, <2>3, <2>4
<1> HIDE DEF next
<1> QED BY <1>1, <1>6, AnsweredCovers DEF Ended

LEMMA ReadPrestaPageCovers ==
    ASSUME OfferInv, WholeInv, NEW s \in Walkers, ReadPrestaPage(s) PROVE WholeInv'
<1> DEFINE w == walk[s]
           page == Listed(s, w.page)
           kept == Miniatures(page)
           more == Offers(s, kept)
           found == w.found \o more
           turned == [w EXCEPT !.page = @ + 1, !.found = found]
           next == IF ~HasNext(s, w.page) THEN Done(w, DeduplicateOffers(found))
                   ELSE IF w.page = MaxPages THEN Failed(w) ELSE turned
<1>1. Answered(s, "prestashop", "searching") /\ Replied(s, next)
    BY DEF ReadPrestaPage
<1>2. Kind(s) = "prestashop" /\ w.step = "searching"
    BY <1>1 DEF Answered
<1>3. w \in Walk /\ s \in DOMAIN setup.client /\ page \in Seq(Stock(s)) /\ w.found \in Seq(OffersOf(s))
    BY WalkHere, ListedStock DEF WalkOf
<1>4. more \in Seq(OffersOf(s))
    BY <1>2, <1>3, SelectMiniatures, OffersAdded
<1>5. \A k \in DOMAIN page : page[k] \in Owed(s) => Brings(more, page[k])
    <2> SUFFICES ASSUME NEW k \in DOMAIN page, page[k] \in Owed(s) PROVE Brings(more, page[k])
        OBVIOUS
    <2>1. MatchesCard(page[k].title, query.name) /\ page[k].price > 0
        BY <1>2 DEF Owed, Due
    <2> HIDE DEF page
    <2> QED BY <1>3, <2>1, KeptBrings
<1>6. moves = 0 => Covers(s, next)
    <2> SUFFICES ASSUME moves = 0 PROVE Covers(s, next)
        OBVIOUS
    <2>1. Covers(s, w)
        BY CoverHere
    <2> DEFINE last == ~HasNext(s, w.page)
    <2>2. Covers(s, turned) /\ (last => \A p \in Owed(s) : Brings(found, p))
        <3> HIDE DEF more
        <3> QED BY <1>2, <1>4, <1>5, <2>1, PageCovers
    <2>3. found \in Seq(OffersOf(s))
        BY <1>3, <1>4
    <2> HIDE DEF turned, found, page, kept, w
    <2>4. last => \A p \in Owed(s) : Brings(DeduplicateOffers(found), p)
        BY <2>2, <2>3, BringsMore
    <2> HIDE DEF last
    <2>5. Covers(s, Failed(w)) /\ (last => Covers(s, Done(w, DeduplicateOffers(found))))
        BY <1>3, <2>4, CoversEnd
    <2> QED BY <2>2, <2>5 DEF last
<1> HIDE DEF next
<1> QED BY <1>1, <1>6, AnsweredCovers DEF Ended

LEMMA ReadCurrencyCovers ==
    ASSUME OfferInv, WholeInv, NEW s \in Walkers, ReadCurrency(s) PROVE WholeInv'
<1> DEFINE w == walk[s]
           next == [w EXCEPT !.step = "reading"]
<1>1. Answered(s, "shopify", "currency") /\ Replied(s, next)
    BY DEF ReadCurrency
<1>2. w \in Walk /\ w.step = "currency"
    BY <1>1, WalkHere DEF WalkOf, Answered
<1>3. next.step = "reading" /\ next.left = w.left /\ next.found = w.found
    BY <1>2 DEF Walk
<1> HIDE DEF next
<1>4. moves = 0 => Covers(s, next)
    <2> SUFFICES ASSUME moves = 0 PROVE Covers(s, next)
        OBVIOUS
    <2>1. Covers(s, w)
        BY CoverHere
    <2> HIDE DEF w
    <2> QED BY <1>2, <1>3, <2>1 DEF Covers
<1> QED BY <1>1, <1>4, AnsweredCovers DEF Ended

LEMMA ListAdds ==
    ASSUME NEW S, NEW a \in Seq(S), NEW b \in Seq(S)
    PROVE  \A x : x \in ToSet(a \o b) <=> x \in ToSet(a) \/ x \in ToSet(b)
<1>1. /\ \A i \in DOMAIN a : i \in DOMAIN (a \o b) /\ (a \o b)[i] = a[i]
      /\ \A i \in DOMAIN b : Len(a) + i \in DOMAIN (a \o b) /\ (a \o b)[Len(a) + i] = b[i]
    OBVIOUS
<1>2. \A i \in DOMAIN (a \o b) :
         \/ i \in DOMAIN a /\ (a \o b)[i] = a[i]
         \/ i - Len(a) \in DOMAIN b /\ (a \o b)[i] = b[i - Len(a)]
    OBVIOUS
<1> DEFINE ab == a \o b
<1> HIDE DEF ab
<1>3. \A x : x \in ToSet(ab) => x \in ToSet(a) \/ x \in ToSet(b)
    <2> SUFFICES ASSUME NEW i \in DOMAIN ab PROVE ab[i] \in ToSet(a) \/ ab[i] \in ToSet(b)
        BY DEF ToSet
    <2> QED BY <1>2 DEF ToSet, ab
<1>4. \A x : x \in ToSet(a) => x \in ToSet(ab)
    BY <1>1 DEF ToSet, ab
<1>5. \A x : x \in ToSet(b) => x \in ToSet(ab)
    BY <1>1 DEF ToSet, ab
<1> QED BY <1>3, <1>4, <1>5 DEF ab

(* What was not seen yet is added to what was.                             *)
LEMMA FreshAdds ==
    ASSUME NEW seen \in Seq(STRING), NEW ids \in Seq(STRING),
           NEW fresh, fresh = Keep(ids, {i \in DOMAIN ids : ~Contains(seen, ids[i])}),
           NEW id, id \in ToSet(seen) \/ id \in ToSet(ids)
    PROVE  id \in ToSet(seen \o fresh)
<1>1. fresh \in Seq(STRING)
    BY KeepChooses
<1>2. id \in ToSet(seen) \/ id \in ToSet(fresh)
    <2> SUFFICES ASSUME id \notin ToSet(seen) PROVE id \in ToSet(fresh)
        OBVIOUS
    <2>1. PICK i \in DOMAIN ids : ids[i] = id
        BY DEF ToSet
    <2>2. ~Contains(seen, ids[i])
        BY <2>1 DEF Contains, ToSet
    <2> DEFINE places == {k \in DOMAIN ids : ~Contains(seen, ids[k])}
    <2>3. i \in places /\ fresh = Keep(ids, places)
        BY <2>2
    <2> HIDE DEF places
    <2>4. PICK n \in DOMAIN Keep(ids, places) : Keep(ids, places)[n] = ids[i]
        BY <2>3, KeepBrings
    <2> QED BY <2>1, <2>3, <2>4 DEF ToSet
<1> QED BY <1>1, <1>2, ListAdds

LEMMA IdListed ==
    ASSUME NEW T, NEW list \in Seq(T), NEW k \in DOMAIN list, NEW p, list[k] = p
    PROVE  p.id \in ToSet(Ids(list))
BY DEF Ids, ToSet

LEMMA SearchShopifyCovers ==
    ASSUME OfferInv, WholeInv, NEW s \in Walkers, SearchShopify(s) PROVE WholeInv'
<1> DEFINE w == walk[s]
           all == Available(s)
           n == IF s \in setup.loops THEN 1 ELSE w.page
           page == Page(all, n)
           ids == Ids(page)
           seen == w.links
           fresh == Select(Ids(page), LAMBDA id : ~Contains(w.links, id))
           links == w.links \o fresh
           goesOn == s \in setup.loops \/ Len(all) > w.page * PageSize
           more == [w EXCEPT !.page = @ + 1, !.links = links]
           read == [w EXCEPT !.step = "currency", !.links = links, !.left = links]
           next == IF w.page > 1 /\ fresh = <<>> THEN Failed(w)
                   ELSE IF goesOn THEN more
                   ELSE IF links = <<>> THEN Done(w, <<>>) ELSE read
<1>1. Answered(s, "shopify", "searching") /\ Replied(s, next)
    BY DEF SearchShopify
<1>2. Kind(s) = "shopify" /\ w.step = "searching" /\ w \in Walk /\ w.page \in Nat \ {0}
         /\ seen \in Seq(STRING) /\ shelf[s] \in Seq(Stock(s))
    BY <1>1, WalkHere DEF Answered, WalkOf
<1>3. all \in Seq(Stock(s)) /\ n \in Nat \ {0}
    BY <1>2, SelectSellable DEF Available
<1>4. fresh = Keep(ids, {i \in DOMAIN ids : ~Contains(seen, ids[i])})
    BY DEF Select
<1>5. next = IF w.page > 1 /\ fresh = <<>> THEN Failed(w)
             ELSE IF goesOn THEN more ELSE IF links = <<>> THEN Done(w, <<>>) ELSE read
    OBVIOUS
<1>6. more.step = "searching" /\ more.page = w.page + 1 /\ more.links = links
         /\ read.step = "currency" /\ read.left = links
    BY <1>2 DEF Walk
<1>7. links = seen \o fresh /\ (s \notin setup.loops => n = w.page)
    OBVIOUS
<1>8. goesOn <=> s \in setup.loops \/ Len(all) > w.page * PageSize
    OBVIOUS
<1>9. page = Page(all, n) /\ ids = Ids(page)
    OBVIOUS
<1> HIDE DEF more, read, next, links, fresh, goesOn, ids, page, n, all
<1>10. page \in Seq(Stock(s)) /\ ids \in Seq(STRING)
    BY <1>2, <1>3, <1>9, PartOfPage, AnyWanted
<1>11. moves = 0 => Covers(s, w)
    BY CoverHere
<1>12. all = Available(s) /\ seen = w.links
    BY DEF all
<1> HIDE DEF w, seen
<1>13. ASSUME moves = 0, s \notin setup.loops, NEW i \in DOMAIN all, i <= w.page * PageSize
       PROVE  all[i].id \in ToSet(links)
    <2>1. n = w.page
        BY <1>7, <1>13
    <2>2. CASE i <= (w.page - 1) * PageSize
        <3>1. all[i].id \in ToSet(seen)
            BY <1>2, <1>11, <1>12, <1>13, <2>2 DEF Covers, Searched
        <3> QED BY <1>2, <1>4, <1>7, <1>10, <3>1, FreshAdds
    <2>3. CASE ~(i <= (w.page - 1) * PageSize)
        <3>1. PICK k \in DOMAIN page : page[k] = all[i]
            BY <1>2, <1>3, <1>9, <1>13, <2>1, <2>3, PageBrings
        <3>2. all[i].id \in ToSet(ids)
            BY <1>9, <1>10, <3>1, IdListed
        <3> QED BY <1>2, <1>4, <1>7, <1>10, <3>2, FreshAdds
    <2> QED BY <2>2, <2>3
<1>14. moves = 0 => Covers(s, more)
    <2>1. ASSUME moves = 0, s \notin setup.loops, NEW i \in DOMAIN Available(s),
                 i <= (more.page - 1) * PageSize
          PROVE  Available(s)[i].id \in ToSet(more.links)
        <3>1. more.page - 1 = w.page
            BY <1>2, <1>6
        <3> QED BY <1>6, <1>12, <1>13, <2>1, <3>1
    <2>2. moves = 0 => Searched(s, more)
        BY <1>2, <2>1 DEF Searched
    <2> QED BY <1>6, <2>2 DEF Covers
<1>15. ASSUME moves = 0, ~goesOn, NEW p \in Owed(s) PROVE p.id \in ToSet(links)
    <2>1. PICK k \in DOMAIN shelf[s] : shelf[s][k] = p
        BY <1>2, OwedOnShelf
    <2>2. p.units > 0
        BY <1>2 DEF Owed, Due
    <2>3. PICK i \in DOMAIN all : all[i] = p
        BY <1>2, <2>1, <2>2, SellableBrings DEF all, Available
    <2>4. s \notin setup.loops /\ i <= w.page * PageSize
        <3>1. i \in Nat /\ i <= Len(all) /\ Len(all) \in Nat
            BY <1>3
        <3>2. PICK a \in Nat, b \in Nat : w.page * PageSize = a + b
            BY <1>2, <1>3, PageEnds, ZenonT(30)
        <3> DEFINE M == w.page * PageSize
                   N == Len(all)
        <3>3. M \in Nat /\ ~(N > M)
            BY <1>8, <1>15, <3>2
        <3> HIDE DEF M, N
        <3>4. i \in Nat /\ i <= N /\ N \in Nat
            BY <3>1 DEF N
        <3>5. i <= M
            BY ONLY <3>3, <3>4
        <3> QED BY <1>8, <1>15, <3>5 DEF M
    <2> QED BY <1>13, <1>15, <2>3, <2>4
<1>16. moves = 0 /\ ~goesOn => Covers(s, read)
    BY <1>6, <1>15 DEF Covers
<1>17. moves = 0 /\ ~goesOn /\ links = <<>> => Covers(s, Done(w, <<>>))
    <2> SUFFICES ASSUME moves = 0, ~goesOn, links = <<>> PROVE Covers(s, Done(w, <<>>))
        OBVIOUS
    <2>1. ASSUME NEW p \in Owed(s) PROVE FALSE
        <3>1. p.id \in ToSet(<<>>)
            BY <1>15, <2>1
        <3> QED BY <3>1 DEF ToSet
    <2> QED BY <1>2, <2>1, CoversEnd
<1>18. Covers(s, Failed(w))
    BY <1>2, CoversEnd
<1>19. moves = 0 => Covers(s, next)
    BY <1>5, <1>14, <1>16, <1>17, <1>18
<1> QED BY <1>1, <1>19, AnsweredCovers DEF Ended

(* What a store sells of one product comes with the page of that product.   *)
LEMMA ProductBrings ==
    ASSUME OfferInv, NEW s \in Walkers, Kind(s) \in {"shopify", "jumpseller"},
           NEW p \in Owed(s), NEW page, page = ProductPage(s, p.id)
    PROVE  Brings(Offers(s, Sellable(Accepted(page))), p)
<1>1. PICK i \in DOMAIN shelf[s] : shelf[s][i] = p
    BY OwedOnShelf
<1>2. shelf[s] \in Seq(Stock(s))
    BY WalkHere
<1>3. PICK k \in DOMAIN page : page[k] = p
    BY <1>1, <1>2, ProductPageBrings
<1>4. page \in Seq(Stock(s))
    BY <1>2, SelectProductPage
<1>5. AcceptsTitle(query, p.title) /\ p.units > 0
    BY DEF Owed, Due
<1> QED BY <1>3, <1>4, <1>5, KeptBrings

LEMMA ProductCovers ==
    ASSUME OfferInv, NEW s \in Walkers, Kind(s) \in {"shopify", "jumpseller"},
           walk[s].step = "reading", Covers(s, walk[s]), NEW page, NEW found,
           page = ProductPage(s, Head(walk[s].left)),
           found = walk[s].found \o Offers(s, Sellable(Accepted(page)))
    PROVE  Covers(s, NextProduct(walk[s], found))
<1> DEFINE w == walk[s]
           kept == Sellable(Accepted(page))
           more == Offers(s, kept)
<1>1. w \in WalkOf(s) /\ s \in DOMAIN setup.client /\ shelf[s] \in Seq(Stock(s)) /\ w.step = "reading"
    BY WalkHere
<1>2. more \in Seq(OffersOf(s))
    <2>1. page \in Seq(Stock(s))
        BY <1>1, SelectProductPage
    <2>2. kept \in Seq(Stock(s))
        BY <2>1, SelectAccepted, SelectSellable
    <2> HIDE DEF kept
    <2> QED BY <1>1, <2>2, OffersAdded
<1>3. \A p \in Owed(s) : p.id = Head(w.left) => Brings(more, p)
    BY ProductBrings
<1>4. found = w.found \o more /\ Covers(s, w)
    OBVIOUS
<1> HIDE DEF w, more, kept
<1>5. Covers(s, NextProduct(w, found))
    BY <1>1, <1>2, <1>3, <1>4, NextCovers
<1> QED BY <1>5 DEF w

LEMMA ReadShopifyProductCovers ==
    ASSUME OfferInv, WholeInv, NEW s \in Walkers, ReadShopifyProduct(s) PROVE WholeInv'
<1> DEFINE w == walk[s]
           page == ProductPage(s, Head(w.left))
           kept == Sellable(Accepted(page))
           found == w.found \o Offers(s, kept)
           next == IF page = <<>> \/ ~Priced(kept) THEN Failed(w) ELSE NextProduct(w, found)
<1>1. Answered(s, "shopify", "reading") /\ Replied(s, next)
    BY DEF ReadShopifyProduct
<1>2. w \in Walk /\ w.step = "reading" /\ Kind(s) = "shopify"
    BY <1>1, WalkHere DEF Answered, WalkOf
<1>3. moves = 0 => Covers(s, NextProduct(w, found))
    BY <1>2, CoverHere, ProductCovers
<1>4. Covers(s, Failed(w))
    BY <1>2, CoversEnd
<1>5. moves = 0 => Covers(s, next)
    <2> HIDE DEF w, page, kept, found
    <2> QED BY <1>3, <1>4
<1> HIDE DEF next
<1> QED BY <1>1, <1>5, AnsweredCovers DEF Ended

LEMMA ReadJumpsellerProductCovers ==
    ASSUME OfferInv, WholeInv, NEW s \in Walkers, ReadJumpsellerProduct(s) PROVE WholeInv'
<1> DEFINE w == walk[s]
           page == ProductPage(s, Head(w.left))
           found == w.found \o Offers(s, Sellable(Accepted(page)))
           next == IF ~Parsed(page) THEN Failed(w) ELSE NextProduct(w, found)
<1>1. Answered(s, "jumpseller", "reading") /\ Replied(s, next)
    BY DEF ReadJumpsellerProduct
<1>2. w \in Walk /\ w.step = "reading" /\ Kind(s) = "jumpseller"
    BY <1>1, WalkHere DEF Answered, WalkOf
<1>3. moves = 0 => Covers(s, NextProduct(w, found))
    BY <1>2, CoverHere, ProductCovers
<1>4. Covers(s, Failed(w))
    BY <1>2, CoversEnd
<1>5. moves = 0 => Covers(s, next)
    <2> HIDE DEF w, page, found
    <2> QED BY <1>3, <1>4
<1> HIDE DEF next
<1> QED BY <1>1, <1>5, AnsweredCovers DEF Ended

LEMMA SearchJumpsellerCovers ==
    ASSUME OfferInv, WholeInv, NEW s \in Walkers, SearchJumpseller(s) PROVE WholeInv'
<1> DEFINE w == walk[s]
           page == Listed(s, w.page)
           seen == w.links
           fresh == Select(page, LAMBDA p : ~Contains(w.links, p.id))
           ids == Ids(fresh)
           paths == Ids(Accepted(fresh))
           links == w.links \o ids
           left == w.left \o paths
           read == [w EXCEPT !.page = @ + 1, !.links = @ \o ids, !.left = @ \o paths]
           index == [w EXCEPT !.step = "reading"]
           next == IF page = <<>> THEN IF w.left = <<>> THEN Done(w, <<>>) ELSE index
                   ELSE IF fresh = <<>> THEN Failed(w) ELSE read
           m == IF s \in setup.loops THEN 1 ELSE w.page
<1>1. Answered(s, "jumpseller", "searching") /\ Replied(s, next)
    BY DEF SearchJumpseller
<1>2. Kind(s) = "jumpseller" /\ w.step = "searching" /\ w \in Walk /\ w.page \in Nat \ {0}
         /\ seen \in Seq(STRING) /\ w.left \in Seq(STRING) /\ shelf[s] \in Seq(Stock(s))
         /\ s \in DOMAIN setup.client /\ setup \in Setups
    BY <1>1, WalkHere DEF Answered, WalkOf, Walk, OfferInv, TypeOK
<1>3. page = Page(shelf[s], m) /\ m \in Nat \ {0} /\ (s \notin setup.loops => m = w.page)
         /\ (s \in setup.loops => m = 1)
    BY <1>2 DEF Listed
<1>4. fresh = Keep(page, {i \in DOMAIN page : ~Contains(seen, page[i].id)})
    BY DEF Select
<1>5. next = IF page = <<>> THEN IF w.left = <<>> THEN Done(w, <<>>) ELSE index
             ELSE IF fresh = <<>> THEN Failed(w) ELSE read
    OBVIOUS
<1>6. read.step = "searching" /\ read.page = w.page + 1 /\ read.links = links /\ read.left = left
         /\ index.step = "reading" /\ index.left = w.left
    BY <1>2 DEF Walk
<1>7. links = seen \o ids /\ left = w.left \o paths /\ ids = Ids(fresh)
         /\ paths = Ids(Accepted(fresh))
    OBVIOUS
<1>8. moves = 0 => Covers(s, w)
    BY CoverHere
<1>9. seen = w.links
    OBVIOUS
<1> HIDE DEF read, index, next, links, left, ids, paths, fresh, page, m, w, seen
<1>10. page \in Seq(Stock(s)) /\ fresh \in Seq(Stock(s)) /\ Accepted(fresh) \in Seq(Stock(s))
    BY <1>2, <1>3, <1>4, PartOfPage, KeepChooses, SelectAccepted
<1>11. ids \in Seq(STRING) /\ paths \in Seq(STRING)
    BY <1>2, <1>7, <1>10, AnyWanted
<1>12. moves = 0 => \A p \in Owed(s) : p.id \in ToSet(seen) => p.id \in ToSet(w.left)
    BY <1>2, <1>8, <1>9 DEF Covers, Searched
<1>13. ASSUME moves = 0, NEW p \in Owed(s), p.id \in ToSet(links) PROVE p.id \in ToSet(left)
    <2>1. p.id \in ToSet(seen) \/ p.id \in ToSet(ids)
        BY <1>2, <1>7, <1>11, <1>13, ListAdds
    <2>2. ASSUME p.id \in ToSet(ids) PROVE p.id \in ToSet(paths)
        <3>1. PICK k \in DOMAIN fresh : fresh[k].id = p.id
            BY <1>7, <2>2 DEF Ids, ToSet
        <3>6. p \in Stock(s) /\ Due(s, p)
            BY <1>2, OwedOnShelf
        <3>7. fresh[k] \in Stock(s)
            BY <1>10
        <3>2. p \in Stock(s) /\ fresh[k] \in Stock(s) /\ AcceptsTitle(query, p.title)
            BY <1>2, <3>6, <3>7 DEF Due
        <3>3. Looks(p) = Looks(fresh[k])
            BY <1>2, <3>1, <3>2, OneLook
        <3>4. AcceptsTitle(query, fresh[k].title)
            BY <3>2, <3>3 DEF Looks
        <3>5. PICK n \in DOMAIN Accepted(fresh) : Accepted(fresh)[n] = fresh[k]
            BY <1>10, <3>4, AcceptedBrings
        <3> QED BY <1>7, <1>10, <3>1, <3>5, IdListed
    <2> QED BY <1>2, <1>7, <1>11, <1>12, <1>13, <2>1, <2>2, ListAdds
<1>14. ASSUME moves = 0, s \notin setup.loops, NEW i \in DOMAIN shelf[s], i <= w.page * PageSize
       PROVE  shelf[s][i].id \in ToSet(links)
    <2>1. m = w.page
        BY <1>3, <1>14
    <2>2. CASE i <= (w.page - 1) * PageSize
        <3>1. shelf[s][i].id \in ToSet(seen)
            BY <1>2, <1>8, <1>9, <1>14, <2>2 DEF Covers, Searched
        <3> QED BY <1>2, <1>7, <1>11, <3>1, ListAdds
    <2>3. CASE ~(i <= (w.page - 1) * PageSize)
        <3>1. PICK k \in DOMAIN page : page[k] = shelf[s][i]
            BY <1>2, <1>3, <1>14, <2>1, <2>3, PageBrings
        <3>2. CASE Contains(seen, page[k].id)
            <4>1. shelf[s][i].id \in ToSet(seen)
                BY <3>1, <3>2 DEF Contains, ToSet
            <4> QED BY <1>2, <1>7, <1>11, <4>1, ListAdds
        <3>3. CASE ~Contains(seen, page[k].id)
            <4> DEFINE places == {j \in DOMAIN page : ~Contains(seen, page[j].id)}
            <4>1. k \in places /\ fresh = Keep(page, places)
                BY <1>4, <3>3
            <4> HIDE DEF places
            <4>2. PICK n \in DOMAIN fresh : fresh[n] = page[k]
                BY <1>10, <4>1, KeepBrings
            <4>3. shelf[s][i].id \in ToSet(ids)
                BY <1>7, <1>10, <3>1, <4>2, IdListed
            <4> QED BY <1>2, <1>7, <1>11, <4>3, ListAdds
        <3> QED BY <3>2, <3>3
    <2> QED BY <2>2, <2>3
<1>15. moves = 0 => Covers(s, read)
    <2>1. ASSUME moves = 0, s \notin setup.loops, NEW i \in DOMAIN shelf[s],
                 i <= (read.page - 1) * PageSize
          PROVE  shelf[s][i].id \in ToSet(read.links)
        <3>1. read.page - 1 = w.page
            BY <1>2, <1>6
        <3> QED BY <1>6, <1>14, <2>1, <3>1
    <2>2. moves = 0 => Searched(s, read)
        BY <1>2, <1>6, <1>13, <2>1 DEF Searched
    <2> QED BY <1>6, <2>2 DEF Covers
<1>16. ASSUME moves = 0, page = <<>>, NEW p \in Owed(s) PROVE p.id \in ToSet(w.left)
    <2>1. PICK i \in DOMAIN shelf[s] : shelf[s][i] = p
        BY <1>2, OwedOnShelf
    <2>2. i <= (m - 1) * PageSize
        BY <1>2, <1>3, <1>16, PageIsLast
    <2>3. s \notin setup.loops
        <3> SUFFICES ASSUME m = 1 PROVE FALSE
            BY <1>3
        <3>1. PageSize \in Nat
            BY OfferSearchAssumption
        <3>2. i \in Nat \ {0} /\ i <= (1 - 1) * PageSize
            BY <1>2, <2>2
        <3> QED BY ONLY <3>1, <3>2
    <2>4. p.id \in ToSet(seen)
        BY <1>2, <1>3, <1>8, <1>9, <1>16, <2>1, <2>2, <2>3 DEF Covers, Searched
    <2> QED BY <1>12, <1>16, <2>4
<1>17. moves = 0 /\ page = <<>> => Covers(s, index)
    BY <1>6, <1>16 DEF Covers
<1>18. moves = 0 /\ page = <<>> /\ w.left = <<>> => Covers(s, Done(w, <<>>))
    <2> SUFFICES ASSUME moves = 0, page = <<>>, w.left = <<>> PROVE Covers(s, Done(w, <<>>))
        OBVIOUS
    <2>1. ASSUME NEW p \in Owed(s) PROVE FALSE
        <3>1. p.id \in ToSet(<<>>)
            BY <1>16, <2>1
        <3> QED BY <3>1 DEF ToSet
    <2> QED BY <1>2, <2>1, CoversEnd
<1>19. Covers(s, Failed(w))
    BY <1>2, CoversEnd
<1>20. moves = 0 => Covers(s, next)
    BY <1>5, <1>15, <1>17, <1>18, <1>19
<1> QED BY <1>1, <1>20, AnsweredCovers DEF Ended

LEMMA ReadListCovers ==
    ASSUME OfferInv, WholeInv, NEW s \in Walkers, ReadList(s) PROVE WholeInv'
<1> DEFINE w == walk[s]
           list == Entries(Inventory(s))
           found == Offers(s, Accepted(list))
           next == Done(w, found)
<1>1. Answered(s, "moxfield", "searching") /\ Replied(s, next)
    BY DEF ReadList
<1>2. w \in Walk /\ Kind(s) = "moxfield" /\ s \in DOMAIN setup.client
    BY <1>1, WalkHere DEF Answered, WalkOf
<1>3. Inventory(s) \in Seq(Stock(s)) /\ list \in Seq(Stock(s))
    BY <1>2, InventoryStock, SelectEntries
<1>4. ASSUME NEW p \in Owed(s) PROVE Brings(found, p)
    <2>1. PICK i \in DOMAIN Inventory(s) : Inventory(s)[i] = p
        BY <1>2 DEF Owed, From, ToSet
    <2>2. p.units > 0 /\ p.price > 0 /\ AcceptsTitle(query, p.title)
        BY <1>2 DEF Owed, Due
    <2>3. PICK k \in DOMAIN list : list[k] = p
        BY <1>3, <2>1, <2>2, EntriesBring
    <2> HIDE DEF list
    <2> QED BY <1>3, <2>2, <2>3, KeptBrings
<1> HIDE DEF found, w
<1>5. Covers(s, next)
    BY <1>2, <1>4, CoversEnd
<1> HIDE DEF next
<1> QED BY <1>1, <1>5, AnsweredCovers DEF Ended

(* What is left to read after the catalog is all that the provider owes.   *)
LEMMA ReadOnCovers ==
    ASSUME NEW s, NEW w \in Walk, \A p \in Owed(s) : p.id \in ToSet(w.left)
    PROVE  Covers(s, ReadOn(w))
<1>1. CASE w.left = <<>>
    <2>1. Owed(s) = {}
        BY <1>1 DEF ToSet
    <2> QED BY <1>1, <2>1, CoversEnd DEF ReadOn
<1>2. CASE w.left # <<>>
    <2> DEFINE next == [w EXCEPT !.step = "reading"]
    <2>1. next.step = "reading" /\ next.left = w.left
        BY DEF Walk
    <2>2. ReadOn(w) = next
        BY <1>2 DEF ReadOn
    <2> HIDE DEF next
    <2> QED BY <2>1, <2>2 DEF Covers
<1> QED BY <1>1, <1>2

LEMMA AfterCardCovers ==
    ASSUME NEW s, NEW w \in WalkOf(s), w.step = "cards", NEW known \in SUBSET STRING,
           \A p \in Owed(s) : p.id \in ToSet(w.left)
    PROVE  Covers(s, AfterCard(w, known))
<1> DEFINE read == [w EXCEPT !.links = Tail(@), !.known = known]
<1>1. w \in Walk /\ w.links \in Seq(STRING) /\ w.links # <<>>
    BY WalkParts DEF WalkOf
<1>2. PICK links \in Seq(STRING) : links = Tail(w.links)
    BY <1>1, RestOfList
<1>3. read = [w EXCEPT !.links = links, !.known = known]
    BY <1>2
<1> HIDE DEF read
<1>4. read \in Walk /\ read.left = w.left /\ read.step = "cards"
    BY <1>1, <1>2, <1>3 DEF Walk
<1>5. AfterCard(w, known) = IF Len(w.links) = 1 THEN ReadOn(read) ELSE read
    BY DEF AfterCard, read
<1>6. Covers(s, ReadOn(read))
    BY <1>4, ReadOnCovers
<1>7. Covers(s, read)
    BY <1>4 DEF Covers
<1> QED BY <1>5, <1>6, <1>7

LEMMA CatalogOnShelf ==
    ASSUME OfferInv, Agg \in Walkers, NEW i \in DOMAIN Catalog
    PROVE  i \in DOMAIN shelf[Agg] /\ Catalog[i] = shelf[Agg][i]
<1> DEFINE ends == {CatalogLimit, Len(shelf[Agg])}
<1>1. shelf[Agg] \in Seq(Stock(Agg)) /\ CatalogLimit \in Nat
    BY WalkHere, OfferSearchAssumption
<1>2. ends \in SUBSET Nat /\ ends # {} /\ Len(shelf[Agg]) \in ends
    BY <1>1
<1> HIDE DEF ends
<1>3. PICK end \in Nat : end = Min(ends) /\ end <= Len(shelf[Agg])
    BY <1>2, MinIsLeast
<1>4. Catalog = SubSeq(shelf[Agg], 1, end)
    BY <1>3 DEF Catalog, ends
<1> QED BY <1>1, <1>3, <1>4

LEMMA SearchCatalogCovers ==
    ASSUME OfferInv, WholeInv, Agg \in Walkers, SearchCatalog PROVE WholeInv'
<1> DEFINE w == walk[Agg]
           list == Accepted(Catalog)
           kept == Select(list, LAMBDA p : p.kind = query.kind)
           left == Ids(kept)
           read == [w EXCEPT !.left = left]
           briefs == [read EXCEPT !.step = "briefs"]
           pokemon == setup.game = "pokemon" /\ ~Sealed(query) /\ Catalog # <<>>
           next == IF pokemon THEN briefs ELSE ReadOn(read)
<1>1. Answered(Agg, "tcgmatch", "searching") /\ Replied(Agg, next)
    BY DEF SearchCatalog
<1>2. w \in Walk /\ Kind(Agg) = "tcgmatch" /\ left \in Seq(Wanted(Agg))
    BY <1>1, WalkHere, CatalogIds DEF Answered, WalkOf
<1>3. list \in Seq(Stock(Agg))
    BY CatalogStock, SelectAccepted
<1>4. ASSUME NEW p \in Owed(Agg) PROVE p.id \in ToSet(left)
    <2>1. PICK i \in DOMAIN Catalog : Catalog[i] = p
        BY <1>2 DEF Owed, From, ToSet
    <2>2. AcceptsTitle(query, p.title) /\ p.kind = query.kind
        BY <1>2 DEF Owed, Due
    <2>3. PICK k \in DOMAIN list : list[k] = p
        BY <2>1, <2>2, CatalogStock, AcceptedBrings
    <2> DEFINE places == {j \in DOMAIN list : list[j].kind = query.kind}
    <2>4. kept = Keep(list, places) /\ k \in places
        BY <2>2, <2>3 DEF Select
    <2>7. left = Ids(kept)
        OBVIOUS
    <2> HIDE DEF places, kept, list, left
    <2>5. PICK n \in DOMAIN kept : kept[n] = p
        BY <1>3, <2>3, <2>4, KeepBrings
    <2>6. kept \in Seq(Stock(Agg))
        BY <1>3, <2>4, KeepChooses
    <2> QED BY <2>5, <2>6, <2>7, IdListed
<1> HIDE DEF left, pokemon, w
<1>5. left \in Seq(STRING)
    BY <1>2, ListTypes
<1>6. read \in Walk /\ read.left = left
    BY <1>2, <1>5 DEF Walk
<1> HIDE DEF read
<1>7. briefs.step = "briefs" /\ briefs.left = left
    BY <1>6 DEF Walk
<1> HIDE DEF briefs
<1>8. Covers(Agg, briefs)
    BY <1>4, <1>7 DEF Covers
<1>9. Covers(Agg, ReadOn(read))
    BY <1>4, <1>6, ReadOnCovers
<1>10. Covers(Agg, next)
    BY <1>8, <1>9
<1> HIDE DEF next
<1> QED BY <1>1, <1>10, AnsweredCovers DEF Ended

LEMMA ReadBriefsCovers ==
    ASSUME OfferInv, WholeInv, Agg \in Walkers, ReadBriefs PROVE WholeInv'
<1> DEFINE w == walk[Agg]
           cards == IF Catalog = <<>> THEN <<>> ELSE Ids(selectPokemonCards)
           more == [w EXCEPT !.step = "cards", !.links = cards]
           next == IF cards = <<>> THEN ReadOn(w) ELSE more
<1>1. Answered(Agg, "tcgmatch", "briefs") /\ Replied(Agg, next)
    BY DEF ReadBriefs
<1>2. w \in Walk /\ w.step = "briefs"
    BY <1>1, WalkHere DEF Answered, WalkOf
<1>3. more.step = "cards" /\ more.left = w.left
    BY <1>2 DEF Walk
<1> HIDE DEF cards, more
<1>4. moves = 0 => Covers(Agg, next)
    <2> SUFFICES ASSUME moves = 0 PROVE Covers(Agg, next)
        OBVIOUS
    <2>1. Covers(Agg, w)
        BY CoverHere
    <2> HIDE DEF w
    <2>2. \A p \in Owed(Agg) : p.id \in ToSet(w.left)
        BY <1>2, <2>1 DEF Covers
    <2>3. Covers(Agg, more)
        BY <1>3, <2>2 DEF Covers
    <2>4. Covers(Agg, ReadOn(w))
        BY <1>2, <2>2, ReadOnCovers
    <2> QED BY <2>3, <2>4
<1> HIDE DEF next
<1> QED BY <1>1, <1>4, AnsweredCovers DEF Ended

LEMMA ReadPokemonCardCovers ==
    ASSUME OfferInv, WholeInv, Agg \in Walkers, ReadPokemonCard PROVE WholeInv'
<1> DEFINE w == walk[Agg]
           known == w.known \union {Head(w.links)}
           next == AfterCard(w, known)
<1>1. Answered(Agg, "tcgmatch", "cards") /\ Replied(Agg, next)
    BY DEF ReadPokemonCard
<1>2. w \in WalkOf(Agg) /\ w.step = "cards"
    BY <1>1, WalkHere DEF Answered
<1>3. moves = 0 => Covers(Agg, w)
    BY CoverHere
<1> HIDE DEF w
<1>4. known \in SUBSET STRING
    <2>1. w.known \in SUBSET STRING /\ w.links \in Seq(STRING) /\ w.links # <<>>
        BY <1>2, WalkParts
    <2> QED BY <2>1, RestOfList
<1> HIDE DEF known
<1>5. moves = 0 => Covers(Agg, next)
    <2>1. moves = 0 => \A p \in Owed(Agg) : p.id \in ToSet(w.left)
        BY <1>2, <1>3 DEF Covers
    <2> QED BY <1>2, <1>4, <2>1, AfterCardCovers
<1> HIDE DEF next
<1> QED BY <1>1, <1>5, AnsweredCovers DEF Ended

LEMMA FunctionFailsCovers ==
    ASSUME OfferInv, WholeInv, Agg \in Walkers, FunctionFails PROVE WholeInv'
<1> DEFINE w == walk[Agg]
           next == IF w.step = "briefs" THEN ReadOn(w) ELSE AfterCard(w, w.known)
<1>1. w.step \in {"briefs", "cards"} /\ Replied(Agg, next)
    BY DEF FunctionFails
<1>2. w \in WalkOf(Agg) /\ w \in Walk /\ w.known \in SUBSET STRING
    BY WalkHere DEF WalkOf
<1>3. walk[Agg].step \notin Ended
    BY <1>1 DEF Ended
<1>4. moves = 0 => Covers(Agg, w)
    BY CoverHere
<1> HIDE DEF w
<1>5. moves = 0 => Covers(Agg, next)
    <2>1. moves = 0 => \A p \in Owed(Agg) : p.id \in ToSet(w.left)
        BY <1>1, <1>4 DEF Covers
    <2>2. moves = 0 => Covers(Agg, ReadOn(w))
        BY <1>2, <2>1, ReadOnCovers
    <2>3. moves = 0 /\ w.step = "cards" => Covers(Agg, AfterCard(w, w.known))
        BY <1>2, <2>1, AfterCardCovers
    <2> QED BY <1>1, <2>2, <2>3
<1> HIDE DEF next
<1> QED BY <1>1, <1>3, <1>5, RepliedCovers

LEMMA ReadListingsCovers ==
    ASSUME OfferInv, WholeInv, Agg \in Walkers, ReadListings PROVE WholeInv'
<1> DEFINE w == walk[Agg]
           page == ProductPage(Agg, Head(w.left))
           listings == Listings(page)
           more == Offers(Agg, listings)
           found == w.found \o more
           next == NextProduct(w, found)
<1>1. Answered(Agg, "tcgmatch", "reading") /\ Replied(Agg, next)
    BY DEF ReadListings
<1>2. /\ w \in WalkOf(Agg) /\ w.step = "reading" /\ Kind(Agg) = "tcgmatch"
      /\ shelf[Agg] \in Seq(Stock(Agg)) /\ w.left # <<>>
    BY <1>1, WalkHere, WalkParts DEF Answered
<1>3. listings \in Seq(Stock(Agg)) /\ more \in Seq(OffersOf(Agg))
    BY <1>2, ListingsBuilt
<1>4. ASSUME NEW p \in Owed(Agg), p.id = Head(w.left) PROVE Brings(more, p)
    <2>1. PICK i \in DOMAIN Catalog : Catalog[i] = p
        BY <1>2 DEF Owed, From, ToSet
    <2>2. i \in DOMAIN shelf[Agg] /\ shelf[Agg][i] = p
        BY <2>1, CatalogOnShelf
    <2>3. p.units > 0 /\ p.price > 0
        BY <1>2 DEF Owed, Due
    <2>4. PICK k \in DOMAIN page : page[k] = p
        BY <1>2, <1>4, <2>2, ProductPageBrings
    <2>5. page \in Seq(Stock(Agg))
        BY <1>2, SelectProductPage
    <2> HIDE DEF page
    <2>6. PICK n \in DOMAIN listings : listings[n] = p
        BY <2>3, <2>4, <2>5, EntriesBring
    <2> QED BY <1>3, <2>6, OffersBring
<1>5. moves = 0 => Covers(Agg, w)
    BY CoverHere
<1> HIDE DEF w, more, listings, page
<1>6. moves = 0 => Covers(Agg, next)
    BY <1>2, <1>3, <1>4, <1>5, NextCovers
<1> HIDE DEF next
<1> QED BY <1>1, <1>6, AnsweredCovers DEF Ended

LEMMA CardPageBrings ==
    ASSUME OfferInv, Agg \in Walkers, Kind(Agg) = "scrycl", NEW p \in Owed(Agg)
    PROVE  Brings(CardPage, p)
<1> DEFINE list == shelf[Agg]
           items == [i \in DOMAIN list |-> [buildOffer(Agg)[list[i]] EXCEPT !.status = "unknown"]]
<1>1. items \in Seq(OffersOf(Agg)) /\ CardPage = DeduplicateOffers(items)
         /\ \A i \in DOMAIN list : buildOffer(Agg)[list[i]] \in OffersOf(Agg)
    BY CardOffers
<1>2. PICK i \in DOMAIN list : list[i] = p
    BY OwedOnShelf
<1>3. identity(items[i]) = <<p.store, p.id, p.id>>
    <2>1. p \in Product
        BY OwedOnShelf
    <2>2. items[i] = [buildOffer(Agg)[p] EXCEPT !.status = "unknown"]
        BY <1>2
    <2>3. buildOffer(Agg)[p] \in Offer
        BY <1>1, <1>2 DEF OffersOf
    <2>4. identity(items[i]) = identity(buildOffer(Agg)[p])
        BY <2>2, <2>3 DEF identity, Offer
    <2>5. identity(buildOffer(Agg)[p]) = <<p.store, p.id, p.id>>
        BY <2>1 DEF buildOffer, identity
    <2> QED BY <2>4, <2>5
<1>4. i \in DOMAIN items
    OBVIOUS
<1> HIDE DEF items
<1>5. Brings(items, p)
    BY <1>3, <1>4 DEF Brings
<1> QED BY <1>1, <1>5, BringsMore

LEMMA SitesBring ==
    ASSUME OfferInv, Agg \in Walkers, Kind(Agg) = "scrycl", NEW p \in Owed(Agg), ~setup.community
    PROVE  Brings(withoutCommunityOffers(CardPage), p)
<1>1. CardPage \in Seq(OffersOf(Agg)) /\ Brings(CardPage, p)
    BY CardOffers, CardPageBrings
<1>2. PICK n \in DOMAIN CardPage : identity(CardPage[n]) = <<p.store, p.id, p.id>>
    BY <1>1 DEF Brings
<1>3. PICK q \in Stock(Agg) : Offering(Agg, CardPage[n], q)
    BY <1>1 DEF OffersOf
<1>4. q.id = p.id /\ CardPage[n].host = q.host
    BY <1>2, <1>3 DEF Offering, identity
<1>5. p \in Stock(Agg) /\ Due(Agg, p) /\ setup \in Setups /\ Agg \in DOMAIN setup.client
    BY OwedOnShelf, WalkHere DEF OfferInv, TypeOK
<1>6. q.host = p.host
    BY <1>4, <1>5, OneLook
<1>7. CardPage[n].host # setup.host[Agg]
    BY <1>4, <1>5, <1>6 DEF Due
<1> DEFINE places == {k \in DOMAIN CardPage : CardPage[k].host # setup.host[Agg]}
<1>8. withoutCommunityOffers(CardPage) = Keep(CardPage, places) /\ n \in places
    BY <1>7 DEF withoutCommunityOffers, Select
<1> HIDE DEF places
<1>9. PICK m \in DOMAIN Keep(CardPage, places) : Keep(CardPage, places)[m] = CardPage[n]
    BY <1>1, <1>8, KeepBrings
<1> QED BY <1>2, <1>8, <1>9 DEF Brings

LEMMA ReadCardPageCovers ==
    ASSUME OfferInv, WholeInv, Agg \in Walkers, ReadCardPage PROVE WholeInv'
<1> DEFINE w == walk[Agg]
           found == IF setup.community THEN CardPage ELSE withoutCommunityOffers(CardPage)
           next == IF ~Priced(shelf[Agg]) THEN Failed(w) ELSE Done(w, found)
<1>1. Answered(Agg, "scrycl", "searching") /\ Replied(Agg, next)
    BY DEF ReadCardPage
<1>2. w \in Walk /\ Kind(Agg) = "scrycl"
    BY <1>1, WalkHere DEF Answered, WalkOf
<1>3. \A p \in Owed(Agg) : Brings(found, p)
    BY <1>2, CardPageBrings, SitesBring
<1> HIDE DEF found, w
<1>4. Covers(Agg, next)
    BY <1>2, <1>3, CoversEnd
<1> HIDE DEF next
<1> QED BY <1>1, <1>4, AnsweredCovers DEF Ended

LEMMA RequestFailsCovers ==
    ASSUME OfferInv, WholeInv, NEW s \in Walkers, RequestFails(s) PROVE WholeInv'
<1> DEFINE next == Failed(walk[s])
<1>1. Requesting(s) /\ Replied(s, next)
    BY DEF RequestFails
<1>2. walk[s].step \notin Ended
    BY <1>1 DEF Requesting, Ended
<1>3. walk[s] \in Walk
    BY WalkHere DEF WalkOf
<1>4. Covers(s, next)
    BY <1>3, CoversEnd
<1> HIDE DEF next
<1> QED BY <1>1, <1>2, <1>4, RepliedCovers

(* A walk that begins has read nothing yet.                                *)
LEMMA StartCovers ==
    ASSUME NEW s, shelf[s] \in Seq(Stock(s)), NEW w, w.step = "searching", w.page = 1, w.links = <<>>
    PROVE  Covers(s, w)
<1>1. Available(s) \in Seq(Stock(s))
    BY SelectSellable DEF Available
<1>2. \A i \in Nat \ {0} : ~(i <= (w.page - 1) * PageSize)
    <2>1. PageSize \in Nat
        BY OfferSearchAssumption
    <2>2. \A i \in Nat \ {0} : ~(i <= (1 - 1) * PageSize)
        BY ONLY <2>1
    <2> QED BY <2>2
<1>3. \A i \in DOMAIN shelf[s] : i \in Nat \ {0}
    OBVIOUS
<1>4. \A i \in DOMAIN Available(s) : i \in Nat \ {0}
    BY <1>1
<1>5. \A id : id \notin ToSet(w.links)
    BY DEF ToSet
<1>6. Searched(s, w)
    BY <1>2, <1>3, <1>4, <1>5 DEF Searched
<1> QED BY <1>6 DEF Covers

LEMMA TakeTurnCovers ==
    ASSUME OfferInv, WholeInv, NEW s \in Walkers, TakeTurn(s) PROVE WholeInv'
<1> DEFINE w == [walk[s] EXCEPT !.step = "searching"]
<1>1. walk' = [walk EXCEPT ![s] = w] /\ UNCHANGED <<setup, world, answer>> /\ walk[s].step = "waiting"
    BY DEF TakeTurn
<1>2. walk[s] \in Walk /\ shelf[s] \in Seq(Stock(s))
    BY WalkHere DEF WalkOf
<1>3. w.step = "searching" /\ w.page = walk[s].page /\ w.links = walk[s].links
    BY <1>2 DEF Walk
<1> HIDE DEF w
<1>4. moves = 0 => Covers(s, w)
    <2> SUFFICES ASSUME moves = 0 PROVE Covers(s, w)
        OBVIOUS
    <2>1. walk[s].page = 1 /\ walk[s].links = <<>>
        BY <1>1, CoverHere DEF Covers
    <2> QED BY <1>2, <1>3, <2>1, StartCovers
<1> QED BY <1>1, <1>4, WalkCovers DEF Ended

LEMMA GiveUpTurnCovers ==
    ASSUME OfferInv, WholeInv, NEW s \in Walkers, GiveUpTurn(s) PROVE WholeInv'
<1> DEFINE w == [walk[s] EXCEPT !.step = "failed"]
<1>1. walk' = [walk EXCEPT ![s] = w] /\ UNCHANGED <<setup, world, answer>> /\ walk[s].step = "waiting"
    BY DEF GiveUpTurn
<1>2. walk[s] \in Walk
    BY WalkHere DEF WalkOf
<1>3. w.step = "failed"
    BY <1>2 DEF Walk
<1> HIDE DEF w
<1>4. Covers(s, w)
    BY <1>3 DEF Covers
<1> QED BY <1>1, <1>4, WalkCovers DEF Ended

(* Steps that read nothing: walks and shelves stay as they are.            *)
LEMMA SameWalks ==
    ASSUME OfferInv, WholeInv, UNCHANGED <<setup, world, walk>>
    PROVE  /\ moves' = 0 => (\A s \in Walkers : Covers(s, walk[s]))'
           /\ Fallen' = Fallen
           /\ UNCHANGED answer => WholeInv'
<1>1. setup' = setup /\ shelf' = shelf /\ moves' = moves /\ walk' = walk
    BY DEF world
<1>2. Walkers' = Walkers /\ \A t, x : Covers(t, x)' <=> Covers(t, x)
    BY <1>1, SameSetup, SameCover
<1>3. moves' = 0 => (\A s \in Walkers : Covers(s, walk[s]))'
    <2> SUFFICES ASSUME moves = 0, NEW t \in Walkers PROVE Covers(t, walk[t])'
        BY <1>1, <1>2
    <2>1. Covers(t, walk'[t])
        BY <1>1 DEF WholeInv
    <2> QED BY <1>2, <2>1
<1>4. Fallen' = Fallen
    BY <1>1, <1>2 DEF Fallen, Fell
<1> QED BY <1>3, <1>4 DEF WholeInv

LEMMA CollectOffersCovers ==
    ASSUME OfferInv, WholeInv, CollectOffers PROVE WholeInv'
<1>1. UNCHANGED <<setup, world, walk>>
    BY DEF CollectOffers
<1>2. answer'.cached => answer'.state = "found" /\ Fallen = {}
    <2>1. PICK items : \/ answer' = [state |-> "error", items |-> <<>>, faults |-> Fallen, cached |-> FALSE]
                       \/ answer' = [state |-> "found", faults |-> Fallen, cached |-> MayCache,
                                     items |-> items]
        BY Zenon DEF CollectOffers
    <2>2. CASE answer' = [state |-> "error", items |-> <<>>, faults |-> Fallen, cached |-> FALSE]
        BY <2>2
    <2>3. CASE answer' = [state |-> "found", faults |-> Fallen, cached |-> MayCache, items |-> items]
        BY <2>3 DEF MayCache
    <2> QED BY <2>1, <2>2, <2>3
<1>3. Fallen' = Fallen /\ (moves' = 0 => (\A s \in Walkers : Covers(s, walk[s]))')
    BY <1>1, SameWalks
<1> QED BY <1>2, <1>3 DEF WholeInv

LEMMA MoveCovers ==
    ASSUME OfferInv, WholeInv, NEW s, NEW products, Move(s, products) PROVE WholeInv'
<1>1. moves \in Nat /\ moves' = moves + 1 /\ answer' = answer /\ answer.state = "none"
    BY DEF OfferInv, TypeOK, Move
<1>2. moves' # 0
    BY <1>1
<1>3. ~answer'.cached
    BY <1>1 DEF WholeInv
<1> QED BY <1>2, <1>3 DEF WholeInv

LEMMA InitCovers ==
    ASSUME Init PROVE WholeInv
<1>1. OfferInv
    BY InitHolds
<1>2. ~answer.cached
    BY DEF Init
<1>3. ASSUME NEW s \in Walkers PROVE Covers(s, walk[s])
    <2>1. shelf[s] \in Seq(Stock(s)) /\ s \in DOMAIN setup.client
        BY <1>1, WalkHere
    <2>2. walk[s] = IF s = Agg THEN [Asleep EXCEPT !.step = "searching"] ELSE Asleep
        BY <2>1 DEF Init
    <2>3. CASE s = Agg
        <3>1. walk[s].step = "searching" /\ walk[s].page = 1 /\ walk[s].links = <<>>
            BY <2>2, <2>3 DEF Asleep
        <3> QED BY <2>1, <3>1, StartCovers
    <2>4. CASE s # Agg
        <3>1. walk[s].step = "waiting" /\ walk[s].page = 1 /\ walk[s].links = <<>>
            BY <2>2, <2>4 DEF Asleep
        <3> QED BY <3>1 DEF Covers
    <2> QED BY <2>3, <2>4
<1> QED BY <1>2, <1>3 DEF WholeInv

LEMMA StepCovers ==
    ASSUME OfferInv, WholeInv, [Next]_vars PROVE WholeInv'
<1>1. ASSUME NEW s \in Stores, StoreStep(s) PROVE WholeInv'
    <2>1. s \in Walkers
        BY DEF Walkers
    <2>2. CASE TakeTurn(s)
        BY <2>1, <2>2, TakeTurnCovers
    <2>3. CASE GiveUpTurn(s)
        BY <2>1, <2>3, GiveUpTurnCovers
    <2>4. CASE TakeGate(s)
        BY <2>4, SameWalks DEF TakeGate
    <2>5. CASE ReadWooPage(s)
        BY <2>1, <2>5, ReadWooPageCovers
    <2>6. CASE ReadPrestaPage(s)
        BY <2>1, <2>6, ReadPrestaPageCovers
    <2>7. CASE SearchShopify(s)
        BY <2>1, <2>7, SearchShopifyCovers
    <2>8. CASE ReadCurrency(s)
        BY <2>1, <2>8, ReadCurrencyCovers
    <2>9. CASE ReadShopifyProduct(s)
        BY <2>1, <2>9, ReadShopifyProductCovers
    <2>10. CASE SearchJumpseller(s)
        BY <2>1, <2>10, SearchJumpsellerCovers
    <2>11. CASE ReadJumpsellerProduct(s)
        BY <2>1, <2>11, ReadJumpsellerProductCovers
    <2>12. CASE ReadList(s)
        BY <2>1, <2>12, ReadListCovers
    <2>13. CASE RequestFails(s)
        BY <2>1, <2>13, RequestFailsCovers
    <2> QED BY <1>1, <2>2, <2>3, <2>4, <2>5, <2>6, <2>7, <2>8, <2>9, <2>10, <2>11, <2>12, <2>13
            DEF StoreStep
<1>2. ASSUME ProviderStep PROVE WholeInv'
    <2>1. Agg \in Walkers
        BY <1>2 DEF ProviderStep, Walkers
    <2>2. CASE SearchCatalog
        BY <2>1, <2>2, SearchCatalogCovers
    <2>3. CASE ReadBriefs
        BY <2>1, <2>3, ReadBriefsCovers
    <2>4. CASE ReadPokemonCard
        BY <2>1, <2>4, ReadPokemonCardCovers
    <2>5. CASE FunctionFails
        BY <2>1, <2>5, FunctionFailsCovers
    <2>6. CASE ReadListings
        BY <2>1, <2>6, ReadListingsCovers
    <2>7. CASE ReadCardPage
        BY <2>1, <2>7, ReadCardPageCovers
    <2>8. CASE RequestFails(Agg)
        BY <2>1, <2>8, RequestFailsCovers
    <2> QED BY <1>2, <2>2, <2>3, <2>4, <2>5, <2>6, <2>7, <2>8 DEF ProviderStep
<1>3. CASE CollectOffers
    BY <1>3, CollectOffersCovers
<1>4. CASE Expire
    BY <1>4, SameWalks DEF Expire
<1>5. ASSUME NEW s \in Walkers, Arrive(s) \/ Withdraw(s) \/ SellOut(s) PROVE WholeInv'
    BY <1>5, MoveCovers DEF Arrive, Withdraw, SellOut
<1>6. CASE UNCHANGED vars
    BY <1>6, SameWalks DEF vars
<1> QED BY <1>1, <1>2, <1>3, <1>4, <1>5, <1>6 DEF Next

-----------------------------------------------------------------------------
(* What an answer that is kept holds                                       *)

LEMMA StoreClients ==
    ASSUME setup \in Setups, NEW s \in Walkers
    PROVE  Kind(s) = "tcgmatch" => s = Agg
<1>1. Shaped(setup)
    BY OfferSearchAssumption
<1>2. s = Agg \/ s \in ToSet(setup.sources)
    BY Askers DEF Stores
<1> QED BY <1>1, <1>2 DEF Shaped, Kind

LEMMA PromisedOwed ==
    ASSUME NEW s, NEW p \in Promised(s)
    PROVE  p \in Owed(s) /\ OfThisGame(p)
<1> DEFINE asked == CASE Kind(s) = "scrycl" -> setup.community \/ p.host # setup.host[Agg]
                      [] Kind(s) = "prestashop" -> MatchesCard(p.title, query.name)
                      [] Kind(s) = "tcgmatch" -> p.kind = query.kind /\ AcceptsTitle(query, p.title)
                      [] OTHER -> AcceptsTitle(query, p.title)
<1>1. /\ p \in ToSet(From(s)) /\ p.price > 0 /\ asked /\ OfThisGame(p)
      /\ p.units > 0 \/ Kind(s) \in {"woocommerce", "prestashop", "scrycl"}
    BY DEF Promised, From
<1>2. Due(s, p)
    <2>1. CASE Kind(s) = "scrycl"
        BY <1>1, <2>1 DEF Due
    <2>2. CASE Kind(s) = "prestashop"
        BY <1>1, <2>2 DEF Due
    <2>3. CASE Kind(s) = "tcgmatch"
        BY <1>1, <2>3 DEF Due
    <2>4. CASE Kind(s) \notin {"scrycl", "prestashop", "tcgmatch"}
        BY <1>1, <2>4 DEF Due
    <2> QED BY <2>1, <2>2, <2>3, <2>4
<1> QED BY <1>1, <1>2 DEF Owed

(* An offer that shows the title and edition of p is of the game p is of.  *)
LEMMA SameGame ==
    ASSUME NEW o, NEW p, OfGame(p), o.title = p.title, o.edition = p.edition
    PROVE  OfGame(o)
BY DEF OfGame

(* Whatever came with the identity of an offer shows the same print.       *)
LEMMA WinnerShows ==
    ASSUME OfferInv, Fallen = {}, NEW s \in Walkers, NEW o \in OffersOf(s),
           s = Agg => o.host \notin readDirectHosts,
           NEW e \in Collected, identity(e) = identity(o)
    PROVE  e.title = o.title /\ e.edition = o.edition
<1>1. setup \in Setups /\ s \in DOMAIN setup.client /\ Agg \in DOMAIN setup.client
    BY WalkHere, SetupShape DEF OfferInv, TypeOK
<1>2. PICK p \in Stock(s) : Offering(s, o, p)
    BY DEF OffersOf
<1>3. PICK t \in Walkers : e \in OffersOf(t) /\ (t = Agg => e.host \notin readDirectHosts)
    <2>1. CASE hasProvider /\ e \in OffersOf(Agg) /\ e.host \notin readDirectHosts
        <3>1. Agg \in Walkers
            BY <2>1 DEF Walkers
        <3> QED BY <2>1, <3>1
    <2>2. ASSUME NEW x \in Stores, e \in OffersOf(x)
          PROVE  x \in Walkers /\ x # Agg
        BY <1>1, Askers DEF Walkers
    <2> QED BY <2>1, <2>2 DEF Collected
<1>4. PICK q \in Stock(t) : Offering(t, e, q)
    BY <1>3 DEF OffersOf
<1>5. t \in DOMAIN setup.client /\ q.id = p.id
    BY <1>2, <1>4, WalkHere DEF Offering, identity
<1>6. /\ q.host = p.host /\ (t = s => Looks(q) = Looks(p))
      /\ Agg \notin {t, s} => q.title = p.title /\ q.edition = p.edition
    BY <1>1, <1>5, OneLook
<1>7. o.host = e.host
    BY <1>2, <1>4, <1>6 DEF Offering
<1>8. ASSUME NEW x \in Stores, NEW a \in OffersOf(x), NEW b \in OffersOf(Agg),
             a.host = b.host, b.host \notin readDirectHosts
      PROVE  FALSE
    <2>1. a.host = IF setup.host[x] = "" THEN ListHost ELSE setup.host[x]
        BY <1>1, StoreOffer
    <2>2. b.host # ListHost
        BY <1>1, ProviderOffer
    <2>3. x \in Walkers /\ ~Fell(x)
        BY DEF Fallen, Walkers
    <2>4. setup.host[x] = b.host /\ setup.host[x] # ""
        BY <1>8, <2>1, <2>2
    <2> QED BY <1>8, <2>3, <2>4 DEF readDirectHosts
<1>9. \/ s = t \/ Agg \notin {t, s}
    <2>1. s = Agg \/ s \in Stores
        BY <1>1, Askers
    <2>2. t = Agg \/ t \in Stores
        BY <1>1, Askers
    <2>3. ASSUME s = Agg, t # Agg PROVE FALSE
        BY <1>3, <1>7, <1>8, <2>2, <2>3
    <2>4. ASSUME t = Agg, s # Agg PROVE FALSE
        BY <1>3, <1>7, <1>8, <2>1, <2>4
    <2> QED BY <2>1, <2>2, <2>3, <2>4
<1>10. q.title = p.title /\ q.edition = p.edition
    BY <1>6, <1>9 DEF Looks
<1> QED BY <1>2, <1>4, <1>10 DEF Offering

LEMMA WholeAnswer ==
    ASSUME OfferInv, WholeInv PROVE WholeWhenCached
<1> DEFINE once == OneOfEach(queryGameSources)
<1> SUFFICES ASSUME answer.cached, moves = 0, NEW s \in Walkers, NEW p \in Promised(s),
                    ~(s = Agg /\ p.host \in readDirectHosts)
             PROVE  Represented(p)
    BY DEF WholeWhenCached
<1>1. answer.state = "found" /\ Fallen = {} /\ setup \in Setups
    BY DEF WholeInv, OfferInv, TypeOK
<1>2. walk[s].step = "done"
    <2>1. walk[s].step \in Ended
        BY <1>1 DEF OfferInv, AnswerHolds
    <2> QED BY <1>1, <2>1 DEF Ended, Fallen, Fell
<1>3. p \in Owed(s) /\ OfThisGame(p)
    BY PromisedOwed
<1>4. PICK n \in DOMAIN walk[s].found : identity(walk[s].found[n]) = <<p.store, p.id, p.id>>
    BY <1>2, <1>3, CoverHere DEF Covers, Brings
<1> DEFINE o == walk[s].found[n]
<1>5. o \in OffersOf(s) /\ identity(o) = <<p.store, p.id, p.id>>
    BY <1>4, WalkHere
<1>6. o.title = p.title /\ o.edition = p.edition /\ o.host = p.host
    <2>1. PICK q \in Stock(s) : Offering(s, o, q)
        BY <1>5 DEF OffersOf
    <2>2. q.id = p.id
        BY <1>5, <2>1 DEF Offering, identity
    <2>3. p \in Stock(s) /\ s \in DOMAIN setup.client
        BY <1>1, <1>3, StoreClients, OwedOnShelf, WalkHere
    <2>4. Looks(q) = Looks(p)
        BY <1>1, <2>2, <2>3, OneLook
    <2> QED BY <2>1, <2>4 DEF Looks, Offering
<1>7. PICK i \in DOMAIN queryGameSources : queryGameSources[i] = o
    <2>1. CASE s = Agg
        <3>1. hasProvider
            BY <1>1, <2>1, Askers
        <3> QED BY <1>4, <1>6, <2>1, <3>1, CollectedOffers
    <2>2. CASE s # Agg
        <3>1. s \in Stores
            BY <1>1, <2>2, Askers
        <3> QED BY <1>4, <3>1, CollectedOffers
    <2> QED BY <2>1, <2>2
<1>8. /\ once \in Seq(Collected)
      /\ \E m \in DOMAIN once : identity(once[m]) = identity(queryGameSources[i])
      /\ \E at : Shows(answer.items, once, at)
    BY <1>1, AnswerMade
<1> HIDE DEF once, o
<1>9. PICK m \in DOMAIN once : identity(once[m]) = identity(o)
    BY <1>7, <1>8
<1>10. PICK at : Shows(answer.items, once, at)
    BY <1>8
<1>11. once[m].title = o.title /\ once[m].edition = o.edition
    <2>1. once[m] \in Collected
        BY <1>8
    <2>2. s = Agg => o.host \notin readDirectHosts
        BY <1>6
    <2> QED BY <1>1, <1>5, <1>9, <2>1, <2>2, WinnerShows
<1>12. OfGame(once[m])
    <2>1. OfGame(p)
        BY <1>3, AloneOfGame
    <2> QED BY <1>6, <1>11, <2>1, SameGame
<1>13. PICK j \in DOMAIN answer.items : at[j] = m
    BY <1>10, <1>12 DEF Shows
<1>14. Carries(answer.items[j], once[m])
    BY <1>10, <1>13 DEF Shows
<1>15. identity(answer.items[j]) = identity(once[m])
    BY <1>14 DEF Carries, Bears, identity
<1> QED BY <1>5, <1>9, <1>15 DEF Represented

LEMMA AlwaysWhole == Spec => []WholeInv
<1>1. Init => WholeInv
    BY InitCovers
<1>2. OfferInv /\ WholeInv /\ [Next]_vars => WholeInv'
    BY StepCovers
<1> QED BY <1>1, <1>2, AlwaysHolds, PTL DEF Spec

-----------------------------------------------------------------------------
(* The theorems                                                            *)

(* The turns that are taken are those of the stores that read, however     *)
(* their walks end, so none is lost and no more than the limit read; and   *)
(* only a store that reads holds the gate of the process (querySources,    *)
(* fetchPage of jumpseller).                                               *)
THEOREM SearchTypeCorrect == Spec => []TypeOK
<1>1. OfferInv => TypeOK
    BY DEF OfferInv
<1> QED BY <1>1, AlwaysHolds, PTL

(* A product that slid to the next page while its store was read, or that  *)
(* two clients brought, is offered once (DeduplicateOffers).               *)
THEOREM OfferedOnceCorrect == Spec => []OfferedOnce
<1>1. OfferInv => OfferedOnce
    BY OnceInAnswer
<1> QED BY <1>1, AlwaysHolds, PTL

(* What the aggregator has of a store that fell is shown, and nothing of a *)
(* store that answered (preferDirectOffers, readDirectHosts).              *)
THEOREM OneVoiceCorrect == Spec => []OneVoicePerStore
<1>1. OfferInv => OneVoicePerStore
    BY OneVoice
<1> QED BY <1>1, AlwaysHolds, PTL

(* Offers of the provider under one key have the same mechanics, whichever *)
(* of their functions could not be read (readOfferKey,                     *)
(* namePokemonFunctions).                                                  *)
THEOREM OneFunctionCorrect == Spec => []OneFunctionPerKey
<1>1. OfferInv => OneFunctionPerKey
    BY OneFunction
<1> QED BY <1>1, AlwaysHolds, PTL

(* An answer that is kept for the next question holds all that the stores  *)
(* sell of the card (saveOfferCache).                                      *)
THEOREM WholeCorrect == Spec => []WholeWhenCached
<1>1. OfferInv /\ WholeInv => WholeWhenCached
    BY WholeAnswer
<1> QED BY <1>1, AlwaysHolds, AlwaysWhole, PTL

=============================================================================
