--------------------------- MODULE CheckoutProofs ---------------------------
(***************************************************************************)
(* What a call about stock, quotes, orders or links keeps for every number *)
(* of lines, stores, pages of offers, concurrent goroutines, faults and    *)
(* changes of stock: six invariants of Checkout from one inductive one.    *)
(***************************************************************************)
EXTENDS Checkout, FiniteSetTheorems, TLAPS

-----------------------------------------------------------------------------
(* Counting                                                                *)

(* A family of subsets of a finite set has a least member by inclusion:    *)
(* the induction over finite sets that the proofs below are made of.       *)
LEMMA LeastSubset ==
    ASSUME NEW S, IsFiniteSet(S), NEW family, family # {}, \A T \in family : T \in SUBSET S
    PROVE  \E low \in family : \A T \in family : T \subseteq low => T = low
<1>1. family \subseteq FiniteSubsetsOf(S)
    BY FS_FiniteSubsetsOfFinite, Zenon
<1>2. IsWellFoundedOn(StrictSubsetOrdering(S), FiniteSubsetsOf(S))
    BY FS_StrictSubsetOrderingWellFounded, Zenon
<1>3. PICK least \in family : \A T \in family : <<T, least>> \notin StrictSubsetOrdering(S)
    BY <1>1, <1>2, WFMin, Zenon
<1> QED BY <1>3 DEF StrictSubsetOrdering

(* A finite set of numbers has a smallest one, and a bounded one a         *)
(* largest.                                                                *)
LEMMA SmallestOf ==
    ASSUME NEW S \in SUBSET Nat, IsFiniteSet(S), S # {}
    PROVE  \E m \in S : \A k \in S : m <= k
<1> DEFINE family == {{k \in S : k <= m} : m \in S}
<1>1. \A T \in family : T \in SUBSET S
    OBVIOUS
<1>5. family # {}
    OBVIOUS
<1> HIDE DEF family
<1>2. PICK least \in family : \A T \in family : T \subseteq least => T = least
    <2>1. IsFiniteSet(S)
        OBVIOUS
    <2>2. \E low \in family : \A T \in family : T \subseteq low => T = low
        BY <2>1, <1>1, <1>5, LeastSubset
    <2> QED BY <2>2
<1>3. PICK m \in S : least = {k \in S : k <= m}
    BY DEF family
<1>4. ASSUME NEW k \in S, ~(m <= k) PROVE FALSE
    <2> DEFINE below == {j \in S : j <= k}
    <2>1. k <= m
        BY <1>4
    <2>2. below \subseteq least
        <3> SUFFICES ASSUME NEW j \in below PROVE j \in S /\ j <= m
            BY <1>3
        <3>1. j \in Nat /\ k \in Nat /\ m \in Nat
            OBVIOUS
        <3> QED BY <2>1, <3>1
    <2>3. below = least
        BY <1>2, <2>2 DEF family
    <2>4. m \in below
        BY <1>3, <2>3
    <2> QED BY <1>4, <2>4
<1> QED BY <1>4

LEMMA LargestOf ==
    ASSUME NEW S \in SUBSET Nat, IsFiniteSet(S), S # {}, NEW top \in Nat, \A k \in S : k <= top
    PROVE  \E m \in S : \A k \in S : k <= m
<1> DEFINE mirror == {top - k : k \in S}
<1>1. mirror \in SUBSET Nat /\ mirror # {} /\ \A j \in mirror : j <= top
    <2>1. \A k \in S : k \in Nat /\ top - k \in Nat /\ top - k <= top
        OBVIOUS
    <2>2. mirror # {}
        OBVIOUS
    <2>3. \A j \in mirror : j \in Nat /\ j <= top
        BY <2>1
    <2> QED BY <2>2, <2>3
<1>2. IsFiniteSet(mirror)
    BY <1>1, FS_BoundedSetOfNaturals
<1>3. PICK j \in mirror : \A i \in mirror : j <= i
    BY <1>1, <1>2, SmallestOf
<1>4. PICK m \in S : j = top - m
    OBVIOUS
<1>5. ASSUME NEW k \in S PROVE k <= m
    <2>1. j <= top - k
        BY <1>3
    <2> QED BY <1>4, <2>1
<1> QED BY <1>5

(* The pairs of an element and a number up to its weight: as many as the   *)
(* elements weigh together.                                                *)
Heap(S, weight, most) == {mu \in S \X (1..most) : mu[2] <= weight[mu[1]]}

(* Such a set is finite; over one element it has as many pairs as the      *)
(* element weighs; over two sets that do not meet it has as many as both.  *)
LEMMA HeapFinite ==
    ASSUME NEW S, IsFiniteSet(S), NEW most \in Nat, NEW weight
    PROVE  IsFiniteSet(Heap(S, weight, most)) /\ Cardinality(Heap(S, weight, most)) \in Nat
<1>1. IsFiniteSet(1..most)
    BY FS_Interval
<1>2. IsFiniteSet(S \X (1..most))
    BY <1>1, FS_Product
<1>3. Heap(S, weight, most) \in SUBSET (S \X (1..most))
    BY DEF Heap
<1>4. IsFiniteSet(Heap(S, weight, most))
    BY <1>2, <1>3, FS_Subset, Zenon
<1> QED BY <1>4, FS_CardinalityType, Zenon

LEMMA HeapOne ==
    ASSUME NEW x, NEW most \in Nat, NEW weight, weight[x] \in 0..most
    PROVE  Cardinality(Heap({x}, weight, most)) = weight[x]
<1> DEFINE f == [i \in 1..weight[x] |-> <<x, i>>]
<1> DEFINE heap == Heap({x}, weight, most)
<1>4. f \in [1..weight[x] -> heap]
    BY DEF Heap
<1>5. \A mu \in heap : \E i \in 1..weight[x] : f[i] = mu
    <2> SUFFICES ASSUME NEW mu \in heap PROVE mu[2] \in 1..weight[x] /\ f[mu[2]] = mu
        OBVIOUS
    <2> QED BY DEF Heap
<1>6. \A i, j \in 1..weight[x] : f[i] = f[j] => i = j
    OBVIOUS
<1> HIDE DEF f, heap
<1>1. f \in Bijection(1..weight[x], heap)
    BY <1>4, <1>5, <1>6 DEF Bijection, Injection, Surjection, IsInjective
<1>2. ExistsBijection(1..weight[x], heap)
    BY <1>1 DEF ExistsBijection
<1>3. weight[x] \in Nat
    OBVIOUS
<1>7. Cardinality(heap) = weight[x]
    BY <1>2, <1>3, FS_CountingElements
<1> QED BY <1>7 DEF heap

LEMMA HeapUnion ==
    ASSUME NEW S, IsFiniteSet(S), NEW T, IsFiniteSet(T), S \cap T = {}, NEW most \in Nat, NEW weight
    PROVE  Cardinality(Heap(S \union T, weight, most)) =
                Cardinality(Heap(S, weight, most)) + Cardinality(Heap(T, weight, most))
<1> DEFINE A == Heap(S, weight, most)
           B == Heap(T, weight, most)
<1>1. Heap(S \union T, weight, most) = A \union B
    BY DEF Heap
<1>2. A \cap B = {}
    BY DEF Heap
<1>3. IsFiniteSet(A) /\ IsFiniteSet(B) /\ Cardinality(A) \in Nat /\ Cardinality(B) \in Nat
    BY HeapFinite
<1> HIDE DEF A, B
<1>4. Cardinality(A \union B) = Cardinality(A) + Cardinality(B) - Cardinality(A \cap B)
    BY <1>3, FS_Union, Zenon
<1>5. Cardinality(A \cap B) = 0
    BY <1>2, FS_EmptySet
<1>6. Cardinality(A \union B) = Cardinality(A) + Cardinality(B)
    BY <1>3, <1>4, <1>5
<1> QED BY <1>1, <1>6 DEF A, B

(* Every line asks for a number of units within the limit, or for none.    *)
Bounded == \A m \in Positions : call.lines[m].units \in 0..MaxLineUnits

(* The lines of a call are finitely many, and so are those of any part of  *)
(* it.                                                                     *)
LEMMA FinitePositions ==
    ASSUME call.lines \in Seq(Line), NEW lines \in SUBSET Positions
    PROVE  Positions = 1..Len(call.lines) /\ IsFiniteSet(lines)
<1>1. Positions = 1..Len(call.lines)
    BY DEF Positions
<1>2. IsFiniteSet(1..Len(call.lines))
    BY FS_Interval
<1> QED BY <1>1, <1>2, FS_Subset

(* Adding up the units line by line, as the code does in its loops over    *)
(* the lines, gives the number of units the lines ask for: what            *)
(* LinkedUnits, QuotedUnits and the notices add up is what the reference   *)
(* definition counts. The fold is a recursive definition; that it is a sum *)
(* follows without a rule of induction: a set of lines on which it would   *)
(* not be the sum would have a least such subset, and that one loses an    *)
(* element to a smaller one.                                               *)
LEMMA AskedCounts ==
    ASSUME call.lines \in Seq(Line), Bounded, NEW lines \in SUBSET Positions, NEW v
    PROVE  Asked(lines, v) = UnitsAsked(lines, v) /\ Asked(lines, v) \in Nat
<1> USE CheckoutAssumption
<1> DEFINE S == {m \in lines : CartName(m) = v}
           most == MaxLineUnits
           weight == [m \in Positions |-> call.lines[m].units]
<1>a. IsFiniteSet(S) /\ IsFiniteSet(lines)
    BY FinitePositions
<1>b. \A x \in S : weight[x] \in 0..most /\ weight[x] = call.lines[x].units
    BY DEF Bounded
<1>c. most \in Nat
    BY DEF CheckoutAssumption
<1>d. UnitsAsked(lines, v) = Cardinality(Heap(S, weight, most))
    <2>1. {mu \in lines \X (1..MaxLineUnits) :
                    mu[2] <= call.lines[mu[1]].units /\ CartName(mu[1]) = v} = Heap(S, weight, most)
        BY DEF Heap
    <2> QED BY <2>1 DEF UnitsAsked
<1>e. Asked(lines, v) = MapThenFoldSet(LAMBDA a, b : a + b, 0, LAMBDA m : call.lines[m].units,
                          LAMBDA T : CHOOSE m \in T : TRUE, S)
    BY DEF Asked
<1> HIDE DEF S, most, weight
<1> DEFINE Pick(T) == CHOOSE m \in T : TRUE
           Step(f) == [T \in SUBSET S |-> IF T = {} THEN 0 ELSE call.lines[Pick(T)].units + f[T \ {Pick(T)}]]
           count == [T \in SUBSET S |-> Cardinality(Heap(T, weight, most))]
           fold == CHOOSE f : f = Step(f)
<1>1. Cardinality(Heap({}, weight, most)) = 0
    <2>1. Heap({}, weight, most) = {}
        BY DEF Heap
    <2> QED BY <2>1, FS_EmptySet
<1>2. ASSUME NEW T \in SUBSET S, T # {}
      PROVE  /\ Pick(T) \in T /\ T \ {Pick(T)} \in SUBSET S
             /\ count[T] = weight[Pick(T)] + count[T \ {Pick(T)}]
    <2> DEFINE x == Pick(T)
               rest == T \ {x}
    <2>1. x \in T
        BY <1>2
    <2> HIDE DEF x
    <2>2. IsFiniteSet(rest) /\ IsFiniteSet({x})
        BY <1>a, FS_Subset, FS_Singleton
    <2>3. T = {x} \union rest /\ {x} \cap rest = {}
        BY <2>1
    <2> HIDE DEF rest
    <2>4. Cardinality(Heap(T, weight, most)) = Cardinality(Heap({x}, weight, most)) + Cardinality(Heap(rest, weight, most))
        BY <2>2, <2>3, <1>c, HeapUnion
    <2>5. Cardinality(Heap({x}, weight, most)) = weight[x]
        BY <2>1, <1>b, <1>c, HeapOne
    <2> QED BY <2>1, <2>4, <2>5 DEF x, rest
<1>3. count = Step(count)
    <2>1. ASSUME NEW T \in SUBSET S, T # {}
          PROVE  count[T] = call.lines[Pick(T)].units + count[T \ {Pick(T)}]
        <3>1. Pick(T) \in S /\ count[T] = weight[Pick(T)] + count[T \ {Pick(T)}]
            BY <1>2, <2>1
        <3> HIDE DEF Pick, count
        <3> QED BY <1>b, <3>1
    <2>2. count[{}] = 0
        BY <1>1
    <2>3. count = [T \in SUBSET S |-> count[T]]
        OBVIOUS
    <2> HIDE DEF Pick, count
    <2> QED BY <2>1, <2>2, <2>3
<1>4. fold = Step(fold)
    BY <1>3
<1>5. \A T \in SUBSET S : fold[T] = count[T]
    <2> SUFFICES ASSUME {T \in SUBSET S : fold[T] # count[T]} # {} PROVE FALSE
        OBVIOUS
    <2> DEFINE bad == {T \in SUBSET S : fold[T] # count[T]}
    <2>0. bad # {} /\ \A T \in bad : T \in SUBSET S
        OBVIOUS
    <2> HIDE DEF count, fold, bad
    <2>1. PICK T \in bad : \A U \in bad : U \subseteq T => U = T
        BY <2>0, <1>a, LeastSubset
    <2> USE DEF bad
    <2>2. T # {}
        BY <1>1, <1>4 DEF count
    <2>3. /\ Pick(T) \in T /\ T \ {Pick(T)} \in SUBSET S
          /\ count[T] = weight[Pick(T)] + count[T \ {Pick(T)}]
        BY <1>2, <2>2
    <2>4. fold[T] = weight[Pick(T)] + fold[T \ {Pick(T)}]
        <3>1. fold[T] = call.lines[Pick(T)].units + fold[T \ {Pick(T)}]
            BY <1>4, <2>2
        <3> HIDE DEF Pick
        <3> QED BY <1>b, <2>3, <3>1
    <2>5. T \ {Pick(T)} \notin bad
        BY <2>1, <2>3
    <2> QED BY <2>3, <2>4, <2>5
<1>6. fold[S] = count[S]
    BY <1>5
<1>7. Cardinality(Heap(S, weight, most)) \in Nat
    BY <1>a, <1>c, HeapFinite
<1>8. Asked(lines, v) = fold[S]
    BY <1>e DEF MapThenFoldSet
<1> QED BY <1>6, <1>7, <1>8, <1>d

-----------------------------------------------------------------------------
(* The inductive invariant                                                 *)

(* What a call that goes past its validation may count on.                 *)
Valued == \A m \in Positions : call.lines[m].units \in 1..MaxLineUnits

(* Once the lines passed the validation of the request, each asks for at   *)
(* least one unit and for no more than the limit; the check of the worker  *)
(* reads no pages.                                                         *)
LinesHold ==
    /\ call.kind \notin {"stock", "verify"} /\ (call.step \in {"paging", "planning", "working"} \/ call.answer = "done") => Valued
    /\ call.step # "answered" => call.answer = None
    /\ call.kind = "verify" => call.step # "paging"

(* What a reading of the pages has in hand: every page up to the cursor    *)
(* unless a page was missed, and at least those there were when it began.  *)
PagesHold ==
    /\ call.step = "new" => call.cursor = 0
    /\ call.began <= landed
    /\ call.cursor <= landed
    /\ ~call.blind /\ call.step = "paging" => \A i \in 1..call.cursor : Items[i] \subseteq call.found
    /\ ~call.blind /\ call.step = "planning" /\ call.kind # "verify" =>
          \A i \in 1..call.began : Items[i] \subseteq call.found
    /\ CollectedAll

(* Every shelf of a moment of the call is remembered.                      *)
SeenHolds == call.step # "new" => \A v \in Variants : shelf[v] \in seen[v]

(* The store sold the product of the line at some moment of the call, or   *)
(* did not, or kept that number of it: one that comes with this status.    *)
Sold(n) == \E s \in seen[Offer(n).page] : Sells(s)
Withheld(n) == \E s \in seen[Offer(n).page] : ~Sells(s)
Kept(n, status, count) ==
    \E s \in seen[Offer(n).page] : /\ s.count = "kept" /\ s.units = count
                                   /\ status = "available" \/ s.sale # "open"

(* The cart holds all the lines put into it ask for, but for what the store trimmed. *)
Filled(n, job) ==
    \A v \in Variants \ job.cut : job.cart[v] = UnitsAsked({m \in LinesOf(n) : m <= job.at}, v)

(* What a goroutine at each of its steps may count on. Only orders and     *)
(* quotes fill carts; an order is the work of one goroutine, over lines of *)
(* one store; who counts units found the offer on sale; who is past        *)
(* filling has every line in the cart.                                     *)
TaskHolds(n, job) ==
    /\ job.step # "none" =>
          /\ call.step \in {"working", "answered"} /\ (~Checking => call.step = "working")
          /\ call.kind # "links"
          /\ call.kind = "order" => n = 1 /\ \A m \in Positions : Host(m) = Host(1)
    /\ job.step \in {"waiting", "asking"} => job.at = 0 /\ job.cart = Empty /\ job.cut = {}
    /\ job.step = "counting" => Checking /\ Sold(n)
    /\ job.step \in AtStore => call.kind \in {"quote", "order"} /\ Filled(n, job)
    /\ job.step = "filling" => \E m \in LinesOf(n) : m > job.at
    /\ job.step \in AtStore \ {"filling"} => \A m \in LinesOf(n) : m <= job.at
    /\ job.step = "checkout" => call.kind = "order"

(* What ReadingFresh says of one reading.                                  *)
Fresh(n, reading) ==
    /\ reading.id = call.lines[n].id
    /\ reading.status = "available" => reading.count # 0 /\ Sold(n)
    /\ reading.status = "unavailable" \/ reading.count = 0 => Withheld(n)
    /\ reading.count \notin {None, 0} => Kept(n, reading.status, reading.count)
    /\ reading.status = "kept" => reading.count = None

(* The notices of a quote about one product, and what QuoteHonest says of  *)
(* it.                                                                     *)
NoticesOf(quote, v) == {m \in quote.notices : CartName(m) = v}
HonestOf(n, quote, v) ==
    Cardinality(NoticesOf(quote, v)) = IF quote.held[v] = UnitsAsked(LinesOf(n), v) THEN 0 ELSE 1
Honest(n, quote) == \A m \in LinesOf(n) : HonestOf(n, quote, CartName(m))

(* What an answer of one goroutine keeps until the call has its own.       *)
ResultHolds(n, r) ==
    r # None =>
        /\ call.step \in {"working", "answered"}
        /\ Checking => Fresh(n, r)
        /\ call.kind = "quote" /\ r.status = "quote" => Honest(n, r)
        /\ call.kind = "order" /\ r.status = "order" => Len(orders) = 1

(* There is one order at most, no goroutine is at work once it is made,    *)
(* and it holds what all the lines ask for, but for what the store         *)
(* trimmed.                                                                *)
OrdersHold ==
    /\ orders # <<>> =>
          /\ call.kind = "order" /\ call.step \in {"working", "answered"}
          /\ \A n \in Positions : task[n].step = "none"
    /\ Len(orders) <= 1
    /\ \A o \in DOMAIN orders : \A v \in Variants \ orders[o].cut :
          orders[o].cart[v] = UnitsAsked(Positions, v)

(* All of it.                                                              *)
CheckoutInv ==
    /\ TypeOK /\ LinesHold /\ PagesHold /\ SeenHolds /\ OrdersHold
    /\ \A n \in Positions : TaskHolds(n, task[n]) /\ ResultHolds(n, results[n])

-----------------------------------------------------------------------------
(* What a step leaves as it was                                            *)

(* A step that keeps the kind and the lines of the call keeps all that is  *)
(* derived from them.                                                      *)
LEMMA SameLines ==
    ASSUME call'.kind = call.kind, call'.lines = call.lines
    PROVE  /\ Positions' = Positions /\ Checking' = Checking /\ Valued' = Valued
           /\ \A n : /\ Offer(n)' = Offer(n) /\ Host(n)' = Host(n)
                     /\ LinesOf(n)' = LinesOf(n) /\ CartName(n)' = CartName(n)
           /\ \A S, v : UnitsAsked(S, v)' = UnitsAsked(S, v)
<1>1. Positions' = Positions
    BY DEF Positions
<1>2. \A n : Offer(n)' = Offer(n)
    BY DEF Offer
<1>3. \A n : Host(n)' = Host(n)
    BY <1>2 DEF Host
<1>4. \A n : ProductID(n)' = ProductID(n) /\ VariantID(n)' = VariantID(n)
    BY <1>2, <1>3 DEF ProductID, VariantID
<1>5. \A n : CartName(n)' = CartName(n)
    BY <1>3, <1>4 DEF CartName
<1>6. \A n : LinesOf(n)' = LinesOf(n)
    BY <1>1, <1>3 DEF LinesOf
<1>7. \A S, v : UnitsAsked(S, v)' = UnitsAsked(S, v)
    <2> SUFFICES ASSUME NEW S, NEW v PROVE UnitsAsked(S, v)' = UnitsAsked(S, v)
        OBVIOUS
    <2>1. {mu \in S \X (1..MaxLineUnits) : mu[2] <= call'.lines[mu[1]].units /\ CartName(mu[1])' = v}
            = {mu \in S \X (1..MaxLineUnits) : mu[2] <= call.lines[mu[1]].units /\ CartName(mu[1]) = v}
        BY <1>5
    <2> QED BY <2>1 DEF UnitsAsked
<1>8. Checking' = Checking
    BY DEF Checking
<1>9. Valued' = Valued
    BY <1>1 DEF Valued
<1> QED BY <1>1, <1>2, <1>3, <1>5, <1>6, <1>7, <1>8, <1>9

(* The page of an offer is one the stores have.                            *)
LEMMA PagesKnown ==
    ASSUME TypeOK, NEW n \in Positions
    PROVE  /\ call.lines[n] \in Line /\ call.lines[n].id \in Offers
           /\ Offer(n).page \in Variants /\ n \in Nat \ {0} /\ n \in LinesOf(n)
           /\ LinesOf(n) \in SUBSET Positions
<1>1. call.lines \in Seq(Line) /\ n \in 1..Len(call.lines)
    BY DEF TypeOK, Call, Positions
<1>2. call.lines[n] \in Line
    BY <1>1
<1> QED BY <1>1, <1>2, CheckoutAssumption DEF Line, Offer, CheckoutAssumption, LinesOf

(* No step forgets a shelf of a moment of the call.                        *)
SeenGrows == \A v \in Variants : seen[v] \subseteq seen'[v]

(* What is known of a line stays known while the lines stay and no shelf   *)
(* is forgotten.                                                           *)
LEMMA PositionKept ==
    ASSUME TypeOK, call'.kind = call.kind, call'.lines = call.lines, SeenGrows,
           NEW n \in Positions, NEW job, NEW r
    PROVE  /\ Sold(n) => Sold(n)'
           /\ Filled(n, job)' = Filled(n, job)
           /\ Fresh(n, r) => Fresh(n, r)'
           /\ Honest(n, r)' = Honest(n, r)
<1>1. Sold(n) => Sold(n)'
    BY SameLines, PagesKnown DEF Sold, SeenGrows
<1>2. Filled(n, job)' = Filled(n, job)
    BY SameLines DEF Filled
<1>3. Fresh(n, r) => Fresh(n, r)'
    <2>1. Offer(n)' = Offer(n) /\ seen[Offer(n).page] \subseteq seen'[Offer(n).page]
        BY SameLines, PagesKnown DEF SeenGrows
    <2>2. Withheld(n) => Withheld(n)'
        BY <2>1 DEF Withheld
    <2>3. Kept(n, r.status, r.count) => Kept(n, r.status, r.count)'
        BY <2>1 DEF Kept
    <2>4. call'.lines[n] = call.lines[n]
        OBVIOUS
    <2> QED BY <1>1, <2>2, <2>3, <2>4 DEF Fresh
<1>4. Honest(n, r)' = Honest(n, r)
    <2>1. LinesOf(n)' = LinesOf(n)
        BY SameLines
    <2>2. \A m : CartName(m)' = CartName(m)
        BY SameLines
    <2>3. \A v : NoticesOf(r, v)' = NoticesOf(r, v)
        BY SameLines DEF NoticesOf
    <2>4. \A v : UnitsAsked(LinesOf(n), v)' = UnitsAsked(LinesOf(n), v)
        BY <2>1, SameLines
    <2>5. \A v : HonestOf(n, r, v)' = HonestOf(n, r, v)
        BY <2>3, <2>4 DEF HonestOf
    <2> QED BY <2>1, <2>2, <2>5 DEF Honest
<1> QED BY <1>1, <1>2, <1>3, <1>4

(* How far a call comes matters only to what still runs.                   *)
LEMMA TaskKept ==
    ASSUME TypeOK, call'.kind = call.kind, call'.lines = call.lines, SeenGrows,
           NEW n \in Positions, NEW job, TaskHolds(n, job),
           job.step = "none" \/ call'.step = call.step, task'[n] = job
    PROVE  TaskHolds(n, task[n])'
<1>1. /\ Positions' = Positions /\ Checking' = Checking /\ LinesOf(n)' = LinesOf(n)
      /\ \A m : Host(m)' = Host(m)
    BY SameLines
<1>2. (Sold(n) => Sold(n)') /\ Filled(n, job)' = Filled(n, job)
    BY PositionKept
<1>3. TaskHolds(n, job)'
    <2>1. CASE job.step = "none"
        BY <2>1 DEF TaskHolds, AtStore
    <2>2. CASE call'.step = call.step
        BY <1>1, <1>2, <2>2 DEF TaskHolds
    <2> QED BY <2>1, <2>2
<1>4. Filled(n, task[n])' = Filled(n, job)'
    BY DEF Filled
<1> QED BY <1>3, <1>4 DEF TaskHolds

(* An answer that stays where it is stays true.                            *)
LEMMA ResultKept ==
    ASSUME TypeOK, call'.kind = call.kind, call'.lines = call.lines, SeenGrows,
           NEW n \in Positions, NEW r, ResultHolds(n, r),
           call'.step = call.step \/ call'.step \in {"working", "answered"},
           Len(orders) = 1 => Len(orders') = 1, results'[n] = r
    PROVE  ResultHolds(n, results[n])'
<1>1. Checking' = Checking
    BY SameLines
<1>2. (Fresh(n, r) => Fresh(n, r)') /\ Honest(n, r)' = Honest(n, r)
    BY PositionKept
<1>3. ResultHolds(n, r)'
    BY <1>1, <1>2 DEF ResultHolds
<1>4. Fresh(n, results[n])' = Fresh(n, r)'
    BY DEF Fresh
<1>5. Honest(n, results[n])' = Honest(n, r)'
    BY DEF Honest, HonestOf, NoticesOf
<1> QED BY <1>3, <1>4, <1>5 DEF ResultHolds

-----------------------------------------------------------------------------
(* One goroutine goes on                                                   *)

(* The goroutines inside the gate can be counted.                          *)
LEMMA RunningFinite ==
    ASSUME TypeOK
    PROVE  /\ IsFiniteSet(Positions) /\ IsFiniteSet(Running)
           /\ Cardinality(Running) \in Nat /\ MaxConcurrent \in Nat \ {0}
<1>1. call.lines \in Seq(Line)
    BY DEF TypeOK, Call
<1>2. IsFiniteSet(Positions)
    BY <1>1, FinitePositions
<1>3. Running \in SUBSET Positions
    BY DEF Running
<1>4. IsFiniteSet(Running)
    BY <1>2, <1>3, FS_Subset
<1> QED BY <1>2, <1>4, FS_CardinalityType, CheckoutAssumption DEF CheckoutAssumption

(* A goroutine gets in where the gate lets it, and no other does.          *)
LEMMA GateKept ==
    ASSUME TypeOK, \A n \in Positions : TaskHolds(n, task[n]), UNCHANGED call,
           NEW n \in Positions, task[n].step # "none", DOMAIN task' = Positions,
           \A m \in Positions \ {n} : task'[m].step = task[m].step,
           \/ task'[n].step = "none" \/ task[n].step # "waiting"
           \/ call.kind \in {"verify", "order"} \/ GateOpen
    PROVE  call.kind # "verify" => Cardinality(Running)' <= MaxConcurrent
<1> SUFFICES ASSUME call.kind # "verify" PROVE Cardinality(Running)' <= MaxConcurrent
    OBVIOUS
<1>1. /\ IsFiniteSet(Running) /\ Cardinality(Running) \in Nat /\ MaxConcurrent \in Nat \ {0}
      /\ Cardinality(Running) <= MaxConcurrent
    BY RunningFinite DEF TypeOK
<1>2. Positions' = Positions
    BY SameLines
<1>3. Running' \in SUBSET (Running \union {n})
    BY <1>2 DEF Running
<1>4. CASE n \in Running \/ task'[n].step = "none"
    <2>1. Running' \in SUBSET Running
        BY <1>2, <1>4 DEF Running
    <2>2. IsFiniteSet(Running') /\ Cardinality(Running') <= Cardinality(Running)
        BY <2>1, <1>1, FS_Subset
    <2>3. Cardinality(Running') \in Nat
        BY <2>2, FS_CardinalityType
    <2> QED BY <1>1, <2>2, <2>3
<1>5. CASE n \notin Running /\ call.kind = "order"
    <2>1. \A m \in Positions : task[m].step # "none" => m = 1
        BY <1>5 DEF TaskHolds
    <2>2. Running' \in SUBSET {n}
        BY <2>1, <1>3 DEF Running
    <2>3. IsFiniteSet({n}) /\ Cardinality({n}) = 1
        BY FS_Singleton
    <2>4. IsFiniteSet(Running') /\ Cardinality(Running') <= 1
        BY <2>2, <2>3, FS_Subset
    <2>5. Cardinality(Running') \in Nat
        BY <2>4, FS_CardinalityType
    <2> QED BY <1>1, <2>4, <2>5
<1>6. CASE n \notin Running /\ GateOpen
    <2>1. IsFiniteSet(Running \union {n}) /\ Cardinality(Running \union {n}) <= Cardinality(Running) + 1
        <3>1. PICK S : S = Running
            OBVIOUS
        <3>2. IsFiniteSet(S \union {n}) /\ Cardinality(S \union {n}) = IF n \in S THEN Cardinality(S) ELSE Cardinality(S) + 1
            BY <1>1, <3>1, FS_AddElement
        <3> QED BY <1>1, <3>1, <3>2
    <2>2. Cardinality(Running \union {n}) \in Nat
        BY <2>1, FS_CardinalityType
    <2>3. IsFiniteSet(Running') /\ Cardinality(Running') <= Cardinality(Running \union {n})
        BY <1>3, <2>1, FS_Subset
    <2>4. Cardinality(Running') \in Nat
        BY <2>3, FS_CardinalityType
    <2>5. Cardinality(Running) < MaxConcurrent
        BY <1>6 DEF GateOpen
    <2> QED BY <1>1, <2>1, <2>2, <2>3, <2>4, <2>5
<1>7. n \in Running \/ task[n].step = "waiting"
    BY DEF Running
<1> QED BY <1>4, <1>5, <1>6, <1>7

(* What the steps of goroutines leave alone.                               *)
CallRests ==
    /\ UNCHANGED <<call, search, world>>
    /\ faults' \in 0..MaxFaults

LEMMA CallRested ==
    ASSUME TypeOK, LinesHold, PagesHold, SeenHolds, CallRests
    PROVE  /\ LinesHold' /\ PagesHold' /\ SeenHolds' /\ SeenGrows /\ Positions' = Positions
           /\ call' = call /\ call' \in Call
<1>1. UNCHANGED <<call, landed, lapsed, shelf, seen>>
    BY DEF CallRests, search, world
<1>2. Positions' = Positions /\ Valued' = Valued
    BY <1>1, SameLines
<1>3. LinesHold' /\ SeenHolds' /\ SeenGrows
    BY <1>1, <1>2 DEF LinesHold, SeenHolds, SeenGrows
<1>4. CollectedAll' = CollectedAll
    BY <1>1, <1>2 DEF CollectedAll
<1>5. PagesHold'
    BY <1>1, <1>4 DEF PagesHold
<1> QED BY <1>1, <1>2, <1>3, <1>5 DEF TypeOK

(* A goroutine that goes on, and has not ended, disturbs nobody else.      *)
LEMMA Moves ==
    ASSUME CheckoutInv, CallRests, UNCHANGED <<results, orders>>,
           NEW n \in Positions, task[n].step # "none",
           NEW job \in Task, job.step # "none", task' = [task EXCEPT ![n] = job],
           TaskHolds(n, job),
           task[n].step # "waiting" \/ call.kind \in {"verify", "order"} \/ GateOpen
    PROVE  CheckoutInv'
<1>1. /\ TypeOK /\ LinesHold /\ PagesHold /\ SeenHolds /\ OrdersHold
      /\ \A m \in Positions : TaskHolds(m, task[m]) /\ ResultHolds(m, results[m])
    BY DEF CheckoutInv
<1>2. /\ LinesHold' /\ PagesHold' /\ SeenHolds' /\ SeenGrows /\ Positions' = Positions
      /\ call' = call /\ call' \in Call
    BY <1>1, CallRested
<1>3. task' \in [Positions -> Task] /\ task'[n] = job /\ \A m \in Positions \ {n} : task'[m] = task[m]
    BY <1>1 DEF TypeOK
<1>4. call.kind # "verify" => Cardinality(Running)' <= MaxConcurrent
    BY <1>1, <1>2, <1>3, GateKept
<1>5. TypeOK'
    BY <1>1, <1>2, <1>3, <1>4 DEF TypeOK, CallRests, search, world
<1>6. \A m \in Positions : TaskHolds(m, task[m])' /\ ResultHolds(m, results[m])'
    <2> SUFFICES ASSUME NEW m \in Positions PROVE TaskHolds(m, task[m])' /\ ResultHolds(m, results[m])'
        OBVIOUS
    <2>1. PICK later : later = task'[m]
        OBVIOUS
    <2>2. PICK r : r = results[m]
        OBVIOUS
    <2>3. TaskHolds(m, later)
        BY <1>1, <1>3, <2>1
    <2>4. TaskHolds(m, task[m])'
        BY <1>1, <1>2, <2>1, <2>3, TaskKept
    <2>5. ResultHolds(m, r) /\ results'[m] = r
        BY <1>1, <2>2
    <2>6. ResultHolds(m, results[m])'
        BY <1>1, <1>2, <2>5, ResultKept
    <2> QED BY <2>4, <2>6
<1>7. orders = <<>>
    BY <1>1 DEF OrdersHold
<1>8. OrdersHold'
    BY <1>7 DEF OrdersHold
<1>9. \A m \in Positions' : TaskHolds(m, task[m])' /\ ResultHolds(m, results[m])'
    BY <1>2, <1>6
<1> QED BY <1>2, <1>5, <1>8, <1>9 DEF CheckoutInv

(* A goroutine that ends writes its own answer, whatever became of the     *)
(* orders.                                                                 *)
LEMMA Answered ==
    ASSUME CheckoutInv, CallRests, NEW n \in Positions, task[n].step # "none",
           NEW r \in Result, ResultHolds(n, r)', Ends(n, r),
           OrdersHold', orders' \in Seq([cart : Cart, cut : SUBSET Variants]),
           Len(orders) = 1 => Len(orders') = 1
    PROVE  CheckoutInv'
<1>1. /\ TypeOK /\ LinesHold /\ PagesHold /\ SeenHolds
      /\ \A m \in Positions : TaskHolds(m, task[m]) /\ ResultHolds(m, results[m])
    BY DEF CheckoutInv
<1>2. /\ LinesHold' /\ PagesHold' /\ SeenHolds' /\ SeenGrows /\ Positions' = Positions
      /\ call' = call /\ call' \in Call
    BY <1>1, CallRested
<1>3. task' = [task EXCEPT ![n].step = "none"] /\ results' = [results EXCEPT ![n] = r]
    BY DEF Ends, Leaves, Place
<1>4. /\ task' \in [Positions -> Task] /\ task'[n].step = "none"
      /\ \A m \in Positions \ {n} : task'[m] = task[m]
    <2> DEFINE done == [task[n] EXCEPT !.step = "none"]
    <2>1. task \in [Positions -> Task] /\ task[n] \in Task
        BY <1>1 DEF TypeOK
    <2>2. done \in Task /\ done.step = "none"
        BY <2>1 DEF Task, Steps
    <2>3. task' = [task EXCEPT ![n] = done]
        BY <1>3, <2>1
    <2> HIDE DEF done
    <2> QED BY <2>1, <2>2, <2>3
<1>5. /\ results' \in [Positions -> Result \union {None}] /\ results'[n] = r
      /\ \A m \in Positions \ {n} : results'[m] = results[m]
    BY <1>1, <1>3 DEF TypeOK
<1>6. call.kind # "verify" => Cardinality(Running)' <= MaxConcurrent
    BY <1>1, <1>2, <1>4, GateKept
<1>7. TypeOK'
    BY <1>1, <1>2, <1>4, <1>5, <1>6 DEF TypeOK, CallRests, search, world
<1>8. \A m \in Positions : TaskHolds(m, task[m])' /\ ResultHolds(m, results[m])'
    <2> SUFFICES ASSUME NEW m \in Positions PROVE TaskHolds(m, task[m])' /\ ResultHolds(m, results[m])'
        OBVIOUS
    <2>1. PICK later : later = task'[m]
        OBVIOUS
    <2>2. TaskHolds(m, later)
        <3>1. CASE m = n
            BY <1>4, <2>1, <3>1 DEF TaskHolds, AtStore
        <3>2. CASE m # n
            BY <1>1, <1>4, <2>1, <3>2
        <3> QED BY <3>1, <3>2
    <2>3. TaskHolds(m, task[m])'
        BY <1>1, <1>2, <2>1, <2>2, TaskKept
    <2>4. ResultHolds(m, results[m])'
        <3>1. CASE m = n
            <4>1. Fresh(n, results[n])' = Fresh(n, r)'
                BY <1>5 DEF Fresh
            <4>2. Honest(n, results[n])' = Honest(n, r)'
                BY <1>5 DEF Honest, HonestOf, NoticesOf
            <4> QED BY <1>5, <3>1, <4>1, <4>2 DEF ResultHolds
        <3>2. CASE m # n
            <4>1. PICK kept : kept = results[m]
                OBVIOUS
            <4>2. ResultHolds(m, kept) /\ results'[m] = kept
                BY <1>1, <1>5, <3>2, <4>1
            <4> QED BY <1>1, <1>2, <4>2, ResultKept
        <3> QED BY <3>1, <3>2
    <2> QED BY <2>3, <2>4
<1>9. \A m \in Positions' : TaskHolds(m, task[m])' /\ ResultHolds(m, results[m])'
    BY <1>2, <1>8
<1> QED BY <1>2, <1>7, <1>9 DEF CheckoutInv

(* Likewise when it made no order.                                         *)
LEMMA Ending ==
    ASSUME CheckoutInv, CallRests, UNCHANGED orders, NEW n \in Positions, task[n].step # "none",
           NEW r \in Result, ResultHolds(n, r), Ends(n, r)
    PROVE  CheckoutInv'
<1>1. TypeOK /\ OrdersHold
    BY DEF CheckoutInv
<1>2. orders = <<>>
    BY <1>1 DEF OrdersHold
<1>3. OrdersHold' /\ orders' \in Seq([cart : Cart, cut : SUBSET Variants])
    BY <1>1, <1>2 DEF OrdersHold, TypeOK
<1>4. call' = call /\ SeenGrows
    BY DEF CallRests, world, SeenGrows
<1>5. Checking' = Checking
    BY <1>4, SameLines
<1>6. (Fresh(n, r) => Fresh(n, r)') /\ Honest(n, r)' = Honest(n, r)
    BY <1>1, <1>4, PositionKept
<1>7. ResultHolds(n, r)'
    BY <1>4, <1>5, <1>6 DEF ResultHolds
<1> QED BY <1>3, <1>7, Answered

-----------------------------------------------------------------------------
(* Into the store, and readings of stock                                   *)

(* A goroutine that has begun works for a call that is at work.            *)
LEMMA TaskBegun ==
    ASSUME CheckoutInv, NEW n \in Positions, task[n].step # "none"
    PROVE  /\ TypeOK /\ TaskHolds(n, task[n]) /\ task[n] \in Task
           /\ call.step \in {"working", "answered"} /\ call.kind \in Kinds
    BY DEF CheckoutInv, TypeOK, TaskHolds, Call

(* A step of a goroutine to another step of the call, nothing more.        *)
LEMMA GoesTo ==
    ASSUME CheckoutInv, CallRests, UNCHANGED orders, NEW n \in Positions, task[n].step # "none",
           NEW step \in Steps \ {"none"}, At(n, step), TaskHolds(n, [task[n] EXCEPT !.step = step]),
           task[n].step # "waiting"
    PROVE  CheckoutInv'
<1> DEFINE job == [task[n] EXCEPT !.step = step]
<1>1. task[n] \in Task /\ task \in [Positions -> Task]
    BY TaskBegun DEF TypeOK
<1>2. job \in Task /\ job.step = step
    BY <1>1 DEF Task
<1>3. task' = [task EXCEPT ![n] = job] /\ UNCHANGED results
    BY <1>1 DEF At
<1> HIDE DEF job
<1>4. TaskHolds(n, job)
    BY DEF job
<1> QED BY <1>2, <1>3, <1>4, Moves

(* Taking the gate keeps the invariant: it lets a goroutine in where there *)
(* is room.                                                                *)
LEMMA TakeGateKeeps ==
    ASSUME CheckoutInv, NEW n \in Positions, TakeGate(n)
    PROVE  CheckoutInv'
<1> DEFINE job == [task[n] EXCEPT !.step = "asking"]
<1>1. task[n].step = "waiting" /\ task[n] \in Task /\ task \in [Positions -> Task] /\ TaskHolds(n, task[n])
    BY TaskBegun DEF TypeOK, TakeGate
<1>2. job \in Task /\ job.step = "asking" /\ job.at = task[n].at /\ job.cart = task[n].cart /\ job.cut = task[n].cut
    BY <1>1 DEF Task, Steps
<1>3. task' = [task EXCEPT ![n] = job]
    BY <1>1 DEF TakeGate
<1> HIDE DEF job
<1>4. TaskHolds(n, job)
    BY <1>1, <1>2 DEF TaskHolds, AtStore
<1>5. CallRests
    BY DEF CheckoutInv, TypeOK, TakeGate, CallRests
<1>6. UNCHANGED <<results, orders>> /\ (call.kind \in {"verify", "order"} \/ GateOpen)
    BY DEF TakeGate
<1> QED BY <1>1, <1>2, <1>3, <1>4, <1>5, <1>6, Moves

(* A fault stays within the bound.                                         *)
LEMMA FaultCounted ==
    ASSUME TypeOK, Faulty
    PROVE  faults' \in 0..MaxFaults
<1>1. faults \in 0..MaxFaults /\ MaxFaults \in Nat
    BY CheckoutAssumption DEF TypeOK, CheckoutAssumption
<1> QED BY <1>1 DEF Faulty

(* A reading of what is known while the call runs.                         *)
LEMMA Told ==
    ASSUME CheckoutInv, CallRests, UNCHANGED orders, NEW n \in Positions, task[n].step # "none", Checking,
           NEW status \in {"available", "unavailable", "unknown", "kept"},
           NEW count \in Nat \union {None},
           status = "available" => count # 0 /\ Sold(n),
           status = "unavailable" \/ count = 0 => Withheld(n),
           count \notin {None, 0} => Kept(n, status, count),
           status = "kept" => count = None,
           Ends(n, Reading(n, status, count))
    PROVE  CheckoutInv'
<1> DEFINE r == Reading(n, status, count)
<1>1. TypeOK /\ call.step \in {"working", "answered"}
    BY TaskBegun
<1>2. r \in Result /\ r.id = call.lines[n].id /\ r.status = status /\ r.count = count
    <2>1. call.lines[n].id \in Offers
        BY <1>1, PagesKnown
    <2> QED BY <2>1 DEF Reading, Result
<1>3. Ends(n, r)
    OBVIOUS
<1> HIDE DEF r
<1>4. Fresh(n, r)
    BY <1>2 DEF Fresh
<1>5. ResultHolds(n, r)
    BY <1>1, <1>4 DEF ResultHolds, Checking
<1> QED BY <1>2, <1>3, <1>5, Ending

(* None is no number.                                                      *)
LEMMA NoneIsNoNumber == None \notin Nat /\ None # 0
<1>1. None \notin Nat
    BY CheckoutAssumption DEF CheckoutAssumption
<1> QED BY <1>1

(* The page a goroutine asks now shows a shelf of this call.               *)
LEMMA PageSeen ==
    ASSUME CheckoutInv, NEW n \in Positions, task[n].step # "none", NEW s, s = shelf[Offer(n).page]
    PROVE  /\ Offer(n).page \in Variants /\ s \in Shelves[Offer(n).page]
           /\ s \in seen[Offer(n).page]
           /\ s.units \in Nat /\ s.sale \in {"open", "closed", "unclear"}
           /\ s.count \in {"kept", "unlimited", "missing"}
           /\ Sells(s) => Sold(n)
           /\ ~Sells(s) => Withheld(n)
<1>1. TypeOK /\ SeenHolds /\ call.step # "new"
    BY TaskBegun DEF CheckoutInv
<1>2. Offer(n).page \in Variants
    BY <1>1, PagesKnown
<1>3. s \in seen[Offer(n).page]
    BY <1>1, <1>2 DEF SeenHolds
<1>4. s \in Shelf /\ s \in Shelves[Offer(n).page]
    BY <1>1, <1>2 DEF TypeOK
<1>5. /\ s.units \in Nat /\ s.sale \in {"open", "closed", "unclear"}
      /\ s.count \in {"kept", "unlimited", "missing"}
    BY <1>4, CheckoutAssumption DEF Shelf, CheckoutAssumption
<1>6. (Sells(s) => Sold(n)) /\ (~Sells(s) => Withheld(n))
    BY <1>3 DEF Sold, Withheld
<1> QED BY <1>2, <1>3, <1>4, <1>5, <1>6

(* A reading of the shelf of this moment is fresh.                         *)
LEMMA ReadNow ==
    ASSUME CheckoutInv, CallRests, UNCHANGED orders, NEW n \in Positions, task[n].step # "none", Checking,
           NEW s, s = shelf[Offer(n).page],
           NEW status \in {"available", "unavailable", "unknown", "kept"},
           NEW count \in Nat \union {None},
           status = "available" => count # 0 /\ Sells(s),
           status = "unavailable" \/ count = 0 => ~Sells(s),
           count \notin {None, 0} => /\ s.count = "kept" /\ s.units = count
                                     /\ status = "available" \/ s.sale # "open",
           status = "kept" => count = None,
           Ends(n, Reading(n, status, count))
    PROVE  CheckoutInv'
<1>1. s \in seen[Offer(n).page] /\ (Sells(s) => Sold(n)) /\ (~Sells(s) => Withheld(n))
    BY PageSeen
<1>2. count \notin {None, 0} => Kept(n, status, count)
    BY <1>1, Zenon DEF Kept
<1> QED BY <1>1, <1>2, Told

(* CheckStock reads the list, the page or the form of the offer; the units *)
(* may be counted next.                                                    *)
LEMMA CheckStockKeeps ==
    ASSUME CheckoutInv, NEW n \in Positions, CheckStock(n)
    PROVE  CheckoutInv'
<1> DEFINE v == Offer(n).page
           s == shelf[v]
<1>1. /\ Checking /\ task[n].step = "asking" /\ TypeOK /\ call.step \in {"working", "answered"}
      /\ TaskHolds(n, task[n])
    BY TaskBegun DEF CheckStock
<1>2. /\ v \in Variants /\ s \in Shelves[v] /\ s.units \in Nat /\ s.sale \in {"open", "closed", "unclear"}
      /\ s.count \in {"kept", "unlimited", "missing"} /\ (Sells(s) => Sold(n))
    BY <1>1, PageSeen
<1>3. CallRests /\ UNCHANGED orders
    BY <1>1 DEF CheckStock, CallRests, TypeOK
<1>4. ASSUME NEW status \in {"available", "unavailable", "unknown", "kept"},
             NEW count \in Nat \union {None},
             status = "available" => count # 0 /\ Sells(s),
             status = "unavailable" \/ count = 0 => ~Sells(s),
             count \notin {None, 0} => /\ s.count = "kept" /\ s.units = count
                                       /\ status = "available" \/ s.sale # "open",
             status = "kept" => count = None,
             Ends(n, Reading(n, status, count))
      PROVE  CheckoutInv'
    BY <1>1, <1>3, <1>4, ReadNow
<1> HIDE DEF s
<1>5. ASSUME NEW status \in {"unknown", "kept"}, Ends(n, Reading(n, status, None)) PROVE CheckoutInv'
    <2>1. /\ status \in {"available", "unavailable", "unknown", "kept"}
          /\ status # "available" /\ status # "unavailable"
        OBVIOUS
    <2> QED BY <1>4, <1>5, <2>1, NoneIsNoNumber, Zenon
<1>6. ASSUME Ends(n, Reading(n, "unavailable", 0)), ~Sells(s) PROVE CheckoutInv'
    BY <1>4, <1>6
<1>7. ASSUME Ends(n, Reading(n, "available", s.units)), Sells(s), s.count = "kept", s.units # 0 PROVE CheckoutInv'
    BY <1>2, <1>4, <1>7
<1>8. ASSUME NEW status \in {"available", "unavailable"}, Ends(n, Reading(n, status, None)),
             status = "available" <=> Sells(s)
      PROVE CheckoutInv'
    <2>1. status \in {"available", "unavailable", "unknown", "kept"} /\ status # "kept"
        OBVIOUS
    <2>2. status = "unavailable" => ~Sells(s)
        BY <1>8
    <2> QED BY <1>4, <1>8, <2>1, <2>2, NoneIsNoNumber, Zenon
<1>9. ASSUME s.count = "kept", Ends(n, Counted(n, s)) PROVE CheckoutInv'
    <2>1. CASE s.sale = "closed" \/ s.units = 0
        BY <1>6, <1>9, <2>1 DEF Counted, Sells
    <2>2. CASE ~(s.sale = "closed" \/ s.units = 0)
        <3>1. Sells(s)
            BY <1>2, <2>2 DEF Sells
        <3> QED BY <1>7, <1>9, <2>2, <3>1 DEF Counted
    <2> QED BY <2>1, <2>2
<1>10. ASSUME Ends(n, Reading(n, PageStatus(s), None)) PROVE CheckoutInv'
    <2>1. \/ PageStatus(s) = "unknown"
          \/ PageStatus(s) \in {"available", "unavailable"} /\ (PageStatus(s) = "available" <=> Sells(s))
        BY DEF PageStatus
    <2> QED BY <1>5, <1>8, <1>10, <2>1
<1>11. ASSUME Ends(n, Reading(n, FormStatus(s), FormCount(s))) PROVE CheckoutInv'
    <2>1. /\ FormCount(s) \in Nat \union {None}
          /\ FormCount(s) # None => s.count = "kept" /\ s.units = FormCount(s)
        BY <1>2 DEF FormCount
    <2>2. /\ FormStatus(s) \in {"available", "unavailable", "unknown"}
          /\ FormStatus(s) = "available" => Sells(s)
          /\ FormStatus(s) = "unavailable" => ~Sells(s)
          /\ FormStatus(s) # "available" /\ Sells(s) => s.sale # "open" \/ s.count # "kept"
        BY <1>2 DEF FormStatus, Sells
    <2>3. FormCount(s) = 0 => ~Sells(s)
        BY <1>2, <2>1, NoneIsNoNumber DEF Sells
    <2>4. FormCount(s) \notin {None, 0} /\ s.sale = "open" => Sells(s)
        BY <1>2, <2>1 DEF Sells
    <2> HIDE DEF FormCount
    <2> QED BY <1>4, <1>11, <2>1, <2>2, <2>3, <2>4
<1>12. ASSUME At(n, "counting"), Sells(s) PROVE CheckoutInv'
    <2> DEFINE job == [task[n] EXCEPT !.step = "counting"]
    <2>1. task[n] \in Task
        BY <1>1, TaskBegun
    <2>2. job.step = "counting"
        BY <2>1 DEF Task
    <2>3. TaskHolds(n, job)
        BY <1>1, <1>2, <1>12, <2>2 DEF TaskHolds, AtStore
    <2> QED BY <1>1, <1>3, <1>12, <2>3, GoesTo DEF Steps
<1>13. CASE CheckList(n)
    <2>1. CASE ~ListOf(n)
        <3>1. Ends(n, Reading(n, "unknown", None)) \/ Ends(n, Reading(n, "kept", None))
            BY <1>13, <2>1 DEF CheckList, Unread
        <3> QED BY <1>5, <3>1
    <2>2. CASE ListOf(n)
        <3>1. FreshList[v] = s.units
            BY <1>2, <2>2 DEF FreshList, ListOf, s
        <3>2. s.sale = "open" /\ s.count = "kept"
            BY <1>2, <2>2, CheckoutAssumption DEF ListOf, CheckoutAssumption
        <3>3. Ends(n, IF s.units > 0 THEN Reading(n, "available", s.units) ELSE Reading(n, "unavailable", 0))
            BY <1>13, <2>2, <3>1 DEF CheckList
        <3>4. CASE s.units > 0
            BY <1>2, <1>7, <3>2, <3>3, <3>4 DEF Sells
        <3>5. CASE ~(s.units > 0)
            BY <1>2, <1>6, <3>2, <3>3, <3>5 DEF Sells
        <3> QED BY <3>4, <3>5
    <2> QED BY <2>1, <2>2
<1>14. CASE CheckShop(n)
    <2>1. ASSUME Ends(n, PageReading(n)) PROVE CheckoutInv'
        BY <1>9, <1>10, <2>1 DEF PageReading, s
    <2>2. ASSUME Ends(n, FormReading(n)) PROVE CheckoutInv'
        BY <1>11, <2>2 DEF FormReading, s
    <2>3. ASSUME CheckShopify(n) PROVE CheckoutInv'
        BY <1>5, <1>6, <1>12, <2>3 DEF CheckShopify, s
    <2> QED BY <1>5, <1>14, <2>1, <2>2, <2>3 DEF CheckShop
<1> QED BY <1>13, <1>14 DEF CheckStock

(* countUnits reads the number of units, which may have changed since the  *)
(* page was read, or fails and keeps what the page said.                   *)
LEMMA CountUnitsKeeps ==
    ASSUME CheckoutInv, NEW n \in Positions, CountUnits(n) \/ CountFails(n)
    PROVE  CheckoutInv'
<1> DEFINE s == shelf[Offer(n).page]
<1>1. task[n].step = "counting"
    BY DEF CountUnits, CountFails
<1>2. Checking /\ Sold(n) /\ TypeOK
    BY <1>1, TaskBegun DEF TaskHolds
<1>3. CallRests /\ UNCHANGED orders
    BY <1>2, FaultCounted DEF CountUnits, CountFails, CallRests, TypeOK
<1>4. s.units \in Nat /\ s \in seen[Offer(n).page]
    BY <1>1, PageSeen
<1>5. PICK count : /\ count = None \/ (count = s.units /\ s.count = "kept" /\ s.units > 0)
                   /\ Ends(n, Reading(n, "available", count))
    <2>1. CASE CountFails(n)
        BY <2>1 DEF CountFails
    <2>2. CASE CountUnits(n)
        <3>1. CASE Shows[Host(n)] = "count" /\ s.count = "kept" /\ s.units > 0
            BY <2>2, <3>1 DEF CountUnits
        <3>2. CASE ~(Shows[Host(n)] = "count" /\ s.count = "kept" /\ s.units > 0)
            BY <2>2, <3>2 DEF CountUnits
        <3> QED BY <3>1, <3>2
    <2> QED BY <2>1, <2>2
<1> HIDE DEF s
<1>6. count \in Nat \union {None} /\ count # 0
    BY <1>4, <1>5, NoneIsNoNumber
<1>7. count \notin {None, 0} => Kept(n, "available", count)
    BY <1>4, <1>5 DEF Kept
<1> QED BY <1>1, <1>2, <1>3, <1>5, <1>6, <1>7, Told

(* A check that fails says nothing of the offer, or leaves what the search *)
(* said.                                                                   *)
LEMMA CheckFailsKeeps ==
    ASSUME CheckoutInv, NEW n \in Positions, CheckFails(n)
    PROVE  CheckoutInv'
<1>1. Checking /\ task[n].step = "asking" /\ TypeOK
    BY TaskBegun DEF CheckFails
<1>2. CallRests /\ UNCHANGED orders
    BY <1>1, FaultCounted DEF CheckFails, CallRests
<1>3. Ends(n, Reading(n, "unknown", None)) \/ Ends(n, Reading(n, "kept", None))
    BY DEF CheckFails, Unread
<1>4. task[n].step # "none"
    BY <1>1
<1>5. ASSUME NEW status \in {"unknown", "kept"}, Ends(n, Reading(n, status, None)) PROVE CheckoutInv'
    <2>1. /\ status \in {"available", "unavailable", "unknown", "kept"}
          /\ status # "available" /\ status # "unavailable"
        OBVIOUS
    <2> QED BY <1>1, <1>2, <1>4, <1>5, <2>1, NoneIsNoNumber, Told, Zenon
<1> QED BY <1>3, <1>5

-----------------------------------------------------------------------------
(* Carts                                                                   *)

(* The units of two sets of lines that do not meet add up.                 *)
LEMMA UnitsSplit ==
    ASSUME call.lines \in Seq(Line), NEW S \in SUBSET Positions, NEW T \in SUBSET Positions,
           S \cap T = {}, NEW v
    PROVE  /\ UnitsAsked(S \union T, v) = UnitsAsked(S, v) + UnitsAsked(T, v)
           /\ UnitsAsked(S, v) \in Nat /\ UnitsAsked(T, v) \in Nat
<1> DEFINE Units(lines) == {mu \in lines \X (1..MaxLineUnits) :
                                mu[2] <= call.lines[mu[1]].units /\ CartName(mu[1]) = v}
           A == Units(S)
           B == Units(T)
<1>1. IsFiniteSet(1..MaxLineUnits)
    BY FS_Interval, CheckoutAssumption DEF CheckoutAssumption
<1>2. ASSUME NEW lines \in SUBSET Positions
      PROVE  IsFiniteSet(Units(lines)) /\ Cardinality(Units(lines)) \in Nat
    <2>1. IsFiniteSet(lines)
        BY FinitePositions
    <2>2. IsFiniteSet(lines \X (1..MaxLineUnits))
        BY <1>1, <2>1, FS_Product
    <2>3. Units(lines) \in SUBSET (lines \X (1..MaxLineUnits))
        OBVIOUS
    <2> HIDE DEF Units
    <2>4. IsFiniteSet(Units(lines))
        BY <2>2, <2>3, FS_Subset
    <2> QED BY <2>4, FS_CardinalityType
<1>3. Units(S \union T) = A \union B /\ A \cap B = {}
    OBVIOUS
<1>4. IsFiniteSet(A) /\ IsFiniteSet(B) /\ Cardinality(A) \in Nat /\ Cardinality(B) \in Nat
    BY <1>2
<1>5. UnitsAsked(S, v) = Cardinality(A) /\ UnitsAsked(T, v) = Cardinality(B)
    BY DEF UnitsAsked
<1>6. UnitsAsked(S \union T, v) = Cardinality(Units(S \union T))
    BY DEF UnitsAsked
<1> HIDE DEF A, B, Units
<1>7. Cardinality(A \union B) = Cardinality(A) + Cardinality(B) - Cardinality(A \cap B)
    BY <1>4, FS_Union
<1>8. Cardinality(A \cap B) = 0
    BY <1>3, FS_EmptySet
<1>9. Cardinality(A \union B) = Cardinality(A) + Cardinality(B)
    BY <1>4, <1>7, <1>8
<1>10. UnitsAsked(S \union T, v) = Cardinality(A \union B)
    BY <1>3, <1>6
<1> QED BY <1>4, <1>5, <1>9, <1>10

(* No lines ask for nothing.                                               *)
LEMMA NothingAsked ==
    ASSUME NEW v
    PROVE  UnitsAsked({}, v) = 0
<1>1. {mu \in {} \X (1..MaxLineUnits) : mu[2] <= call.lines[mu[1]].units /\ CartName(mu[1]) = v} = {}
    OBVIOUS
<1> QED BY <1>1, FS_EmptySet DEF UnitsAsked

(* What is known of a goroutine that has a cart.                           *)
LEMMA CartKnown ==
    ASSUME CheckoutInv, NEW n \in Positions, task[n].step \in AtStore
    PROVE  /\ TypeOK /\ Bounded /\ call.lines \in Seq(Line) /\ task[n] \in Task
           /\ call.kind \in {"quote", "order"} /\ ~Checking /\ call.step = "working"
           /\ Filled(n, task[n]) /\ TaskHolds(n, task[n])
           /\ orders = <<>>
           /\ LinesOf(n) \in SUBSET Positions /\ Positions \in SUBSET (Nat \ {0}) /\ IsFiniteSet(LinesOf(n))
<1>1. /\ TypeOK /\ LinesHold /\ OrdersHold /\ TaskHolds(n, task[n]) /\ task[n] \in Task
      /\ task[n].step # "none"
    BY TaskBegun DEF CheckoutInv, AtStore
<1>2. call.kind \in {"quote", "order"} /\ ~Checking /\ call.step = "working" /\ Filled(n, task[n])
    BY <1>1 DEF TaskHolds, Checking
<1>3. Valued
    BY <1>1, <1>2 DEF LinesHold
<1>4. Bounded
    BY <1>3, CheckoutAssumption DEF Bounded, Valued, CheckoutAssumption
<1>5. call.lines \in Seq(Line)
    BY <1>1 DEF TypeOK, Call
<1>6. orders = <<>>
    BY <1>1 DEF OrdersHold
<1>7. LinesOf(n) \in SUBSET Positions
    BY DEF LinesOf
<1>8. Positions = 1..Len(call.lines) /\ IsFiniteSet(LinesOf(n))
    BY <1>5, <1>7, FinitePositions
<1>9. Positions \in SUBSET (Nat \ {0})
    BY <1>5, <1>8
<1> QED BY <1>1, <1>2, <1>4, <1>5, <1>6, <1>7, <1>8, <1>9

(* What is left of a product is a number.                                  *)
LEMMA RoomIsNumber ==
    ASSUME TypeOK, NEW v \in Variants
    PROVE  Room(v) \in Nat
<1>1. shelf[v] \in Shelf /\ MaxUnits \in Nat
    BY CheckoutAssumption DEF TypeOK, CheckoutAssumption
<1> QED BY <1>1 DEF Room, Shelf

(* A cart that fails, or is refused, says so.                              *)
LEMMA FailedKeeps ==
    ASSUME CheckoutInv, CallRests, UNCHANGED orders, NEW n \in Positions, task[n].step # "none",
           ~Checking, NEW status \in {"noquote", "error"}, Ends(n, [status |-> status])
    PROVE  CheckoutInv'
<1> DEFINE r == [status |-> status]
<1>1. r \in Result /\ r.status = status
    BY DEF Result
<1>2. Ends(n, r)
    OBVIOUS
<1>3. call.step \in {"working", "answered"}
    BY TaskBegun
<1> HIDE DEF r
<1>4. ResultHolds(n, r)
    BY <1>1, <1>3 DEF ResultHolds
<1> QED BY <1>1, <1>2, <1>4, Ending

LEMMA RefusalsKeep ==
    ASSUME CheckoutInv, NEW n \in Positions, RefuseLines(n) \/ CartFails(n)
    PROVE  CheckoutInv'
<1>1. task[n].step \in AtStore
    BY DEF RefuseLines, CartFails, AtStore
<1>2. TypeOK /\ ~Checking
    BY <1>1, CartKnown
<1>3. CallRests /\ UNCHANGED orders
    BY <1>2, FaultCounted DEF RefuseLines, CartFails, CallRests, TypeOK
<1>4. Ends(n, [status |-> "error"])
    BY DEF RefuseLines, CartFails, Refused, Failed
<1> QED BY <1>1, <1>2, <1>3, <1>4, FailedKeeps DEF AtStore

(* A new cart is empty, and so are the lines put into it.                  *)
LEMMA OpenCartKeeps ==
    ASSUME CheckoutInv, NEW n \in Positions, OpenCart(n)
    PROVE  CheckoutInv'
<1>1. task[n].step = "asking" /\ call.kind \in {"quote", "order"} /\ TypeOK /\ TaskHolds(n, task[n]) /\ task[n] \in Task
    BY TaskBegun DEF OpenCart
<1>2. ~Checking
    BY <1>1 DEF Checking
<1>3. CallRests /\ UNCHANGED orders
    BY <1>1 DEF OpenCart, CallRests, TypeOK
<1>4. CASE CartRefused(n)
    <2>1. PICK status \in {"noquote", "error"} : Ends(n, [status |-> status])
        BY <1>4 DEF OpenCart
    <2> QED BY <1>1, <1>2, <1>3, <2>1, FailedKeeps
<1>5. CASE ~CartRefused(n)
    <2> DEFINE job == [task[n] EXCEPT !.step = "filling"]
    <2>1. job.step = "filling" /\ job.at = 0 /\ job.cart = Empty /\ job.cut = {}
        BY <1>1 DEF Task, TaskHolds
    <2>2. At(n, "filling")
        BY <1>5 DEF OpenCart
    <2> HIDE DEF job
    <2>3. {m \in LinesOf(n) : m <= 0} = {}
        <3>1. \A m \in LinesOf(n) : m \in Nat \ {0}
            BY <1>1, PagesKnown
        <3> QED BY <3>1
    <2>4. Filled(n, job)
        BY <2>1, <2>3, NothingAsked DEF Filled, Empty
    <2>5. \E m \in LinesOf(n) : m > 0
        BY <1>1, PagesKnown
    <2>6. TaskHolds(n, job)
        BY <1>1, <2>1, <2>4, <2>5 DEF TaskHolds, AtStore
    <2> QED BY <1>1, <1>3, <2>2, <2>6, GoesTo DEF Steps, job
<1> QED BY <1>4, <1>5

(* The lines of the next request come before all others that are left.     *)
LEMMA NextFirst ==
    ASSUME CheckoutInv, NEW n \in Positions, task[n].step = "filling"
    PROVE  /\ NextLines(n) # {} /\ NextLines(n) \subseteq Left(n) /\ Left(n) \subseteq LinesOf(n)
           /\ \A m \in NextLines(n) : \A k \in Left(n) \ NextLines(n) : m < k
           /\ \E m \in NextLines(n) : \A k \in NextLines(n) : k <= m
<1>1. /\ LinesOf(n) \in SUBSET Positions /\ Positions \in SUBSET (Nat \ {0}) /\ IsFiniteSet(LinesOf(n))
      /\ task[n] \in Task /\ \E m \in LinesOf(n) : m > task[n].at
    BY CartKnown DEF TaskHolds, AtStore
<1>2. Left(n) \in SUBSET LinesOf(n) /\ Left(n) # {} /\ Left(n) \in SUBSET Nat
    BY <1>1 DEF Left
<1>3. IsFiniteSet(Left(n))
    BY <1>1, <1>2, FS_Subset
<1>4. PICK first \in Left(n) : \A k \in Left(n) : first <= k
    BY <1>2, <1>3, SmallestOf
<1>5. PICK top \in Nat : \A k \in Left(n) : k <= top
    <2>1. call.lines \in Seq(Line)
        BY CartKnown DEF AtStore
    <2>2. Positions = 1..Len(call.lines) /\ Len(call.lines) \in Nat
        BY <2>1, FinitePositions
    <2>3. \A k \in Left(n) : k \in 1..Len(call.lines)
        BY <1>1, <1>2, <2>2
    <2> QED BY <2>2, <2>3
<1>6. PICK last \in Left(n) : \A k \in Left(n) : k <= last
    BY <1>2, <1>3, <1>5, LargestOf
<1>7. CASE Platform[Host(n)] = "shopify"
    BY <1>2, <1>6, <1>7 DEF NextLines
<1>8. CASE Platform[Host(n)] # "shopify"
    <2>1. NextLines(n) = {first}
        BY <1>2, <1>4, <1>8 DEF NextLines
    <2> QED BY <1>2, <1>4, <2>1
<1> QED BY <1>7, <1>8

(* fillCart puts the next line, or all of them, into the cart; the store   *)
(* may trim what it has not.                                               *)
LEMMA AddLinesKeeps ==
    ASSUME CheckoutInv, NEW n \in Positions, AddLines(n)
    PROVE  CheckoutInv'
<1> DEFINE more == NextLines(n)
           at == CHOOSE m \in more : \A k \in more : k <= m
           old == {m \in LinesOf(n) : m <= task[n].at}
           wanted == With(task[n].cart, more)
           cart == Holds(wanted)
           over == Trims(wanted)
           step == IF Left(n) = more THEN "reading" ELSE "filling"
           job == [step |-> step, at |-> at, cart |-> cart, cut |-> task[n].cut \union over]
<1>1. task[n].step = "filling" /\ task[n].step \in AtStore
    BY DEF AddLines, AtStore
<1>2. /\ TypeOK /\ Bounded /\ call.lines \in Seq(Line) /\ task[n] \in Task
      /\ call.kind \in {"quote", "order"} /\ call.step = "working"
      /\ Filled(n, task[n]) /\ TaskHolds(n, task[n])
      /\ LinesOf(n) \in SUBSET Positions /\ Positions \in SUBSET (Nat \ {0})
    BY <1>1, CartKnown
<1>3. /\ more # {} /\ more \subseteq Left(n) /\ Left(n) \subseteq LinesOf(n)
      /\ \A m \in more : \A k \in Left(n) \ more : m < k
      /\ \E m \in more : \A k \in more : k <= m
    BY <1>1, NextFirst
<1>4. task' = [task EXCEPT ![n] = job] /\ UNCHANGED <<results, orders>> /\ CallRests
    BY <1>2 DEF AddLines, CallRests, TypeOK
<1>5. \A v \in Variants : /\ Asked(more, v) = UnitsAsked(more, v) /\ Asked(more, v) \in Nat
                          /\ task[n].cart[v] \in Nat /\ Room(v) \in Nat
    <2>1. more \in SUBSET Positions
        BY <1>2, <1>3
    <2>2. \A v \in Variants : task[n].cart[v] \in Nat /\ Room(v) \in Nat
        BY <1>2, RoomIsNumber DEF Task, Cart
    <2> QED BY <1>2, <2>1, <2>2, AskedCounts
<1>6. cart \in Cart
    BY <1>5 DEF Cart, Holds, With
<1>7. over \in SUBSET Variants
    BY DEF Trims
<1>8. at \in more /\ \A k \in more : k <= at
    BY <1>3
<1> HIDE DEF at
<1>9. at \in LinesOf(n) /\ at \in Nat /\ at > task[n].at /\ task[n].at \in Nat
    BY <1>2, <1>3, <1>8 DEF Left, Task
<1>10. {m \in LinesOf(n) : m <= at} = old \union more /\ old \cap more = {}
    <2>1. ASSUME NEW m \in LinesOf(n), m <= at PROVE m \in old \union more
        <3>1. m \in Nat
            BY <1>2
        <3>2. m \in old \/ m \in Left(n)
            BY <1>9, <3>1 DEF Left
        <3> QED BY <1>3, <1>8, <1>9, <2>1, <3>1, <3>2
    <2>2. ASSUME NEW m \in old PROVE m <= at
        <3>1. m \in Nat
            BY <1>2
        <3> QED BY <1>9, <3>1
    <2>3. more \in SUBSET LinesOf(n) /\ \A m \in more : m <= at
        BY <1>3, <1>8
    <2>4. \A m \in more : ~(m <= task[n].at)
        <3>1. \A m \in more : m \in Nat /\ m > task[n].at
            BY <1>2, <1>3 DEF Left
        <3> QED BY <1>9, <3>1
    <2> QED BY <2>1, <2>2, <2>3, <2>4
<1>11. \A v \in Variants \ (task[n].cut \union over) :
            cart[v] = UnitsAsked({m \in LinesOf(n) : m <= at}, v)
    <2> SUFFICES ASSUME NEW v \in Variants \ (task[n].cut \union over)
                 PROVE  cart[v] = UnitsAsked({m \in LinesOf(n) : m <= at}, v)
        OBVIOUS
    <2>1. task[n].cart[v] = UnitsAsked(old, v)
        BY <1>2 DEF Filled
    <2>2. wanted[v] = task[n].cart[v] + Asked(more, v) /\ Fits(v, wanted[v])
        BY DEF Trims, With
    <2>3. cart[v] = task[n].cart[v] + Asked(more, v)
        BY <2>2 DEF Holds
    <2>4. old \in SUBSET Positions /\ more \in SUBSET Positions
        BY <1>2, <1>3
    <2>5. UnitsAsked(old \union more, v) = UnitsAsked(old, v) + UnitsAsked(more, v)
        BY <1>2, <1>10, <2>4, UnitsSplit
    <2> QED BY <1>5, <1>10, <2>1, <2>3, <2>5
<1>12. step = "filling" => \E m \in LinesOf(n) : m > at
    BY <1>3, <1>8
<1>13. step = "reading" => \A m \in LinesOf(n) : m <= at
    <2> SUFFICES ASSUME step = "reading", NEW m \in LinesOf(n) PROVE m <= at
        OBVIOUS
    <2>1. m \in Nat /\ (m \in Left(n) \/ m <= task[n].at)
        BY <1>2, <1>9 DEF Left
    <2>2. Left(n) = more
        OBVIOUS
    <2> QED BY <1>8, <1>9, <2>1, <2>2
<1>14. step \in {"reading", "filling"}
    OBVIOUS
<1> HIDE DEF more, wanted, cart, over, step, old
<1>15. job \in Task /\ job.step = step /\ job.at = at /\ job.cart = cart /\ job.cut = task[n].cut \union over
    BY <1>2, <1>6, <1>7, <1>9, <1>14 DEF Task, Steps
<1> HIDE DEF job
<1>16. Filled(n, job)
    BY <1>11, <1>15 DEF Filled
<1>17. TaskHolds(n, job)
    BY <1>1, <1>2, <1>12, <1>13, <1>14, <1>15, <1>16 DEF TaskHolds, AtStore
<1> QED BY <1>1, <1>4, <1>14, <1>15, <1>17, Moves

(* The first line of a product is the only one with a notice, and there is *)
(* one when the cart holds another number than was asked for.              *)
LEMMA QuoteIsHonest ==
    ASSUME TypeOK, Bounded, NEW n \in Positions, NEW cart
    PROVE  Honest(n, readQuote(n, cart)) /\ readQuote(n, cart).status = "quote"
           /\ (cart \in Cart => readQuote(n, cart) \in Result)
<1> DEFINE quote == readQuote(n, cart)
<1>1. quote.held = cart /\ quote.notices = Notices(n, cart) /\ quote.status = "quote"
    BY DEF readQuote
<1>2. call.lines \in Seq(Line) /\ LinesOf(n) \in SUBSET Positions
    BY DEF TypeOK, Call, LinesOf
<1>3. Positions = 1..Len(call.lines) /\ IsFiniteSet(LinesOf(n))
    BY <1>2, FinitePositions
<1>4. LinesOf(n) \in SUBSET Nat
    BY <1>2, <1>3
<1>5. cart \in Cart => quote \in Result
    BY <1>4 DEF readQuote, Result, Notices
<1> HIDE DEF quote
<1>6. ASSUME NEW m \in LinesOf(n) PROVE HonestOf(n, quote, CartName(m))
    <2> DEFINE v == CartName(m)
               same == {k \in LinesOf(n) : CartName(k) = v}
    <2>1. Asked(LinesOf(n), v) = UnitsAsked(LinesOf(n), v)
        BY <1>2, AskedCounts
    <2>2. same \in SUBSET LinesOf(n) /\ same # {} /\ same \in SUBSET Nat
        BY <1>4
    <2>3. IsFiniteSet(same)
        BY <1>3, <2>2, FS_Subset
    <2>4. PICK first \in same : \A k \in same : first <= k
        BY <2>2, <2>3, SmallestOf
    <2>5. NoticesOf(quote, v) = {k \in same : cart[v] # Asked(LinesOf(n), v) /\ \A j \in same : ~(j < k)}
        BY <1>1 DEF NoticesOf, Notices
    <2>6. CASE cart[v] = UnitsAsked(LinesOf(n), v)
        <3>1. NoticesOf(quote, v) = {}
            BY <2>1, <2>5, <2>6
        <3> QED BY <1>1, <2>6, <3>1, FS_EmptySet DEF HonestOf
    <2>7. CASE cart[v] # UnitsAsked(LinesOf(n), v)
        <3>1. NoticesOf(quote, v) = {first}
            BY <2>1, <2>2, <2>4, <2>5, <2>7
        <3> QED BY <1>1, <2>7, <3>1, FS_Singleton DEF HonestOf
    <2> QED BY <2>6, <2>7
<1>7. Honest(n, quote)
    BY <1>6 DEF Honest
<1> QED BY <1>1, <1>5, <1>7 DEF quote

(* A quote with one notice for each product trimmed is honest.             *)
LEMMA QuotedKeeps ==
    ASSUME CheckoutInv, CallRests, UNCHANGED orders, NEW n \in Positions, task[n].step \in AtStore,
           call.kind = "quote", NEW cart \in Cart, Ends(n, readQuote(n, cart))
    PROVE  CheckoutInv'
<1> DEFINE r == readQuote(n, cart)
<1>1. TypeOK /\ Bounded /\ ~Checking /\ call.step = "working"
    BY CartKnown
<1>2. Honest(n, r) /\ r.status = "quote" /\ r \in Result
    BY <1>1, QuoteIsHonest
<1>3. Ends(n, r)
    OBVIOUS
<1> HIDE DEF r
<1>4. ResultHolds(n, r)
    BY <1>1, <1>2 DEF ResultHolds
<1> QED BY <1>2, <1>3, <1>4, Ending DEF AtStore

(* The cart the store answers either is the quote or goes on to the rates. *)
LEMMA ReadCartKeeps ==
    ASSUME CheckoutInv, NEW n \in Positions, ReadCart(n)
    PROVE  CheckoutInv'
<1> DEFINE cart == Holds(task[n].cart)
           gone == Trims(task[n].cart)
           job == [task[n] EXCEPT !.step = "rates", !.cart = cart, !.cut = @ \union gone]
<1>1. task[n].step = "reading" /\ task[n].step \in AtStore
    BY DEF ReadCart, AtStore
<1>2. /\ TypeOK /\ Bounded /\ call.lines \in Seq(Line) /\ task[n] \in Task
      /\ call.kind \in {"quote", "order"} /\ call.step = "working"
      /\ Filled(n, task[n]) /\ TaskHolds(n, task[n])
    BY <1>1, CartKnown
<1>3. \A v \in Variants : task[n].cart[v] \in Nat /\ Room(v) \in Nat
    BY <1>2, RoomIsNumber DEF Task, Cart
<1>4. cart \in Cart
    BY <1>3 DEF Cart, Holds
<1>5. gone \in SUBSET Variants
    BY DEF Trims
<1>6. \A v \in Variants \ gone : cart[v] = task[n].cart[v]
    <2>1. \A v \in Variants \ gone : Fits(v, task[n].cart[v])
        BY DEF Trims
    <2> QED BY <1>3, <2>1 DEF Holds
<1>7. CallRests /\ UNCHANGED orders
    BY <1>2 DEF ReadCart, CallRests, TypeOK
<1>8. CASE call.kind = "quote" /\ Platform[Host(n)] = "woocommerce"
    <2>1. Ends(n, readQuote(n, cart))
        BY <1>8 DEF ReadCart
    <2> QED BY <1>1, <1>4, <1>7, <1>8, <2>1, QuotedKeeps
<1>9. CASE ~(call.kind = "quote" /\ Platform[Host(n)] = "woocommerce")
    <2>1. /\ task' = [task EXCEPT ![n].step = "rates", ![n].cart = cart, ![n].cut = @ \union gone]
          /\ UNCHANGED results
        BY <1>9 DEF ReadCart
    <2>2. task \in [Positions -> Task]
        BY <1>2 DEF TypeOK
    <2> HIDE DEF cart, gone
    <2>3. task' = [task EXCEPT ![n] = job]
        BY <2>1, <2>2
    <2>4. /\ job \in Task /\ job.step = "rates" /\ job.at = task[n].at /\ job.cart = cart
          /\ job.cut = task[n].cut \union gone
        BY <1>2, <1>4, <1>5 DEF Task, Steps
    <2> HIDE DEF job
    <2>5. Filled(n, job)
        BY <1>2, <1>6, <2>4 DEF Filled
    <2>6. TaskHolds(n, job)
        BY <1>1, <1>2, <2>4, <2>5 DEF TaskHolds, AtStore
    <2> QED BY <1>1, <1>7, <2>1, <2>3, <2>4, <2>6, Moves
<1> QED BY <1>8, <1>9

(* The rates give the quote, with a rate or without; an order needs one to *)
(* go on to the checkout.                                                  *)
LEMMA ReadRatesKeeps ==
    ASSUME CheckoutInv, NEW n \in Positions, ReadRates(n)
    PROVE  CheckoutInv'
<1>1. task[n].step = "rates" /\ task[n].step \in AtStore
    BY DEF ReadRates, AtStore
<1>2. /\ TypeOK /\ task[n] \in Task /\ call.kind \in {"quote", "order"} /\ call.step = "working" /\ ~Checking
      /\ Filled(n, task[n]) /\ TaskHolds(n, task[n])
    BY <1>1, CartKnown
<1>3. CallRests /\ UNCHANGED orders
    BY <1>2 DEF ReadRates, CallRests, TypeOK
<1>4. CASE call.kind = "quote"
    <2>1. Ends(n, readQuote(n, task[n].cart)) /\ task[n].cart \in Cart
        BY <1>2, <1>4 DEF ReadRates, Task
    <2> QED BY <1>1, <1>3, <1>4, <2>1, QuotedKeeps
<1>5. CASE call.kind = "order" /\ Ends(n, Failed)
    <2>1. Ends(n, [status |-> "error"])
        BY <1>5 DEF Failed
    <2> QED BY <1>1, <1>2, <1>3, <2>1, FailedKeeps
<1>6. CASE call.kind = "order" /\ At(n, "checkout")
    <2> DEFINE job == [task[n] EXCEPT !.step = "checkout"]
    <2>1. job.step = "checkout" /\ job.at = task[n].at /\ job.cart = task[n].cart /\ job.cut = task[n].cut
        BY <1>2 DEF Task
    <2> HIDE DEF job
    <2>2. Filled(n, job)
        BY <1>2, <2>1 DEF Filled
    <2>3. TaskHolds(n, job)
        BY <1>1, <1>2, <1>6, <2>1, <2>2 DEF TaskHolds, AtStore
    <2> QED BY <1>1, <1>3, <1>6, <2>3, GoesTo DEF Steps, job
<1> QED BY <1>2, <1>4, <1>5, <1>6 DEF ReadRates

(* The checkout makes the order, or fails having made it or not; nobody    *)
(* asks for it again.                                                      *)
LEMMA CheckOutKeeps ==
    ASSUME CheckoutInv, NEW n \in Positions, CheckOut(n)
    PROVE  CheckoutInv'
<1> DEFINE placed == [cart |-> task[n].cart, cut |-> task[n].cut]
<1>1. task[n].step = "checkout" /\ task[n].step \in AtStore
    BY DEF CheckOut, AtStore
<1>2. /\ TypeOK /\ task[n] \in Task /\ call.kind = "order" /\ call.step = "working" /\ ~Checking
      /\ Filled(n, task[n]) /\ TaskHolds(n, task[n]) /\ orders = <<>>
    BY <1>1, CartKnown DEF TaskHolds
<1>3. UNCHANGED <<call, search, world>>
    BY DEF CheckOut
<1>4. CASE UNCHANGED orders /\ Ends(n, Failed) /\ UNCHANGED faults
    <2>1. CallRests /\ Ends(n, [status |-> "error"])
        BY <1>2, <1>3, <1>4 DEF CallRests, TypeOK, Failed
    <2> QED BY <1>1, <1>2, <1>4, <2>1, FailedKeeps
<1>5. CASE /\ orders' = Append(orders, placed)
           /\ \/ Ends(n, [status |-> "order"]) /\ UNCHANGED faults
              \/ Ends(n, Failed) /\ Faulty
    <2>1. CallRests
        BY <1>2, <1>3, <1>5, FaultCounted DEF CallRests, TypeOK
    <2>2. placed \in [cart : Cart, cut : SUBSET Variants]
        BY <1>2 DEF Task
    <2>3. orders' = <<placed>> /\ Len(orders') = 1 /\ DOMAIN orders' = {1} /\ orders'[1] = placed
        BY <1>2, <1>5
    <2>4. orders' \in Seq([cart : Cart, cut : SUBSET Variants])
        BY <2>2, <2>3
    <2>5. PICK status \in {"order", "error"} : Ends(n, [status |-> status])
        BY <1>5 DEF Failed
    <2> DEFINE r == [status |-> status]
    <2>6. r \in Result /\ r.status = status /\ Ends(n, r)
        BY <2>5 DEF Result
    <2> HIDE DEF r
    <2>7. call' = call
        BY <1>3
    <2>8. ResultHolds(n, r)'
        BY <1>2, <2>3, <2>6, <2>7 DEF ResultHolds, Checking
    <2>9. n = 1 /\ \A m \in Positions : Host(m) = Host(1) /\ (task[m].step # "none" => m = 1)
        BY <1>1, <1>2 DEF TaskHolds, CheckoutInv
    <2>10. {m \in LinesOf(n) : m <= task[n].at} = Positions
        BY <1>1, <1>2, <2>9 DEF TaskHolds, LinesOf, AtStore
    <2>11. \A v \in Variants \ placed.cut : placed.cart[v] = UnitsAsked(Positions, v)
        BY <1>2, <2>10 DEF Filled
    <2>12. Positions' = Positions /\ \A S, v : UnitsAsked(S, v)' = UnitsAsked(S, v)
        BY <2>7, SameLines
    <2>13. \A m \in Positions : task'[m].step = "none"
        <3>1. task' = [task EXCEPT ![n].step = "none"] /\ task \in [Positions -> Task]
            BY <1>2, <2>6 DEF Ends, Leaves, TypeOK
        <3> QED BY <2>9, <3>1 DEF Task
    <2> HIDE DEF placed
    <2>14. OrdersHold'
        BY <1>2, <2>3, <2>7, <2>11, <2>12, <2>13 DEF OrdersHold
    <2> QED BY <1>1, <2>1, <2>3, <2>4, <2>6, <2>8, <2>14, Answered
<1>6. \/ UNCHANGED orders /\ Ends(n, Failed) /\ UNCHANGED faults
      \/ /\ orders' = Append(orders, placed)
         /\ \/ Ends(n, [status |-> "order"]) /\ UNCHANGED faults
            \/ Ends(n, Failed) /\ Faulty
    BY DEF CheckOut
<1> QED BY <1>4, <1>5, <1>6

-----------------------------------------------------------------------------
(* The call                                                                *)

(* A call that is not at work has neither goroutines nor answers nor       *)
(* orders.                                                                 *)
LEMMA CallIdle ==
    ASSUME CheckoutInv, call.step \notin {"working", "answered"}
    PROVE  /\ \A n \in Positions : task[n].step = "none" /\ results[n] = None
           /\ orders = <<>>
<1>1. OrdersHold /\ \A n \in Positions : TaskHolds(n, task[n]) /\ ResultHolds(n, results[n])
    BY DEF CheckoutInv
<1>2. orders = <<>>
    BY <1>1 DEF OrdersHold
<1> QED BY <1>1, <1>2 DEF TaskHolds, ResultHolds

(* While no goroutine runs the call only has to keep its own word.         *)
LEMMA IdleKeeps ==
    ASSUME CheckoutInv, call.step \in {"new", "paging"},
           call' \in Call, call'.kind = call.kind, call'.lines = call.lines,
           UNCHANGED <<task, results, orders>>,
           LinesHold', PagesHold', SeenHolds',
           landed' \in 0..Len(Items), lapsed' \in BOOLEAN, changes' = changes,
           shelf' = shelf, seen' \in [Variants -> SUBSET Shelf],
           faults' \in 0..MaxFaults
    PROVE  CheckoutInv'
<1>1. TypeOK /\ orders = <<>> /\ \A n \in Positions : task[n].step = "none" /\ results[n] = None
    BY CallIdle DEF CheckoutInv
<1>2. Positions' = Positions
    BY SameLines
<1>3. Running' = Running
    BY <1>2 DEF Running
<1>4. TypeOK'
    BY <1>1, <1>2, <1>3 DEF TypeOK
<1>5. OrdersHold'
    BY <1>1 DEF OrdersHold
<1>6. \A n \in Positions' : TaskHolds(n, task[n])'
    BY <1>1, <1>2 DEF TaskHolds, AtStore
<1>7. \A n \in Positions' : ResultHolds(n, results[n])'
    BY <1>1, <1>2 DEF ResultHolds
<1> QED BY <1>4, <1>5, <1>6, <1>7 DEF CheckoutInv

(* What an answer leaves of the call.                                      *)
LEMMA Answering ==
    ASSUME TypeOK, NEW answer \in {"done", "not_found", "invalid", "error"}, Answers(answer)
    PROVE  /\ call' \in Call /\ call'.kind = call.kind /\ call'.lines = call.lines
           /\ call'.step = "answered" /\ call'.answer = answer /\ call'.cursor = call.cursor
           /\ call'.began = call.began /\ call'.blind = call.blind /\ call'.found = call.found
    BY DEF TypeOK, Call, Answers

(* An answer that promises nothing.                                        *)
LEMMA AnsweredHolds ==
    ASSUME CheckoutInv, NEW answer \in {"not_found", "invalid", "error"}, Answers(answer),
           answer = "not_found" => lapsed, UNCHANGED search
    PROVE  LinesHold' /\ PagesHold'
<1>1. TypeOK /\ PagesHold
    BY DEF CheckoutInv
<1>2. UNCHANGED <<landed, lapsed>>
    BY DEF search
<1> USE Answering, <1>1, <1>2
<1>3. LinesHold'
    BY DEF LinesHold
<1>4. CollectedAll'
    BY DEF CollectedAll
<1>5. PagesHold'
    BY <1>4 DEF PagesHold
<1> QED BY <1>3, <1>5

(* The parts of the invariant that the steps of the call use.              *)
LEMMA CallTypes ==
    ASSUME CheckoutInv
    PROVE  /\ TypeOK /\ LinesHold /\ PagesHold /\ SeenHolds
           /\ call \in Call /\ call.lines \in Seq(Line) /\ Positions = 1..Len(call.lines)
           /\ call.cursor \in Nat /\ call.began \in Nat /\ landed \in Nat /\ landed <= Len(Items)
           /\ Len(Items) \in Nat
<1>1. TypeOK /\ LinesHold /\ PagesHold /\ SeenHolds
    BY DEF CheckoutInv
<1>2. Len(Items) \in Nat
    BY CheckoutAssumption DEF CheckoutAssumption
<1>3. call \in Call /\ call.lines \in Seq(Line) /\ Positions = 1..Len(call.lines)
    BY <1>1 DEF TypeOK, Call, Positions
<1>4. /\ call.cursor \in Nat /\ call.began \in Nat /\ landed \in Nat /\ landed <= Len(Items)
    BY <1>1, <1>2 DEF TypeOK, Call
<1> QED BY <1>1, <1>2, <1>3, <1>4

(* The call begins, and its lines are validated.                           *)
LEMMA BeginKeeps ==
    ASSUME CheckoutInv, Begin
    PROVE  CheckoutInv'
<1>1. call.step = "new" /\ UNCHANGED <<search, task, results, shelf, changes, orders, faults>>
    BY DEF Begin
<1>2. UNCHANGED <<landed, lapsed>>
    BY <1>1 DEF search
<1>3. /\ TypeOK /\ LinesHold /\ PagesHold /\ call \in Call /\ landed \in Nat
    BY CallTypes
<1>4. seen' = [v \in Variants |-> {shelf[v]}]
    BY DEF Begin
<1>5. seen' \in [Variants -> SUBSET Shelf] /\ SeenHolds'
    BY <1>1, <1>3, <1>4 DEF TypeOK, SeenHolds
<1>6. CASE Answers("invalid")
    <2>1. LinesHold' /\ PagesHold'
        BY <1>1, <1>6, AnsweredHolds
    <2>2. call' \in Call /\ call'.kind = call.kind /\ call'.lines = call.lines
        BY <1>3, <1>6, Answering
    <2> QED BY <1>1, <1>2, <1>3, <1>5, <2>1, <2>2, IdleKeeps DEF TypeOK
<1>7. CASE /\ call.kind = "verify" \/ Valid
           /\ call' = [call EXCEPT !.step = IF call.kind = "verify" THEN "planning" ELSE "paging",
                                   !.began = landed]
    <2> DEFINE step == IF call.kind = "verify" THEN "planning" ELSE "paging"
    <2>1. /\ call' \in Call /\ call'.kind = call.kind /\ call'.lines = call.lines /\ call'.step = step
          /\ call'.began = landed /\ call'.cursor = call.cursor /\ call'.answer = call.answer
          /\ call'.blind = call.blind /\ call'.found = call.found
        BY <1>3, <1>7 DEF TypeOK, Call
    <2>2. call.kind \notin {"stock", "verify"} => Valued
        BY <1>7 DEF Valid, Valued
    <2>3. Valued' = Valued
        BY <2>1, SameLines
    <2>4. LinesHold'
        BY <1>1, <1>3, <2>1, <2>2, <2>3, CheckoutAssumption DEF LinesHold, CheckoutAssumption
    <2>5. CollectedAll'
        BY <1>1, <1>3, <2>1, CheckoutAssumption DEF CollectedAll, LinesHold, CheckoutAssumption
    <2>6. call.cursor = 0
        BY <1>1, <1>3 DEF PagesHold
    <2>7. PagesHold'
        BY <1>2, <1>3, <2>1, <2>5, <2>6 DEF PagesHold
    <2> QED BY <1>1, <1>2, <1>3, <1>5, <2>1, <2>4, <2>7, IdleKeeps DEF TypeOK
<1> QED BY <1>6, <1>7 DEF Begin

(* The numbers of a page that is read, and what is collected with it.      *)
LEMMA PageRead ==
    ASSUME CheckoutInv
    PROVE  /\ PageItems(call.cursor) = {i \in (call.cursor + 1)..landed : i <= call.cursor + PageLimit}
           /\ \A i \in PageItems(call.cursor) : Items[i] \subseteq Offers
           /\ HasMore(call.cursor) =>
                /\ landed > call.cursor + PageLimit
                /\ NextCursor(call.cursor) = call.cursor + PageLimit
           /\ ~HasMore(call.cursor) => landed <= call.cursor + PageLimit
<1> DEFINE c == call.cursor
<1>1. /\ c \in Nat /\ landed \in Nat /\ landed <= Len(Items) /\ Len(Items) \in Nat
    BY CallTypes
<1>2. PageLimit \in Nat \ {0} /\ Items \in Seq(SUBSET Offers)
    BY CheckoutAssumption DEF CheckoutAssumption
<1> HIDE DEF c
<1>3. PageItems(c) = {i \in (c + 1)..landed : i <= c + PageLimit}
    BY <1>1, <1>2 DEF PageItems, Stored
<1>4. \A i \in PageItems(c) : Items[i] \subseteq Offers
    <2>1. \A i \in PageItems(c) : i \in 1..Len(Items)
        BY <1>1, <1>2, <1>3
    <2> QED BY <1>2, <2>1
<1>5. HasMore(c) => landed > c + PageLimit
    <2> SUFFICES ASSUME ~(landed > c + PageLimit) PROVE Stored(c) = PageItems(c)
        BY DEF HasMore
    <2>1. landed <= c + PageLimit
        BY <1>1, <1>2
    <2> QED BY <1>1, <1>2, <2>1 DEF Stored, PageItems
<1>6. ASSUME landed > c + PageLimit PROVE HasMore(c) /\ NextCursor(c) = c + PageLimit
    <2>1. c + PageLimit + 1 \in Stored(c) /\ c + PageLimit + 1 \notin PageItems(c)
        BY <1>1, <1>2, <1>3, <1>6 DEF Stored
    <2>2. c + PageLimit \in PageItems(c)
        BY <1>1, <1>2, <1>3, <1>6
    <2>3. \A i \in PageItems(c) : i \in Nat /\ i <= c + PageLimit
        BY <1>1, <1>2, <1>3
    <2>4. NextCursor(c) \in PageItems(c) /\ \A m \in PageItems(c) : m <= NextCursor(c)
        BY <2>2, <2>3 DEF NextCursor
    <2>5. NextCursor(c) <= c + PageLimit /\ c + PageLimit <= NextCursor(c) /\ NextCursor(c) \in Nat
        BY <2>2, <2>3, <2>4
    <2> QED BY <1>1, <1>2, <2>1, <2>5 DEF HasMore
<1>7. ~HasMore(c) => landed <= c + PageLimit
    BY <1>1, <1>2, <1>6
<1> QED BY <1>3, <1>4, <1>5, <1>6, <1>7 DEF c

(* A page is collected; at the last one the call goes on with what it      *)
(* found.                                                                  *)
LEMMA ReadPageKeeps ==
    ASSUME CheckoutInv, ReadPage
    PROVE  CheckoutInv'
<1> DEFINE c == call.cursor
           page == PageItems(c)
           more == HasMore(c)
<1>1. call.step = "paging" /\ UNCHANGED <<search, task, results, world, orders>>
    BY DEF ReadPage
<1>2. UNCHANGED <<landed, lapsed, shelf, seen, changes>>
    BY <1>1 DEF search, world
<1>3. /\ TypeOK /\ LinesHold /\ PagesHold /\ SeenHolds /\ call \in Call
      /\ c \in Nat /\ call.began \in Nat /\ landed \in Nat /\ landed <= Len(Items) /\ Len(Items) \in Nat
    BY CallTypes
<1>4. CASE lapsed /\ Answers("not_found") /\ UNCHANGED faults
    <2>1. LinesHold' /\ PagesHold'
        BY <1>1, <1>4, AnsweredHolds
    <2>2. call' \in Call /\ call'.kind = call.kind /\ call'.lines = call.lines /\ call'.step = "answered"
        BY <1>3, <1>4, Answering
    <2>3. SeenHolds'
        BY <1>1, <1>2, <1>3 DEF SeenHolds
    <2> QED BY <1>1, <1>2, <1>3, <1>4, <2>1, <2>2, <2>3, IdleKeeps DEF TypeOK
<1>5. ASSUME NEW silent \in SUBSET page,
             IF silent = {} THEN UNCHANGED faults ELSE Faulty,
             call' = [call EXCEPT
                    !.found = @ \union UNION {Items[i] : i \in page \ silent},
                    !.blind = @ \/ silent # {},
                    !.cursor = IF more THEN NextCursor(c) ELSE @,
                    !.step = IF more THEN "paging" ELSE "planning"]
      PROVE  CheckoutInv'
    <2> DEFINE found == UNION {Items[i] : i \in page \ silent}
               cursor == IF more THEN NextCursor(c) ELSE c
               step == IF more THEN "paging" ELSE "planning"
    <2>1. /\ page = {i \in (c + 1)..landed : i <= c + PageLimit}
          /\ \A i \in page : Items[i] \subseteq Offers
          /\ more => landed > c + PageLimit /\ NextCursor(c) = c + PageLimit
          /\ ~more => landed <= c + PageLimit
        BY PageRead
    <2>2. PageLimit \in Nat \ {0}
        BY CheckoutAssumption DEF CheckoutAssumption
    <2> HIDE DEF page, more, c
    <2>3. found \in SUBSET Offers
        BY <2>1
    <2>4. cursor \in 0..Len(Items) /\ cursor <= landed
        BY <1>3, <2>1, <2>2 DEF PagesHold, c
    <2>5. ~(silent # {}) => \A i \in page : Items[i] \subseteq found
        OBVIOUS
    <2>6. call' = [call EXCEPT !.found = call.found \union found, !.blind = call.blind \/ silent # {},
                               !.cursor = cursor, !.step = step]
        BY <1>5 DEF c
    <2> HIDE DEF found, cursor, step
    <2>7. step \in {"paging", "planning"} /\ (silent # {}) \in BOOLEAN
        BY DEF step
    <2>8. /\ call' \in Call /\ call'.kind = call.kind /\ call'.lines = call.lines /\ call'.step = step
          /\ call'.began = call.began /\ call'.cursor = cursor /\ call'.answer = call.answer
          /\ call'.blind = (call.blind \/ silent # {}) /\ call'.found = call.found \union found
        BY <1>3, <2>3, <2>4, <2>6, <2>7 DEF Call
    <2>9. Valued' = Valued
        BY <2>8, SameLines
    <2>10. call.kind # "verify"
        BY <1>1, <1>3 DEF LinesHold
    <2>11. LinesHold'
        BY <1>1, <1>3, <2>7, <2>8, <2>9, <2>10, CheckoutAssumption DEF LinesHold, CheckoutAssumption
    <2>12. CollectedAll'
        BY <1>1, <1>3, <2>8, CheckoutAssumption DEF CollectedAll, LinesHold, CheckoutAssumption
    <2>13. ASSUME ~call'.blind PROVE \A i \in 1..c : Items[i] \subseteq call'.found
        BY <1>1, <1>3, <2>8, <2>13 DEF PagesHold, c
    <2>14. ASSUME ~call'.blind PROVE \A i \in page : Items[i] \subseteq call'.found
        BY <2>5, <2>8, <2>14
    <2>15. ASSUME ~call'.blind, call'.step = "paging", NEW i \in 1..call'.cursor
           PROVE  Items[i] \subseteq call'.found
        <3>1. more /\ cursor = c + PageLimit
            BY <2>1, <2>8, <2>15 DEF step, cursor
        <3>2. i \in 1..c \/ i \in page
            BY <1>3, <2>1, <2>2, <2>8, <2>15, <3>1
        <3> QED BY <2>13, <2>14, <2>15, <3>2
    <2>16. ASSUME ~call'.blind, call'.step = "planning", NEW i \in 1..call'.began
           PROVE  Items[i] \subseteq call'.found
        <3>1. ~more
            BY <2>8, <2>16 DEF step
        <3>2. i <= landed
            BY <1>3, <2>8, <2>16 DEF PagesHold
        <3>3. i \in 1..c \/ i \in page
            BY <1>3, <2>1, <2>2, <2>8, <2>16, <3>1, <3>2
        <3> QED BY <2>13, <2>14, <2>16, <3>3
    <2>17. PagesHold'
        BY <1>2, <1>3, <2>4, <2>7, <2>8, <2>12, <2>15, <2>16 DEF PagesHold
    <2>18. faults' \in 0..MaxFaults
        BY <1>3, <1>5, FaultCounted DEF TypeOK
    <2>19. SeenHolds'
        BY <1>1, <1>2, <1>3 DEF SeenHolds
    <2> QED BY <1>1, <1>2, <1>3, <2>8, <2>11, <2>17, <2>18, <2>19, IdleKeeps DEF TypeOK
<1> QED BY <1>4, <1>5 DEF ReadPage

(* A page that cannot be read ends the call.                               *)
LEMMA PageFailsKeeps ==
    ASSUME CheckoutInv, PageFails
    PROVE  CheckoutInv'
<1>1. call.step = "paging" /\ UNCHANGED <<search, task, results, world, orders>> /\ Answers("error") /\ Faulty
    BY DEF PageFails
<1>2. UNCHANGED <<landed, lapsed, shelf, seen, changes>>
    BY <1>1 DEF search, world
<1>3. TypeOK /\ SeenHolds
    BY CallTypes
<1>4. LinesHold' /\ PagesHold'
    BY <1>1, AnsweredHolds
<1>5. call' \in Call /\ call'.kind = call.kind /\ call'.lines = call.lines
    BY <1>1, <1>3, Answering
<1>6. SeenHolds' /\ faults' \in 0..MaxFaults
    BY <1>1, <1>2, <1>3, FaultCounted DEF SeenHolds
<1> QED BY <1>1, <1>2, <1>3, <1>4, <1>5, <1>6, IdleKeeps DEF TypeOK

(* The plan: the goroutines begin, one per offer or per store, or the call *)
(* answers at once.                                                        *)
LEMMA PlanKeeps ==
    ASSUME CheckoutInv, Plan
    PROVE  CheckoutInv'
<1> DEFINE unknown == {n \in Positions : ~Known(n)}
           mixed == call.kind = "order" /\ \E n \in Positions : Host(n) # Host(1)
           starts == IF call.kind \in {"stock", "verify"} \/ (unknown = {} /\ ~mixed) THEN Launched ELSE {}
<1>1. /\ call.step = "planning" /\ UNCHANGED <<search, results, world, listed, orders, faults>>
      /\ task' = [n \in DOMAIN task |-> IF n \in starts THEN [Asleep EXCEPT !.step = "waiting"] ELSE Asleep]
    BY DEF Plan
<1>2. UNCHANGED <<landed, lapsed, shelf, seen, changes>>
    BY <1>1 DEF search, world
<1>3. TypeOK /\ LinesHold /\ PagesHold /\ SeenHolds /\ call \in Call
    BY CallTypes
<1>4. orders = <<>> /\ \A n \in Positions : task[n].step = "none" /\ results[n] = None
    BY <1>1, CallIdle
<1>5. \/ unknown # {} /\ (Answers("invalid") \/ Answers("not_found"))
      \/ unknown = {} /\ mixed /\ Answers("invalid")
      \/ unknown = {} /\ ~mixed /\ call' = [call EXCEPT !.step = "working"]
    BY DEF Plan
<1> HIDE DEF unknown, mixed
<1>6. /\ call' \in Call /\ call'.kind = call.kind /\ call'.lines = call.lines
      /\ call'.cursor = call.cursor /\ call'.began = call.began /\ call'.blind = call.blind
      /\ call'.found = call.found
      /\ \/ unknown # {} /\ call'.step = "answered" /\ call'.answer \in {"invalid", "not_found"}
         \/ unknown = {} /\ mixed /\ call'.step = "answered" /\ call'.answer = "invalid"
         \/ unknown = {} /\ ~mixed /\ call'.step = "working" /\ call'.answer = call.answer
    <2>1. CASE Answers("invalid")
        BY <1>3, <1>5, <2>1, Answering DEF Answers, Call
    <2>2. CASE Answers("not_found") /\ unknown # {}
        BY <1>3, <2>2, Answering
    <2>3. CASE unknown = {} /\ ~mixed /\ call' = [call EXCEPT !.step = "working"]
        BY <1>3, <2>3 DEF Call
    <2> QED BY <1>5, <2>1, <2>2, <2>3
<1>7. Positions' = Positions /\ Valued' = Valued /\ Checking' = Checking /\ \A n : Host(n)' = Host(n)
    BY <1>6, SameLines
<1>8. LinesHold'
    BY <1>1, <1>3, <1>6, <1>7, CheckoutAssumption DEF LinesHold, CheckoutAssumption
<1>9. CollectedAll'
    <2> SUFFICES ASSUME call'.answer = "not_found", ~call'.blind
                 PROVE  \E n \in Positions : \A i \in 1..call.began : call.lines[n].id \notin Items[i]
        BY <1>6, <1>7 DEF CollectedAll
    <2>1. unknown # {}
        BY <1>1, <1>3, <1>6, CheckoutAssumption DEF LinesHold, CheckoutAssumption
    <2>2. PICK n \in Positions : call.kind # "verify" /\ call.lines[n].id \notin call.found
        BY <2>1 DEF unknown, Known
    <2>3. \A i \in 1..call.began : Items[i] \subseteq call.found
        BY <1>1, <1>3, <1>6, <2>2 DEF PagesHold
    <2> QED BY <2>2, <2>3
<1>10. PagesHold'
    BY <1>2, <1>3, <1>6, <1>9 DEF PagesHold
<1>11. SeenHolds'
    BY <1>1, <1>2, <1>3 DEF SeenHolds
<1> DEFINE awake == [Asleep EXCEPT !.step = "waiting"]
<1>12. /\ awake \in Task /\ Asleep \in Task
       /\ awake.step = "waiting" /\ awake.at = 0 /\ awake.cart = Empty /\ awake.cut = {}
       /\ Asleep.step = "none"
    BY DEF Asleep, Task, Steps, Empty, Cart
<1>13. DOMAIN task = Positions
    BY <1>3 DEF TypeOK
<1> HIDE DEF starts, awake
<1>14. /\ task' \in [Positions -> Task]
       /\ \A n \in Positions : task'[n] = IF n \in starts THEN awake ELSE Asleep
    BY <1>1, <1>12, <1>13 DEF awake
<1>15. Running' = {}
    BY <1>7, <1>12, <1>14 DEF Running
<1>16. Cardinality(Running)' <= MaxConcurrent
    BY <1>15, FS_EmptySet, CheckoutAssumption DEF CheckoutAssumption
<1>17. TypeOK'
    BY <1>1, <1>2, <1>3, <1>6, <1>7, <1>14, <1>16 DEF TypeOK
<1>18. OrdersHold'
    BY <1>1, <1>4 DEF OrdersHold
<1>19. ASSUME NEW n \in starts
       PROVE  /\ call'.step \in {"working", "answered"} /\ (~Checking => call'.step = "working")
              /\ call.kind # "links"
              /\ call.kind = "order" => n = 1 /\ \A m \in Positions : Host(m) = Host(1)
    <2>1. n \in Launched /\ (Checking \/ (unknown = {} /\ ~mixed))
        BY <1>19 DEF starts, Checking
    <2>2. call.kind # "links"
        BY <2>1 DEF Launched
    <2>3. call.kind = "order" => n = 1
        BY <2>1 DEF Launched
    <2>4. call.kind = "order" => ~Checking
        BY DEF Checking
    <2> QED BY <1>6, <2>1, <2>2, <2>3, <2>4 DEF mixed
<1>20. ASSUME NEW n \in Positions PROVE TaskHolds(n, task[n])'
    <2>1. CASE n \in starts
        <3>1. task'[n].step = "waiting" /\ task'[n].at = 0 /\ task'[n].cart = Empty /\ task'[n].cut = {}
            BY <1>12, <1>14, <2>1
        <3>2. Empty' = Empty
            BY DEF Empty
        <3> QED BY <1>6, <1>7, <1>19, <2>1, <3>1, <3>2 DEF TaskHolds, AtStore
    <2>2. CASE n \notin starts
        <3>1. task'[n].step = "none"
            BY <1>12, <1>14, <2>2
        <3> QED BY <3>1 DEF TaskHolds, AtStore
    <2> QED BY <2>1, <2>2
<1>21. \A n \in Positions : ResultHolds(n, results[n])'
    BY <1>1, <1>4 DEF ResultHolds
<1> QED BY <1>7, <1>8, <1>10, <1>11, <1>17, <1>18, <1>20, <1>21 DEF CheckoutInv

(* The call collects the answers once all goroutines have ended.           *)
LEMMA CollectKeeps ==
    ASSUME CheckoutInv, Collect
    PROVE  CheckoutInv'
<1>1. /\ call.step = "working" /\ Answers("done") /\ \A n \in Positions : task[n].step = "none"
      /\ UNCHANGED <<search, task, results, world, listed, orders, faults>>
    BY DEF Collect
<1>2. UNCHANGED <<landed, lapsed, shelf, seen, changes>>
    BY <1>1 DEF search, world
<1>3. /\ TypeOK /\ LinesHold /\ PagesHold /\ SeenHolds /\ OrdersHold
      /\ \A n \in Positions : TaskHolds(n, task[n]) /\ ResultHolds(n, results[n])
    BY DEF CheckoutInv
<1>4. /\ call' \in Call /\ call'.kind = call.kind /\ call'.lines = call.lines
      /\ call'.step = "answered" /\ call'.answer = "done" /\ call'.cursor = call.cursor
      /\ call'.began = call.began /\ call'.blind = call.blind /\ call'.found = call.found
    BY <1>1, <1>3, Answering
<1>5. /\ Positions' = Positions /\ Valued' = Valued /\ \A S, v : UnitsAsked(S, v)' = UnitsAsked(S, v)
      /\ SeenGrows
    BY <1>2, <1>4, SameLines DEF SeenGrows
<1>6. LinesHold'
    BY <1>1, <1>3, <1>4, <1>5 DEF LinesHold
<1>7. CollectedAll'
    BY <1>4 DEF CollectedAll
<1>8. PagesHold'
    BY <1>2, <1>3, <1>4, <1>7 DEF PagesHold
<1>9. SeenHolds'
    BY <1>1, <1>2, <1>3 DEF SeenHolds
<1>10. Running' = Running
    BY <1>1, <1>5 DEF Running
<1>11. TypeOK'
    BY <1>1, <1>2, <1>3, <1>4, <1>5, <1>10 DEF TypeOK
<1>12. OrdersHold'
    BY <1>1, <1>3, <1>4, <1>5 DEF OrdersHold
<1>13. ASSUME NEW n \in Positions PROVE TaskHolds(n, task[n])' /\ ResultHolds(n, results[n])'
    <2>1. PICK job : job = task[n]
        OBVIOUS
    <2>2. PICK r : r = results[n]
        OBVIOUS
    <2>3. TaskHolds(n, job) /\ job.step = "none" /\ task'[n] = job /\ ResultHolds(n, r) /\ results'[n] = r
        BY <1>1, <1>3, <2>1, <2>2
    <2>4. TaskHolds(n, task[n])'
        BY <1>3, <1>4, <1>5, <2>3, TaskKept
    <2>5. ResultHolds(n, results[n])'
        BY <1>1, <1>3, <1>4, <1>5, <2>3, ResultKept
    <2> QED BY <2>4, <2>5
<1> QED BY <1>5, <1>6, <1>8, <1>9, <1>11, <1>12, <1>13 DEF CheckoutInv

-----------------------------------------------------------------------------
(* The world outside                                                       *)

(* The search behind the call goes on, or is gone.                         *)
LEMMA SearchMovesKeep ==
    ASSUME CheckoutInv, Land \/ Lapse
    PROVE  CheckoutInv'
<1>1. /\ call.step \in {"new", "paging"} /\ UNCHANGED <<call, task, results, world, orders>>
      /\ \/ landed < Len(Items) /\ landed' = landed + 1 /\ UNCHANGED <<lapsed, faults>>
         \/ lapsed' = TRUE /\ UNCHANGED landed /\ Faulty
    BY DEF Land, Lapse
<1>2. UNCHANGED <<shelf, seen, changes>>
    BY <1>1 DEF world
<1>3. /\ TypeOK /\ LinesHold /\ PagesHold /\ SeenHolds /\ call \in Call
      /\ call.cursor \in Nat /\ call.began \in Nat /\ landed \in Nat /\ Len(Items) \in Nat
    BY CallTypes
<1>4. landed' \in 0..Len(Items) /\ landed' \in Nat /\ landed' >= landed /\ lapsed' \in BOOLEAN
    <2>1. landed <= Len(Items) /\ lapsed \in BOOLEAN
        BY <1>3 DEF TypeOK
    <2>2. lapsed' \in BOOLEAN
        BY <1>1, <2>1
    <2>3. CASE landed < Len(Items) /\ landed' = landed + 1
        BY <1>3, <2>2, <2>3
    <2>4. CASE landed' = landed
        BY <1>3, <2>1, <2>2, <2>4
    <2> QED BY <1>1, <2>3, <2>4
<1>5. faults' \in 0..MaxFaults
    BY <1>1, <1>3, FaultCounted DEF TypeOK
<1>6. Positions' = Positions /\ Valued' = Valued
    BY <1>1, SameLines
<1>7. LinesHold'
    BY <1>1, <1>3, <1>6 DEF LinesHold
<1>8. CollectedAll'
    BY <1>1, <1>3, CheckoutAssumption DEF CollectedAll, LinesHold, CheckoutAssumption
<1>9. PagesHold'
    BY <1>1, <1>3, <1>4, <1>8 DEF PagesHold
<1>10. SeenHolds'
    BY <1>1, <1>2, <1>3 DEF SeenHolds
<1> QED BY <1>1, <1>2, <1>3, <1>4, <1>5, <1>7, <1>9, <1>10, IdleKeeps DEF TypeOK

(* Somebody else buys or a store restocks.                                 *)
LEMMA ChangeKeeps ==
    ASSUME CheckoutInv, NEW v \in Variants, Change(v)
    PROVE  CheckoutInv'
<1>1. /\ changes < MaxChanges /\ changes' = changes + 1
      /\ UNCHANGED <<call, search, task, results, listed, orders, faults>>
    BY DEF Change
<1>2. UNCHANGED <<landed, lapsed>>
    BY <1>1 DEF search
<1>3. PICK u \in Shelves[v] :
         /\ shelf' = [shelf EXCEPT ![v] = u]
         /\ seen' = [seen EXCEPT ![v] = IF call.step = "new" THEN @ ELSE @ \union {u}]
    BY DEF Change
<1>4. /\ TypeOK /\ LinesHold /\ PagesHold /\ SeenHolds /\ OrdersHold
      /\ \A n \in Positions : TaskHolds(n, task[n]) /\ ResultHolds(n, results[n])
    BY DEF CheckoutInv
<1>5. MaxChanges \in Nat /\ u \in Shelf
    BY CheckoutAssumption DEF CheckoutAssumption
<1>6. /\ shelf' \in [Variants -> Shelf] /\ seen' \in [Variants -> SUBSET Shelf]
      /\ \A w \in Variants : shelf'[w] \in Shelves[w]
      /\ changes' \in 0..MaxChanges
    BY <1>1, <1>3, <1>4, <1>5 DEF TypeOK
<1>7. SeenGrows
    BY <1>3, <1>4 DEF SeenGrows, TypeOK
<1>8. SeenHolds'
    BY <1>1, <1>3, <1>4 DEF SeenHolds, TypeOK
<1>9. Positions' = Positions /\ Valued' = Valued /\ \A S, w : UnitsAsked(S, w)' = UnitsAsked(S, w)
    BY <1>1, SameLines
<1>10. LinesHold'
    BY <1>1, <1>4, <1>9 DEF LinesHold
<1>11. CollectedAll'
    BY <1>1, <1>2, <1>4, <1>9 DEF CollectedAll, PagesHold
<1>12. PagesHold'
    BY <1>1, <1>2, <1>4, <1>11 DEF PagesHold
<1>13. Running' = Running
    BY <1>1, <1>9 DEF Running
<1>14. TypeOK'
    BY <1>1, <1>2, <1>4, <1>6, <1>9, <1>13 DEF TypeOK
<1>15. OrdersHold'
    BY <1>1, <1>4, <1>9 DEF OrdersHold
<1>16. ASSUME NEW n \in Positions PROVE TaskHolds(n, task[n])' /\ ResultHolds(n, results[n])'
    <2>1. PICK job : job = task[n]
        OBVIOUS
    <2>2. PICK r : r = results[n]
        OBVIOUS
    <2>3. TaskHolds(n, job) /\ task'[n] = job /\ ResultHolds(n, r) /\ results'[n] = r
        BY <1>1, <1>4, <2>1, <2>2
    <2>4. TaskHolds(n, task[n])'
        BY <1>1, <1>4, <1>7, <2>3, TaskKept
    <2>5. ResultHolds(n, results[n])'
        BY <1>1, <1>4, <1>7, <2>3, ResultKept
    <2> QED BY <2>4, <2>5
<1> QED BY <1>8, <1>9, <1>10, <1>12, <1>14, <1>15, <1>16 DEF CheckoutInv

-----------------------------------------------------------------------------
(* The specification                                                       *)

(* The invariant holds at first and is kept by every step.                 *)
LEMMA InitHolds == Init => CheckoutInv
<1> SUFFICES ASSUME Init PROVE CheckoutInv
    OBVIOUS
<1>1. PICK c \in Calls :
          /\ call = [kind |-> c.kind, lines |-> c.lines, step |-> "new", cursor |-> 0, found |-> {},
                     began |-> 0, blind |-> FALSE, answer |-> None]
          /\ task = [n \in 1..Len(c.lines) |-> Asleep]
          /\ results = [n \in 1..Len(c.lines) |-> None]
    BY DEF Init
<1>2. c.kind \in Kinds /\ c.lines \in Seq(Line) /\ Items \in Seq(SUBSET Offers)
    BY CheckoutAssumption DEF CheckoutAssumption
<1>3. /\ landed \in 0..Len(Items) /\ lapsed = FALSE /\ shelf \in [Variants -> Shelf]
      /\ \A v \in Variants : shelf[v] \in Shelves[v]
      /\ seen = [v \in Variants |-> {}] /\ orders = <<>> /\ changes = 0 /\ faults = 0
    BY CheckoutAssumption DEF Init, CheckoutAssumption
<1>4. /\ call \in Call /\ Positions = 1..Len(c.lines) /\ call.step = "new" /\ call.answer = None
      /\ call.cursor = 0 /\ call.began = 0 /\ Len(Items) \in Nat
    BY <1>1, <1>2 DEF Call, Positions
<1>5. Asleep \in Task /\ Asleep.step = "none"
    BY DEF Asleep, Task, Steps, Empty, Cart
<1>6. \A n \in Positions : task[n].step = "none" /\ results[n] = None
    BY <1>1, <1>4, <1>5
<1>7. Running = {}
    BY <1>6 DEF Running
<1>8. Cardinality(Running) <= MaxConcurrent
    BY <1>7, FS_EmptySet, CheckoutAssumption DEF CheckoutAssumption
<1>9. MaxFaults \in Nat /\ MaxChanges \in Nat /\ None \notin {"done", "not_found", "invalid", "error"}
    BY CheckoutAssumption DEF CheckoutAssumption
<1>10. /\ task \in [Positions -> Task] /\ results \in [Positions -> Result \union {None}]
       /\ orders \in Seq([cart : Cart, cut : SUBSET Variants])
    BY <1>1, <1>3, <1>4, <1>5
<1>11. TypeOK
    <2>1. landed \in 0..Len(Items) /\ lapsed \in BOOLEAN /\ seen \in [Variants -> SUBSET Shelf]
        BY <1>3
    <2>2. faults \in 0..MaxFaults /\ changes \in 0..MaxChanges
        BY <1>3, <1>9
    <2> QED BY <1>3, <1>4, <1>8, <1>10, <2>1, <2>2 DEF TypeOK
<1>12. LinesHold
    BY <1>4, <1>9 DEF LinesHold
<1>13. PagesHold
    BY <1>3, <1>4, <1>9 DEF PagesHold, CollectedAll
<1>14. SeenHolds /\ OrdersHold
    BY <1>3, <1>4 DEF SeenHolds, OrdersHold
<1>15. \A n \in Positions : TaskHolds(n, task[n]) /\ ResultHolds(n, results[n])
    BY <1>6 DEF TaskHolds, ResultHolds, AtStore
<1> QED BY <1>11, <1>12, <1>13, <1>14, <1>15 DEF CheckoutInv

LEMMA StutterKeeps ==
    ASSUME CheckoutInv, UNCHANGED vars
    PROVE  CheckoutInv'
<1>1. /\ TypeOK /\ LinesHold /\ PagesHold /\ SeenHolds /\ OrdersHold
      /\ \A n \in Positions : TaskHolds(n, task[n]) /\ ResultHolds(n, results[n])
    BY DEF CheckoutInv
<1>2. UNCHANGED <<call, landed, lapsed, task, results, shelf, seen, changes, orders, faults>>
    BY DEF vars, search, world
<1>3. CallRests
    BY <1>1, <1>2 DEF CallRests, search, world, TypeOK
<1>4. /\ LinesHold' /\ PagesHold' /\ SeenHolds' /\ SeenGrows /\ Positions' = Positions
    BY <1>1, <1>3, CallRested
<1>5. \A S, v : UnitsAsked(S, v)' = UnitsAsked(S, v)
    BY <1>2, SameLines
<1>6. Running' = Running
    BY <1>2, <1>4 DEF Running
<1>7. TypeOK'
    BY <1>1, <1>2, <1>4, <1>6 DEF TypeOK
<1>8. OrdersHold'
    BY <1>1, <1>2, <1>4, <1>5 DEF OrdersHold
<1>9. ASSUME NEW n \in Positions PROVE TaskHolds(n, task[n])' /\ ResultHolds(n, results[n])'
    <2>1. PICK job : job = task[n]
        OBVIOUS
    <2>2. PICK r : r = results[n]
        OBVIOUS
    <2>3. TaskHolds(n, job) /\ task'[n] = job /\ ResultHolds(n, r) /\ results'[n] = r
        BY <1>1, <1>2, <2>1, <2>2
    <2>4. TaskHolds(n, task[n])'
        BY <1>1, <1>2, <1>4, <2>3, TaskKept
    <2>5. ResultHolds(n, results[n])'
        BY <1>1, <1>2, <1>4, <2>3, ResultKept
    <2> QED BY <2>4, <2>5
<1> QED BY <1>4, <1>7, <1>8, <1>9 DEF CheckoutInv

LEMMA NextKeeps == CheckoutInv /\ [Next]_vars => CheckoutInv'
<1> SUFFICES ASSUME CheckoutInv, [Next]_vars PROVE CheckoutInv'
    OBVIOUS
<1>1. CASE CallStep
    BY <1>1, BeginKeeps, ReadPageKeeps, PlanKeeps, CollectKeeps DEF CallStep
<1>2. CASE PageFails \/ Land \/ Lapse
    BY <1>2, PageFailsKeeps, SearchMovesKeep
<1>3. ASSUME NEW n \in Positions, TaskStep(n) PROVE CheckoutInv'
    BY <1>3, TakeGateKeeps, CheckStockKeeps, CountUnitsKeeps, OpenCartKeeps, AddLinesKeeps, ReadCartKeeps,
       ReadRatesKeeps, CheckOutKeeps DEF TaskStep
<1>4. ASSUME NEW n \in Positions, Fails(n) PROVE CheckoutInv'
    BY <1>4, CountUnitsKeeps, CheckFailsKeeps, RefusalsKeep DEF Fails
<1>5. ASSUME NEW n \in Positions, Change(Offer(n).page) PROVE CheckoutInv'
    <2>1. Offer(n).page \in Variants
        BY CallTypes, PagesKnown
    <2> QED BY <1>5, <2>1, ChangeKeeps
<1>6. CASE UNCHANGED vars
    BY <1>6, StutterKeeps
<1> QED BY <1>1, <1>2, <1>3, <1>4, <1>5, <1>6 DEF Next

(* The invariant holds throughout, for every number of lines, stores,      *)
(* products, pages, faults and changes.                                    *)
THEOREM CheckoutInvariant == Spec => []CheckoutInv
<1> QED BY InitHolds, NextKeeps, PTL DEF Spec

(* Every variable keeps its type and no more goroutines are at the stores  *)
(* than the channel of CheckOfferStock and CheckoutLinks lets through.     *)
THEOREM CheckoutTypeCorrect == Spec => []TypeOK
<1>1. CheckoutInv => TypeOK
    BY DEF CheckoutInv
<1> QED BY <1>1, CheckoutInvariant, PTL

(* A call that answers that an offer is not among the results did read     *)
(* every page that had landed when it began (collectSearchOffers),         *)
(* whatever lands while it reads, unless the search expired or the offers  *)
(* of an item could not be read.                                           *)
THEOREM OffersCollected == Spec => []CollectedAll
<1>1. CheckoutInv => CollectedAll
    BY DEF CheckoutInv, PagesHold
<1> QED BY <1>1, CheckoutInvariant, PTL

(* What a check says of an offer is about a moment of the call: an offer   *)
(* said to be available was on sale during it, one said to be unavailable  *)
(* was not at some moment of it, and a number of units was the number the  *)
(* store kept at some moment, one when it withheld the product if the      *)
(* status does not say available (CheckOfferStock, verifyStocks,           *)
(* Shops.CheckStock, readStock).                                           *)
THEOREM ReadingsFresh == Spec => []ReadingFresh
<1>1. CheckoutInv => ReadingFresh
    <2> SUFFICES ASSUME CheckoutInv, Checking, NEW n \in Positions, results[n] # None
                 PROVE  Fresh(n, results[n])
        BY DEF ReadingFresh, Fresh, Sold, Withheld, Kept
    <2> QED BY DEF CheckoutInv, ResultHolds
<1> QED BY <1>1, CheckoutInvariant, PTL

(* A quote tells the buyer of every product of which the cart does not     *)
(* hold what was asked for, once, and of no other (readQuote of both       *)
(* platforms), however many lines ask for it.                              *)
THEOREM QuotesHonest == Spec => []QuoteHonest
<1>1. CheckoutInv => QuoteHonest
    <2> SUFFICES ASSUME CheckoutInv, call.kind = "quote",
                        NEW n \in Positions, results[n] # None /\ results[n].status = "quote",
                        NEW m \in LinesOf(n)
                 PROVE  HonestOf(n, results[n], CartName(m))
        BY DEF QuoteHonest, HonestOf, NoticesOf
    <2>1. Honest(n, results[n])
        BY DEF CheckoutInv, ResultHolds
    <2> QED BY <2>1 DEF Honest
<1> QED BY <1>1, CheckoutInvariant, PTL

(* A call makes one order at most, and it holds everything its lines ask   *)
(* for, but for what the store trimmed; who answers that it ordered did    *)
(* order (PlaceOrder, SendSession).                                        *)
THEOREM OrdersWhole == Spec => []OneWholeOrder
<1>1. CheckoutInv => OneWholeOrder
    BY DEF CheckoutInv, OneWholeOrder, OrdersHold, ResultHolds
<1> QED BY <1>1, CheckoutInvariant, PTL

(* Every line is in the plan of its own store and in no other, and the     *)
(* link of a plan carries the units that all its lines of a product ask    *)
(* for together (CheckoutLinks, planCheckout, CartLink).                   *)
THEOREM LinksCarryCart == Spec => []LinkCarriesCart
<1>1. ASSUME CheckoutInv, call.kind \in {"links", "quote"} /\ call.answer = "done"
      PROVE  \A m \in Positions : \E n \in Domains :
              /\ m \in planCheckout(n).lines /\ planCheckout(n).domain = Host(m)
              /\ \A k \in Domains \ {n} : m \notin planCheckout(k).lines
    <2> SUFFICES ASSUME NEW m \in Positions
                 PROVE  \E n \in Domains : /\ m \in LinesOf(n) /\ Host(n) = Host(m)
                                           /\ \A k \in Domains \ {n} : m \notin LinesOf(k)
        BY DEF planCheckout
    <2>1. call.lines \in Seq(Line) /\ Positions = 1..Len(call.lines)
        BY <1>1, CallTypes
    <2>2. LinesOf(m) \in SUBSET Positions /\ m \in LinesOf(m)
        BY DEF LinesOf
    <2>3. IsFiniteSet(LinesOf(m)) /\ LinesOf(m) \in SUBSET Nat
        BY <2>1, <2>2, FinitePositions
    <2>4. PICK n \in LinesOf(m) : \A k \in LinesOf(m) : n <= k
        BY <2>2, <2>3, SmallestOf
    <2>5. n \in Positions /\ Host(n) = Host(m) /\ m \in LinesOf(n)
        BY <2>2, <2>4 DEF LinesOf
    <2>6. First(n)
        <3> SUFFICES ASSUME NEW k \in 1..(n - 1), Host(k) = Host(n) PROVE FALSE
            BY DEF First
        <3>1. k \in Positions /\ n \in Nat /\ k \in Nat /\ k < n
            BY <2>1, <2>5
        <3>2. k \in LinesOf(m)
            BY <2>5, <3>1 DEF LinesOf
        <3> QED BY <2>4, <3>1, <3>2
    <2>7. ASSUME NEW k \in Domains, m \in LinesOf(k) PROVE k = n
        <3>1. k \in Positions /\ First(k) /\ Host(k) = Host(n) /\ k \in Nat /\ n \in Nat
            BY <2>1, <2>5, <2>7 DEF Domains, LinesOf
        <3>2. n <= k
            BY <2>4, <2>5, <3>1 DEF LinesOf
        <3>3. ~(n \in 1..(k - 1))
            BY <3>1 DEF First
        <3> QED BY <2>1, <2>5, <3>1, <3>2, <3>3
    <2> QED BY <2>5, <2>6, <2>7 DEF Domains
<1>2. ASSUME CheckoutInv, call.kind \in {"links", "quote"} /\ call.answer = "done",
             NEW n \in Domains, planCheckout(n).link # None, NEW m \in LinesOf(n)
      PROVE  /\ CartName(m) \in DOMAIN planCheckout(n).link
             /\ planCheckout(n).link[CartName(m)] = UnitsAsked(LinesOf(n), CartName(m))
    <2>1. planCheckout(n).link = LinkedUnits(n)
        BY <1>2 DEF planCheckout, CartLink
    <2>2. call.lines \in Seq(Line) /\ LinesHold /\ LinesOf(n) \in SUBSET Positions
        BY <1>2, CallTypes DEF LinesOf
    <2>3. Bounded
        BY <1>2, <2>2, CheckoutAssumption DEF LinesHold, Valued, Bounded, CheckoutAssumption
    <2>4. Asked(LinesOf(n), CartName(m)) = UnitsAsked(LinesOf(n), CartName(m))
        BY <2>2, <2>3, AskedCounts
    <2> QED BY <2>1, <2>4 DEF LinkedUnits
<1>3. CheckoutInv => LinkCarriesCart
    BY <1>1, <1>2 DEF LinkCarriesCart
<1> QED BY <1>3, CheckoutInvariant, PTL

=============================================================================
