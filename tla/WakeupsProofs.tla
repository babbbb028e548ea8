--------------------------- MODULE WakeupsProofs ---------------------------
(***************************************************************************)
(* What the queue of ready cards keeps for any number of searches, cards,  *)
(* calls and deliveries: each ready card stands in it once, and nothing    *)
(* else does, although calls repeat, leases lapse and dead cards leave.    *)
(***************************************************************************)
EXTENDS Wakeups, FiniteSetTheorems, TLAPS

-----------------------------------------------------------------------------
(* Queues                                                                  *)

Once(q) == \A m, n \in 1..Len(q) : q[m] = q[n] => m = n
Holding(q) == {q[n] : n \in 1..Len(q)}

(* A queue that holds everything once is as long as what it holds.         *)
LEMMA OnceCounted ==
    ASSUME NEW q \in Seq(Items), Once(q)
    PROVE  Cardinality(Holding(q)) = Len(q)
<1> DEFINE S == 1..Len(q)
           T == Holding(q)
<1>1. q \in [S -> T] /\ Len(q) \in Nat
    BY DEF Holding
<1>2. q \in Bijection(S, T)
    BY <1>1 DEF Once, Holding, Bijection, Injection, Surjection, IsInjective
<1>3. ExistsBijection(S, T)
    BY <1>2 DEF ExistsBijection
<1> QED BY <1>1, <1>3, FS_CountingElements

(* What joins at the end.                                                  *)
LEMMA Joined ==
    ASSUME NEW q \in Seq(Items), Once(q), NEW i \in Items, i \notin Holding(q)
    PROVE  /\ Append(q, i) \in Seq(Items) /\ Once(Append(q, i))
           /\ Holding(Append(q, i)) = Holding(q) \union {i}
<1> DEFINE r == Append(q, i)
<1>1. /\ r \in Seq(Items) /\ Len(r) = Len(q) + 1 /\ Len(q) \in Nat
      /\ \A n \in 1..Len(q) : r[n] = q[n]
      /\ r[Len(q) + 1] = i
    OBVIOUS
<1> HIDE DEF r
<1>2. Once(r)
    BY <1>1 DEF Once, Holding
<1>3. Holding(r) = Holding(q) \union {i}
    BY <1>1 DEF Holding
<1> QED BY <1>1, <1>2, <1>3 DEF r

(* Two queues that share nothing, one after the other.                     *)
LEMMA Followed ==
    ASSUME NEW q \in Seq(Items), Once(q), NEW more \in Seq(Items), Once(more),
           Holding(q) \cap Holding(more) = {}
    PROVE  /\ q \o more \in Seq(Items) /\ Once(q \o more)
           /\ Holding(q \o more) = Holding(q) \union Holding(more)
<1> DEFINE r == q \o more
<1>1. /\ r \in Seq(Items) /\ Len(r) = Len(q) + Len(more) /\ Len(q) \in Nat /\ Len(more) \in Nat
      /\ \A n \in 1..Len(q) : r[n] = q[n]
      /\ \A n \in 1..Len(more) : r[Len(q) + n] = more[n]
    OBVIOUS
<1>2. \A n \in 1..Len(r) : n \in 1..Len(q) \/ \E k \in 1..Len(more) : n = Len(q) + k
    <2> SUFFICES ASSUME NEW n \in 1..Len(r), n \notin 1..Len(q)
                 PROVE  n - Len(q) \in 1..Len(more) /\ n = Len(q) + (n - Len(q))
        OBVIOUS
    <2> QED BY <1>1
<1> HIDE DEF r
<1>3. Holding(r) = Holding(q) \union Holding(more)
    <2>1. \A n \in 1..Len(r) : r[n] \in Holding(q) \union Holding(more)
        BY <1>1, <1>2 DEF Holding
    <2>2. Holding(q) \subseteq Holding(r)
        BY <1>1 DEF Holding
    <2>3. \A n \in 1..Len(more) : more[n] = r[Len(q) + n] /\ Len(q) + n \in 1..Len(r)
        BY <1>1
    <2>4. Holding(more) \subseteq Holding(r)
        BY <2>3 DEF Holding
    <2> QED BY <2>1, <2>2, <2>4 DEF Holding
<1>4. Once(r)
    <2> SUFFICES ASSUME NEW m \in 1..Len(r), NEW n \in 1..Len(r), r[m] = r[n]
                 PROVE  m = n
        BY DEF Once
    <2>1. CASE m \in 1..Len(q) /\ n \in 1..Len(q)
        BY <1>1, <2>1 DEF Once
    <2>2. CASE m \in 1..Len(q) /\ \E k \in 1..Len(more) : n = Len(q) + k
        <3>1. PICK k \in 1..Len(more) : n = Len(q) + k
            BY <2>2
        <3>2. r[m] \in Holding(q) /\ r[n] \in Holding(more)
            BY <1>1, <2>2, <3>1 DEF Holding
        <3> QED BY <3>2
    <2>3. CASE n \in 1..Len(q) /\ \E k \in 1..Len(more) : m = Len(q) + k
        <3>1. PICK k \in 1..Len(more) : m = Len(q) + k
            BY <2>3
        <3>2. r[n] \in Holding(q) /\ r[m] \in Holding(more)
            BY <1>1, <2>3, <3>1 DEF Holding
        <3> QED BY <3>2
    <2>4. ASSUME NEW k \in 1..Len(more), m = Len(q) + k, NEW j \in 1..Len(more), n = Len(q) + j
          PROVE  m = n
        BY <1>1, <2>4 DEF Once
    <2> QED BY <1>2, <2>1, <2>2, <2>3, <2>4
<1> QED BY <1>1, <1>3, <1>4 DEF r

(* What leaves, from any place.                                            *)
LEMMA Left ==
    ASSUME NEW q \in Seq(Items), Once(q), NEW n \in 1..Len(q)
    PROVE  /\ RemoveAt(q, n) \in Seq(Items) /\ Once(RemoveAt(q, n))
           /\ Holding(RemoveAt(q, n)) = Holding(q) \ {q[n]}
<1> DEFINE low == SubSeq(q, 1, n - 1)
           high == SubSeq(q, n + 1, Len(q))
<1>1. Len(q) \in Nat /\ n \in Nat
    OBVIOUS
<1>2. /\ low \in Seq(Items) /\ Len(low) = n - 1
      /\ \A k \in 1..Len(low) : low[k] = q[k]
    BY <1>1
<1>3. /\ high \in Seq(Items) /\ Len(high) = Len(q) - n
      /\ \A k \in 1..Len(high) : high[k] = q[n + k]
    BY <1>1
<1> HIDE DEF low, high
<1>4. Once(low)
    BY <1>1, <1>2 DEF Once
<1>5. Once(high)
    BY <1>1, <1>3 DEF Once
<1>6. Holding(low) = {q[k] : k \in 1..(n - 1)}
    BY <1>1, <1>2 DEF Holding
<1>7. Holding(high) = {q[k] : k \in (n + 1)..Len(q)}
    <2>1. \A k \in (n + 1)..Len(q) : k - n \in 1..Len(high) /\ n + (k - n) = k
        BY <1>1, <1>3
    <2>2. \A k \in 1..Len(high) : n + k \in (n + 1)..Len(q)
        BY <1>1, <1>3
    <2>3. \A k \in (n + 1)..Len(q) : q[k] = high[k - n]
        BY <1>3, <2>1
    <2>4. \A k \in 1..Len(high) : high[k] \in {q[m] : m \in (n + 1)..Len(q)}
        BY <1>3, <2>2
    <2>5. \A k \in (n + 1)..Len(q) : q[k] \in Holding(high)
        BY ONLY <2>1, <2>3 DEF Holding
    <2>6. Holding(high) \subseteq {q[k] : k \in (n + 1)..Len(q)}
        BY ONLY <2>4 DEF Holding
    <2>7. {q[k] : k \in (n + 1)..Len(q)} \subseteq Holding(high)
        BY ONLY <2>5
    <2> QED BY ONLY <2>6, <2>7
<1>8. Holding(low) \cap Holding(high) = {}
    BY <1>1, <1>6, <1>7 DEF Once
<1>9. Holding(low) \union Holding(high) = Holding(q) \ {q[n]}
    <2>1. \A k \in 1..Len(q) : k = n \/ k \in 1..(n - 1) \/ k \in (n + 1)..Len(q)
        BY <1>1
    <2>2. \A k \in 1..(n - 1) : k \in 1..Len(q) /\ q[k] # q[n]
        BY <1>1 DEF Once
    <2>3. \A k \in (n + 1)..Len(q) : k \in 1..Len(q) /\ q[k] # q[n]
        BY <1>1 DEF Once
    <2> QED BY <1>6, <1>7, <2>1, <2>2, <2>3 DEF Holding
<1>10. RemoveAt(q, n) = low \o high
    BY DEF RemoveAt, low, high
<1> QED BY <1>2, <1>3, <1>4, <1>5, <1>8, <1>9, <1>10, Followed

(* The head is the first place.                                            *)
LEMMA HeadLeft ==
    ASSUME NEW q \in Seq(Items), Once(q), q # <<>>
    PROVE  /\ Head(q) \in Holding(q) /\ Head(q) \in Items
           /\ Tail(q) \in Seq(Items) /\ Once(Tail(q))
           /\ Holding(Tail(q)) = Holding(q) \ {Head(q)}
<1>1. 1 \in 1..Len(q) /\ Head(q) = q[1]
    OBVIOUS
<1>2. Tail(q) = RemoveAt(q, 1)
    <2>1. SubSeq(q, 1, 0) = <<>> /\ SubSeq(q, 2, Len(q)) = Tail(q) /\ Tail(q) \in Seq(Items)
        OBVIOUS
    <2> QED BY <2>1 DEF RemoveAt
<1>3. /\ RemoveAt(q, 1) \in Seq(Items) /\ Once(RemoveAt(q, 1))
      /\ Holding(RemoveAt(q, 1)) = Holding(q) \ {q[1]}
    BY <1>1, Left
<1>4. q[1] \in Holding(q) /\ q[1] \in Items
    BY <1>1 DEF Holding
<1> QED BY <1>1, <1>2, <1>3, <1>4

-----------------------------------------------------------------------------
(* The inductive invariant                                                 *)

Phases == {"unborn", "open", "cancelled", "lapsed"}
Cards == {"absent", "ready", "leased", "done", "gone"}
Call == [step : {"new", "opened", "dispatching", "failed"},
         left : UNION {SUBSET Positions(s) : s \in Searches}]
AnyTurn == [task : Items \union {SweepTask, None}, item : Items \union {None},
            discarded : 0..MaxDiscards]
Turn == {turn \in AnyTurn : turn.task = None => turn = Idle}
Ready == {i \in Items : card[i] = "ready"}

Shapes ==
    /\ phase \in [Searches -> Phases]
    /\ calls \in [Calls -> Call]
    /\ tasks \subseteq Items /\ used \subseteq Items
    /\ wakes \in Nat
    /\ turns \in [Slots -> Turn]
    /\ faults \in 0..MaxFaults

(* The queue and the leases agree with the cards.                          *)
QueueAgrees ==
    /\ card \in [Items -> Cards]
    /\ holder \in [Items -> Slots \union {None}]
    /\ queue \in Seq(Items) /\ Once(queue) /\ Holding(queue) = Ready
    /\ \A i \in Items : holder[i] # None => card[i] = "leased"

(* One call at a time writes the cards of a search, and none are there     *)
(* before: a repeated call writes nothing.                                 *)
Opened(c) == calls[c].step = "opened"
Unwritten(s) == \A i \in Items : i[1] = s => card[i] = "absent"

OneWriter ==
    /\ \A s \in Searches : phase[s] = "unborn" => Unwritten(s)
    /\ \A c \in Calls : Opened(c) => phase[SearchOf[c]] # "unborn" /\ Unwritten(SearchOf[c])
    /\ \A c, d \in Calls : Opened(c) /\ Opened(d) /\ SearchOf[c] = SearchOf[d] => c = d

WakeupsInv == Shapes /\ QueueAgrees /\ OneWriter

-----------------------------------------------------------------------------
(* Cards and queue                                                         *)

LEMMA ItemsKnown ==
    /\ \A i \in Items : i[1] \in Searches
    /\ \A s \in Searches : \A p \in Positions(s) : <<s, p>> \in Items
BY DEF Items

(* A card that becomes ready joins the queue.                              *)
LEMMA GetsReady ==
    ASSUME QueueAgrees, NEW i \in Items, card[i] # "ready",
           card' = [card EXCEPT ![i] = "ready"], holder' = [holder EXCEPT ![i] = None],
           queue' = Append(queue, i)
    PROVE  QueueAgrees'
<1>1. i \notin Holding(queue)
    BY DEF QueueAgrees, Ready
<1>2. queue' \in Seq(Items) /\ Once(queue') /\ Holding(queue') = Holding(queue) \union {i}
    BY <1>1, Joined DEF QueueAgrees
<1>3. Ready' = Ready \union {i}
    BY DEF QueueAgrees, Ready
<1>4. card' \in [Items -> Cards] /\ holder' \in [Items -> Slots \union {None}]
    BY DEF QueueAgrees, Cards
<1>5. \A j \in Items : holder'[j] # None => card'[j] = "leased"
    BY DEF QueueAgrees
<1> QED BY <1>2, <1>3, <1>4, <1>5 DEF QueueAgrees, Once, Holding

(* A card that stops being ready leaves the queue, wherever it stands.     *)
LEMMA StopsReady ==
    ASSUME QueueAgrees, NEW i \in Items, card[i] = "ready", NEW state \in Cards \ {"ready"},
           card' = [card EXCEPT ![i] = state],
           holder' \in [Items -> Slots \union {None}],
           \A j \in Items \ {i} : holder'[j] = holder[j],
           holder'[i] # None => state = "leased",
           queue' \in Seq(Items), Once(queue'), Holding(queue') = Holding(queue) \ {i}
    PROVE  QueueAgrees'
<1>1. Ready' = Ready \ {i}
    BY DEF QueueAgrees, Ready
<1>2. card' \in [Items -> Cards]
    BY DEF QueueAgrees
<1>3. \A j \in Items : holder'[j] # None => card'[j] = "leased"
    BY DEF QueueAgrees
<1> QED BY <1>1, <1>2, <1>3 DEF QueueAgrees, Once, Holding

(* A card that was not ready and does not become so stays out of it.       *)
LEMMA StaysOut ==
    ASSUME QueueAgrees, NEW i \in Items, card[i] # "ready", NEW state \in Cards \ {"ready"},
           card' = [card EXCEPT ![i] = state], holder' = [holder EXCEPT ![i] = None],
           queue' = queue
    PROVE  QueueAgrees'
<1>1. Ready' = Ready
    BY DEF QueueAgrees, Ready
<1>2. card' \in [Items -> Cards] /\ holder' \in [Items -> Slots \union {None}]
    BY DEF QueueAgrees
<1>3. \A j \in Items : holder'[j] # None => card'[j] = "leased"
    BY DEF QueueAgrees
<1> QED BY <1>1, <1>2, <1>3 DEF QueueAgrees, Once, Holding

LEMMA QueueRests ==
    ASSUME QueueAgrees, UNCHANGED <<card, queue, holder>>
    PROVE  QueueAgrees'
BY DEF QueueAgrees, Ready, Once, Holding

(* Only cards that were written move on, so what is unwritten stays so.    *)
LEMMA WriterRests ==
    ASSUME OneWriter, calls' = calls, phase' = phase,
           \A i \in Items : card[i] = "absent" => card'[i] = "absent"
    PROVE  OneWriter'
BY DEF OneWriter, Opened, Unwritten

-----------------------------------------------------------------------------
(* Calls                                                                   *)

LEMMA OpenSearchKeeps ==
    ASSUME WakeupsInv, NEW c \in Calls, OpenSearch(c)
    PROVE  WakeupsInv'
<1> DEFINE s == SearchOf[c]
           next == [calls[c] EXCEPT !.step = "opened"]
<1>1. /\ Shapes /\ QueueAgrees /\ OneWriter
      /\ s \in Searches /\ calls[c] \in Call /\ phase[s] = "unborn"
      /\ phase' = [phase EXCEPT ![s] = "open"]
    BY WakeupsAssumption DEF WakeupsInv, Shapes, WakeupsAssumption, OpenSearch
<1>2. next \in Call /\ next.step = "opened"
    BY <1>1 DEF Call
<1>3. calls' = [calls EXCEPT ![c] = next]
    BY <1>1 DEF OpenSearch, Shapes
<1> HIDE DEF next
<1>4. Shapes'
    BY <1>1, <1>2, <1>3 DEF Shapes, Phases, OpenSearch, wakeups
<1>5. QueueAgrees'
    BY <1>1, QueueRests DEF OpenSearch
<1>6. card' = card
    BY DEF OpenSearch
<1>7. \A d \in Calls \ {c} : calls'[d] = calls[d] /\ (Opened(d) => SearchOf[d] # s)
    BY <1>1, <1>3 DEF OneWriter, Shapes
<1>8. calls'[c] = next
    BY <1>1, <1>3 DEF Shapes
<1>9. OneWriter'
    <2>1. \A t \in Searches : phase'[t] = "unborn" => phase[t] = "unborn"
        BY <1>1 DEF Shapes
    <2>2. \A t \in Searches : phase[t] # "unborn" => phase'[t] # "unborn"
        BY <1>1 DEF Shapes
    <2>3. phase'[s] # "unborn"
        BY <1>1 DEF Shapes
    <2>4. \A t \in Searches : Unwritten(t)' = Unwritten(t)
        BY <1>6 DEF Unwritten
    <2>5. \A d \in Calls : Opened(d)' => d = c \/ Opened(d)
        BY <1>7 DEF Opened
    <2>6. SearchOf \in [Calls -> Searches] /\ Unwritten(s)
        BY <1>1, WakeupsAssumption DEF WakeupsAssumption, OneWriter
    <2>7. \A t \in Searches : phase'[t] = "unborn" => Unwritten(t)'
        BY <1>1, <2>1, <2>4 DEF OneWriter
    <2>8. \A d \in Calls : Opened(d)' => phase'[SearchOf[d]] # "unborn" /\ Unwritten(SearchOf[d])'
        BY <1>1, <2>2, <2>3, <2>4, <2>5, <2>6 DEF OneWriter
    <2>9. \A d, e \in Calls : Opened(d)' /\ Opened(e)' /\ SearchOf[d] = SearchOf[e] => d = e
        BY <1>1, <1>7, <2>5 DEF OneWriter
    <2> QED BY <2>7, <2>8, <2>9 DEF OneWriter, Opened, Unwritten
<1> QED BY <1>4, <1>5, <1>9 DEF WakeupsInv

(* A call that stops being opened, or never was, disturbs no other.        *)
LEMMA CallGoesOn ==
    ASSUME WakeupsInv, NEW c \in Calls, NEW next \in Call, next.step # "opened",
           calls' = [calls EXCEPT ![c] = next], phase' = phase,
           \A i \in Items : card'[i] # card[i] => i[1] = SearchOf[c] /\ Opened(c)
    PROVE  OneWriter' /\ calls' \in [Calls -> Call]
<1>1. calls \in [Calls -> Call] /\ OneWriter /\ SearchOf \in [Calls -> Searches]
    BY WakeupsAssumption DEF WakeupsInv, Shapes, WakeupsAssumption
<1>2. calls' \in [Calls -> Call] /\ calls'[c] = next /\ \A d \in Calls \ {c} : calls'[d] = calls[d]
    BY <1>1
<1>3. \A d \in Calls : Opened(d)' => d # c /\ Opened(d)
    BY <1>2 DEF Opened
<1>4. \A s \in Searches : Unwritten(s) /\ (Opened(c) => s # SearchOf[c]) => Unwritten(s)'
    BY DEF Unwritten
<1>5. \A s \in Searches : phase'[s] = "unborn" => Unwritten(s)'
    BY <1>1, <1>4 DEF OneWriter
<1>6. \A d \in Calls : Opened(d)' => phase'[SearchOf[d]] # "unborn" /\ Unwritten(SearchOf[d])'
    BY <1>1, <1>3, <1>4 DEF OneWriter
<1>7. \A d, e \in Calls : Opened(d)' /\ Opened(e)' /\ SearchOf[d] = SearchOf[e] => d = e
    BY <1>1, <1>3 DEF OneWriter
<1> QED BY <1>2, <1>5, <1>6, <1>7 DEF OneWriter, Opened, Unwritten

LEMMA Dispatching ==
    ASSUME NEW s \in Searches
    PROVE  [step |-> "dispatching", left |-> Positions(s)] \in Call
BY DEF Call

LEMMA RepeatSearchKeeps ==
    ASSUME WakeupsInv, NEW c \in Calls, RepeatSearch(c)
    PROVE  WakeupsInv'
<1> DEFINE next == [step |-> "dispatching", left |-> Positions(SearchOf[c])]
<1>1. calls' = [calls EXCEPT ![c] = next] /\ UNCHANGED <<phase, card, queue, holder, wakeups, turns, faults>>
    BY DEF RepeatSearch, work
<1>2. next \in Call /\ next.step # "opened"
    BY Dispatching, WakeupsAssumption DEF WakeupsAssumption
<1> HIDE DEF next
<1>3. OneWriter' /\ calls' \in [Calls -> Call]
    <2>1. \A i \in Items : card'[i] # card[i] => i[1] = SearchOf[c] /\ Opened(c)
        BY <1>1
    <2>2. calls' = [calls EXCEPT ![c] = next] /\ phase' = phase
        BY <1>1
    <2> QED BY <1>2, <2>1, <2>2, CallGoesOn
<1>4. QueueAgrees'
    BY <1>1, QueueRests DEF WakeupsInv
<1> QED BY <1>1, <1>3, <1>4 DEF WakeupsInv, Shapes, wakeups

(* The cards of a search join the queue one after the other.               *)
LEMMA WriteItemsKeeps ==
    ASSUME WakeupsInv, NEW c \in Calls, WriteItems(c)
    PROVE  WakeupsInv'
<1> DEFINE s == SearchOf[c]
           more == [n \in 1..NumCards[s] |-> <<s, n - 1>>]
           next == [step |-> "dispatching", left |-> Positions(s)]
<1>1. /\ Shapes /\ QueueAgrees /\ OneWriter /\ s \in Searches /\ Opened(c)
      /\ NumCards[s] \in Nat /\ Unwritten(s)
    BY WakeupsAssumption DEF WakeupsInv, WriteItems, Opened, OneWriter, WakeupsAssumption
<1>2. \A n \in 1..NumCards[s] : more[n] = <<s, n - 1>> /\ more[n] \in Items
    <2> SUFFICES ASSUME NEW n \in 1..NumCards[s] PROVE <<s, n - 1>> \in Items
        OBVIOUS
    <2>1. n - 1 \in Positions(s)
        BY <1>1 DEF Positions
    <2> QED BY <1>1, <2>1, ItemsKnown
<1>3. more \in Seq(Items) /\ Len(more) = NumCards[s]
    <2>1. PICK N \in Nat : N = NumCards[s]
        BY <1>1
    <2>2. more = [n \in 1..N |-> <<s, n - 1>>] /\ \A n \in 1..N : <<s, n - 1>> \in Items
        BY <1>2, <2>1
    <2>3. /\ [n \in 1..N |-> <<s, n - 1>>] \in Seq(Items)
          /\ Len([n \in 1..N |-> <<s, n - 1>>]) = N
        BY <2>1, <2>2
    <2> QED BY <2>1, <2>2, <2>3
<1>4. Once(more)
    BY <1>1, <1>2, <1>3 DEF Once
<1>5. Holding(more) = {i \in Items : i[1] = s}
    <2>1. \A i \in Items : i[1] = s => \E n \in 1..NumCards[s] : i = more[n]
        <3> SUFFICES ASSUME NEW i \in Items, i[1] = s PROVE \E n \in 1..NumCards[s] : i = <<s, n - 1>>
            BY <1>2
        <3>1. i[2] \in Positions(s) /\ i = <<s, i[2]>>
            BY DEF Items
        <3>2. i[2] \in Nat /\ i[2] + 1 \in 1..NumCards[s] /\ (i[2] + 1) - 1 = i[2]
            BY <1>1, <3>1 DEF Positions
        <3> QED BY <3>1, <3>2
    <2>2. \A n \in 1..Len(more) : more[n] \in Items /\ more[n][1] = s
        BY <1>2, <1>3
    <2>3. \A i \in Items : i[1] = s => \E n \in 1..Len(more) : i = more[n]
        BY <1>3, <2>1
    <2> HIDE DEF more
    <2>4. Holding(more) \subseteq {i \in Items : i[1] = s}
        BY <2>2 DEF Holding
    <2>5. {i \in Items : i[1] = s} \subseteq Holding(more)
        BY <2>3 DEF Holding
    <2> QED BY <2>4, <2>5
<1>6. Holding(queue) \cap Holding(more) = {}
    BY <1>1, <1>5 DEF QueueAgrees, Ready, Unwritten
<1>7. queue' \in Seq(Items) /\ Once(queue') /\ Holding(queue') = Holding(queue) \union Holding(more)
    <2>1. queue' = queue \o more
        BY DEF WriteItems
    <2> HIDE DEF more
    <2> QED BY <1>1, <1>3, <1>4, <1>6, <2>1, Followed DEF QueueAgrees
<1>8. card' \in [Items -> Cards] /\ \A i \in Items : card'[i] = IF i[1] = s THEN "ready" ELSE card[i]
    BY <1>1 DEF WriteItems, QueueAgrees, Cards
<1>9. Ready' = Ready \union {i \in Items : i[1] = s}
    BY <1>8 DEF Ready
<1>10. \A i \in Items : holder'[i] # None => card'[i] = "leased"
    BY <1>1, <1>8 DEF QueueAgrees, Unwritten, WriteItems
<1>11. QueueAgrees'
    BY <1>1, <1>5, <1>7, <1>8, <1>9, <1>10 DEF QueueAgrees, WriteItems, Once, Holding
<1>12. calls' = [calls EXCEPT ![c] = next] /\ phase' = phase
    BY DEF WriteItems
<1>13. next \in Call /\ next.step # "opened"
    BY <1>1, Dispatching
<1> HIDE DEF next
<1>14. OneWriter' /\ calls' \in [Calls -> Call]
    BY <1>1, <1>8, <1>12, <1>13, CallGoesOn
<1> QED BY <1>1, <1>11, <1>14 DEF WakeupsInv, Shapes, WriteItems, wakeups

(* A call that has a task less to create.                                  *)
LEMMA OneLess ==
    ASSUME WakeupsInv, NEW c \in Calls, NEW p, UNCHANGED work, p \in calls[c].left,
           calls' = [calls EXCEPT ![c].left = @ \ {p}]
    PROVE  OneWriter' /\ QueueAgrees' /\ phase' = phase /\ calls' \in [Calls -> Call]
<1> DEFINE next == [calls[c] EXCEPT !.left = @ \ {p}]
<1>1. calls \in [Calls -> Call] /\ OneWriter /\ QueueAgrees
    BY DEF WakeupsInv, Shapes
<1>2. next \in Call /\ next.step = calls[c].step
    BY <1>1 DEF Call
<1>3. calls' = [calls EXCEPT ![c] = next]
    BY <1>1
<1> HIDE DEF next
<1>4. calls' \in [Calls -> Call] /\ \A d \in Calls : calls'[d].step = calls[d].step
    BY <1>1, <1>2, <1>3
<1>5. UNCHANGED <<phase, card, queue, holder>>
    BY DEF work
<1>6. OneWriter'
    BY <1>1, <1>4, <1>5 DEF OneWriter, Opened, Unwritten
<1> QED BY <1>1, <1>4, <1>5, <1>6, QueueRests

LEMMA Struck ==
    ASSUME faults \in 0..MaxFaults, Fault
    PROVE  faults' \in 0..MaxFaults
BY WakeupsAssumption DEF WakeupsAssumption, Fault

LEMMA TasksKeep ==
    ASSUME WakeupsInv, NEW c \in Calls, NEW p \in Positions(SearchOf[c]),
           CreateTask(c, p) \/ TaskRefused(c, p)
    PROVE  WakeupsInv'
<1>1. p \in calls[c].left /\ UNCHANGED <<work, wakes, turns>> /\ calls' = [calls EXCEPT ![c].left = @ \ {p}]
    BY DEF CreateTask, TaskRefused, wakeups
<1>2. OneWriter' /\ QueueAgrees' /\ phase' = phase /\ calls' \in [Calls -> Call]
    BY <1>1, OneLess
<1>3. <<SearchOf[c], p>> \in Items
    BY ItemsKnown, WakeupsAssumption DEF WakeupsAssumption
<1>4. tasks' \subseteq Items /\ used' \subseteq Items
    BY <1>3 DEF CreateTask, TaskRefused, wakeups, WakeupsInv, Shapes
<1>5. faults' \in 0..MaxFaults
    BY Struck DEF CreateTask, TaskRefused, WakeupsInv, Shapes
<1> QED BY <1>1, <1>2, <1>4, <1>5 DEF WakeupsInv, Shapes

LEMMA CallFailsKeeps ==
    ASSUME WakeupsInv, NEW c \in Calls, CallFails(c)
    PROVE  WakeupsInv'
<1> DEFINE next == [step |-> "failed", left |-> {}]
<1>1. calls' = [calls EXCEPT ![c] = next] /\ UNCHANGED <<phase, card, queue, holder, wakeups, turns>>
    BY DEF CallFails, work
<1>2. next \in Call /\ next.step # "opened"
    BY WakeupsAssumption DEF WakeupsAssumption, Call
<1> HIDE DEF next
<1>3. OneWriter' /\ calls' \in [Calls -> Call]
    <2>1. \A i \in Items : card'[i] # card[i] => i[1] = SearchOf[c] /\ Opened(c)
        BY <1>1
    <2>2. calls' = [calls EXCEPT ![c] = next] /\ phase' = phase
        BY <1>1
    <2> QED BY <1>2, <2>1, <2>2, CallGoesOn
<1>4. QueueAgrees'
    BY <1>1, QueueRests DEF WakeupsInv
<1>5. faults' \in 0..MaxFaults
    BY Struck DEF CallFails, WakeupsInv, Shapes
<1> QED BY <1>1, <1>3, <1>4, <1>5 DEF WakeupsInv, Shapes, wakeups

-----------------------------------------------------------------------------
(* Turns                                                                   *)

(* A new value for what one slot runs.                                     *)
LEMMA TurnTaken ==
    ASSUME Shapes, NEW w \in Slots, NEW next \in Turn, turns' = [turns EXCEPT ![w] = next]
    PROVE  turns' \in [Slots -> Turn]
BY DEF Shapes

LEMMA IdleTurn == Idle \in Turn
BY WakeupsAssumption DEF WakeupsAssumption, Idle, Turn, AnyTurn

LEMMA TakeTaskKeeps ==
    ASSUME WakeupsInv, NEW w \in Slots, TakeTask(w)
    PROVE  WakeupsInv'
<1>1. Shapes /\ UNCHANGED <<phase, card, queue, holder, calls, used, faults>> /\ turns[w] = Idle
    BY DEF WakeupsInv, TakeTask, work
<1>2. QueueAgrees' /\ OneWriter'
    <2>1. card' = card
        BY <1>1
    <2> QED BY <1>1, <2>1, QueueRests, WriterRests DEF WakeupsInv
<1>3. ASSUME NEW name \in Items \union {SweepTask}, turns' = [turns EXCEPT ![w].task = name]
      PROVE  turns' \in [Slots -> Turn]
    <2> DEFINE next == [turns[w] EXCEPT !.task = name]
    <2>1. turns[w] \in AnyTurn
        BY <1>1, IdleTurn DEF Turn
    <2>3. next \in AnyTurn /\ next.task = name
        BY <2>1 DEF AnyTurn
    <2>4. next.task = None => next = Idle
        BY <1>1 DEF Idle
    <2>2. turns' = [turns EXCEPT ![w] = next]
        BY <1>3
    <2> HIDE DEF next
    <2> QED BY <1>1, <2>2, <2>3, <2>4, TurnTaken DEF Turn
<1>4. turns' \in [Slots -> Turn]
    BY <1>1, <1>3 DEF TakeTask, Shapes
<1>5. tasks' \subseteq Items /\ wakes' \in Nat
    BY <1>1 DEF TakeTask, Shapes
<1> QED BY <1>1, <1>2, <1>4, <1>5 DEF WakeupsInv, Shapes

LEMMA ClaimItemKeeps ==
    ASSUME WakeupsInv, NEW w \in Slots, ClaimItem(w)
    PROVE  WakeupsInv'
<1> DEFINE i == Head(queue)
           next == [turns[w] EXCEPT !.item = i]
<1>1. /\ Shapes /\ QueueAgrees /\ OneWriter /\ queue # <<>>
      /\ UNCHANGED <<phase, calls, tasks, used, wakes, faults>>
      /\ card' = [card EXCEPT ![i] = "leased"] /\ holder' = [holder EXCEPT ![i] = w]
      /\ queue' = Tail(queue)
    BY DEF WakeupsInv, ClaimItem, wakeups
<1>2. i \in Items /\ card[i] = "ready"
    BY <1>1, HeadLeft DEF QueueAgrees, Ready
<1>3. queue' \in Seq(Items) /\ Once(queue') /\ Holding(queue') = Holding(queue) \ {i}
    BY <1>1, HeadLeft DEF QueueAgrees
<1>4. next \in Turn
    BY <1>1, <1>2 DEF Shapes, Turn, AnyTurn, ClaimItem, Claiming
<1>5. turns' = [turns EXCEPT ![w] = next]
    BY DEF ClaimItem
<1> HIDE DEF next, i
<1>6. turns' \in [Slots -> Turn]
    BY <1>1, <1>4, <1>5, TurnTaken
<1>7. QueueAgrees'
    <2>1. holder' \in [Items -> Slots \union {None}] /\ \A j \in Items \ {i} : holder'[j] = holder[j]
        BY <1>1, <1>2 DEF QueueAgrees
    <2>2. "leased" \in Cards \ {"ready"}
        BY DEF Cards
    <2> QED BY <1>1, <1>2, <1>3, <2>1, <2>2, StopsReady
<1>8. OneWriter'
    <2>1. \A j \in Items : card[j] = "absent" => card'[j] = "absent"
        BY <1>1, <1>2 DEF QueueAgrees
    <2> QED BY <1>1, <2>1, WriterRests
<1> QED BY <1>1, <1>6, <1>7, <1>8 DEF WakeupsInv, Shapes

LEMMA DiscardItemKeeps ==
    ASSUME WakeupsInv, NEW w \in Slots, DiscardItem(w)
    PROVE  WakeupsInv'
<1> DEFINE i == Head(queue)
           next == IF turns[w].discarded < MaxDiscards
                   THEN [turns[w] EXCEPT !.discarded = @ + 1] ELSE Idle
<1>1. /\ Shapes /\ QueueAgrees /\ OneWriter /\ queue # <<>>
      /\ UNCHANGED <<phase, holder, calls, tasks, used, wakes, faults>>
      /\ card' = [card EXCEPT ![i] = "gone"] /\ queue' = Tail(queue)
    BY DEF WakeupsInv, DiscardItem, wakeups
<1>2. i \in Items /\ card[i] = "ready"
    BY <1>1, HeadLeft DEF QueueAgrees, Ready
<1>3. queue' \in Seq(Items) /\ Once(queue') /\ Holding(queue') = Holding(queue) \ {i}
    BY <1>1, HeadLeft DEF QueueAgrees
<1>4. next \in Turn
    <2>1. turns[w] \in AnyTurn /\ turns[w].task # None
        BY <1>1 DEF Shapes, Turn, DiscardItem, Claiming
    <2>2. ASSUME turns[w].discarded < MaxDiscards
          PROVE  [turns[w] EXCEPT !.discarded = @ + 1] \in Turn
        BY <2>1, <2>2, WakeupsAssumption DEF Turn, AnyTurn, WakeupsAssumption
    <2> QED BY <2>2, IdleTurn
<1>5. turns' = [turns EXCEPT ![w] = next]
    BY DEF DiscardItem
<1> HIDE DEF next, i
<1>6. turns' \in [Slots -> Turn]
    BY <1>1, <1>4, <1>5, TurnTaken
<1>7. QueueAgrees'
    <2>1. holder' \in [Items -> Slots \union {None}] /\ \A j \in Items \ {i} : holder'[j] = holder[j]
        BY <1>1, <1>2 DEF QueueAgrees
    <2>2. "gone" \in Cards \ {"ready"}
        BY DEF Cards
    <2>3. holder'[i] = None
        BY <1>1, <1>2 DEF QueueAgrees
    <2> QED BY <1>1, <1>2, <1>3, <2>1, <2>2, <2>3, StopsReady
<1>8. OneWriter'
    <2>1. \A j \in Items : card[j] = "absent" => card'[j] = "absent"
        BY <1>1, <1>2 DEF QueueAgrees
    <2> QED BY <1>1, <2>1, WriterRests
<1> QED BY <1>1, <1>6, <1>7, <1>8 DEF WakeupsInv, Shapes

(* A turn that ends without a card, spent or to be delivered again.        *)
LEMMA NothingDoneKeeps ==
    ASSUME WakeupsInv, NEW w \in Slots, FindNothing(w) \/ TurnFails(w)
    PROVE  WakeupsInv'
<1>1. /\ Shapes /\ UNCHANGED <<phase, card, queue, holder, calls, used>>
      /\ turns' = [turns EXCEPT ![w] = Idle]
    BY DEF WakeupsInv, FindNothing, TurnFails, work, wakeups
<1>2. QueueAgrees' /\ OneWriter'
    <2>1. card' = card
        BY <1>1
    <2> QED BY <1>1, <2>1, QueueRests, WriterRests DEF WakeupsInv
<1>3. turns' \in [Slots -> Turn]
    BY <1>1, IdleTurn, TurnTaken
<1>4. tasks' \subseteq Items /\ wakes' \in Nat
    <2>1. CASE FindNothing(w)
        BY <1>1, <2>1 DEF FindNothing, wakeups, Shapes
    <2>2. CASE TurnFails(w)
        <3>1. turns[w].task \in Items \union {SweepTask}
            BY <1>1, <2>2 DEF Shapes, Turn, AnyTurn, TurnFails
        <3> QED BY <1>1, <2>2, <3>1 DEF TurnFails, Shapes
    <2> QED BY <2>1, <2>2
<1>5. faults' \in 0..MaxFaults
    BY <1>1, Struck DEF FindNothing, TurnFails, Shapes
<1> QED BY <1>1, <1>2, <1>3, <1>4, <1>5 DEF WakeupsInv, Shapes

(* A result is written under the turn's own lease, or not at all.          *)
LEMMA CompleteItemKeeps ==
    ASSUME WakeupsInv, NEW w \in Slots, CompleteItem(w)
    PROVE  WakeupsInv'
<1> DEFINE i == turns[w].item
<1>1. /\ Shapes /\ QueueAgrees /\ OneWriter /\ i # None
      /\ UNCHANGED <<phase, queue, calls, tasks, used, wakes, faults>>
      /\ turns' = [turns EXCEPT ![w] = Idle]
    BY DEF WakeupsInv, CompleteItem, wakeups
<1>2. i \in Items
    BY <1>1 DEF Shapes, Turn, AnyTurn
<1>3. turns' \in [Slots -> Turn]
    BY <1>1, IdleTurn, TurnTaken
<1>4. QueueAgrees' /\ \A j \in Items : card[j] = "absent" => card'[j] = "absent"
    <2>1. CASE UNCHANGED <<card, holder>>
        BY <1>1, <2>1, QueueRests
    <2>2. CASE /\ holder[i] = w
               /\ card' = [card EXCEPT ![i] = "done"] /\ holder' = [holder EXCEPT ![i] = None]
        <3>1. holder[i] # None
            BY <2>2, WakeupsAssumption DEF WakeupsAssumption
        <3>2. card[i] = "leased" /\ "done" \in Cards \ {"ready"}
            BY <1>1, <1>2, <3>1 DEF QueueAgrees, Cards
        <3>3. QueueAgrees'
            BY <1>1, <1>2, <2>2, <3>2, StaysOut
        <3> QED BY <1>1, <1>2, <2>2, <3>2, <3>3 DEF QueueAgrees
    <2> QED BY <2>1, <2>2 DEF CompleteItem
<1>5. OneWriter'
    BY <1>1, <1>4, WriterRests
<1> QED BY <1>1, <1>3, <1>4, <1>5 DEF WakeupsInv, Shapes

-----------------------------------------------------------------------------
(* Leases, sweeps and searches                                             *)

LEMMA LeaseLapsesKeeps ==
    ASSUME WakeupsInv, NEW i \in Items, LeaseLapses(i)
    PROVE  WakeupsInv'
<1>1. /\ Shapes /\ QueueAgrees /\ OneWriter /\ card[i] = "leased"
      /\ UNCHANGED <<phase, calls, tasks, used, wakes, turns>>
      /\ card' = [card EXCEPT ![i] = "ready"] /\ holder' = [holder EXCEPT ![i] = None]
      /\ queue' = Append(queue, i)
    BY DEF WakeupsInv, LeaseLapses, wakeups
<1>2. QueueAgrees'
    BY <1>1, GetsReady
<1>3. \A j \in Items : card[j] = "absent" => card'[j] = "absent"
    BY <1>1 DEF QueueAgrees
<1>4. OneWriter'
    BY <1>1, <1>3, WriterRests
<1>5. faults' \in 0..MaxFaults
    BY <1>1, Struck DEF LeaseLapses, Shapes
<1> QED BY <1>1, <1>2, <1>4, <1>5 DEF WakeupsInv, Shapes

(* A sweep adds tasks and touches nothing else.                            *)
LEMMA SweepKeeps ==
    ASSUME WakeupsInv, Sweep
    PROVE  WakeupsInv'
<1>1. Shapes /\ UNCHANGED <<phase, card, queue, holder, calls, tasks, used, turns>>
    BY DEF WakeupsInv, Sweep, work
<1>2. Waiting \in Nat
    <2> DEFINE S == {n \in 1..Len(queue) :
                        /\ n <= MaxWakes
                        /\ queue[n] \notin Damaged
                        /\ phase[queue[n][1]] # "lapsed"}
    <2>1. Len(queue) \in Nat
        BY DEF WakeupsInv, QueueAgrees
    <2>2. IsFiniteSet(1..Len(queue)) /\ S \subseteq 1..Len(queue)
        BY <2>1, FS_Interval
    <2> HIDE DEF S
    <2>3. Cardinality(S) \in Nat
        BY <2>2, FS_Subset, FS_CardinalityType
    <2> QED BY <2>3 DEF S, Waiting
<1>3. QueueAgrees' /\ OneWriter'
    <2>1. card' = card
        BY <1>1
    <2> QED BY <1>1, <2>1, QueueRests, WriterRests DEF WakeupsInv
<1>4. wakes' \in Nat /\ faults' \in 0..MaxFaults
    BY <1>1, <1>2, Struck DEF Sweep, Shapes
<1> QED BY <1>1, <1>3, <1>4 DEF WakeupsInv, Shapes

(* A search that closes takes no card from the queue: turns and the TTL do. *)
LEMMA SearchClosesKeeps ==
    ASSUME WakeupsInv, NEW s \in Searches, CancelSearch(s) \/ Lapse(s)
    PROVE  WakeupsInv'
<1>1. /\ Shapes /\ OneWriter /\ phase[s] # "unborn"
      /\ UNCHANGED <<card, queue, holder, calls, tasks, used, wakes, turns, faults>>
      /\ \E closed \in {"cancelled", "lapsed"} : phase' = [phase EXCEPT ![s] = closed]
    BY DEF WakeupsInv, CancelSearch, Lapse, wakeups
<1>2. QueueAgrees'
    BY <1>1, QueueRests DEF WakeupsInv
<1>3. phase' \in [Searches -> Phases]
    BY <1>1 DEF Shapes, Phases
<1>4. \A t \in Searches : phase'[t] = "unborn" <=> phase[t] = "unborn"
    BY <1>1 DEF Shapes
<1>5. \A c \in Calls : SearchOf[c] \in Searches
    BY WakeupsAssumption DEF WakeupsAssumption
<1>6. OneWriter'
    BY <1>1, <1>4, <1>5 DEF OneWriter, Opened, Unwritten
<1> QED BY <1>1, <1>2, <1>3, <1>6 DEF WakeupsInv, Shapes

(* The TTL takes a card away, out of the middle of the queue if need be.   *)
LEMMA ExpireItemKeeps ==
    ASSUME WakeupsInv, NEW i \in Items, ExpireItem(i)
    PROVE  WakeupsInv'
<1>1. /\ Shapes /\ QueueAgrees /\ OneWriter /\ card[i] # "absent"
      /\ UNCHANGED <<phase, calls, tasks, used, wakes, turns, faults>>
      /\ card' = [card EXCEPT ![i] = "gone"] /\ holder' = [holder EXCEPT ![i] = None]
    BY DEF WakeupsInv, ExpireItem, wakeups
<1>2. "gone" \in Cards \ {"ready"}
    BY DEF Cards
<1>3. QueueAgrees'
    <2>1. CASE card[i] = "ready"
        <3>1. PICK n \in 1..Len(queue) : queue[n] = i /\ queue' = RemoveAt(queue, n)
            BY <2>1 DEF ExpireItem
        <3>2. queue' \in Seq(Items) /\ Once(queue') /\ Holding(queue') = Holding(queue) \ {i}
            BY <1>1, <3>1, Left DEF QueueAgrees
        <3>3. /\ holder' \in [Items -> Slots \union {None}] /\ holder'[i] = None
              /\ \A j \in Items \ {i} : holder'[j] = holder[j]
            BY <1>1 DEF QueueAgrees
        <3> QED BY <1>1, <1>2, <2>1, <3>2, <3>3, StopsReady
    <2>2. CASE card[i] # "ready"
        <3>1. queue' = queue
            BY <2>2 DEF ExpireItem
        <3> QED BY <1>1, <1>2, <2>2, <3>1, StaysOut
    <2> QED BY <2>1, <2>2
<1>4. OneWriter'
    <2>1. \A j \in Items : card[j] = "absent" => card'[j] = "absent"
        BY <1>1 DEF QueueAgrees
    <2> QED BY <1>1, <2>1, WriterRests
<1> QED BY <1>1, <1>3, <1>4 DEF WakeupsInv, Shapes

-----------------------------------------------------------------------------
(* The theorem                                                             *)

LEMMA InitHolds ==
    ASSUME Init
    PROVE  WakeupsInv
<1>1. Shapes
    <2>1. [step |-> "new", left |-> {}] \in Call \/ Calls = {}
        BY WakeupsAssumption DEF WakeupsAssumption, Call
    <2>2. calls \in [Calls -> Call]
        BY <2>1 DEF Init
    <2> QED BY <2>2, IdleTurn, WakeupsAssumption DEF WakeupsAssumption, Shapes, Init, Phases
<1>2. QueueAgrees
    <2>1. queue \in Seq(Items) /\ Once(queue) /\ Holding(queue) = {}
        BY DEF Init, Once, Holding
    <2>2. Ready = {}
        BY DEF Init, Ready
    <2> QED BY <2>1, <2>2 DEF QueueAgrees, Init, Cards
<1>3. OneWriter
    BY DEF OneWriter, Init, Opened, Unwritten
<1> QED BY <1>1, <1>2, <1>3 DEF WakeupsInv

LEMMA NextKeeps ==
    ASSUME WakeupsInv, [Next]_vars
    PROVE  WakeupsInv'
<1>1. ASSUME NEW c \in Calls, CallStep(c) PROVE WakeupsInv'
    BY <1>1, OpenSearchKeeps, RepeatSearchKeeps, WriteItemsKeeps, TasksKeep, CallFailsKeeps
       DEF CallStep
<1>2. ASSUME NEW w \in Slots, TurnStep(w) \/ TurnFails(w) PROVE WakeupsInv'
    BY <1>2, TakeTaskKeeps, ClaimItemKeeps, DiscardItemKeeps, NothingDoneKeeps, CompleteItemKeeps
       DEF TurnStep
<1>3. ASSUME NEW i \in Items, LeaseLapses(i) \/ ExpireItem(i) PROVE WakeupsInv'
    BY <1>3, LeaseLapsesKeeps, ExpireItemKeeps
<1>4. CASE Sweep
    BY <1>4, SweepKeeps
<1>5. ASSUME NEW s \in Searches, CancelSearch(s) \/ Lapse(s) PROVE WakeupsInv'
    BY <1>5, SearchClosesKeeps
<1>6. CASE UNCHANGED vars
    <2>1. UNCHANGED <<phase, card, queue, holder, calls, tasks, used, wakes, turns, faults>>
        BY <1>6 DEF vars, work, wakeups
    <2>2. QueueAgrees' /\ OneWriter'
        BY <2>1, QueueRests, WriterRests DEF WakeupsInv
    <2> QED BY <2>1, <2>2 DEF WakeupsInv, Shapes
<1> QED BY <1>1, <1>2, <1>3, <1>4, <1>5, <1>6 DEF Next

(* The queue holds each ready card once and no other, the documents and    *)
(* the processes have their shape, for any searches, calls and deliveries: *)
(* whatever is repeated, lapses or is discarded, no card is queued twice   *)
(* and none is ready without standing in line.                             *)
THEOREM WakeupsTypeCorrect == Spec => []TypeOK
<1>1. WakeupsInv => TypeOK
    <2> SUFFICES ASSUME WakeupsInv PROVE TypeOK
        OBVIOUS
    <2>1. Len(queue) = Cardinality(Ready) /\ Holding(queue) = Ready
        BY OnceCounted DEF WakeupsInv, QueueAgrees
    <2>2. turns \in [Slots -> AnyTurn]
        BY DEF WakeupsInv, Shapes, Turn
    <2> QED BY <2>1, <2>2 DEF TypeOK, WakeupsInv, Shapes, QueueAgrees, Phases, Cards, Call,
                              AnyTurn, Holding, Ready
<1>2. Init => WakeupsInv
    BY InitHolds
<1>3. WakeupsInv /\ [Next]_vars => WakeupsInv'
    BY NextKeeps
<1> QED BY <1>1, <1>2, <1>3, PTL DEF Spec

=============================================================================
