-------------------------- MODULE OfferCacheProofs --------------------------
(***************************************************************************)
(* What the offer cache keeps for every number of requests, processes,     *)
(* lists and questions, and for every period: who holds a mutex, what a    *)
(* refresh forgets, and how late a change may appear.                      *)
(***************************************************************************)
EXTENDS OfferCache, TLAPS

-----------------------------------------------------------------------------
(* The inductive invariant: what is true of one job, of the mutexes and of *)
(* the documents.                                                          *)

(* The list that a job in state w asks.                                    *)
Asked(w) == IF w.target \in Questions THEN ListOf[w.target] ELSE w.target

(* Which steps a job of each kind takes, and under which key.              *)
Shape(w) ==
    w # Idle =>
        /\ w.home \in Instances
        /\ w.step # "idle"
        /\ \/ w.kind = "ask" /\ w.target \in Questions
           \/ w.kind \in {"check", "refresh"} /\ w.target \in Lists
        /\ w.step # "answered" => w.key \in {w.target, Asked(w)}
        /\ w.step \in {"lock", "fetch", "drop"} => w.key = Asked(w)
        /\ w.step \in {"look", "alive", "fill", "mark"} => w.kind = "ask"
        /\ w.step \in {"fetch", "save", "snap", "seal", "answered"} => w.kind # "refresh"
        /\ w.step = "drop" => w.kind = "refresh"
        /\ w.step = "fill" => w.missing \subseteq w.offers

(* The job is at work on a list, as its client's mutex requires.           *)
Within(w) ==
    /\ w.step \in Steps \ {"idle", "lock", "answered"}
    /\ w.key \in Lists

MutexAgrees ==
    /\ \A j \in Jobs : Within(job[j]) => mutex[job[j].home][Asked(job[j])] = j
    /\ \A i \in Instances, l \in Lists : mutex[i][l] # None =>
          /\ Within(job[mutex[i][l]])
          /\ job[mutex[i][l]].home = i
          /\ Asked(job[mutex[i][l]]) = l

(* How far the request that saves under a key may lag behind the list, and *)
(* how long after the list what it saves may still be read.                *)
Lag(key) == IF key \in Lists THEN 0 ELSE ListTTL + MaxRun
Bound(key, offers) == Lag(key) + MaxRun + TTL(key, offers)

(* The age of what a job holds, measured from the start of its request.    *)
Timely(w) ==
    w # Idle =>
        /\ w.since <= now /\ now <= w.since + MaxRun
        /\ w.step \in {"alive", "fill", "mark"} =>
              w.since <= w.until /\ w.until <= w.at + Bound(w.key, w.offers)
        /\ w.step \in {"save", "snap", "seal"} => w.since <= w.at + Lag(w.key)
        /\ w.step \in {"snap", "seal"} => w.until <= w.at + Bound(w.key, w.offers)
        /\ w.step = "answered" =>
              w.since <= w.at + ListTTL + LongestTTL + MaxRun + MaxRun

(* No process dropped the list l between the drop number read and now, the *)
(* process by itself excepted.                                             *)
NoDropBy(l, read, by) == \A d \in (read + 1)..Len(drops[l]) : drops[l][d] # by

(* A list in memory, about to be saved, is still what the mutex says.      *)
Unspoilt(w) == w.step = "save" /\ w.key \in Lists => NoDropBy(w.key, w.read, w.home)

JobsInv ==
    /\ job \in [Jobs -> Job]
    /\ mutex \in [Instances -> [Lists -> Jobs \union {None}]]
    /\ drops \in [Lists -> Seq(Instances)]
    /\ now \in 0..MaxTime
    /\ \A j \in Jobs : Shape(job[j]) /\ Timely(job[j]) /\ Unspoilt(job[j])
    /\ MutexAgrees

EntriesInv ==
    /\ entries \in [Keys -> Entry \union {None}]
    /\ \A k \in Keys : entries[k] # None =>
          entries[k].expiresAt <= entries[k].at + Bound(k, entries[k].offers)
    /\ RefreshHolds

SnapshotsInv ==
    /\ snapshots \in [Ids -> Snapshot \union {None}]
    /\ \A id \in Ids : snapshots[id] # None =>
          snapshots[id].expiresAt <= snapshots[id].at + ListTTL + CacheTTL + MaxRun + MaxRun

CountsInv ==
    /\ published \in [Lists -> SUBSET Ids]
    /\ requests \in 0..MaxRequests
    /\ faults \in 0..MaxFaults

CacheInv == JobsInv /\ EntriesInv /\ SnapshotsInv /\ CountsInv

-----------------------------------------------------------------------------
(* Jobs and mutexes                                                        *)

LEMMA IdleJob ==
    /\ Idle \in Job
    /\ Shape(Idle) /\ Timely(Idle) /\ Unspoilt(Idle) /\ ~Within(Idle)
BY DEF Idle, Job, Steps, Shape, Timely, Unspoilt, Within

LEMMA ListIsAsked == \A j : List(j) = Asked(job[j])
BY DEF List, Asked

LEMMA AskedIsList ==
    ASSUME NEW w \in Job, Shape(w), w # Idle
    PROVE  /\ Asked(w) \in Lists
           /\ w.home \in Instances
           /\ w.step # "answered" /\ w.key \in Lists => w.key = Asked(w)
           /\ w.step # "answered" /\ w.key \notin Lists =>
                 w.key = w.target /\ w.target \in Questions /\ w.kind = "ask"
BY OfferCacheAssumption DEF Asked, Shape

LEMMA BusyJob ==
    ASSUME JobsInv, NEW j \in Jobs, job[j].step # "idle"
    PROVE  /\ job[j] \in Job /\ Shape(job[j]) /\ Timely(job[j]) /\ job[j] # Idle
           /\ List(j) = Asked(job[j]) /\ Asked(job[j]) \in Lists
           /\ job[j].home \in Instances
           /\ job[j].step # "answered" => job[j].key \in Keys
           /\ now \in Nat /\ job[j].since <= now
<1>1. job[j] \in Job /\ Shape(job[j]) /\ Timely(job[j]) /\ job[j] # Idle
  BY DEF JobsInv, Idle
<1>2. List(j) = Asked(job[j]) /\ Asked(job[j]) \in Lists /\ job[j].home \in Instances
  BY <1>1, ListIsAsked, AskedIsList
<1>3. job[j].step # "answered" => job[j].key \in Keys
  BY <1>1, <1>2, AskedIsList DEF Keys
<1>4. now \in Nat /\ job[j].since <= now
  BY <1>1 DEF Timely, JobsInv
<1> QED BY <1>1, <1>2, <1>3, <1>4

(* Two jobs at work on one list are jobs of two processes.                 *)
LEMMA OneWithin ==
    ASSUME JobsInv, NEW j \in Jobs, NEW k \in Jobs, Within(job[j]), Within(job[k]),
           job[j].home = job[k].home, Asked(job[j]) = Asked(job[k])
    PROVE  j = k
BY DEF JobsInv, MutexAgrees

(* One job moves, and the mutex of its client stays, is taken or is freed  *)
(* as its new step requires.                                               *)
LEMMA JobMoves ==
    ASSUME JobsInv, NEW j \in Jobs, NEW w \in Job, Goes(j, w),
           Shape(w), Timely(w), Unspoilt(w), UNCHANGED <<now, drops>>,
           \/ /\ UNCHANGED mutex
              /\ Within(w) <=> Within(job[j])
              /\ Within(w) => w.home = job[j].home /\ Asked(w) = Asked(job[j])
           \/ Locks(j, None) /\ Within(job[j]) /\ ~Within(w)
           \/ /\ Locks(j, j) /\ Free(j) /\ job[j] # Idle
              /\ ~Within(job[j]) /\ Within(w)
              /\ w.home = job[j].home /\ Asked(w) = Asked(job[j])
    PROVE  JobsInv'
<1> USE DEF JobsInv
<1>1. /\ job' \in [Jobs -> Job]
      /\ job'[j] = w /\ \A k \in Jobs : k # j => job'[k] = job[k]
  BY DEF Goes
<1>2. ASSUME NEW k \in Jobs
      PROVE  (Shape(job[k]) /\ Timely(job[k]) /\ Unspoilt(job[k]))'
  <2>1. Shape(job'[k])
    BY <1>1
  <2>2. Timely(job[k])'
    <3>1. job'[k] = w \/ job'[k] = job[k]
      BY <1>1
    <3>2. Timely(w) /\ Timely(job[k])
      OBVIOUS
    <3>3. PICK old : Timely(old) /\ job'[k] = old
      BY ONLY <3>1, <3>2
    <3>4. now' = now
      OBVIOUS
    <3> QED BY ONLY <3>3, <3>4 DEF Timely, Lag, Bound, TTL, LongestTTL
  <2>3. Unspoilt(job[k])'
    <3>1. job'[k] = w \/ job'[k] = job[k]
      BY <1>1
    <3>2. Unspoilt(w) /\ Unspoilt(job[k])
      OBVIOUS
    <3>3. PICK old : Unspoilt(old) /\ job'[k] = old
      BY ONLY <3>1, <3>2
    <3>4. drops' = drops
      OBVIOUS
    <3> QED BY ONLY <3>3, <3>4 DEF Unspoilt, NoDropBy
  <2> QED BY <2>1, <2>2, <2>3
<1>3. Shape(job[j]) /\ job[j] \in Job
  OBVIOUS
<1>4. CASE /\ UNCHANGED mutex
           /\ Within(w) <=> Within(job[j])
           /\ Within(w) => w.home = job[j].home /\ Asked(w) = Asked(job[j])
  <2>1. MutexAgrees'
    BY <1>1, <1>4 DEF MutexAgrees
  <2> QED BY <1>1, <1>2, <1>4, <2>1
<1>5. CASE Locks(j, None) /\ Within(job[j]) /\ ~Within(w)
  <2> DEFINE i == job[j].home
             l == Asked(job[j])
  <2>1. i \in Instances /\ l \in Lists /\ mutex[i][l] = j
    BY <1>3, <1>5, AskedIsList, IdleJob DEF MutexAgrees
  <2>2. /\ mutex' \in [Instances -> [Lists -> Jobs \union {None}]]
        /\ mutex'[i][l] = None
        /\ \A i2 \in Instances, l2 \in Lists :
              i2 # i \/ l2 # l => mutex'[i2][l2] = mutex[i2][l2]
    BY <1>5, <2>1, ListIsAsked DEF Locks
  <2> HIDE DEF i, l
  <2>3. ASSUME NEW k \in Jobs, Within(job'[k])
        PROVE  mutex'[job'[k].home][Asked(job'[k])] = k
    <3>1. k # j /\ job'[k] = job[k] /\ Within(job[k])
      BY <1>1, <1>5, <2>3
    <3>2. job[k].home \in Instances /\ Asked(job[k]) \in Lists
      BY <3>1, AskedIsList, IdleJob
    <3>3. mutex[job[k].home][Asked(job[k])] = k
      BY <3>1 DEF MutexAgrees
    <3> QED BY <2>1, <2>2, <3>1, <3>2, <3>3
  <2>4. ASSUME NEW i2 \in Instances, NEW l2 \in Lists, mutex'[i2][l2] # None
        PROVE  /\ Within(job'[mutex'[i2][l2]])
               /\ job'[mutex'[i2][l2]].home = i2
               /\ Asked(job'[mutex'[i2][l2]]) = l2
    <3>1. mutex'[i2][l2] = mutex[i2][l2] /\ mutex[i2][l2] \in Jobs
      BY <2>2, <2>4
    <3>2. mutex[i2][l2] # j
      BY <2>2, <2>4, <3>1 DEF MutexAgrees, i, l
    <3> QED BY <1>1, <2>4, <3>1, <3>2 DEF MutexAgrees
  <2>5. MutexAgrees'
    BY <2>3, <2>4 DEF MutexAgrees
  <2> QED BY <1>1, <1>2, <2>2, <2>5
<1>6. CASE /\ Locks(j, j) /\ Free(j) /\ job[j] # Idle
           /\ ~Within(job[j]) /\ Within(w)
           /\ w.home = job[j].home /\ Asked(w) = Asked(job[j])
  <2> DEFINE i == job[j].home
             l == Asked(job[j])
  <2>1. i \in Instances /\ l \in Lists /\ mutex[i][l] = None
    BY <1>3, <1>6, AskedIsList, ListIsAsked DEF Free
  <2>2. /\ mutex' \in [Instances -> [Lists -> Jobs \union {None}]]
        /\ mutex'[i][l] = j
        /\ \A i2 \in Instances, l2 \in Lists :
              i2 # i \/ l2 # l => mutex'[i2][l2] = mutex[i2][l2]
    BY <1>6, <2>1, ListIsAsked DEF Locks
  <2> HIDE DEF i, l
  <2>3. ASSUME NEW k \in Jobs, Within(job'[k])
        PROVE  mutex'[job'[k].home][Asked(job'[k])] = k
    <3>1. CASE k = j
      <4>1. w.home = i /\ Asked(w) = l
        BY <1>6 DEF i, l
      <4>2. job'[k] = w
        BY <1>1, <3>1
      <4> QED BY <2>2, <3>1, <4>1, <4>2
    <3>2. CASE k # j
      <4>1. job'[k] = job[k] /\ Within(job[k])
        BY <1>1, <2>3, <3>2
      <4>2. job[k].home \in Instances /\ Asked(job[k]) \in Lists
        BY <4>1, AskedIsList, IdleJob
      <4>3. mutex[job[k].home][Asked(job[k])] = k
        BY <4>1 DEF MutexAgrees
      <4>4. job[k].home # i \/ Asked(job[k]) # l
        BY <2>1, <4>3, NobodyAssumption
      <4>5. mutex'[job[k].home][Asked(job[k])] = k
        BY <2>2, <4>2, <4>3, <4>4
      <4> QED BY <4>1, <4>5
    <3> QED BY <3>1, <3>2
  <2>4. ASSUME NEW i2 \in Instances, NEW l2 \in Lists, mutex'[i2][l2] # None
        PROVE  /\ Within(job'[mutex'[i2][l2]])
               /\ job'[mutex'[i2][l2]].home = i2
               /\ Asked(job'[mutex'[i2][l2]]) = l2
    <3>1. CASE i2 = i /\ l2 = l
      BY <1>1, <1>6, <2>2, <3>1 DEF i, l
    <3>2. CASE i2 # i \/ l2 # l
      <4>1. mutex'[i2][l2] = mutex[i2][l2] /\ mutex[i2][l2] \in Jobs
        BY <2>2, <2>4, <3>2
      <4>2. mutex[i2][l2] # j
        BY <1>6, <2>4, <4>1 DEF MutexAgrees
      <4> QED BY <1>1, <2>4, <4>1, <4>2 DEF MutexAgrees
    <3> QED BY <3>1, <3>2
  <2>5. MutexAgrees'
    BY <2>3, <2>4 DEF MutexAgrees
  <2> QED BY <1>1, <1>2, <2>2, <2>5
<1> QED BY <1>4, <1>5, <1>6

(* A job that ends leaves no mutex behind.                                 *)
LEMMA JobEnds ==
    ASSUME JobsInv, NEW j \in Jobs, Ends(j), UNCHANGED now,
           drops' \in [Lists -> Seq(Instances)],
           \A k \in Jobs : k # j /\ job'[k] = job[k] => Unspoilt(job[k])'
    PROVE  JobsInv'
<1> USE DEF JobsInv
<1>1. /\ job' \in [Jobs -> Job]
      /\ job'[j] = Idle /\ \A k \in Jobs : k # j => job'[k] = job[k]
  BY IdleJob DEF Ends, Goes
<1>2. ASSUME NEW k \in Jobs
      PROVE  (Shape(job[k]) /\ Timely(job[k]) /\ Unspoilt(job[k]))'
  <2>1. CASE k = j
    BY <1>1, <2>1 DEF Idle, Shape, Timely, Unspoilt
  <2>2. CASE k # j
    BY <1>1, <2>2 DEF Timely
  <2> QED BY <2>1, <2>2
<1>3. /\ mutex' \in [Instances -> [Lists -> Jobs \union {None}]]
      /\ \A i \in Instances, l \in Lists :
            mutex'[i][l] = IF mutex[i][l] = j THEN None ELSE mutex[i][l]
  BY DEF Ends
<1>4. MutexAgrees'
  <2>1. ASSUME NEW k \in Jobs, Within(job'[k])
        PROVE  mutex'[job'[k].home][Asked(job'[k])] = k
    <3>1. k # j /\ job'[k] = job[k] /\ Within(job[k])
      BY <1>1, <2>1, IdleJob
    <3>2. job[k].home \in Instances /\ Asked(job[k]) \in Lists
      BY <3>1, AskedIsList, IdleJob
    <3>3. mutex[job[k].home][Asked(job[k])] = k
      BY <3>1 DEF MutexAgrees
    <3> QED BY <1>3, <3>1, <3>2, <3>3
  <2>2. ASSUME NEW i \in Instances, NEW l \in Lists, mutex'[i][l] # None
        PROVE  /\ Within(job'[mutex'[i][l]])
               /\ job'[mutex'[i][l]].home = i
               /\ Asked(job'[mutex'[i][l]]) = l
    <3>1. mutex'[i][l] = mutex[i][l] /\ mutex[i][l] \in Jobs /\ mutex[i][l] # j
      BY <1>3, <2>2
    <3> QED BY <1>1, <2>2, <3>1 DEF MutexAgrees
  <2> QED BY <2>1, <2>2 DEF MutexAgrees
<1> QED BY <1>1, <1>2, <1>3, <1>4

LEMMA JobEndsQuietly ==
    ASSUME JobsInv, NEW j \in Jobs, Ends(j), UNCHANGED <<now, drops>>
    PROVE  JobsInv'
<1>1. \A k \in Jobs : k # j /\ job'[k] = job[k] => Unspoilt(job[k])'
  BY DEF JobsInv, Unspoilt, NoDropBy
<1>2. drops' \in [Lists -> Seq(Instances)]
  BY DEF JobsInv
<1> QED BY <1>1, <1>2, JobEnds

LEMMA BareJob ==
    ASSUME NEW j \in Jobs, job[j] \in Job
    PROVE  /\ Bare(j) \in Job
           /\ Bare(j).kind = job[j].kind /\ Bare(j).home = job[j].home
           /\ Bare(j).target = job[j].target /\ Bare(j).since = job[j].since
           /\ Bare(j).missing = {} /\ Bare(j).offers = {}
<1> DEFINE kind == job[j].kind
           home == job[j].home
           target == job[j].target
           since == job[j].since
<1>1. /\ kind \in {"none", "ask", "check", "refresh"}
      /\ home \in Instances \union {None}
      /\ target \in Keys \union {None} /\ since \in Nat
  BY DEF Job
<1> HIDE DEF kind, home, target, since
<1>2. Bare(j) = [Idle EXCEPT !.kind = kind, !.home = home, !.target = target, !.since = since]
  BY DEF Bare, kind, home, target, since
<1>3. Idle \in Job /\ Idle.missing = {} /\ Idle.offers = {}
  BY IdleJob DEF Idle
<1>4. /\ Bare(j).kind = kind /\ Bare(j).home = home
      /\ Bare(j).target = target /\ Bare(j).since = since
      /\ Bare(j).missing = {} /\ Bare(j).offers = {}
  BY <1>2, <1>3 DEF Job
<1>5. Bare(j) \in Job
  BY <1>1, <1>2, <1>3 DEF Job
<1> QED BY <1>4, <1>5 DEF kind, home, target, since

LEMMA PeriodsType ==
    /\ LongestTTL \in Nat /\ CacheTTL <= LongestTTL /\ EmptyTTL <= LongestTTL
    /\ \A key : Lag(key) \in Nat
    /\ \A key, offers : /\ TTL(key, offers) \in Nat /\ Bound(key, offers) \in Nat
                        /\ key \notin Lists => TTL(key, offers) <= LongestTTL
BY OfferCacheAssumption DEF LongestTTL, Lag, TTL, Bound

(* A job that misses goes on without offers: from the question to its      *)
(* list, from the list to Moxfield.                                        *)
LEMMA JobMisses ==
    ASSUME JobsInv, NEW j \in Jobs, job[j].step \in {"look", "alive", "fill", "mark"},
           Missed(j), UNCHANGED <<mutex, now, drops>>
    PROVE  JobsInv'
<1> DEFINE b == Bare(j)
           l == List(j)
           asked == [b EXCEPT !.step = "lock", !.key = l]
           fetching == [b EXCEPT !.step = "fetch", !.key = l]
<1>1. /\ job[j] \in Job /\ Shape(job[j]) /\ Timely(job[j]) /\ job[j] # Idle
  BY DEF JobsInv, Idle
<1>2. /\ b \in Job
      /\ b.kind = job[j].kind /\ b.home = job[j].home
      /\ b.target = job[j].target /\ b.since = job[j].since
      /\ b.missing = {} /\ b.offers = {}
  BY <1>1, BareJob
<1>3. /\ l = Asked(job[j]) /\ l \in Lists /\ l \in Keys
      /\ b.kind = "ask" /\ b.home \in Instances /\ b.target \in Questions
      /\ b.since <= now /\ now <= b.since + MaxRun
      /\ job[j].key \notin Questions => job[j].key \in Lists
  BY <1>1, <1>2, ListIsAsked, AskedIsList DEF Shape, Timely, Keys
<1> HIDE DEF b, l
<1>4. CASE job[j].key \in Questions
  <2>1. /\ asked \in Job /\ asked.step = "lock" /\ asked.key = l
        /\ asked.kind = b.kind /\ asked.home = b.home /\ asked.target = b.target
        /\ asked.since = b.since /\ asked.missing = {} /\ asked.offers = {}
    BY <1>2, <1>3 DEF Job, Steps
  <2>2. Goes(j, asked)
    BY <1>4 DEF Missed, b, l
  <2> HIDE DEF asked
  <2>3. Shape(asked) /\ Timely(asked) /\ Unspoilt(asked) /\ ~Within(asked)
    BY <1>2, <1>3, <2>1 DEF Shape, Timely, Unspoilt, Within, Asked
  <2>4. ~Within(job[j])
    BY <1>4, OfferCacheAssumption DEF Within
  <2> QED BY <2>1, <2>2, <2>3, <2>4, JobMoves
<1>5. CASE job[j].key \notin Questions
  <2>1. /\ fetching \in Job /\ fetching.step = "fetch" /\ fetching.key = l
        /\ fetching.kind = b.kind /\ fetching.home = b.home /\ fetching.target = b.target
        /\ fetching.since = b.since /\ fetching.missing = {} /\ fetching.offers = {}
    BY <1>2, <1>3 DEF Job, Steps
  <2>2. Goes(j, fetching)
    BY <1>5 DEF Missed, b, l
  <2> HIDE DEF fetching
  <2>3. /\ Shape(fetching) /\ Timely(fetching) /\ Unspoilt(fetching) /\ Within(fetching)
        /\ Asked(fetching) = Asked(job[j]) /\ fetching.home = job[j].home
    BY <1>2, <1>3, <2>1 DEF Shape, Timely, Unspoilt, Within, Asked, Steps
  <2>4. Within(job[j])
    BY <1>3, <1>5 DEF Within, Steps
  <2> QED BY <2>1, <2>2, <2>3, <2>4, JobMoves
<1> QED BY <1>4, <1>5

(* A job that has its list frees the mutex; a question goes on to save what *)
(* it wanted of it.                                                        *)
LEMMA JobListed ==
    ASSUME JobsInv, NEW j \in Jobs, Within(job[j]), job[j].kind \in {"ask", "check"},
           NEW offers, NEW at \in Nat, NEW read \in Nat,
           job[j].since <= at + ListTTL + MaxRun,
           Listed(j, offers, at, read), UNCHANGED <<now, drops>>
    PROVE  JobsInv'
<1> DEFINE b == Bare(j)
           found == offers \intersect Wanted[job[j].target]
           saving == [b EXCEPT !.step = "save", !.key = job[j].target, !.at = at, !.read = read,
                               !.offers = found]
           answered == [b EXCEPT !.step = "answered", !.at = at]
<1>1. /\ job[j] \in Job /\ Shape(job[j]) /\ Timely(job[j]) /\ job[j] # Idle
  BY DEF JobsInv, Idle, Within
<1>2. /\ b \in Job
      /\ b.kind = job[j].kind /\ b.home = job[j].home
      /\ b.target = job[j].target /\ b.since = job[j].since
      /\ b.missing = {} /\ b.offers = {}
  BY <1>1, BareJob
<1>3. /\ b.home \in Instances
      /\ b.kind = "ask" => b.target \in Questions
      /\ b.kind # "ask" => b.kind = "check" /\ b.target \in Lists
      /\ b.since <= now /\ now <= b.since + MaxRun
      /\ Locks(j, None)
  BY <1>1, <1>2 DEF Shape, Timely, Listed
<1> HIDE DEF b
<1>4. CASE job[j].kind = "ask"
  <2>1. b.target \in Questions /\ found \in SUBSET Ids
    BY <1>2, <1>3, <1>4, OfferCacheAssumption
  <2> HIDE DEF found
  <2>2. /\ saving \in Job /\ saving.step = "save" /\ saving.key = b.target
        /\ saving.kind = b.kind /\ saving.home = b.home /\ saving.target = b.target
        /\ saving.since = b.since /\ saving.missing = {} /\ saving.at = at
    BY <1>2, <2>1 DEF Job, Steps, Keys
  <2>3. Goes(j, saving)
    BY <1>4 DEF Listed, b, found
  <2> HIDE DEF saving
  <2>4. saving.key \notin Lists
    BY <2>1, <2>2, OfferCacheAssumption
  <2>5. Shape(saving) /\ Unspoilt(saving) /\ ~Within(saving)
    BY <1>2, <1>3, <1>4, <2>1, <2>2, <2>4 DEF Shape, Unspoilt, Within
  <2>6. Timely(saving)
    BY <1>2, <1>3, <2>2, <2>4, OfferCacheAssumption DEF Timely, Lag
  <2> QED BY <1>3, <2>2, <2>3, <2>5, <2>6, JobMoves
<1>5. CASE job[j].kind # "ask"
  <2>1. /\ answered \in Job /\ answered.step = "answered"
        /\ answered.kind = b.kind /\ answered.home = b.home /\ answered.target = b.target
        /\ answered.since = b.since /\ answered.missing = {} /\ answered.at = at
    BY <1>2 DEF Job, Steps
  <2>2. Goes(j, answered)
    BY <1>5 DEF Listed, b
  <2> HIDE DEF answered
  <2>3. Shape(answered) /\ Unspoilt(answered) /\ ~Within(answered)
    BY <1>2, <1>3, <1>5, <2>1 DEF Shape, Unspoilt, Within
  <2>4. b.since \in Nat /\ ListTTL \in Nat /\ MaxRun \in Nat
    BY <1>2, OfferCacheAssumption DEF Job
  <2>5. Timely(answered)
    BY <1>2, <1>3, <2>1, <2>4, PeriodsType DEF Timely
  <2> QED BY <1>3, <2>1, <2>2, <2>3, <2>5, JobMoves
<1> QED BY <1>4, <1>5

(* A question is answered.                                                 *)
LEMMA JobAnswers ==
    ASSUME JobsInv, NEW j \in Jobs, job[j] # Idle, ~Within(job[j]), job[j].kind # "refresh",
           NEW at \in Nat, job[j].since <= at + ListTTL + LongestTTL + MaxRun + MaxRun,
           Answers(j, at), UNCHANGED <<now, drops>>
    PROVE  JobsInv'
<1> DEFINE b == Bare(j)
           answered == [b EXCEPT !.step = "answered", !.at = at]
<1>1. /\ job[j] \in Job /\ Shape(job[j]) /\ Timely(job[j])
  BY DEF JobsInv
<1>2. /\ b \in Job
      /\ b.kind = job[j].kind /\ b.home = job[j].home
      /\ b.target = job[j].target /\ b.since = job[j].since
      /\ b.missing = {} /\ b.offers = {}
  BY <1>1, BareJob
<1> HIDE DEF b
<1>3. /\ answered \in Job /\ answered.step = "answered"
      /\ answered.kind = b.kind /\ answered.home = b.home /\ answered.target = b.target
      /\ answered.since = b.since /\ answered.missing = {} /\ answered.at = at
  BY <1>2 DEF Job, Steps
<1>4. Goes(j, answered) /\ UNCHANGED mutex
  BY DEF Answers, b
<1> HIDE DEF answered
<1>5. Shape(answered) /\ Unspoilt(answered) /\ ~Within(answered)
  BY <1>1, <1>2, <1>3 DEF Shape, Unspoilt, Within
<1>6. Timely(answered)
  BY <1>1, <1>2, <1>3 DEF Timely
<1> QED BY <1>3, <1>4, <1>5, <1>6, JobMoves

-----------------------------------------------------------------------------
(* The steps of a job                                                      *)

LEMMA BeginKeeps ==
    ASSUME CacheInv, NEW j \in Jobs, NEW i \in Instances, NEW kind, NEW target, NEW step,
           \/ kind = "ask" /\ target \in Questions /\ step = "look"
           \/ kind \in {"check", "refresh"} /\ target \in Lists /\ step = "lock",
           Begin(j, i, kind, target, step)
    PROVE  CacheInv'
<1> USE DEF CacheInv
<1> DEFINE w == [Idle EXCEPT !.kind = kind, !.home = i, !.target = target, !.step = step,
                             !.key = target, !.since = now]
<1>1. Idle \in Job /\ Idle.missing = {} /\ now \in Nat
  BY IdleJob DEF Idle, JobsInv
<1>2. /\ w \in Job
      /\ w.kind = kind /\ w.home = i /\ w.target = target /\ w.step = step
      /\ w.key = target /\ w.since = now /\ w.missing = {}
  BY <1>1 DEF Job, Steps, Keys
<1>3. Goes(j, w) /\ UNCHANGED <<mutex, now, drops>>
  BY DEF Begin
<1> HIDE DEF w
<1>4. Shape(w) /\ Unspoilt(w) /\ ~Within(w)
  BY <1>2, OfferCacheAssumption DEF Shape, Unspoilt, Within, Asked
<1>5. Timely(w)
  BY <1>1, <1>2, OfferCacheAssumption DEF Timely
<1>6. ~Within(job[j])
  BY IdleJob DEF Begin
<1>7. JobsInv'
  BY <1>2, <1>3, <1>4, <1>5, <1>6, JobMoves
<1>8. EntriesInv' /\ SnapshotsInv'
  BY DEF Begin, documents, EntriesInv, SnapshotsInv, RefreshHolds
<1>9. CountsInv'
  BY OfferCacheAssumption DEF Begin, CountsInv
<1> QED BY <1>7, <1>8, <1>9

(* What changes no entry and no drop keeps the entries, and so on.         *)
LEMMA EntriesKept ==
    ASSUME EntriesInv, UNCHANGED <<entries, drops>>
    PROVE  EntriesInv'
BY DEF EntriesInv, RefreshHolds

LEMMA SnapshotsKept ==
    ASSUME SnapshotsInv, UNCHANGED snapshots
    PROVE  SnapshotsInv'
BY DEF SnapshotsInv

LEMMA CountsKept ==
    ASSUME CountsInv, UNCHANGED <<published, requests>>, UNCHANGED faults \/ Faulty
    PROVE  CountsInv'
BY OfferCacheAssumption DEF CountsInv, Faulty

(* An entry that the job found, or holds in memory since, is young enough. *)
LEMMA JobLoaded ==
    ASSUME JobsInv, NEW j \in Jobs, job[j].step \in {"look", "alive", "fill", "mark"},
           NEW offers, NEW at \in Nat, NEW read \in Nat,
           job[j].since <= at + Bound(job[j].key, offers),
           Loaded(j, offers, at, read), UNCHANGED <<now, drops>>
    PROVE  JobsInv'
<1>1. /\ job[j] \in Job /\ Shape(job[j]) /\ job[j] # Idle /\ job[j].kind = "ask"
  BY DEF JobsInv, Idle, Shape
<1>2. CASE job[j].key \in Lists
  <2>1. Within(job[j])
    BY <1>2 DEF Within, Steps
  <2>2. Bound(job[j].key, offers) = MaxRun + ListTTL
    BY <1>2, OfferCacheAssumption DEF Bound, Lag, TTL
  <2>3. job[j].since <= at + ListTTL + MaxRun
    BY <1>1, <2>2, OfferCacheAssumption DEF Job
  <2> QED BY <1>1, <1>2, <2>1, <2>3, JobListed DEF Loaded
<1>3. CASE job[j].key \notin Lists
  <2>1. /\ Bound(job[j].key, offers) = ListTTL + MaxRun + MaxRun + TTL(job[j].key, offers)
        /\ TTL(job[j].key, offers) \in Nat /\ TTL(job[j].key, offers) <= LongestTTL
        /\ LongestTTL \in Nat
    BY <1>3, PeriodsType DEF Bound, Lag
  <2>2. job[j].since <= at + ListTTL + LongestTTL + MaxRun + MaxRun
    BY <1>1, <2>1, OfferCacheAssumption DEF Job
  <2>3. ~Within(job[j])
    BY <1>3 DEF Within
  <2> QED BY <1>1, <1>3, <2>2, <2>3, JobAnswers DEF Loaded
<1> QED BY <1>2, <1>3

LEMMA LookKeeps ==
    ASSUME CacheInv, NEW j \in Jobs, Look(j)
    PROVE  CacheInv'
<1> USE DEF CacheInv
<1> DEFINE k == job[j].key
           e == entries[k]
           w == [job[j] EXCEPT !.step = "alive", !.offers = e.offers, !.at = e.at,
                               !.read = e.read, !.until = e.expiresAt]
<1>1. /\ job[j] \in Job /\ Shape(job[j]) /\ Timely(job[j]) /\ job[j] # Idle
      /\ job[j].step = "look" /\ job[j].kind = "ask"
      /\ k \in Keys
  BY BusyJob DEF Look, Shape
<1>2. UNCHANGED <<documents, published, drops, now, requests, faults>>
  BY DEF Look
<1>3. JobsInv'
  <2>1. CASE e = None \/ (e # None /\ lapsed(e.expiresAt))
    BY <1>1, <1>2, <2>1, JobMisses DEF Look, LookUp
  <2>2. CASE e # None /\ ~lapsed(e.expiresAt)
    <3>1. e \in Entry /\ e.expiresAt <= e.at + Bound(k, e.offers) /\ ~(e.expiresAt < now)
      BY <1>1, <2>2 DEF EntriesInv, lapsed
    <3>2. e.at \in Nat /\ e.read \in Nat /\ e.expiresAt \in Nat /\ e.offers \in SUBSET Ids
      BY <3>1 DEF Entry
    <3>3. job[j].since <= now /\ now \in Nat /\ job[j].since \in Nat
      BY <1>1 DEF Timely, JobsInv, Job
    <3>4. job[j].since <= e.expiresAt
      BY <3>1, <3>2, <3>3
    <3>5. Bound(k, e.offers) \in Nat
      BY PeriodsType
    <3>6. CASE e.indexed
      <4>1. job[j].since <= e.at + Bound(k, e.offers)
        BY <3>1, <3>2, <3>3, <3>4, <3>5
      <4>2. Loaded(j, e.offers, e.at, e.read)
        BY <2>2, <3>6 DEF Look, LookUp
      <4> QED BY <1>1, <1>2, <3>2, <4>1, <4>2, JobLoaded
    <3>7. CASE ~e.indexed
      <4>1. Goes(j, w) /\ UNCHANGED mutex
        BY <2>2, <3>7 DEF Look, LookUp
      <4> DEFINE offers == e.offers
                 at == e.at
                 read == e.read
                 until == e.expiresAt
      <4> HIDE DEF offers, at, read, until
      <4>2. w = [job[j] EXCEPT !.step = "alive", !.offers = offers, !.at = at,
                               !.read = read, !.until = until]
        BY DEF offers, at, read, until
      <4>3. /\ at \in Nat /\ read \in Nat /\ until \in Nat /\ offers \in SUBSET Ids
            /\ job[j].since <= until /\ until <= at + Bound(k, offers)
        BY <3>1, <3>2, <3>4 DEF offers, at, read, until
      <4> HIDE DEF w
      <4>4. /\ w \in Job /\ w.step = "alive" /\ w.kind = job[j].kind
            /\ w.home = job[j].home /\ w.target = job[j].target /\ w.key = k
            /\ w.since = job[j].since /\ w.missing = job[j].missing
            /\ w.offers = offers /\ w.at = at /\ w.until = until
        BY <1>1, <4>2, <4>3 DEF Job, Steps
      <4>5. Asked(w) = Asked(job[j]) /\ (Within(w) <=> Within(job[j])) /\ Unspoilt(w)
        BY <1>1, <4>4 DEF Asked, Within, Steps, Unspoilt
      <4>6. Shape(w)
        BY <1>1, <4>4, <4>5 DEF Shape
      <4>7. Timely(w)
        BY <1>1, <4>3, <4>4 DEF Timely
      <4> QED BY <1>2, <4>1, <4>4, <4>5, <4>6, <4>7, JobMoves
    <3> QED BY <3>6, <3>7
  <2> QED BY <2>1, <2>2
<1> QED BY <1>2, <1>3, EntriesKept, SnapshotsKept, CountsKept DEF documents

(* A mark changes nothing that an entry promises.                          *)
LEMMA MarkKeepsEntries ==
    ASSUME EntriesInv, NEW k \in Keys, UNCHANGED drops,
           entries' = [entries EXCEPT ![k] = Marked(k)]
    PROVE  EntriesInv'
<1> USE DEF EntriesInv
<1> DEFINE marked == [entries[k] EXCEPT !.indexed = TRUE]
<1>1. CASE entries[k] = None
  <2>1. UNCHANGED entries
    BY <1>1 DEF Marked
  <2> QED BY <2>1, EntriesKept
<1>2. CASE entries[k] # None
  <2>1. /\ marked \in Entry
        /\ marked.expiresAt = entries[k].expiresAt /\ marked.at = entries[k].at
        /\ marked.offers = entries[k].offers /\ marked.read = entries[k].read
        /\ marked.by = entries[k].by /\ marked.saved = entries[k].saved
    BY <1>2 DEF Entry
  <2>2. entries' = [entries EXCEPT ![k] = marked]
    BY <1>2 DEF Marked
  <2> HIDE DEF marked
  <2>3. /\ entries' \in [Keys -> Entry \union {None}]
        /\ entries'[k] = marked /\ \A m \in Keys : m # k => entries'[m] = entries[m]
    BY <2>1, <2>2
  <2>4. RefreshHolds'
    BY <1>2, <2>1, <2>3 DEF RefreshHolds, Keys
  <2> QED BY <1>2, <2>1, <2>3, <2>4
<1> QED BY <1>1, <1>2

LEMMA BoundFits ==
    ASSUME NEW key, NEW offers, offers # {}
    PROVE  Bound(key, offers) <= ListTTL + CacheTTL + MaxRun + MaxRun
BY OfferCacheAssumption DEF Bound, Lag, TTL

LEMMA SnapshotsWritten ==
    ASSUME SnapshotsInv, NEW ids \in SUBSET Ids, NEW at \in Nat, NEW until \in Nat,
           ids # {} => until <= at + ListTTL + CacheTTL + MaxRun + MaxRun,
           snapshots' = Snapshots(ids, at, until)
    PROVE  SnapshotsInv'
<1> DEFINE new == [at |-> at, expiresAt |-> until]
<1>1. new \in Snapshot /\ new.at = at /\ new.expiresAt = until
  BY DEF Snapshot
<1>2. snapshots' = [id \in Ids |-> IF id \in ids THEN new ELSE snapshots[id]]
  BY DEF Snapshots
<1> HIDE DEF new
<1> QED BY <1>1, <1>2 DEF SnapshotsInv

LEMMA FindMissingKeeps ==
    ASSUME CacheInv, NEW j \in Jobs, FindMissing(j)
    PROVE  CacheInv'
<1> USE DEF CacheInv
<1> DEFINE missing == {id \in job[j].offers : ~Alive(id)}
           w == [job[j] EXCEPT !.step = "fill", !.missing = missing]
<1>1. job[j].step = "alive" /\ Goes(j, w) /\ UNCHANGED <<documents, mutex, published, drops, now, requests, faults>>
  BY DEF FindMissing
<1>2. job[j] \in Job /\ Shape(job[j]) /\ Timely(job[j]) /\ job[j] # Idle
  BY <1>1, BusyJob
<1>3. missing \in SUBSET Ids /\ missing \subseteq job[j].offers
  BY <1>2 DEF Job
<1> HIDE DEF missing
<1>4. /\ w \in Job /\ w.step = "fill" /\ w.missing = missing /\ w.offers = job[j].offers
      /\ w.kind = job[j].kind /\ w.home = job[j].home /\ w.target = job[j].target
      /\ w.key = job[j].key /\ w.since = job[j].since /\ w.at = job[j].at
      /\ w.until = job[j].until
  BY <1>2, <1>3 DEF Job, Steps
<1> HIDE DEF w
<1>5. Asked(w) = Asked(job[j]) /\ (Within(w) <=> Within(job[j])) /\ Unspoilt(w)
  BY <1>1, <1>4 DEF Asked, Within, Steps, Unspoilt
<1>6. Shape(w) /\ Timely(w)
  BY <1>1, <1>2, <1>3, <1>4, <1>5 DEF Shape, Timely
<1>7. JobsInv'
  BY <1>1, <1>4, <1>5, <1>6, JobMoves
<1> QED BY <1>1, <1>7, EntriesKept, SnapshotsKept, CountsKept DEF documents

LEMMA FillMissingKeeps ==
    ASSUME CacheInv, NEW j \in Jobs, FillMissing(j)
    PROVE  CacheInv'
<1> USE DEF CacheInv
<1> DEFINE w == [job[j] EXCEPT !.step = "mark"]
<1>1. /\ job[j].step = "fill" /\ Goes(j, w)
      /\ UNCHANGED <<entries, mutex, published, drops, now, requests, faults>>
      /\ snapshots' = Snapshots(job[j].missing, job[j].at, job[j].until)
  BY DEF FillMissing, UntilOfEntry
<1>2. job[j] \in Job /\ Shape(job[j]) /\ Timely(job[j]) /\ job[j] # Idle
  BY <1>1, BusyJob
<1>3. /\ w \in Job /\ w.step = "mark" /\ w.offers = job[j].offers
      /\ w.kind = job[j].kind /\ w.home = job[j].home /\ w.target = job[j].target
      /\ w.key = job[j].key /\ w.since = job[j].since /\ w.at = job[j].at
      /\ w.until = job[j].until
  BY <1>2 DEF Job, Steps
<1> HIDE DEF w
<1>4. Asked(w) = Asked(job[j]) /\ (Within(w) <=> Within(job[j])) /\ Unspoilt(w)
  BY <1>1, <1>3 DEF Asked, Within, Steps, Unspoilt
<1>5. Shape(w) /\ Timely(w)
  BY <1>1, <1>2, <1>3, <1>4 DEF Shape, Timely
<1>6. JobsInv'
  BY <1>1, <1>3, <1>4, <1>5, JobMoves
<1>7. SnapshotsInv'
  <2>1. /\ job[j].missing \in SUBSET Ids /\ job[j].missing \subseteq job[j].offers
        /\ job[j].at \in Nat /\ job[j].until \in Nat
        /\ job[j].until <= job[j].at + Bound(job[j].key, job[j].offers)
    BY <1>1, <1>2 DEF Job, Shape, Timely
  <2>2. Bound(job[j].key, job[j].offers) \in Nat
    BY PeriodsType
  <2>3. job[j].missing # {} =>
          job[j].until <= job[j].at + ListTTL + CacheTTL + MaxRun + MaxRun
    BY <2>1, <2>2, BoundFits, OfferCacheAssumption
  <2> QED BY <1>1, <2>1, <2>3, SnapshotsWritten
<1> QED BY <1>1, <1>6, <1>7, EntriesKept, CountsKept

LEMMA MarkLoadedKeeps ==
    ASSUME CacheInv, NEW j \in Jobs, MarkLoaded(j)
    PROVE  CacheInv'
<1> USE DEF CacheInv
<1>1. /\ job[j].step = "mark"
      /\ entries' = [entries EXCEPT ![job[j].key] = Marked(job[j].key)]
      /\ UNCHANGED <<snapshots, published, drops, now, requests, faults>>
  BY DEF MarkLoaded, MarkOf
<1>2. job[j] \in Job /\ Timely(job[j]) /\ job[j] # Idle /\ job[j].key \in Keys
  BY <1>1, BusyJob
<1>3. JobsInv'
  <2>1. CASE entries[job[j].key] = None
    BY <1>1, <2>1, JobMisses DEF MarkLoaded
  <2>2. CASE entries[job[j].key] # None
    <3>1. /\ job[j].at \in Nat /\ job[j].read \in Nat /\ job[j].since \in Nat
          /\ job[j].until \in Nat
      BY <1>2 DEF Job
    <3>2. /\ job[j].since <= job[j].until
          /\ job[j].until <= job[j].at + Bound(job[j].key, job[j].offers)
      BY <1>1, <1>2 DEF Timely
    <3>3. job[j].since <= job[j].at + Bound(job[j].key, job[j].offers)
      BY <3>1, <3>2, PeriodsType
    <3>4. Loaded(j, job[j].offers, job[j].at, job[j].read)
      BY <2>2 DEF MarkLoaded
    <3> QED BY <1>1, <3>1, <3>3, <3>4, JobLoaded
  <2> QED BY <2>1, <2>2
<1>4. EntriesInv'
  BY <1>1, <1>2, MarkKeepsEntries
<1> QED BY <1>1, <1>3, <1>4, SnapshotsKept, CountsKept

LEMMA TakeMutexKeeps ==
    ASSUME CacheInv, NEW j \in Jobs, TakeMutex(j)
    PROVE  CacheInv'
<1> USE DEF CacheInv
<1> DEFINE step == AfterLock[job[j].kind]
           w == [job[j] EXCEPT !.step = step]
<1>1. /\ job[j].step = "lock" /\ Goes(j, w) /\ Free(j) /\ Locks(j, j)
      /\ UNCHANGED <<documents, published, drops, now, requests, faults>>
  BY DEF TakeMutex
<1>2. /\ job[j] \in Job /\ Shape(job[j]) /\ Timely(job[j]) /\ job[j] # Idle
      /\ Asked(job[j]) \in Lists
  BY <1>1, BusyJob
<1>3. /\ step \in {"look", "fetch", "drop"}
      /\ step = "look" => job[j].kind = "ask"
      /\ step = "fetch" => job[j].kind = "check"
      /\ step = "drop" => job[j].kind = "refresh"
      /\ job[j].key = Asked(job[j])
  BY <1>1, <1>2 DEF Shape, AfterLock
<1> HIDE DEF step
<1>4. /\ w \in Job /\ w.step = step
      /\ w.kind = job[j].kind /\ w.home = job[j].home /\ w.target = job[j].target
      /\ w.key = job[j].key /\ w.since = job[j].since
  BY <1>2, <1>3 DEF Job, Steps
<1> HIDE DEF w
<1>5. Asked(w) = Asked(job[j]) /\ Within(w) /\ ~Within(job[j]) /\ Unspoilt(w)
  BY <1>1, <1>2, <1>3, <1>4 DEF Asked, Within, Steps, Unspoilt
<1>6. Shape(w)
  BY <1>1, <1>2, <1>3, <1>4, <1>5 DEF Shape
<1>7. Timely(w)
  BY <1>2, <1>3, <1>4 DEF Timely
<1>8. JobsInv'
  BY <1>1, <1>2, <1>4, <1>5, <1>6, <1>7, JobMoves
<1> QED BY <1>1, <1>8, EntriesKept, SnapshotsKept, CountsKept DEF documents

LEMMA FetchKeeps ==
    ASSUME CacheInv, NEW j \in Jobs, Fetch(j)
    PROVE  CacheInv'
<1> USE DEF CacheInv
<1> DEFINE l == List(j)
           offers == published[l]
           read == Len(drops[l])
           w == [job[j] EXCEPT !.step = "save", !.offers = offers, !.at = now, !.read = read,
                               !.missing = {}]
<1>1. /\ job[j].step = "fetch" /\ Goes(j, w)
      /\ UNCHANGED <<documents, published, mutex, drops, now, requests, faults>>
  BY DEF Fetch
<1>2. /\ job[j] \in Job /\ Shape(job[j]) /\ Timely(job[j]) /\ job[j] # Idle
      /\ l = Asked(job[j]) /\ l \in Lists /\ job[j].key = l
      /\ now \in Nat /\ job[j].since <= now
  BY <1>1, BusyJob DEF Shape
<1>3. offers \in SUBSET Ids /\ read \in Nat
  BY <1>2 DEF CountsInv, JobsInv
<1>4. w = [job[j] EXCEPT !.step = "save", !.offers = offers, !.at = now, !.read = read,
                         !.missing = {}]
  OBVIOUS
<1> HIDE DEF offers, w
<1>5. read = Len(drops[l])
  OBVIOUS
<1> HIDE DEF read, l
<1>6. /\ w \in Job /\ w.step = "save" /\ w.at = now /\ w.read = read
      /\ w.kind = job[j].kind /\ w.home = job[j].home /\ w.target = job[j].target
      /\ w.key = l /\ w.since = job[j].since
  BY <1>2, <1>3, <1>4 DEF Job, Steps
<1>7. Asked(w) = Asked(job[j]) /\ Within(w) /\ Within(job[j])
  BY <1>1, <1>2, <1>6 DEF Asked, Within, Steps
<1>8. Unspoilt(w)
  <2>1. (read + 1)..Len(drops[l]) = {}
    BY <1>3, <1>5
  <2> QED BY <1>6, <2>1 DEF Unspoilt, NoDropBy
<1>9. Shape(w)
  BY <1>1, <1>2, <1>6, <1>7 DEF Shape
<1>10. Timely(w)
  BY <1>2, <1>6 DEF Timely, Lag
<1>11. JobsInv'
  BY <1>1, <1>6, <1>7, <1>8, <1>9, <1>10, JobMoves
<1> QED BY <1>1, <1>11, EntriesKept, SnapshotsKept, CountsKept DEF documents

(* A drop waits for the mutex of its process, so no job of that process has *)
(* the list in memory; those of the others do not count as refreshed.      *)
LEMMA DropKeeps ==
    ASSUME CacheInv, NEW j \in Jobs, Drop(j)
    PROVE  CacheInv'
<1> USE DEF CacheInv
<1> DEFINE l == List(j)
           home == job[j].home
<1>1. /\ job[j].step = "drop" /\ Ends(j)
      /\ entries' = [entries EXCEPT ![l] = None]
      /\ drops' = [drops EXCEPT ![l] = Append(drops[l], home)]
      /\ UNCHANGED <<snapshots, published, now, requests, faults>>
  BY DEF Drop
<1>2. /\ job[j] \in Job /\ Shape(job[j]) /\ job[j] # Idle
      /\ l = Asked(job[j]) /\ l \in Lists /\ job[j].key = l /\ home \in Instances
  BY <1>1, BusyJob DEF Shape
<1>3. Within(job[j])
  BY <1>1, <1>2 DEF Within, Steps
<1>4. drops[l] \in Seq(Instances) /\ drops \in [Lists -> Seq(Instances)]
  BY <1>2 DEF JobsInv
<1>5. /\ drops' \in [Lists -> Seq(Instances)]
      /\ drops'[l] = Append(drops[l], home)
      /\ \A m \in Lists : m # l => drops'[m] = drops[m]
  <2>1. Append(drops[l], home) \in Seq(Instances)
    BY <1>2, <1>4
  <2> QED BY <1>1, <1>2, <1>4, <2>1
<1>6. ASSUME NEW k \in Jobs, k # j, job'[k] = job[k]
      PROVE  Unspoilt(job[k])'
  <2> SUFFICES ASSUME job[k].step = "save", job[k].key \in Lists,
                      NEW d \in (job[k].read + 1)..Len(drops'[job[k].key])
               PROVE  drops'[job[k].key][d] # job[k].home
    BY <1>6 DEF Unspoilt, NoDropBy
  <2>1. /\ Within(job[k]) /\ job[k].key = Asked(job[k])
        /\ job[k].home \in Instances /\ job[k].read \in Nat
    <3>1. job[k] \in Job /\ Shape(job[k]) /\ job[k] # Idle
      BY BusyJob
    <3> QED BY <3>1, AskedIsList DEF Within, Steps, Job
  <2>2. NoDropBy(job[k].key, job[k].read, job[k].home)
    BY DEF JobsInv, Unspoilt
  <2>3. CASE job[k].key # l
    BY <1>5, <2>2, <2>3 DEF NoDropBy
  <2>4. CASE job[k].key = l
    <3>1. job[k].home # home
      BY <1>2, <1>3, <1>6, <2>1, <2>4, OneWithin
    <3>2. Len(drops'[l]) = Len(drops[l]) + 1 /\ Len(drops[l]) \in Nat
      BY <1>4, <1>5
    <3>3. CASE d = Len(drops[l]) + 1
      <4>1. drops'[l][d] = home
        BY <1>2, <1>4, <1>5, <3>3
      <4> QED BY <2>4, <3>1, <4>1
    <3>4. CASE d # Len(drops[l]) + 1
      <4>1. d \in (job[k].read + 1)..Len(drops[l])
        BY <2>1, <2>4, <3>2, <3>4
      <4>2. d \in 1..Len(drops[l])
        BY <2>1, <3>2, <4>1
      <4>3. drops'[l][d] = drops[l][d]
        BY <1>2, <1>4, <1>5, <4>2
      <4> QED BY <2>2, <2>4, <4>1, <4>3 DEF NoDropBy
    <3> QED BY <3>3, <3>4
  <2> QED BY <2>3, <2>4
<1>7. JobsInv'
  BY <1>1, <1>5, <1>6, JobEnds
<1>8. EntriesInv'
  <2>1. /\ entries' \in [Keys -> Entry \union {None}]
        /\ \A k \in Keys : entries'[k] = entries[k] \/ entries'[k] = None
        /\ entries'[l] = None
    BY <1>1, <1>2 DEF EntriesInv, Keys
  <2>2. RefreshHolds'
    BY <1>5, <2>1 DEF EntriesInv, RefreshHolds, Keys
  <2> QED BY <2>1, <2>2 DEF EntriesInv
<1> QED BY <1>1, <1>7, <1>8, SnapshotsKept, CountsKept

LEMMA SaveEntryKeeps ==
    ASSUME CacheInv, NEW j \in Jobs, SaveEntry(j)
    PROVE  CacheInv'
<1> USE DEF CacheInv
<1> DEFINE k == job[j].key
           until == now + TTL(k, job[j].offers)
           saved == Len(drops[List(j)])
           e == [offers |-> job[j].offers, at |-> job[j].at, read |-> job[j].read,
                 expiresAt |-> until, indexed |-> FALSE, by |-> job[j].home, saved |-> saved]
           w == [job[j] EXCEPT !.step = "snap", !.until = until]
<1>1. /\ job[j].step = "save" /\ Goes(j, w) /\ entries' = [entries EXCEPT ![k] = e]
      /\ UNCHANGED <<snapshots, published, mutex, drops, now, requests, faults>>
  BY DEF SaveEntry
<1>2. /\ job[j] \in Job /\ Shape(job[j]) /\ Timely(job[j]) /\ job[j] # Idle
      /\ List(j) = Asked(job[j]) /\ Asked(job[j]) \in Lists /\ k \in Keys
      /\ job[j].home \in Instances /\ now \in Nat
      /\ k \in Lists => k = Asked(job[j])
  <2>1. job[j].step # "idle" /\ job[j].step # "answered"
    BY <1>1
  <2>2. job[j] \in Job /\ Shape(job[j]) /\ job[j] # Idle
    BY <2>1, BusyJob
  <2> QED BY <2>1, <2>2, BusyJob, AskedIsList
<1>3. saved \in Nat /\ until \in Nat
  BY <1>2, PeriodsType DEF JobsInv
<1>4. until <= job[j].at + Bound(k, job[j].offers)
  <2>1. /\ now <= job[j].since + MaxRun /\ job[j].since <= job[j].at + Lag(k)
        /\ job[j].since \in Nat /\ job[j].at \in Nat
    BY <1>1, <1>2 DEF Timely, Job
  <2>2. Lag(k) \in Nat /\ TTL(k, job[j].offers) \in Nat /\ MaxRun \in Nat
    BY PeriodsType, OfferCacheAssumption
  <2> QED BY <1>2, <2>1, <2>2 DEF Bound
<1>5. k \in Lists => saved = Len(drops[k]) /\ NoDropBy(k, job[j].read, job[j].home)
  BY <1>1, <1>2 DEF JobsInv, Unspoilt
<1> HIDE DEF saved, until
<1>6. /\ e \in Entry /\ e.offers = job[j].offers /\ e.at = job[j].at /\ e.read = job[j].read
      /\ e.expiresAt = until /\ e.by = job[j].home /\ e.saved = saved
  BY <1>2, <1>3 DEF Entry, Job
<1>7. /\ w \in Job /\ w.step = "snap" /\ w.offers = job[j].offers
      /\ w.kind = job[j].kind /\ w.home = job[j].home /\ w.target = job[j].target
      /\ w.key = k /\ w.since = job[j].since /\ w.at = job[j].at
      /\ w.until = until
  BY <1>2, <1>3 DEF Job, Steps
<1> HIDE DEF e, w
<1>8. Asked(w) = Asked(job[j]) /\ (Within(w) <=> Within(job[j])) /\ Unspoilt(w)
  BY <1>1, <1>7 DEF Asked, Within, Steps, Unspoilt
<1>9. Shape(w) /\ Timely(w)
  BY <1>1, <1>2, <1>4, <1>7, <1>8 DEF Shape, Timely
<1>10. JobsInv'
  BY <1>1, <1>7, <1>8, <1>9, JobMoves
<1>11. EntriesInv'
  <2>1. /\ entries' \in [Keys -> Entry \union {None}]
        /\ entries'[k] = e /\ \A m \in Keys : m # k => entries'[m] = entries[m]
    BY <1>1, <1>2, <1>6 DEF EntriesInv
  <2>2. ASSUME NEW m \in Keys, entries'[m] # None
        PROVE  entries'[m].expiresAt <= entries'[m].at + Bound(m, entries'[m].offers)
    BY <1>4, <1>6, <2>1, <2>2 DEF EntriesInv
  <2>3. RefreshHolds'
    <3>1. ASSUME NEW m \in Lists, entries'[m] # None
          PROVE  /\ entries'[m].saved = Len(drops[m])
                 /\ NoDropBy(m, entries'[m].read, entries'[m].by)
      BY <1>5, <1>6, <2>1, <3>1 DEF EntriesInv, RefreshHolds, NoDropBy, Keys
    <3> QED BY <1>1, <3>1 DEF RefreshHolds, NoDropBy
  <2> QED BY <2>1, <2>2, <2>3 DEF EntriesInv
<1> QED BY <1>1, <1>10, <1>11, SnapshotsKept, CountsKept

LEMMA SaveSnapshotsKeeps ==
    ASSUME CacheInv, NEW j \in Jobs, SaveSnapshots(j)
    PROVE  CacheInv'
<1> USE DEF CacheInv
<1> DEFINE w == [job[j] EXCEPT !.step = "seal"]
<1>1. /\ job[j].step = "snap" /\ Goes(j, w)
      /\ UNCHANGED <<entries, mutex, published, drops, now, requests, faults>>
      /\ snapshots' = Snapshots(job[j].offers, job[j].at, job[j].until)
  BY DEF SaveSnapshots
<1>2. job[j] \in Job /\ Shape(job[j]) /\ Timely(job[j]) /\ job[j] # Idle
  BY <1>1, BusyJob
<1>3. /\ w \in Job /\ w.step = "seal" /\ w.offers = job[j].offers
      /\ w.kind = job[j].kind /\ w.home = job[j].home /\ w.target = job[j].target
      /\ w.key = job[j].key /\ w.since = job[j].since /\ w.at = job[j].at
      /\ w.until = job[j].until
  BY <1>2 DEF Job, Steps
<1> HIDE DEF w
<1>4. Asked(w) = Asked(job[j]) /\ (Within(w) <=> Within(job[j])) /\ Unspoilt(w)
  BY <1>1, <1>3 DEF Asked, Within, Steps, Unspoilt
<1>5. Shape(w) /\ Timely(w)
  BY <1>1, <1>2, <1>3, <1>4 DEF Shape, Timely
<1>6. JobsInv'
  BY <1>1, <1>3, <1>4, <1>5, JobMoves
<1>7. SnapshotsInv'
  <2>1. /\ job[j].offers \in SUBSET Ids /\ job[j].at \in Nat /\ job[j].until \in Nat
        /\ job[j].until <= job[j].at + Bound(job[j].key, job[j].offers)
    BY <1>1, <1>2 DEF Job, Timely
  <2>2. Bound(job[j].key, job[j].offers) \in Nat
    BY PeriodsType
  <2>3. job[j].offers # {} =>
          job[j].until <= job[j].at + ListTTL + CacheTTL + MaxRun + MaxRun
    BY <2>1, <2>2, BoundFits, OfferCacheAssumption
  <2> QED BY <1>1, <2>1, <2>3, SnapshotsWritten
<1> QED BY <1>1, <1>6, <1>7, EntriesKept, CountsKept

(* Whoever saved goes on with what it holds, however far the save came.    *)
LEMMA JobSaved ==
    ASSUME JobsInv, NEW j \in Jobs, job[j].step \in {"save", "snap", "seal"},
           Saved(j), UNCHANGED <<now, drops>>
    PROVE  JobsInv'
<1>1. /\ job[j] \in Job /\ Shape(job[j]) /\ Timely(job[j]) /\ job[j] # Idle
      /\ job[j].kind \in {"ask", "check"}
  <2>1. job[j] \in Job /\ Shape(job[j]) /\ Timely(job[j]) /\ job[j] # Idle
    BY BusyJob
  <2> QED BY <2>1 DEF Shape
<1>2. /\ job[j].at \in Nat /\ job[j].read \in Nat /\ job[j].since \in Nat
      /\ job[j].since <= job[j].at + Lag(job[j].key)
  BY <1>1 DEF Job, Timely
<1>3. CASE job[j].key \in Lists
  <2>1. Within(job[j])
    BY <1>3 DEF Within, Steps
  <2>2. job[j].since <= job[j].at + ListTTL + MaxRun
    BY <1>2, <1>3, OfferCacheAssumption DEF Lag
  <2> QED BY <1>1, <1>2, <1>3, <2>1, <2>2, JobListed DEF Saved
<1>4. CASE job[j].key \notin Lists
  <2>1. ~Within(job[j])
    BY <1>4 DEF Within
  <2>2. job[j].since <= job[j].at + ListTTL + LongestTTL + MaxRun + MaxRun
    BY <1>2, <1>4, PeriodsType, OfferCacheAssumption DEF Lag
  <2> QED BY <1>1, <1>2, <1>4, <2>1, <2>2, JobAnswers DEF Saved
<1> QED BY <1>3, <1>4

LEMMA MarkSavedKeeps ==
    ASSUME CacheInv, NEW j \in Jobs, MarkSaved(j)
    PROVE  CacheInv'
<1> USE DEF CacheInv
<1>1. /\ job[j].step = "seal" /\ Saved(j)
      /\ entries' = [entries EXCEPT ![job[j].key] = Marked(job[j].key)]
      /\ UNCHANGED <<snapshots, published, drops, now, requests, faults>>
  BY DEF MarkSaved, MarkOf
<1>2. job[j].key \in Keys
  BY <1>1, BusyJob
<1>3. JobsInv'
  BY <1>1, JobSaved
<1>4. EntriesInv'
  BY <1>1, <1>2, MarkKeepsEntries
<1> QED BY <1>1, <1>3, <1>4, SnapshotsKept, CountsKept

(* A write of snapshots that fails leaves some of them.                    *)
LEMMA SomeSnapshotsWritten ==
    ASSUME JobsInv, SnapshotsInv, NEW j \in Jobs, NEW ids,
           \/ job[j].step = "fill" /\ ids = job[j].missing
           \/ job[j].step = "snap" /\ ids = job[j].offers,
           SomeSnapshots(j, ids, job[j].until)
    PROVE  SnapshotsInv'
<1>1. job[j] \in Job /\ Shape(job[j]) /\ Timely(job[j]) /\ job[j] # Idle
  BY BusyJob
<1>2. /\ job[j].offers \in SUBSET Ids /\ ids \subseteq job[j].offers
      /\ job[j].at \in Nat /\ job[j].until \in Nat
      /\ job[j].until <= job[j].at + Bound(job[j].key, job[j].offers)
  BY <1>1 DEF Job, Shape, Timely
<1>3. PICK some \in SUBSET ids : snapshots' = Snapshots(some, job[j].at, job[j].until)
  BY DEF SomeSnapshots
<1>4. Bound(job[j].key, job[j].offers) \in Nat
  BY PeriodsType
<1>5. job[j].offers # {} =>
        job[j].until <= job[j].at + ListTTL + CacheTTL + MaxRun + MaxRun
  BY <1>2, <1>4, BoundFits, OfferCacheAssumption
<1>6. some \in SUBSET Ids /\ (some # {} => job[j].offers # {})
  BY <1>2
<1> QED BY <1>2, <1>3, <1>5, <1>6, SnapshotsWritten

LEMMA LoadFailsKeeps ==
    ASSUME CacheInv, NEW j \in Jobs, LoadFails(j)
    PROVE  CacheInv'
<1> USE DEF CacheInv
<1>1. /\ job[j].step \in {"look", "alive", "fill", "mark"} /\ Faulty /\ Missed(j)
      /\ UNCHANGED <<entries, published, mutex, drops, now, requests>>
  BY DEF LoadFails
<1>2. SnapshotsInv'
  BY SomeSnapshotsWritten, SnapshotsKept DEF LoadFails, UntilOfEntry
<1> QED BY <1>1, <1>2, JobMisses, EntriesKept, CountsKept

LEMMA SaveFailsKeeps ==
    ASSUME CacheInv, NEW j \in Jobs, SaveFails(j)
    PROVE  CacheInv'
<1> USE DEF CacheInv
<1>1. /\ job[j].step \in {"save", "snap", "seal"} /\ Faulty /\ Saved(j)
      /\ UNCHANGED <<entries, published, drops, now, requests>>
  BY DEF SaveFails
<1>2. SnapshotsInv'
  BY SomeSnapshotsWritten, SnapshotsKept DEF SaveFails
<1> QED BY <1>1, <1>2, JobSaved, EntriesKept, CountsKept

LEMMA EndKeeps ==
    ASSUME CacheInv, NEW j \in Jobs, ListFails(j) \/ Reply(j)
    PROVE  CacheInv'
<1> USE DEF CacheInv
<1>1. /\ Ends(j) /\ UNCHANGED <<documents, published, drops, now, requests>>
      /\ UNCHANGED faults \/ Faulty
  BY DEF ListFails, Reply, EndsOpen
<1> QED BY <1>1, JobEndsQuietly, EntriesKept, SnapshotsKept, CountsKept DEF documents

-----------------------------------------------------------------------------
(* The world outside                                                       *)

(* A process that dies takes its jobs and its mutexes along, and nothing   *)
(* of any other process.                                                   *)
LEMMA CrashKeeps ==
    ASSUME CacheInv, NEW i \in Instances, Crash(i)
    PROVE  CacheInv'
<1> USE DEF CacheInv
<1>1. /\ job' = [j \in Jobs |-> IF job[j].home = i THEN Idle ELSE job[j]]
      /\ mutex' = [mutex EXCEPT ![i] = [l \in Lists |-> None]]
      /\ Faulty /\ UNCHANGED <<documents, published, drops, now, requests>>
  BY DEF Crash
<1>2. /\ job \in [Jobs -> Job] /\ mutex \in [Instances -> [Lists -> Jobs \union {None}]]
      /\ MutexAgrees
  BY DEF JobsInv
<1>3. /\ job' \in [Jobs -> Job]
      /\ \A j \in Jobs : job'[j] = IF job[j].home = i THEN Idle ELSE job[j]
  BY <1>1, <1>2, IdleJob
<1>4. /\ mutex' \in [Instances -> [Lists -> Jobs \union {None}]]
      /\ \A l \in Lists : mutex'[i][l] = None
      /\ \A i2 \in Instances : i2 # i => mutex'[i2] = mutex[i2]
  BY <1>1, <1>2
<1>5. ASSUME NEW j \in Jobs
      PROVE  (Shape(job[j]) /\ Timely(job[j]) /\ Unspoilt(job[j]))'
  <2>1. CASE job[j].home = i
    BY <1>3, <2>1 DEF Idle, Shape, Timely, Unspoilt
  <2>2. CASE job[j].home # i
    BY <1>1, <1>3, <2>2 DEF JobsInv, Timely, Unspoilt, NoDropBy
  <2> QED BY <2>1, <2>2
<1>6. MutexAgrees'
  <2>1. ASSUME NEW j \in Jobs, Within(job'[j])
        PROVE  mutex'[job'[j].home][Asked(job'[j])] = j
    <3>1. job'[j] = job[j] /\ Within(job[j]) /\ job[j].home # i
      BY <1>3, <2>1, IdleJob
    <3>2. job[j].home \in Instances
      BY <3>1, BusyJob DEF Within
    <3> QED BY <1>2, <1>4, <3>1, <3>2 DEF MutexAgrees
  <2>2. ASSUME NEW i2 \in Instances, NEW l \in Lists, mutex'[i2][l] # None
        PROVE  /\ Within(job'[mutex'[i2][l]])
               /\ job'[mutex'[i2][l]].home = i2
               /\ Asked(job'[mutex'[i2][l]]) = l
    <3>1. i2 # i /\ mutex'[i2][l] = mutex[i2][l] /\ mutex[i2][l] \in Jobs
      BY <1>2, <1>4, <2>2
    <3>2. job[mutex[i2][l]].home = i2
      BY <1>2, <2>2, <3>1 DEF MutexAgrees
    <3> QED BY <1>2, <1>3, <2>2, <3>1, <3>2 DEF MutexAgrees
  <2> QED BY <2>1, <2>2 DEF MutexAgrees
<1>7. JobsInv'
  BY <1>1, <1>3, <1>4, <1>5, <1>6 DEF JobsInv
<1> QED BY <1>1, <1>7, EntriesKept, SnapshotsKept, CountsKept DEF documents

LEMMA DeletionKeeps ==
    ASSUME CacheInv, \/ \E k \in Keys : DeleteEntry(k)
                     \/ \E id \in Ids : DeleteSnapshot(id)
    PROVE  CacheInv'
<1> USE DEF CacheInv
<1>1. UNCHANGED <<published, mutex, job, drops, now, requests, faults>>
  BY DEF DeleteEntry, DeleteSnapshot
<1>2. JobsInv'
  BY <1>1 DEF JobsInv, MutexAgrees, Timely, Unspoilt, NoDropBy
<1>3. EntriesInv'
  BY <1>1 DEF DeleteEntry, DeleteSnapshot, EntriesInv, RefreshHolds, Keys
<1>4. SnapshotsInv'
  BY <1>1 DEF DeleteEntry, DeleteSnapshot, SnapshotsInv
<1> QED BY <1>1, <1>2, <1>3, <1>4, CountsKept

LEMMA TickKeeps ==
    ASSUME CacheInv, Tick
    PROVE  CacheInv'
<1> USE DEF CacheInv
<1>1. /\ now' = now + 1 /\ now < MaxTime
      /\ UNCHANGED <<documents, published, mutex, job, drops, requests, faults>>
  BY DEF Tick
<1>2. ASSUME NEW j \in Jobs
      PROVE  (Shape(job[j]) /\ Timely(job[j]) /\ Unspoilt(job[j]))'
  <2>1. Shape(job[j]) /\ Timely(job[j]) /\ Unspoilt(job[j]) /\ job[j] \in Job /\ now \in Nat
    BY DEF JobsInv
  <2>2. job[j] # Idle => now - job[j].since < MaxRun
    BY DEF Tick
  <2>3. job[j] # Idle => now' <= job[j].since + MaxRun /\ job[j].since <= now'
    BY <1>1, <2>1, <2>2, OfferCacheAssumption DEF Timely, Job
  <2>4. Timely(job[j])'
    BY <1>1, <2>1, <2>3 DEF Timely
  <2> QED BY <1>1, <2>1, <2>4 DEF Unspoilt, NoDropBy
<1>3. JobsInv'
  BY <1>1, <1>2, OfferCacheAssumption DEF JobsInv, MutexAgrees
<1> QED BY <1>1, <1>3, EntriesKept, SnapshotsKept, CountsKept DEF documents

-----------------------------------------------------------------------------
LEMMA InitCache == Init => CacheInv
<1> SUFFICES ASSUME Init PROVE CacheInv
  OBVIOUS
<1>1. JobsInv
  <2>1. \A l \in Lists : <<>> \in Seq(Instances)
    OBVIOUS
  <2>2. MutexAgrees
    BY IdleJob DEF Init, MutexAgrees
  <2> QED BY <2>1, <2>2, IdleJob, OfferCacheAssumption DEF Init, JobsInv
<1>2. EntriesInv /\ SnapshotsInv
  BY DEF Init, EntriesInv, SnapshotsInv, RefreshHolds, Keys
<1>3. CountsInv
  BY OfferCacheAssumption DEF Init, CountsInv
<1> QED BY <1>1, <1>2, <1>3 DEF CacheInv

LEMMA NextCache == CacheInv /\ [Next]_vars => CacheInv'
<1> SUFFICES ASSUME CacheInv, [Next]_vars PROVE CacheInv'
  OBVIOUS
<1>1. CASE UNCHANGED vars
  <2>1. JobsInv'
    BY <1>1 DEF vars, CacheInv, JobsInv, MutexAgrees, Timely, Unspoilt, NoDropBy
  <2> QED BY <1>1, <2>1, EntriesKept, SnapshotsKept, CountsKept DEF vars, documents, CacheInv
<1>2. ASSUME NEW j \in Jobs, JobStep(j) PROVE CacheInv'
  BY <1>2, LookKeeps, FindMissingKeeps, FillMissingKeeps, MarkLoadedKeeps, TakeMutexKeeps,
     FetchKeeps, DropKeeps, SaveEntryKeeps, SaveSnapshotsKeeps, MarkSavedKeeps, LoadFailsKeeps,
     SaveFailsKeeps, EndKeeps DEF JobStep
<1>3. ASSUME NEW j \in Jobs, NEW i \in Instances,
             \/ \E q \in Questions : Ask(j, i, q)
             \/ \E l \in Lists : Check(j, i, l) \/ Refresh(j, i, l)
      PROVE  CacheInv'
  BY <1>3, BeginKeeps DEF Ask, Check, Refresh
<1> QED BY <1>1, <1>2, <1>3, CrashKeeps, DeletionKeeps, TickKeeps DEF Next

LEMMA CacheInvariant == Spec => []CacheInv
BY InitCache, NextCache, PTL DEF Spec

(* Every mutex is free or held by a job of its process at work on its list, *)
(* for any number of processes, lists and requests.                        *)
THEOREM CacheTypeCorrect == Spec => []TypeOK
<1>1. CacheInv => TypeOK
  <2> SUFFICES ASSUME CacheInv PROVE TypeOK
    OBVIOUS
  <2>1. ASSUME NEW i \in Instances, NEW l \in Lists, mutex[i][l] # None
        PROVE  /\ job[mutex[i][l]].home = i
               /\ job[mutex[i][l]].step \in Steps \ {"idle", "lock", "answered"}
               /\ List(mutex[i][l]) = l
    BY <2>1, ListIsAsked DEF CacheInv, JobsInv, MutexAgrees, Within
  <2> QED BY <2>1 DEF CacheInv, JobsInv, EntriesInv, SnapshotsInv, CountsInv, TypeOK
<1> QED BY <1>1, CacheInvariant, PTL

(* What is in the cache of a list after a refresh was read after it, but   *)
(* for the requests that other processes had under way.                    *)
THEOREM RefreshCorrect == Spec => []RefreshHolds
<1>1. CacheInv => RefreshHolds
  BY DEF CacheInv, EntriesInv
<1> QED BY <1>1, CacheInvariant, PTL

(* No answer and no offer is older than the two caches and the requests    *)
(* that filled them make it, whatever the periods are.                     *)
THEOREM ChangesCorrect == Spec => []ChangesAppear
<1>1. CacheInv => ChangesAppear
  <2> SUFFICES ASSUME CacheInv PROVE ChangesAppear
    OBVIOUS
  <2>1. ASSUME NEW j \in Jobs, job[j].step = "answered"
        PROVE  now - job[j].at <= ListTTL + LongestTTL + 3 * MaxRun
    <3>1. job[j] \in Job /\ Timely(job[j]) /\ job[j] # Idle /\ now \in Nat
      BY <2>1, BusyJob DEF CacheInv
    <3>2. /\ now <= job[j].since + MaxRun
          /\ job[j].since <= job[j].at + ListTTL + LongestTTL + MaxRun + MaxRun
          /\ job[j].since \in Nat /\ job[j].at \in Nat
      BY <2>1, <3>1 DEF Timely, Job
    <3> QED BY <3>1, <3>2, PeriodsType, OfferCacheAssumption
  <2>2. ASSUME NEW id \in Ids, GetOffer(id) # None
        PROVE  now - GetOffer(id).at <= ListTTL + CacheTTL + 2 * MaxRun
    <3>1. /\ snapshots[id] # None /\ snapshots[id].expiresAt > now
          /\ GetOffer(id) = snapshots[id]
      BY <2>2 DEF GetOffer, Alive
    <3>2. /\ snapshots[id] \in Snapshot /\ now \in Nat
          /\ snapshots[id].expiresAt <= snapshots[id].at + ListTTL + CacheTTL + MaxRun + MaxRun
      BY <3>1 DEF CacheInv, SnapshotsInv, JobsInv
    <3>3. snapshots[id].at \in Nat /\ snapshots[id].expiresAt \in Nat
      BY <3>2 DEF Snapshot
    <3> QED BY <3>1, <3>2, <3>3, OfferCacheAssumption
  <2> QED BY <2>1, <2>2 DEF ChangesAppear
<1> QED BY <1>1, CacheInvariant, PTL

=============================================================================
