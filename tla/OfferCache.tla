----------------------------- MODULE OfferCache -----------------------------
(***************************************************************************)
(* The offer cache (internal/repositories/offer_store.go) and its two      *)
(* users: the answers of questions (internal/search/offer_service.go) and, *)
(* below them, the lists of Moxfield (internal/stores/moxfield/client.go). *)
(* An entry of either kind carries offers, and every offer has a snapshot  *)
(* of its own that it is read back by.  Entry, snapshots and the mark of   *)
(* an entry are separate commits; a call may fail or an instance may die   *)
(* between any two of them, and instances share nothing but the documents. *)
(*                                                                         *)
(* A question asks one list here; what several sources answer is           *)
(* OfferSearch's.  An offer is its identifier: what else a list says of it *)
(* is as old as the request that read the list, which `at` remembers.      *)
(*                                                                         *)
(* SourcesByGame makes a client, and with it a mutex, for each game that   *)
(* asks a list.  stores.yaml has one game with the origin moxfield, so a   *)
(* list has one here; two games would share the entry under two mutexes.   *)
(***************************************************************************)
EXTENDS Integers, Sequences, FiniteSets

CONSTANTS
    Jobs,       \* requests and turns that run at the same time
    Instances,  \* processes
    Lists,      \* lists of Moxfield, each with one client in a process
    Questions,
    ListOf,     \* the list a question asks
    Ids,        \* identifiers of offers
    Wanted,     \* Wanted[q]: the offers that answer q
    ListTTL,    \* MUCHI_INVENTORY_CACHE_TTL_SECONDS
    CacheTTL,   \* MUCHI_OFFER_CACHE_TTL_SECONDS
    EmptyTTL,   \* MUCHI_OFFER_CACHE_EMPTY_TTL_SECONDS
    MaxRun,     \* the longest a request runs (--timeout of Cloud Run)
    MaxTime,    \* bound: the time a run may take
    MaxRequests, \* bound: requests that come
    MaxFaults,  \* bound: calls that fail and instances that die
    None        \* no document, nobody holds the mutex

Keys == Lists \union Questions

ASSUME OfferCacheAssumption ==
    /\ ListOf \in [Questions -> Lists]
    /\ Wanted \in [Questions -> SUBSET Ids]
    /\ Lists \intersect Questions = {}
    /\ ListTTL \in Nat /\ CacheTTL \in Nat /\ EmptyTTL \in Nat
    /\ MaxRun \in Nat /\ MaxTime \in Nat /\ MaxRequests \in Nat /\ MaxFaults \in Nat

ASSUME NobodyAssumption == None \notin Jobs

VARIABLES
    entries,   \* collection offer_cache
    snapshots, \* collection offers
    published, \* what a list holds at Moxfield: may differ from what it was, see `at`
    mutex,     \* mutex[i][l]: the job that holds the mutex of the client of l
    job,       \* what a job does and has in memory
    drops,     \* drops[l]: the instances that dropped the list, in order
    now,
    requests,  \* how many requests came
    faults     \* how many calls failed and processes died

documents == <<entries, snapshots>>
vars == <<documents, published, mutex, job, drops, now, requests, faults>>

Steps == {"idle", "look", "alive", "fill", "mark", "lock", "fetch", "drop", "save", "snap", "seal",
          "answered"}

(* An entry and a snapshot.  at, read, by and saved are histories: when the *)
(* list was fetched and after how many drops, by whom it was saved and when. *)
Entry == [offers: SUBSET Ids, at: Nat, read: Nat, expiresAt: Nat, indexed: BOOLEAN,
          by: Instances, saved: Nat]
Snapshot == [at: Nat, expiresAt: Nat]

(* A job: what it was asked for, the key it loads or saves now, and what it *)
(* holds.  at and read say when the list behind its offers was fetched.     *)
Job == [kind: {"none", "ask", "check", "refresh"}, home: Instances \union {None},
        target: Keys \union {None}, step: Steps, key: Keys \union {None},
        offers: SUBSET Ids, missing: SUBSET Ids, at: Nat, read: Nat, until: Nat, since: Nat]

Idle == [kind |-> "none", home |-> None, target |-> None, step |-> "idle", key |-> None,
         offers |-> {}, missing |-> {}, at |-> 0, read |-> 0, until |-> 0, since |-> 0]

Init ==
    /\ entries = [k \in Keys |-> None]
    /\ snapshots = [id \in Ids |-> None]
    /\ published \in [Lists -> SUBSET Ids]
    /\ mutex = [i \in Instances |-> [l \in Lists |-> None]]
    /\ job = [j \in Jobs |-> Idle]
    /\ drops = [l \in Lists |-> <<>>]
    /\ now = 0
    /\ requests = 0
    /\ faults = 0

-----------------------------------------------------------------------------
List(j) == IF job[j].target \in Questions THEN ListOf[job[j].target] ELSE job[j].target

lapsed(expiresAt) == expiresAt < now
Alive(id) == snapshots[id] # None /\ snapshots[id].expiresAt > now

(* What GetOffer answers.                                                  *)
GetOffer(id) == IF Alive(id) THEN snapshots[id] ELSE None

Snapshots(ids, at, until) ==
    [id \in Ids |-> IF id \in ids THEN [at |-> at, expiresAt |-> until] ELSE snapshots[id]]

TTL(key, offers) ==
    IF key \in Lists THEN ListTTL ELSE IF offers = {} THEN EmptyTTL ELSE CacheTTL

(* A job without the offers it had in memory.                              *)
Bare(j) == [Idle EXCEPT !.kind = job[j].kind, !.home = job[j].home, !.target = job[j].target,
                        !.since = job[j].since]

Goes(j, w) == job' = [job EXCEPT ![j] = w]
Locks(j, holder) == mutex' = [mutex EXCEPT ![job[j].home][List(j)] = holder]

(* The job ends: its mutex is free (defer), its memory is gone.            *)
Ends(j) ==
    /\ Goes(j, Idle)
    /\ mutex' = [i \in Instances |-> [l \in Lists |-> IF mutex[i][l] = j THEN None ELSE mutex[i][l]]]

Faulty == faults < MaxFaults /\ faults' = faults + 1

-----------------------------------------------------------------------------
(* What a job is asked for                                                 *)

Begin(j, i, kind, target, step) ==
    /\ job[j] = Idle
    /\ requests < MaxRequests /\ requests' = requests + 1
    /\ Goes(j, [Idle EXCEPT !.kind = kind, !.home = i, !.target = target, !.step = step,
                            !.key = target, !.since = now])
    /\ UNCHANGED <<documents, published, mutex, drops, now, faults>>

(* A question, a stock check past the cache, a refresh of a list.          *)
Ask(j, i, q) == Begin(j, i, "ask", q, "look")
Check(j, i, l) == Begin(j, i, "check", l, "lock")
Refresh(j, i, l) == Begin(j, i, "refresh", l, "lock")

-----------------------------------------------------------------------------
(* LoadOffers                                                              *)

(* Where the job goes when its key is not in the cache: a question to its  *)
(* list, a list to Moxfield.  A failure counts as a miss.                  *)
Missed(j) ==
    Goes(j, IF job[j].key \in Questions THEN [Bare(j) EXCEPT !.step = "lock", !.key = List(j)]
            ELSE [Bare(j) EXCEPT !.step = "fetch", !.key = List(j)])

(* The list is known: the mutex is released, the question keeps its offers *)
(* and saves them under its own key.                                       *)
Listed(j, offers, at, read) ==
    /\ Locks(j, None)
    /\ Goes(j, IF job[j].kind = "ask"
               THEN [Bare(j) EXCEPT !.step = "save", !.key = job[j].target, !.at = at, !.read = read,
                                    !.offers = offers \intersect Wanted[job[j].target]]
               ELSE [Bare(j) EXCEPT !.step = "answered", !.at = at])

Answers(j, at) == Goes(j, [Bare(j) EXCEPT !.step = "answered", !.at = at]) /\ UNCHANGED mutex

Loaded(j, offers, at, read) ==
    IF job[j].key \in Lists THEN Listed(j, offers, at, read) ELSE Answers(j, at)

(* A mutant: an entry counts until the TTL policy deletes it.              *)
LookUnlessDeleted(j) ==
    LET e == entries[job[j].key]
    IN IF e = None THEN Missed(j) /\ UNCHANGED mutex
       ELSE Loaded(j, e.offers, e.at, e.read)

LookUp(j) ==
    LET e == entries[job[j].key]
    IN IF e = None \/ (e # None /\ lapsed(e.expiresAt)) THEN Missed(j) /\ UNCHANGED mutex
       ELSE IF e.indexed THEN Loaded(j, e.offers, e.at, e.read)
       ELSE /\ Goes(j, [job[j] EXCEPT !.step = "alive", !.offers = e.offers, !.at = e.at,
                                      !.read = e.read, !.until = e.expiresAt])
            /\ UNCHANGED mutex

Look(j) ==
    /\ job[j].step = "look"
    /\ LookUp(j)
    /\ UNCHANGED <<documents, published, drops, now, requests, faults>>

(* indexMissingOffers: the snapshots that are not alive, then their write. *)
FindMissing(j) ==
    /\ job[j].step = "alive"
    /\ Goes(j, [job[j] EXCEPT !.step = "fill", !.missing = {id \in job[j].offers : ~Alive(id)}])
    /\ UNCHANGED <<documents, published, mutex, drops, now, requests, faults>>

(* A mutant: what is missing lives as long as a new entry would.           *)
UntilAsNew(j) == now + TTL(job[j].key, job[j].offers)

UntilOfEntry(j) == job[j].until

FillMissing(j) ==
    /\ job[j].step = "fill"
    /\ snapshots' = Snapshots(job[j].missing, job[j].at, UntilOfEntry(j))
    /\ Goes(j, [job[j] EXCEPT !.step = "mark"])
    /\ UNCHANGED <<entries, published, mutex, drops, now, requests, faults>>

(* markIndexed marks whatever entry the key has now, and none that is gone. *)
Marked(key) == IF entries[key] = None THEN None ELSE [entries[key] EXCEPT !.indexed = TRUE]

(* A mutant: the entry in memory is written back.                          *)
MarkedInMemory(j) ==
    [offers |-> job[j].offers, at |-> job[j].at, read |-> job[j].read, expiresAt |-> job[j].until,
     indexed |-> TRUE, by |-> job[j].home, saved |-> job[j].read]

MarkOf(j) == Marked(job[j].key)

MarkLoaded(j) ==
    /\ job[j].step = "mark"
    /\ entries' = [entries EXCEPT ![job[j].key] = MarkOf(j)]
    /\ IF entries[job[j].key] = None
       THEN Missed(j) /\ UNCHANGED mutex
       ELSE Loaded(j, job[j].offers, job[j].at, job[j].read)
    /\ UNCHANGED <<snapshots, published, drops, now, requests, faults>>

-----------------------------------------------------------------------------
(* The list of a Moxfield client: everything under its mutex               *)

AfterLock == [ask |-> "look", check |-> "fetch", refresh |-> "drop"]

(* A mutant: a list is dropped without waiting for who reads it.           *)
FreeToDrop(j) == job[j].kind = "refresh" \/ mutex[job[j].home][List(j)] = None

Free(j) == mutex[job[j].home][List(j)] = None

TakeMutex(j) ==
    /\ job[j].step = "lock"
    /\ Free(j)
    /\ Locks(j, j)
    /\ Goes(j, [job[j] EXCEPT !.step = AfterLock[job[j].kind]])
    /\ UNCHANGED <<documents, published, drops, now, requests, faults>>

Fetch(j) ==
    /\ job[j].step = "fetch"
    /\ Goes(j, [job[j] EXCEPT !.step = "save", !.offers = published[List(j)], !.at = now,
                              !.read = Len(drops[List(j)]), !.missing = {}])
    /\ UNCHANGED <<documents, published, mutex, drops, now, requests, faults>>

(* DropInventory forgets the entry; the snapshots stay.                    *)
Drop(j) ==
    /\ job[j].step = "drop"
    /\ entries' = [entries EXCEPT ![List(j)] = None]
    /\ drops' = [drops EXCEPT ![List(j)] = Append(@, job[j].home)]
    /\ Ends(j)
    /\ UNCHANGED <<snapshots, published, now, requests, faults>>

-----------------------------------------------------------------------------
(* SaveOffers                                                              *)

(* Whatever became of it, who saved goes on with what it holds.            *)
Saved(j) ==
    IF job[j].key \in Lists THEN Listed(j, job[j].offers, job[j].at, job[j].read)
    ELSE Answers(j, job[j].at)

SaveEntry(j) ==
    LET until == now + TTL(job[j].key, job[j].offers)
    IN /\ job[j].step = "save"
       /\ entries' = [entries EXCEPT ![job[j].key] =
             [offers |-> job[j].offers, at |-> job[j].at, read |-> job[j].read, expiresAt |-> until,
              indexed |-> FALSE, by |-> job[j].home, saved |-> Len(drops[List(j)])]]
       /\ Goes(j, [job[j] EXCEPT !.step = "snap", !.until = until])
       /\ UNCHANGED <<snapshots, published, mutex, drops, now, requests, faults>>

SaveSnapshots(j) ==
    /\ job[j].step = "snap"
    /\ snapshots' = Snapshots(job[j].offers, job[j].at, job[j].until)
    /\ Goes(j, [job[j] EXCEPT !.step = "seal"])
    /\ UNCHANGED <<entries, published, mutex, drops, now, requests, faults>>

MarkSaved(j) ==
    /\ job[j].step = "seal"
    /\ entries' = [entries EXCEPT ![job[j].key] = MarkOf(j)]
    /\ Saved(j)
    /\ UNCHANGED <<snapshots, published, drops, now, requests, faults>>

-----------------------------------------------------------------------------
(* Calls that fail.  A load that fails is a miss, a save that fails is     *)
(* ignored, and the batches of SaveMany that were committed stay.          *)

SomeSnapshots(j, ids, until) ==
    \E some \in SUBSET ids : snapshots' = Snapshots(some, job[j].at, until)

LoadFails(j) ==
    /\ job[j].step \in {"look", "alive", "fill", "mark"} /\ Faulty
    /\ IF job[j].step = "fill" THEN SomeSnapshots(j, job[j].missing, UntilOfEntry(j))
       ELSE UNCHANGED snapshots
    /\ Missed(j)
    /\ UNCHANGED <<entries, published, mutex, drops, now, requests>>

SaveFails(j) ==
    /\ job[j].step \in {"save", "snap", "seal"} /\ Faulty
    /\ IF job[j].step = "snap" THEN SomeSnapshots(j, job[j].offers, job[j].until)
       ELSE UNCHANGED snapshots
    /\ Saved(j)
    /\ UNCHANGED <<entries, published, drops, now, requests>>

(* A mutant: who cannot read the list forgets its mutex.                   *)
EndsLocked(j) == Goes(j, Idle) /\ UNCHANGED mutex

EndsOpen(j) == Ends(j)

(* A list that cannot be read or dropped is an error of the whole job.     *)
ListFails(j) ==
    /\ job[j].step \in {"fetch", "drop"} /\ Faulty
    /\ EndsOpen(j)
    /\ UNCHANGED <<documents, published, drops, now, requests>>

Reply(j) ==
    /\ job[j].step = "answered"
    /\ Ends(j)
    /\ UNCHANGED <<documents, published, drops, now, requests, faults>>

-----------------------------------------------------------------------------
(* The world outside                                                       *)

(* A process dies, or its request is cut off: memory and mutex are gone.   *)
Crash(i) ==
    /\ \E j \in Jobs : job[j].home = i /\ job[j] # Idle
    /\ Faulty
    /\ job' = [j \in Jobs |-> IF job[j].home = i THEN Idle ELSE job[j]]
    /\ mutex' = [mutex EXCEPT ![i] = [l \in Lists |-> None]]
    /\ UNCHANGED <<documents, published, drops, now, requests>>

(* The TTL policy of Firestore deletes what has expired, some time later.  *)
DeleteEntry(k) ==
    /\ entries[k] # None /\ lapsed(entries[k].expiresAt)
    /\ entries' = [entries EXCEPT ![k] = None]
    /\ UNCHANGED <<snapshots, published, mutex, job, drops, now, requests, faults>>

DeleteSnapshot(id) ==
    /\ snapshots[id] # None /\ lapsed(snapshots[id].expiresAt)
    /\ snapshots' = [snapshots EXCEPT ![id] = None]
    /\ UNCHANGED <<entries, published, mutex, job, drops, now, requests, faults>>

(* No request runs longer than MaxRun.                                     *)
Tick ==
    /\ now < MaxTime
    /\ \A j \in Jobs : job[j] # Idle => now - job[j].since < MaxRun
    /\ now' = now + 1
    /\ UNCHANGED <<documents, published, mutex, job, drops, requests, faults>>

JobStep(j) ==
    \/ Look(j) \/ FindMissing(j) \/ FillMissing(j) \/ MarkLoaded(j)
    \/ TakeMutex(j) \/ Fetch(j) \/ Drop(j)
    \/ SaveEntry(j) \/ SaveSnapshots(j) \/ MarkSaved(j)
    \/ LoadFails(j) \/ SaveFails(j) \/ ListFails(j) \/ Reply(j)

Next ==
    \/ \E j \in Jobs : JobStep(j)
    \/ \E j \in Jobs, i \in Instances :
          \/ \E q \in Questions : Ask(j, i, q)
          \/ \E l \in Lists : Check(j, i, l) \/ Refresh(j, i, l)
    \/ \E i \in Instances : Crash(i)
    \/ \E k \in Keys : DeleteEntry(k)
    \/ \E id \in Ids : DeleteSnapshot(id)
    \/ Tick

Spec == Init /\ [][Next]_vars

-----------------------------------------------------------------------------
(* Properties                                                              *)

(* Documents and memories have their shapes, and the mutex of a client is  *)
(* held by nobody or by a job of that process that is at work on its list:  *)
(* whatever fails, no job leaves it locked behind itself.                   *)
TypeOK ==
    /\ entries \in [Keys -> Entry \union {None}]
    /\ snapshots \in [Ids -> Snapshot \union {None}]
    /\ published \in [Lists -> SUBSET Ids]
    /\ mutex \in [Instances -> [Lists -> Jobs \union {None}]]
    /\ \A i \in Instances, l \in Lists :
          mutex[i][l] # None => /\ job[mutex[i][l]].home = i
                                /\ job[mutex[i][l]].step \in Steps \ {"idle", "lock", "answered"}
                                /\ List(mutex[i][l]) = l
    /\ job \in [Jobs -> Job]
    /\ drops \in [Lists -> Seq(Instances)]
    /\ now \in 0..MaxTime
    /\ requests \in 0..MaxRequests
    /\ faults \in 0..MaxFaults

LongestTTL == IF CacheTTL < EmptyTTL THEN EmptyTTL ELSE CacheTTL

(* What a search answers, and what GetOffer answers for one of its offers,  *)
(* is no older than two caches in a row make it: the list's and then the    *)
(* question's, each filled by a request that took as long as it may; the    *)
(* request that answers is a third.  The README promises this bound ("by    *)
(* another TTL period"); an empty answer has a period of its own, which     *)
(* nothing keeps below the other.                                           *)
ChangesAppear ==
    /\ \A j \in Jobs : job[j].step = "answered" =>
          now - job[j].at <= ListTTL + LongestTTL + 3 * MaxRun
    /\ \A id \in Ids : GetOffer(id) # None =>
          now - GetOffer(id).at <= ListTTL + CacheTTL + 2 * MaxRun

(* A refresh forgets the list: no step brings back an entry that was saved  *)
(* before it, and what is saved after it was read after it, unless another  *)
(* process had that request under way (DropInventory, markIndexed).         *)
RefreshHolds ==
    \A l \in Lists : entries[l] # None =>
        /\ entries[l].saved = Len(drops[l])
        /\ \A d \in (entries[l].read + 1)..Len(drops[l]) : drops[l][d] # entries[l].by

=============================================================================
