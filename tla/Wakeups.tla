------------------------------ MODULE Wakeups ------------------------------
(***************************************************************************)
(* How work meets the worker: internal/search/search_service.go creates a  *)
(* search and then one Cloud Tasks task per card (internal/taskqueue), each *)
(* delivery of a task is one turn that takes whatever card is oldest, and  *)
(* the sweeper (internal/sweep) adds tasks when cards wait without one.    *)
(*                                                                         *)
(* A task carries no card.  SearchStore says what a turn does to its card; *)
(* this module says that some turn comes.  It has no clock: the queue of   *)
(* ready cards is kept in the order of available_at, and a lease or a      *)
(* search may lapse whenever the code could let it.                        *)
(***************************************************************************)
EXTENDS Integers, FiniteSets, SequencesExt

CONSTANTS
    Searches,    \* the searches that calls may open
    NumCards,    \* NumCards[s]: the cards of s
    Calls,       \* calls of CreateSearch
    SearchOf,    \* SearchOf[c]: the search that the key of c opens or repeats
    Slots,       \* deliveries that Cloud Tasks runs at the same time
    Damaged,     \* item documents that storage cannot read back
    MaxDiscards, \* maxClaimDiscards
    MaxWakes,    \* Sweeper.MaxWakes
    MaxPending,  \* bound: sweeps pause while this many of their tasks wait
    MaxFaults,   \* bound: crashes, refused calls and lost renewals
    SweepTask,   \* stands for every task of the sweeper: each has its own name
    None         \* no task, no item

Positions(s) == 0..(NumCards[s] - 1)
Items == UNION {{s} \X Positions(s) : s \in Searches}

ASSUME WakeupsAssumption ==
    /\ NumCards \in [Searches -> Nat \ {0}]
    /\ SearchOf \in [Calls -> Searches]
    /\ Damaged \subseteq Items
    /\ MaxDiscards \in Nat
    /\ MaxWakes \in Nat \ {0}
    /\ MaxPending \in Nat
    /\ MaxFaults \in Nat
    /\ None \notin Items \union Slots /\ SweepTask \notin Items

VARIABLES
    phase,  \* phase[s]: unborn, open, cancelled or lapsed
    card,   \* card[i]: absent, ready, leased, done or gone
    queue,  \* the ready items, oldest available_at first
    holder, \* holder[i]: the slot whose lease i carries
    calls,  \* the calls: their step and the tasks they still have to create
    tasks,  \* named tasks that wait for a delivery
    used,   \* task names that Cloud Tasks remembers
    wakes,  \* how many of the sweeper's tasks wait for a delivery
    turns,  \* what each slot runs
    faults  \* how many faults have struck

work == <<phase, card, queue, holder>>
wakeups == <<tasks, used, wakes>>
vars == <<work, calls, wakeups, turns, faults>>

Idle == [task |-> None, item |-> None, discarded |-> 0]

Init ==
    /\ phase = [s \in Searches |-> "unborn"]
    /\ card = [i \in Items |-> "absent"]
    /\ queue = <<>>
    /\ holder = [i \in Items |-> None]
    /\ calls = [c \in Calls |-> [step |-> "new", left |-> {}]]
    /\ tasks = {}
    /\ used = {}
    /\ wakes = 0
    /\ turns = [w \in Slots |-> Idle]
    /\ faults = 0

Fault == faults < MaxFaults /\ faults' = faults + 1

-----------------------------------------------------------------------------
(* SearchService.CreateSearch: the store first, then the tasks             *)

OpenSearch(c) ==
    LET s == SearchOf[c] IN
    /\ calls[c].step = "new"
    /\ phase[s] = "unborn"
    /\ phase' = [phase EXCEPT ![s] = "open"]
    /\ calls' = [calls EXCEPT ![c].step = "opened"]
    /\ UNCHANGED <<card, queue, holder, wakeups, turns, faults>>

(* Mutant: a repeated call does all that the first one does.               *)
RepeatFromStart(c) ==
    /\ calls[c].step = "new"
    /\ phase[SearchOf[c]] \in {"open", "cancelled"}
    /\ calls' = [calls EXCEPT ![c].step = "opened"]
    /\ UNCHANGED <<work, wakeups, turns, faults>>

(* A repeated call writes no item and creates the same tasks again.        *)
RepeatSearch(c) ==
    LET s == SearchOf[c] IN
    /\ calls[c].step = "new"
    /\ phase[s] \in {"open", "cancelled"}
    /\ calls' = [calls EXCEPT ![c] = [step |-> "dispatching", left |-> Positions(s)]]
    /\ UNCHANGED <<work, wakeups, turns, faults>>

(* createItems, in the order of the positions.                             *)
WriteItems(c) ==
    LET s == SearchOf[c] IN
    /\ calls[c].step = "opened"
    /\ card' = [i \in Items |-> IF i[1] = s THEN "ready" ELSE card[i]]
    /\ queue' = queue \o [n \in 1..NumCards[s] |-> <<s, n - 1>>]
    /\ calls' = [calls EXCEPT ![c] = [step |-> "dispatching", left |-> Positions(s)]]
    /\ UNCHANGED <<phase, holder, wakeups, turns, faults>>

(* DispatchSearch creates the tasks in any order.  AlreadyExists is        *)
(* success: a name that was used, even one that ran, brings no new turn.   *)
CreateTask(c, p) ==
    LET name == <<SearchOf[c], p>> IN
    /\ p \in calls[c].left
    /\ calls' = [calls EXCEPT ![c].left = @ \ {p}]
    /\ tasks' = IF name \in used THEN tasks ELSE tasks \union {name}
    /\ used' = used \union {name}
    /\ UNCHANGED <<work, wakes, turns, faults>>

(* One task is refused: the others are still created.                      *)
TaskRefused(c, p) ==
    /\ p \in calls[c].left
    /\ Fault
    /\ calls' = [calls EXCEPT ![c].left = @ \ {p}]
    /\ UNCHANGED <<work, wakeups, turns>>

(* The instance dies, or createItems fails.                                *)
CallFails(c) ==
    /\ calls[c].step = "opened" \/ calls[c].left # {}
    /\ Fault
    /\ calls' = [calls EXCEPT ![c] = [step |-> "failed", left |-> {}]]
    /\ UNCHANGED <<work, wakeups, turns>>

-----------------------------------------------------------------------------
(* ProcessSearch: one delivery, one turn                                   *)

TakeTask(w) ==
    /\ turns[w] = Idle
    /\ \/ \E name \in tasks :
            /\ tasks' = tasks \ {name}
            /\ turns' = [turns EXCEPT ![w].task = name]
            /\ UNCHANGED wakes
       \/ /\ wakes > 0
          /\ wakes' = wakes - 1
          /\ turns' = [turns EXCEPT ![w].task = SweepTask]
          /\ UNCHANGED tasks
    /\ UNCHANGED <<work, calls, used, faults>>

Claiming(w) == turns[w].task # None /\ turns[w].item = None

(* claimItem: a cancelled search is refused like a lapsed one.             *)
Claimable(i) == i \notin Damaged /\ phase[i[1]] = "open"

ClaimItem(w) ==
    /\ Claiming(w)
    /\ queue # <<>>
    /\ LET i == Head(queue) IN
       /\ Claimable(i)
       /\ card' = [card EXCEPT ![i] = "leased"]
       /\ holder' = [holder EXCEPT ![i] = w]
       /\ turns' = [turns EXCEPT ![w].item = i]
    /\ queue' = Tail(queue)
    /\ UNCHANGED <<phase, calls, wakeups, faults>>

(* Mutant: a dead candidate ends the turn and stays at the head.           *)
DiscardNothing(w) ==
    /\ Claiming(w)
    /\ queue # <<>>
    /\ ~Claimable(Head(queue))
    /\ turns' = [turns EXCEPT ![w] = Idle]
    /\ UNCHANGED <<work, calls, wakeups, faults>>

(* A dead candidate is deleted; after MaxDiscards + 1 of them the turn has *)
(* found nothing, which ServeSearch answers with 204.                      *)
DiscardItem(w) ==
    /\ Claiming(w)
    /\ queue # <<>>
    /\ ~Claimable(Head(queue))
    /\ card' = [card EXCEPT ![Head(queue)] = "gone"]
    /\ queue' = Tail(queue)
    /\ LET turn == turns[w] IN
       turns' = [turns EXCEPT ![w] =
            IF turn.discarded < MaxDiscards THEN [turn EXCEPT !.discarded = @ + 1] ELSE Idle]
    /\ UNCHANGED <<phase, holder, calls, wakeups, faults>>

(* Nothing is ready: the task is spent and answered with 204.              *)
FindNothing(w) ==
    /\ Claiming(w)
    /\ queue = <<>>
    /\ turns' = [turns EXCEPT ![w] = Idle]
    /\ UNCHANGED <<work, calls, wakeups, faults>>

(* CompleteSearchItem refuses a lost lease or a lapsed search with         *)
(* ErrNotFound, which is answered with 204 like a success.                 *)
CompleteItem(w) ==
    LET i == turns[w].item IN
    /\ i # None
    /\ IF holder[i] = w /\ phase[i[1]] # "lapsed"
       THEN /\ card' = [card EXCEPT ![i] = "done"]
            /\ holder' = [holder EXCEPT ![i] = None]
       ELSE UNCHANGED <<card, holder>>
    /\ turns' = [turns EXCEPT ![w] = Idle]
    /\ UNCHANGED <<phase, queue, calls, wakeups, faults>>

(* A crash or an error other than ErrNotFound: Cloud Tasks delivers the    *)
(* task again; a card the turn had claimed keeps its lease.                *)
TurnFails(w) ==
    /\ turns[w] # Idle
    /\ Fault
    /\ IF turns[w].task = SweepTask
       THEN wakes' = wakes + 1 /\ UNCHANGED tasks
       ELSE tasks' = tasks \union {turns[w].task} /\ UNCHANGED wakes
    /\ turns' = [turns EXCEPT ![w] = Idle]
    /\ UNCHANGED <<work, calls, used>>

-----------------------------------------------------------------------------
(* Leases, the sweeper, and what happens to searches                       *)

Worked(i) == \E w \in Slots : turns[w].item = i /\ holder[i] = w

(* available_at passes: the item is ready again, behind those that already *)
(* were.  While its turn lives, that takes a lost renewal.  The code would  *)
(* still take the result of that turn until another one claims the item;    *)
(* here it is refused at once, which only makes a card harder to serve.     *)
LeaseLapses(i) ==
    /\ card[i] = "leased"
    /\ IF Worked(i) THEN Fault ELSE UNCHANGED faults
    /\ card' = [card EXCEPT ![i] = "ready"]
    /\ holder' = [holder EXCEPT ![i] = None]
    /\ queue' = Append(queue, i)
    /\ UNCHANGED <<phase, calls, wakeups, turns>>

(* CountWaitingItems: the first MaxWakes ready items, the dead left out.   *)
Waiting ==
    Cardinality({n \in 1..Len(queue) :
        /\ n <= MaxWakes
        /\ queue[n] \notin Damaged
        /\ phase[queue[n][1]] # "lapsed"})

(* Mutant: the sweeper repairs under the names of the original tasks, which *)
(* Cloud Tasks remembers.                                                  *)
SweepUnderUsedNames ==
    /\ Waiting > 0
    /\ wakes + Waiting <= MaxPending
    /\ \E n \in 1..Len(queue) : queue[n] \notin used
    /\ wakes' = wakes + 1
    /\ UNCHANGED <<work, calls, tasks, used, turns, faults>>

(* SweepQueue adds one task for each, and stops at the first refusal.      *)
Sweep ==
    /\ Waiting > 0
    /\ wakes + Waiting <= MaxPending
    /\ \/ wakes' = wakes + Waiting /\ UNCHANGED faults
       \/ \E woken \in 0..(Waiting - 1) : wakes' = wakes + woken /\ Fault
    /\ UNCHANGED <<work, calls, tasks, used, turns>>

CancelSearch(s) ==
    /\ phase[s] = "open"
    /\ phase' = [phase EXCEPT ![s] = "cancelled"]
    /\ UNCHANGED <<card, queue, holder, calls, wakeups, turns, faults>>

Lapse(s) ==
    /\ phase[s] \in {"open", "cancelled"}
    /\ phase' = [phase EXCEPT ![s] = "lapsed"]
    /\ UNCHANGED <<card, queue, holder, calls, wakeups, turns, faults>>

(* Firestore's TTL deletes a lapsed item at a moment of its own.           *)
ExpireItem(i) ==
    /\ card[i] \in {"ready", "leased", "done"}
    /\ phase[i[1]] = "lapsed"
    /\ card' = [card EXCEPT ![i] = "gone"]
    /\ holder' = [holder EXCEPT ![i] = None]
    /\ IF card[i] = "ready"
       THEN \E n \in 1..Len(queue) : queue[n] = i /\ queue' = RemoveAt(queue, n)
       ELSE UNCHANGED queue
    /\ UNCHANGED <<phase, calls, wakeups, turns, faults>>

-----------------------------------------------------------------------------
CallStep(c) ==
    \/ OpenSearch(c)
    \/ RepeatSearch(c)
    \/ WriteItems(c)
    \/ \E p \in Positions(SearchOf[c]) : CreateTask(c, p) \/ TaskRefused(c, p)
    \/ CallFails(c)

(* What a turn does when nothing strikes it.                               *)
TurnStep(w) ==
    \/ TakeTask(w)
    \/ ClaimItem(w)
    \/ DiscardItem(w)
    \/ FindNothing(w)
    \/ CompleteItem(w)

Next ==
    \/ \E c \in Calls : CallStep(c)
    \/ \E w \in Slots : TurnStep(w) \/ TurnFails(w)
    \/ \E i \in Items : LeaseLapses(i) \/ ExpireItem(i)
    \/ Sweep
    \/ \E s \in Searches : CancelSearch(s) \/ Lapse(s)

(* Cloud Tasks delivers a task until it is answered, a turn ends within    *)
(* its dispatch deadline, a lease nobody renews lapses, and Cloud          *)
(* Scheduler starts a sweep every five minutes.  Calls, cancellations and  *)
(* the TTL owe nothing.                                                    *)
Fairness ==
    /\ \A w \in Slots : WF_vars(TurnStep(w))
    /\ \A i \in Items : WF_vars(~Worked(i) /\ LeaseLapses(i))
    /\ WF_vars(Sweep)

Spec == Init /\ [][Next]_vars /\ Fairness

-----------------------------------------------------------------------------
(* Properties                                                              *)

(* The documents and the processes have their shape, and the queue holds   *)
(* each ready item once.                                                   *)
TypeOK ==
    /\ phase \in [Searches -> {"unborn", "open", "cancelled", "lapsed"}]
    /\ card \in [Items -> {"absent", "ready", "leased", "done", "gone"}]
    /\ queue \in Seq(Items)
    /\ {queue[n] : n \in 1..Len(queue)} = {i \in Items : card[i] = "ready"}
    /\ Len(queue) = Cardinality({i \in Items : card[i] = "ready"})
    /\ holder \in [Items -> Slots \union {None}]
    /\ calls \in [Calls -> [step : {"new", "opened", "dispatching", "failed"},
                            left : UNION {SUBSET Positions(s) : s \in Searches}]]
    /\ tasks \subseteq Items
    /\ used \subseteq Items
    /\ wakes \in Nat
    /\ turns \in [Slots -> [task : Items \union {SweepTask, None},
                            item : Items \union {None}, discarded : 0..MaxDiscards]]
    /\ faults \in 0..MaxFaults

(* A card that was written gets its result, whatever wake-ups were lost,   *)
(* spent by other cards or refused, unless its search is closed first.     *)
EveryCardServed ==
    \A i \in Items \ Damaged :
        card[i] = "ready" ~> (card[i] = "done" \/ phase[i[1]] \in {"cancelled", "lapsed"})

=============================================================================
