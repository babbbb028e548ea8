----------------------------- MODULE SearchLog -----------------------------
(***************************************************************************)
(* What the store of searches promises to the API: each search is a status *)
(* and a log of results that only grows, one entry at a time and one entry *)
(* per card, until the search lapses and is gone.  There is no queue here, *)
(* no lease, no worker and no clock.                                       *)
(***************************************************************************)
EXTENDS Naturals, FiniteSets

CONSTANTS
    SearchIds,  \* the searches
    MaxCards    \* the longest list of cards

Outcomes == {"found", "not_found", "source_error"}
Entry == [sequence : 1..MaxCards, position : 0..(MaxCards - 1), outcome : Outcomes]
Open == {"queued", "running"}
Finished == {"completed", "completed_with_errors"}
Phase == {"unborn", "gone", "cancelled"} \union Open \union Finished

VARIABLES
    phase,  \* phase[s]: the status, or that s does not exist
    size,   \* size[s]: how many cards s lists, 0 when it does not exist
    log     \* log[s]: the results of s

logVars == <<phase, size, log>>

TypeOK ==
    /\ phase \in [SearchIds -> Phase]
    /\ size \in [SearchIds -> 0..MaxCards]
    /\ log \in [SearchIds -> SUBSET Entry]

Init ==
    /\ phase = [s \in SearchIds |-> "unborn"]
    /\ size = [s \in SearchIds |-> 0]
    /\ log = [s \in SearchIds |-> {}]

OpenSearch(s, n) ==
    /\ phase[s] = "unborn"
    /\ phase' = [phase EXCEPT ![s] = "queued"]
    /\ size' = [size EXCEPT ![s] = n]
    /\ UNCHANGED log

Start(s) ==
    /\ phase[s] = "queued"
    /\ phase' = [phase EXCEPT ![s] = "running"]
    /\ UNCHANGED <<size, log>>

(* A card gets its one result, in the next place of the log.  The last one *)
(* finishes a search that was not cancelled; a cancelled search still      *)
(* takes the result of a card that was being worked on.                    *)
AddResult(s, p, outcome) ==
    LET entry == [sequence |-> Cardinality(log[s]) + 1, position |-> p, outcome |-> outcome]
        after == log[s] \union {entry}
        faulty == \E e \in after : e.outcome = "source_error"
    IN
    /\ phase[s] \in {"running", "cancelled"}
    /\ p < size[s]
    /\ \A e \in log[s] : e.position # p
    /\ log' = [log EXCEPT ![s] = after]
    /\ phase' = [phase EXCEPT ![s] =
            IF @ = "running" /\ Cardinality(after) = size[s]
            THEN IF faulty THEN "completed_with_errors" ELSE "completed"
            ELSE @]
    /\ UNCHANGED size

Cancel(s) ==
    /\ phase[s] \in Open
    /\ phase' = [phase EXCEPT ![s] = "cancelled"]
    /\ UNCHANGED <<size, log>>

(* Searches opened together lapse together.                                *)
Lapse(S) ==
    /\ \A s \in S : phase[s] \notin {"unborn", "gone"}
    /\ phase' = [s \in SearchIds |-> IF s \in S THEN "gone" ELSE phase[s]]
    /\ size' = [s \in SearchIds |-> IF s \in S THEN 0 ELSE size[s]]
    /\ log' = [s \in SearchIds |-> IF s \in S THEN {} ELSE log[s]]

Next ==
    \/ \E s \in SearchIds :
        \/ \E n \in 1..MaxCards : OpenSearch(s, n)
        \/ Start(s)
        \/ \E p \in 0..(MaxCards - 1), outcome \in Outcomes : AddResult(s, p, outcome)
        \/ Cancel(s)
    \/ \E S \in SUBSET SearchIds : Lapse(S)

Spec == Init /\ [][Next]_logVars

=============================================================================
