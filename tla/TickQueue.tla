----------------------------- MODULE TickQueue -----------------------------
(***************************************************************************)
(* What the tick plant promises its callers: a bounded bag of ticks.       *)
(* ingest decides the fate of a tick once, putting it in or refusing it;   *)
(* consume takes out some tick that is in, in no promised order.  TickPlant *)
(* implements this specification (ImplementsQueue).                        *)
(***************************************************************************)
EXTENDS Naturals, FiniteSets

CONSTANTS Ticks, Capacity

VARIABLES waiting,  \* ticks in the queue
          taken,    \* ticks consume has taken out
          refused   \* ticks for which ingest returned false

bagVars == <<waiting, taken, refused>>

Empty == waiting = {} /\ taken = {} /\ refused = {}

Undecided(t) == t \notin waiting \cup taken \cup refused

\* ingest returns true; there is room for the tick.
Accept(t) ==
    /\ Undecided(t) /\ Cardinality(waiting) < Capacity
    /\ waiting' = waiting \cup {t}
    /\ UNCHANGED <<taken, refused>>

\* ingest returns false.
Refuse(t) ==
    /\ Undecided(t)
    /\ refused' = refused \cup {t}
    /\ UNCHANGED <<waiting, taken>>

\* consume takes a tick.
Take(t) ==
    /\ t \in waiting
    /\ waiting' = waiting \ {t}
    /\ taken' = taken \cup {t}
    /\ UNCHANGED refused

BagNext == \E t \in Ticks : Accept(t) \/ Refuse(t) \/ Take(t)

BagSpec == Empty /\ [][BagNext]_bagVars
=============================================================================
