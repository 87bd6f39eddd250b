--------------------------- MODULE RebalanceManager ---------------------------
(***************************************************************************)
(* The live rebalancing of partitions: callers start, pause, resume and    *)
(* cancel a plan and wait for its end, one worker thread runs its moves    *)
(* and edits the ring, the policy thread starts plans of its own.          *)
(*                                                                         *)
(* state_ is an atomic, everything else is under mu_; each critical        *)
(* section is one step here, except wait(), whose predicate is evaluated   *)
(* and whose sleep begins in two steps with mu_ held.  A move is one step  *)
(* that commits or fails (PartitionMigration models it).                   *)
(***************************************************************************)
EXTENDS Naturals, FiniteSets

CONSTANTS Callers,    \* threads that call start_*, pause, resume and cancel
          Waiters,    \* threads that call wait(0)
          Nodes, Initial, NoNode,
          NumMoves,   \* moves of a plan
          MaxStarts,  \* bound: calls of start_*
          MaxControls \* bound: calls of pause, resume and cancel

ASSUME RebalanceAssumption ==
    /\ Initial \subseteq Nodes /\ NoNode \notin Nodes
    /\ NumMoves \in Nat \ {0}
    /\ MaxStarts \in Nat /\ MaxControls \in Nat

VARIABLES state,    \* state_
          status,   \* status_.state
          action,   \* action_ and action_node_
          plan,     \* what plan_ was made for
          done, bad,\* status_.completed_moves and failed_moves
          worker,   \* where run_loop is
          act,      \* run_loop's copy of action_, read when the moves are over
          ring,     \* members of the router's ring
          edited,   \* the plan and the edit of the last ring change
          pc,       \* caller -> its call
          waiter,   \* waiter -> its call of wait
          starts, controls

callVars == <<pc, starts, controls>>
vars == <<state, status, action, plan, done, bad, worker, act, ring, edited, waiter, callVars>>

NoAction == [kind |-> "NONE", node |-> NoNode]
Actions == [kind : {"ADD_NODE", "REMOVE_NODE"}, node : Nodes] \cup {NoAction}
IdleCall == [at |-> "idle", what |-> NoAction]

Init ==
    /\ state = "IDLE" /\ status = "IDLE"
    /\ action = NoAction /\ plan = NoAction /\ act = NoAction
    /\ done = 0 /\ bad = 0 /\ worker = "none"
    /\ ring = Initial /\ edited = [plan |-> NoAction, edit |-> NoAction, full |-> TRUE]
    /\ pc = [c \in Callers |-> IdleCall]
    /\ waiter = [w \in Waiters |-> "out"]
    /\ starts = 0 /\ controls = 0

\* mu_ is free unless a waiter is between its test and its sleep.
MuFree == \A w \in Waiters : waiter[w] # "tested"

-----------------------------------------------------------------------------
(* start_add_node, start_remove_node, start_move_partitions, start_plan    *)

\* plan_add is empty for a member, plan_remove for a node that is not one or is the last.
Plannable(a) ==
    \/ a = NoAction
    \/ a.kind = "ADD_NODE" /\ a.node \notin ring /\ ring # {}
    \/ a.kind = "REMOVE_NODE" /\ a.node \in ring /\ Cardinality(ring) > 1

Go(c, at, what) == pc' = [pc EXCEPT ![c] = [at |-> at, what |-> what]]

Start(c, a) ==
    /\ pc[c].at = "idle" /\ starts < MaxStarts /\ MuFree
    /\ Plannable(a)
    /\ action' = a
    /\ Go(c, "swap", a) /\ starts' = starts + 1
    /\ UNCHANGED <<state, status, plan, done, bad, worker, act, ring, edited, waiter, controls>>

\* policy_loop gives the plan of plan_add to start_plan, without an action.
PolicyStart(c, n) ==
    /\ pc[c].at = "idle" /\ starts < MaxStarts
    /\ state = "IDLE" /\ Plannable([kind |-> "ADD_NODE", node |-> n])
    /\ Go(c, "swap", NoAction) /\ starts' = starts + 1
    /\ UNCHANGED <<state, status, action, plan, done, bad, worker, act, ring, edited, waiter, controls>>

StartSwap(c) ==
    /\ pc[c].at = "swap"
    /\ \/ state = "IDLE" /\ state' = "RUNNING" /\ Go(c, "launch", pc[c].what)
       \/ state # "IDLE" /\ Go(c, "idle", NoAction) /\ UNCHANGED state
    /\ UNCHANGED <<status, action, plan, done, bad, worker, act, ring, edited, waiter, starts, controls>>

\* The previous worker is joined, the plan installed and a new worker started.
Launch(c) ==
    /\ pc[c].at = "launch" /\ worker = "none" /\ MuFree
    /\ plan' = pc[c].what
    /\ status' = "RUNNING" /\ done' = 0 /\ bad' = 0
    /\ worker' = "next"
    /\ Go(c, "idle", NoAction)
    /\ UNCHANGED <<state, action, act, ring, edited, waiter, starts, controls>>

-----------------------------------------------------------------------------
(* run_loop                                                                *)

WorkerNextMove ==
    /\ worker = "next"
    /\ worker' = IF done + bad = NumMoves \/ state = "CANCELLING" THEN "read"
                 ELSE IF state = "PAUSED" THEN "paused" ELSE "move"
    /\ UNCHANGED <<state, status, action, plan, done, bad, act, ring, edited, waiter, callVars>>

\* A bug: only resume wakes a paused worker.
WakeOnResume ==
    /\ worker = "paused" /\ state = "RUNNING" /\ MuFree
    /\ worker' = "move"
    /\ UNCHANGED <<state, status, action, plan, done, bad, act, ring, edited, waiter, callVars>>

\* resume and cancel change state_, take mu_ and then notify, so no wakeup is lost.
Wake ==
    /\ worker = "paused" /\ state \in {"RUNNING", "CANCELLING"} /\ MuFree
    /\ worker' = IF state = "CANCELLING" THEN "read" ELSE "move"
    /\ UNCHANGED <<state, status, action, plan, done, bad, act, ring, edited, waiter, callVars>>

Move ==
    /\ worker = "move" /\ MuFree
    /\ \/ done' = done + 1 /\ UNCHANGED bad
       \/ bad' = bad + 1 /\ UNCHANGED done
    /\ worker' = "next"
    /\ UNCHANGED <<state, status, action, plan, act, ring, edited, waiter, callVars>>

ReadAction ==
    /\ worker = "read" /\ MuFree
    /\ act' = action /\ worker' = "test"
    /\ UNCHANGED <<state, status, action, plan, done, bad, ring, edited, waiter, callVars>>

Test ==
    /\ worker = "test"
    /\ worker' = IF done > 0 /\ bad = 0 /\ act # NoAction /\ state # "CANCELLING" THEN "edit" ELSE "record"
    /\ UNCHANGED <<state, status, action, plan, done, bad, act, ring, edited, waiter, callVars>>

\* Here and on every peer (RingConsensus).  A plan without an action leaves the ring alone;
\* the pins it broadcasts are not modelled.
EditRing ==
    /\ worker = "edit"
    /\ ring' = IF act.kind = "ADD_NODE" THEN ring \cup {act.node} ELSE ring \ {act.node}
    /\ edited' = [plan |-> plan, edit |-> act, full |-> done = NumMoves]
    /\ worker' = "record"
    /\ UNCHANGED <<state, status, action, plan, done, bad, act, waiter, callVars>>

Record ==
    /\ worker = "record" /\ MuFree
    /\ status' = "IDLE" /\ action' = NoAction
    /\ worker' = "store"
    /\ UNCHANGED <<state, plan, done, bad, act, ring, edited, waiter, callVars>>

\* state_ becomes IDLE without mu_.
StoreIdle ==
    /\ worker = "store"
    /\ state' = "IDLE" /\ worker' = "notify"
    /\ UNCHANGED <<status, action, plan, done, bad, act, ring, edited, waiter, callVars>>

Notify ==
    /\ worker = "notify"
    /\ waiter' = [w \in Waiters |-> IF waiter[w] = "asleep" THEN "in" ELSE waiter[w]]
    /\ worker' = "none"
    /\ UNCHANGED <<state, status, action, plan, done, bad, act, ring, edited, callVars>>

-----------------------------------------------------------------------------
(* pause, resume, cancel: state_ first, status_ later under mu_             *)

Control(c, from, to) ==
    /\ pc[c].at = "idle" /\ controls < MaxControls
    /\ state \in from
    /\ state' = to
    /\ Go(c, to, NoAction) /\ controls' = controls + 1
    /\ UNCHANGED <<status, action, plan, done, bad, worker, act, ring, edited, waiter, starts>>

Pause(c) == Control(c, {"RUNNING"}, "PAUSED")
\* A bug: resume stores RUNNING whatever the state is.
ResumeAlways(c) == Control(c, {"RUNNING", "PAUSED", "CANCELLING"}, "RUNNING")
Resume(c) == Control(c, {"PAUSED"}, "RUNNING")
Cancel(c) == Control(c, {"RUNNING", "PAUSED"}, "CANCELLING")

SetStatus(c) ==
    /\ pc[c].at \in {"PAUSED", "RUNNING", "CANCELLING"} /\ MuFree
    /\ status' = pc[c].at
    /\ Go(c, "idle", NoAction)
    /\ UNCHANGED <<state, action, plan, done, bad, worker, act, ring, edited, waiter, starts, controls>>

-----------------------------------------------------------------------------
(* wait(0)                                                                 *)

WaitSet(w, to) ==
    /\ waiter' = [waiter EXCEPT ![w] = to]
    /\ UNCHANGED <<state, status, action, plan, done, bad, worker, act, ring, edited, callVars>>

\* A call that finds IDLE returns at once.
WaitCall(w) == waiter[w] = "out" /\ state # "IDLE" /\ WaitSet(w, "in")
WaitTest(w) == waiter[w] = "in" /\ MuFree /\ WaitSet(w, IF state = "IDLE" THEN "out" ELSE "tested")
WaitSleep(w) == waiter[w] = "tested" /\ WaitSet(w, "asleep")

-----------------------------------------------------------------------------
(* The admin routes.  POST /admin/rebalance/start asks for a node to add or *)
(* to remove, or for moves, of which those to the partition's owner of the  *)
(* moment are dropped: a request left without moves starts nothing.         *)

StartRequest(c) == \E a \in Actions : Start(c, a)
ControlRequest(c) == Pause(c) \/ Resume(c) \/ Cancel(c)

-----------------------------------------------------------------------------
WorkerNext ==
    \/ WorkerNextMove \/ Wake \/ Move \/ ReadAction \/ Test \/ EditRing \/ Record \/ StoreIdle \/ Notify
CallNext(c) == StartSwap(c) \/ Launch(c) \/ SetStatus(c)
WaitNext(w) == WaitTest(w) \/ WaitSleep(w)

Next ==
    \/ WorkerNext
    \/ \E c \in Callers :
          \/ StartRequest(c) \/ ControlRequest(c)
          \/ \E n \in Nodes : PolicyStart(c, n)
          \/ CallNext(c)
    \/ \E w \in Waiters : WaitCall(w) \/ WaitNext(w)

Spec == Init /\ [][Next]_vars
FairSpec ==
    /\ Spec /\ WF_vars(WorkerNext)
    /\ \A c \in Callers : WF_vars(CallNext(c))
    /\ \A w \in Waiters : WF_vars(WaitNext(w))

-----------------------------------------------------------------------------
TypeOK ==
    /\ {state, status} \subseteq {"IDLE", "RUNNING", "PAUSED", "CANCELLING"}
    /\ {action, plan, act} \subseteq Actions
    /\ done \in 0..NumMoves /\ bad \in 0..NumMoves /\ done + bad <= NumMoves
    /\ worker \in {"none", "next", "paused", "move", "read", "test", "edit", "record", "store", "notify"}
    /\ ring \subseteq Nodes
    /\ waiter \in [Waiters -> {"out", "in", "tested", "asleep"}]
    /\ pc \in [Callers -> [at : {"idle", "swap", "launch", "PAUSED", "RUNNING", "CANCELLING"}, what : Actions]]

(* The ring is edited only after every move of the plan committed, however *)
(* pause, resume and cancel fall (the comment in run_loop: partial success *)
(* is not safe for a topology change).                                     *)
FullPlanOnly == edited.full

(* IDLE means that nothing of a run is left: no worker is at work on moves *)
(* or on the ring, so a plan that starts finds the ring settled.           *)
IdleIsIdle == state = "IDLE" => worker \in {"none", "notify"}

(* A cancelled run comes to its end (run_loop, cancel).                    *)
CancelEnds == state = "CANCELLING" ~> state = "IDLE"

-----------------------------------------------------------------------------
(* What the documentation says and the code does not do                    *)

(* The ring edit at the end of a run is the one its plan was made for      *)
(* (run_loop, action_).                                                    *)
EditMatchesPlan == edited.edit = edited.plan

(* When no call is inside the manager and no worker runs, status() reports *)
(* the state (pause, cancel, run_loop).                                    *)
StatusSettles == worker = "none" /\ (\A c \in Callers : pc[c].at = "idle") => status = state

(* wait(0) returns when the rebalance is over for good (wait).             *)
WaitReturns == \A w \in Waiters : waiter[w] # "out" /\ <>[](state = "IDLE") ~> waiter[w] = "out"
=============================================================================
