----------------------------- MODULE MCRebalance -----------------------------
(* Small instances of a topology change: the manager that runs the plan and *)
(* edits the ring, and one of its moves beside the ticks that arrive during *)
(* it.  A behaviour is one of one part, the subject; the other stays where  *)
(* it starts.                                                               *)
EXTENDS RebalanceManager, PartitionMigration

CONSTANTS n1, n2, n3, c1, c2, w1, none, t1, t2

VARIABLE subject

ThreeNodes == {n1, n2, n3}
TwoNodes == {n1, n2}
TwoCallers == {c1, c2}
OneWaiter == {w1}
NoWaiters == {}
TwoTicks == {t1, t2}

-----------------------------------------------------------------------------
allVars == <<vars, pmVars, subject>>

MCInit == Init /\ PmInit /\ subject \in {"plan", "move"}

MCNext ==
    \/ subject = "plan" /\ Next /\ UNCHANGED <<pmVars, subject>>
    \/ subject = "move" /\ PmNext /\ UNCHANGED <<vars, subject>>

OfPlan(A) == subject = "plan" /\ A /\ UNCHANGED <<pmVars, subject>>
OfMove(A) == subject = "move" /\ A /\ UNCHANGED <<vars, subject>>

\* The fairness of the two specifications.  A behaviour has one subject, so one
\* condition can stand for an action of each.
MCFairSpec ==
    /\ MCInit /\ [][MCNext]_allVars
    /\ WF_allVars(OfPlan(WorkerNext) \/ OfMove(MoveNext))
    /\ \A c \in Callers : WF_allVars(OfPlan(CallNext(c)))
    /\ \A v \in Waiters : WF_allVars(OfPlan(WaitNext(v)))

-----------------------------------------------------------------------------
(* A topology change comes to its end: a cancelled run stops, and a move    *)
(* commits or fails (run_loop, resume_plan).                                *)
TopologyChangeEnds ==
    state = "CANCELLING" \/ subject = "move" ~> IF subject = "plan" THEN state = "IDLE" ELSE mpc = "end"
=============================================================================
