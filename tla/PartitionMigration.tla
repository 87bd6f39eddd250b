-------------------------- MODULE PartitionMigration --------------------------
(***************************************************************************)
(* The move of one symbol from a source to a destination node while ticks  *)
(* of that symbol are ingested.                                            *)
(*                                                                         *)
(* PartitionMigrator::execute_move switches the router to dual-write,      *)
(* reads all rows of the symbol from the source, sends them to the         *)
(* destination, and commits (the router pins the symbol to the             *)
(* destination) or rolls back (DELETE on the destination).  A timeout ends *)
(* the attempt, but the future of std::async waits for the copy before     *)
(* execute_move returns.  ClusterNode::ingest_tick asks the router for a   *)
(* migration first, and sends afterwards.                                  *)
(***************************************************************************)
EXTENDS Naturals, FiniteSets

CONSTANTS Ticks,
          MaxRetries,   \* max_retries_
          MoveTimeout,  \* move_timeout_sec_ > 0 and may pass
          CopyFaults,   \* bound: failures of the copy and of the rollback
          WriteFaults   \* bound: ticks that do not reach a node

ASSUME MigrationAssumption ==
    /\ MaxRetries \in Nat \ {0}
    /\ MoveTimeout \in BOOLEAN
    /\ CopyFaults \in Nat /\ WriteFaults \in Nat

VARIABLES migrating,  \* migrating_ holds the symbol
          owner,      \* "from" by the hash ring, "to" once pinned
          pmState,    \* MoveStatus::state
          attempts,   \* MoveStatus::attempts
          mpc,        \* where execute_move and resume_plan are
          late,       \* the attempt has timed out
          rows,       \* the rows of the SELECT, tick -> copies
          data,       \* node -> tick -> copies stored
          w,          \* tick -> its ingest_tick: where it is, the sends that worked, whether one
                      \* failed, and the attempts begun when it asked the router
          cfaults, wfaults

migVars == <<migrating, owner, pmState, attempts, mpc, late, rows>>
pmVars == <<migVars, data, w, cfaults, wfaults>>

PmNodes == {"from", "to"}
None == [t \in Ticks |-> 0]

PmInit ==
    /\ migrating = FALSE /\ owner = "from"
    /\ pmState = "PENDING" /\ attempts = 0 /\ mpc = "plan" /\ late = FALSE
    /\ rows = None
    /\ data = [n \in PmNodes |-> None]
    /\ w = [t \in Ticks |-> [pc |-> "new", from |-> FALSE, to |-> FALSE, failed |-> FALSE, seen |-> 0]]
    /\ cfaults = 0 /\ wfaults = 0

-----------------------------------------------------------------------------
(* ClusterNode::ingest_tick                                                *)

\* migration_target
Look(t) ==
    /\ w[t].pc = "new"
    /\ w' = [w EXCEPT ![t].pc = IF migrating THEN "dual" ELSE "route", ![t].seen = attempts]
    /\ UNCHANGED <<migVars, data, cfaults, wfaults>>

\* route, under the router's locks again: a pin, or the ring.
Route(t) ==
    /\ w[t].pc = "route"
    /\ w' = [w EXCEPT ![t].pc = owner]
    /\ UNCHANGED <<migVars, data, cfaults, wfaults>>

\* send_to_node is true, or it is false and the tick may be stored all the same: the answer
\* was lost, or a full queue made the node's ingest_tick store the tick and return false.
\* ingest_tick goes on at pc.
Send(t, n, pc) ==
    /\ \/ /\ data' = [data EXCEPT ![n][t] = @ + 1]
          /\ w' = [w EXCEPT ![t] = [@ EXCEPT !.pc = pc, ![n] = TRUE]]
          /\ UNCHANGED wfaults
       \/ /\ wfaults < WriteFaults /\ wfaults' = wfaults + 1
          /\ w' = [w EXCEPT ![t] = [@ EXCEPT !.pc = pc, !.failed = TRUE]]
          /\ data' \in {data, [data EXCEPT ![n][t] = @ + 1]}
    /\ UNCHANGED <<migVars, cfaults>>

\* The normal path: one node.
SendSingle(t) == w[t].pc \in PmNodes /\ Send(t, w[t].pc, "done")

\* Dual-write: the source, then the destination.
SendFrom(t) == w[t].pc = "dual" /\ Send(t, "from", "dual2")
SendTo(t) == w[t].pc = "dual2" /\ Send(t, "to", "done")

\* What ingest_tick returned.
Acked(t) == w[t].pc = "done" /\ (w[t].from \/ w[t].to)

-----------------------------------------------------------------------------
(* PartitionMigrator::resume_plan and execute_move                         *)

\* A bug: dual-write is not switched on.
BeginSingleWrite ==
    /\ mpc = "plan" /\ pmState = "PENDING" /\ attempts < MaxRetries
    /\ attempts' = attempts + 1 /\ pmState' = "COPYING"
    /\ late' = FALSE /\ mpc' = "select"
    /\ UNCHANGED <<migrating, owner, rows, data, w, cfaults, wfaults>>

BeginMove ==
    /\ mpc = "plan" /\ pmState = "PENDING" /\ attempts < MaxRetries
    /\ attempts' = attempts + 1 /\ pmState' = "COPYING"
    /\ migrating' = TRUE
    /\ late' = FALSE /\ mpc' = "select"
    /\ UNCHANGED <<owner, rows, data, w, cfaults, wfaults>>

\* migrate_symbol: SELECT on the source; no row at all is a success.
Select ==
    /\ mpc = "select"
    /\ \/ /\ rows' = data["from"]
          /\ mpc' = IF data["from"] = None THEN "commit" ELSE "copy"
          /\ UNCHANGED cfaults
       \/ cfaults < CopyFaults /\ cfaults' = cfaults + 1
          /\ mpc' = "rollback" /\ UNCHANGED rows
    /\ UNCHANGED <<migrating, owner, pmState, attempts, late, data, w, wfaults>>

\* migrate_symbol: replicate_wal to the destination.  A batch that arrives is stored whole
\* (ingest_tick stores what it refuses), so a failed call stored all of it or nothing.
Stored == [data EXCEPT !["to"] = [t \in Ticks |-> @[t] + rows[t]]]

Copy ==
    /\ mpc = "copy"
    /\ \/ data' = Stored /\ mpc' = "commit" /\ UNCHANGED cfaults
       \/ cfaults < CopyFaults /\ cfaults' = cfaults + 1
          /\ data' \in {data, Stored} /\ mpc' = "rollback"
    /\ UNCHANGED <<migrating, owner, pmState, attempts, late, rows, w, wfaults>>

\* wait_for returns before the copy is over: FAILED, and end_migration.
Timeout ==
    /\ MoveTimeout /\ mpc \in {"select", "copy"} /\ ~late
    /\ late' = TRUE /\ pmState' = "FAILED" /\ migrating' = FALSE
    /\ UNCHANGED <<owner, attempts, mpc, rows, data, w, cfaults, wfaults>>

\* The future's destructor: an attempt that timed out is over when its copy is.
LateEnd ==
    /\ mpc \in {"commit", "rollback"} /\ late
    /\ mpc' = "again"
    /\ UNCHANGED <<migrating, owner, pmState, attempts, late, rows, data, w, cfaults, wfaults>>

Commit ==
    /\ mpc = "commit" /\ ~late
    /\ pmState' = "COMMITTED" /\ migrating' = FALSE /\ owner' = "to"
    /\ mpc' = "again"
    /\ UNCHANGED <<attempts, late, rows, data, w, cfaults, wfaults>>

\* DELETE on the destination, whose failure (it may have deleted) is only logged, then
\* abort_migration.
Rollback ==
    /\ mpc = "rollback" /\ ~late
    /\ \/ data' = [data EXCEPT !["to"] = None] /\ UNCHANGED cfaults
       \/ cfaults < CopyFaults /\ cfaults' = cfaults + 1
          /\ data' \in {data, [data EXCEPT !["to"] = None]}
    /\ pmState' = "FAILED" /\ migrating' = FALSE
    /\ mpc' = "again"
    /\ UNCHANGED <<owner, attempts, late, rows, w, wfaults>>

\* resume_plan after an attempt, to the head of its while loop.
Again ==
    /\ mpc = "again"
    /\ pmState' = IF pmState = "FAILED" /\ attempts < MaxRetries THEN "PENDING" ELSE pmState
    /\ mpc' = IF pmState' = "PENDING" /\ attempts < MaxRetries THEN "plan" ELSE "end"
    /\ UNCHANGED <<migrating, owner, attempts, late, rows, data, w, cfaults, wfaults>>

MoveNext == BeginMove \/ Select \/ Copy \/ Timeout \/ LateEnd \/ Commit \/ Rollback \/ Again
WriteNext(t) == SendSingle(t) \/ SendFrom(t) \/ SendTo(t)
PmNext == MoveNext \/ \E t \in Ticks : Look(t) \/ Route(t) \/ WriteNext(t)

PmSpec == PmInit /\ [][PmNext]_pmVars
\* Every call of the migrator returns.
PmFairSpec == PmSpec /\ WF_pmVars(MoveNext)

-----------------------------------------------------------------------------
Counts == [Ticks -> Nat]
TickCall == [pc : {"new", "route", "dual", "dual2", "done"} \cup PmNodes,
         from : BOOLEAN, to : BOOLEAN, failed : BOOLEAN, seen : Nat]

PmTypeOK ==
    /\ migrating \in BOOLEAN /\ late \in BOOLEAN /\ owner \in PmNodes
    /\ pmState \in {"PENDING", "COPYING", "COMMITTED", "FAILED"}
    /\ attempts \in 0..MaxRetries
    /\ mpc \in {"plan", "select", "copy", "commit", "rollback", "again", "end"}
    /\ rows \in Counts
    /\ data \in [PmNodes -> Counts]
    /\ w \in [Ticks -> TickCall]

Quiet == mpc = "end" /\ \A t \in Ticks : w[t].pc \in {"new", "done"}

(* When a move is over, however its attempts failed or timed out, the node *)
(* that owns the symbol has every accepted tick: after a failed move those *)
(* of the source, after a committed one those that were on the source when *)
(* its rows were read and those that asked the router after the committed  *)
(* attempt began and lost no send (execute_move, ingest_tick).             *)
OwnerHasTicks ==
    Quiet => \A t \in Ticks :
        \/ owner = "from" /\ w[t].from
        \/ owner = "to" /\ rows[t] > 0
        \/ owner = "to" /\ w[t].pc = "done" /\ w[t].seen = attempts /\ ~w[t].failed
        => data[owner][t] > 0

(* Dual-write is on exactly while an attempt is in progress, and a symbol  *)
(* whose move committed is owned by the destination (execute_move).        *)
RouterFollowsMove ==
    /\ migrating => pmState = "COPYING"
    /\ pmState = "COMMITTED" <=> owner = "to"

(* A move leaves the cluster whole: the owner it ends with has the ticks,  *)
(* and the router sends them where the move left them.                     *)
MoveSafe == OwnerHasTicks /\ RouterFollowsMove

(* The move ends, committed or failed, if the calls it makes return        *)
(* (resume_plan, max_retries_).                                            *)
MoveEnds == <>(mpc = "end")

-----------------------------------------------------------------------------
(* What the documentation says and the code does not do                    *)

(* When a move is over and no call is under way, the node that owns the    *)
(* symbol has every tick that ingest_tick accepted: no gap.                *)
NoGap == Quiet => \A t \in Ticks : Acked(t) => data[owner][t] > 0

(* When a move is over and no call is under way, no tick is on its owner   *)
(* twice (migrate_symbol copies while ingest_tick dual-writes).            *)
NoDuplicate == Quiet => \A t \in Ticks : data[owner][t] <= 1

(* A tick for which ingest_tick returned true is on some node, also after  *)
(* rollback_move.                                                          *)
AckedSurvives == \A t \in Ticks : Acked(t) => \E n \in PmNodes : data[n][t] > 0
=============================================================================
