---- MODULE ActionOutcome ----
(***************************************************************************)
(* The action-outcome supervisor: a worker loads action proposals from a   *)
(* table, decides each from the outcomes recorded for its action and       *)
(* writes the decision, first as one row of a commit ledger, then into a   *)
(* decision and an evidence table that are repaired from the ledger        *)
(* (ActionOutcomeSupervisorRuntime over action_outcome_sql_adapter).       *)
(* Several supervisors may share the tables; an ownership table says which *)
(* of them works.  Each is configured by its own administrative requests,  *)
(* which save the configuration in a file and in a catalog table, and      *)
(* reads it back when it restarts.                                         *)
(*                                                                         *)
(* Proposals are numbered in order of source_ts_ns.  The outcomes recorded *)
(* for an action change while the system runs, so a query returns any of   *)
(* AoHistories.  Every SQL statement is a step of its own and may fail;    *)
(* the tables survive a crash of a supervisor.  One request at a time is   *)
(* modelled for each supervisor; EdgeFleet has the same lifecycle with     *)
(* overlapping ones.                                                       *)
(***************************************************************************)
EXTENDS Naturals, Sequences, FiniteSets, FiniteSetsExt, SequencesExt

CONSTANTS
    AoSetups,       \* deployments: [supervisors, proposals, mode, worker, requests], where a
                    \* proposal is TRUE if its id and action are present, mode is "none" (no
                    \* ownership), "assigned" (by an operator) or "lease" (managed), worker is
                    \* worker_enabled of every configuration, and requests bounds the
                    \* administrative requests
    AoHistories,    \* what a query of an action's outcomes may return: sequences of scores
    AoScoreFloor, AoMinFailures,    \* suppress_outcome_score_below, suppress_min_failure_count
    AoLimit,        \* batch_limit and proposal_query_limit
    AoMaxDecisionErrors, AoMaxSinkErrors,   \* ..._per_pass
    AoMaxFaults     \* bound

ASSUME AoConstants ==
    /\ \A u \in AoSetups : /\ u.supervisors \subseteq Nat \ {0} /\ 1 \in u.supervisors
                            /\ u.proposals \in Seq(BOOLEAN)
                            /\ u.mode \in {"none", "assigned", "lease"}
                            /\ u.worker \in BOOLEAN /\ u.requests \in Nat
    /\ AoHistories \subseteq Seq(Nat) /\ AoScoreFloor \in Nat
    /\ {AoMinFailures, AoLimit, AoMaxDecisionErrors, AoMaxSinkErrors} \subseteq Nat \ {0}
    /\ AoMaxFaults \in Nat

VARIABLES
    aoSetup,
    aoArrived,                      \* proposals in the proposal table
    aoLedger, aoDecided, aoEvidence,    \* per proposal: ledger rows, decision rows, evidence rows
    aoOwners,                       \* rows of the ownership table: [owner, live]
    aoS,                            \* the supervisors' worker threads
    aoOn,                           \* enabled_
    aoReq,                          \* the request in progress at each supervisor
    aoFile, aoCat,                  \* the saved configurations: "none", "on" or "off"
    aoOverlap, aoStuck,             \* history: two supervisors in a pass at once; a
                                    \* request that failed or was cut off half way
    aoRequests, aoFaults

aoTables == <<aoLedger, aoDecided, aoEvidence>>
aoConfig == <<aoOn, aoReq, aoFile, aoCat, aoStuck, aoRequests>>
aoVars == <<aoSetup, aoArrived, aoTables, aoOwners, aoS, aoConfig, aoOverlap, aoFaults>>

AoSupervisors == aoSetup.supervisors
AoProposals == aoSetup.proposals
AoIds == DOMAIN AoProposals
AoRest == [pc |-> "off", todo |-> <<>>, batch |-> 0, dec |-> "none", dup |-> FALSE, hasDec |-> FALSE,
           hasEv |-> FALSE, decErrs |-> 0, sinkErrs |-> 0]

\* What start() makes of a supervisor: only worker_enabled gives it a thread.
AoStarted(on) == [AoRest EXCEPT !.pc = IF on /\ aoSetup.worker THEN "top" ELSE "off"]

\* Supervisors that have booted from an enabled configuration.
AoInit ==
    /\ aoSetup \in AoSetups
    /\ aoArrived = 0
    /\ aoLedger = [p \in AoIds |-> <<>>] /\ aoDecided = [p \in AoIds |-> <<>>]
    /\ aoEvidence = [p \in AoIds |-> 0]
    /\ aoOwners = IF aoSetup.mode = "assigned" THEN {[owner |-> 1, live |-> TRUE]} ELSE {}
    /\ aoS = [s \in AoSupervisors |-> AoStarted(TRUE)]
    /\ aoOn = [s \in AoSupervisors |-> TRUE] /\ aoReq = [s \in AoSupervisors |-> [kind |-> "on", pc |-> "idle"]]
    /\ aoFile = [s \in AoSupervisors |-> "on"] /\ aoCat = [s \in AoSupervisors |-> "on"]
    /\ aoOverlap = FALSE /\ aoStuck = [s \in AoSupervisors |-> FALSE]
    /\ aoRequests = 0 /\ aoFaults = 0

AoArrive ==
    /\ aoArrived < Len(AoProposals) /\ aoArrived' = aoArrived + 1
    /\ UNCHANGED <<aoSetup, aoTables, aoOwners, aoS, aoConfig, aoOverlap, aoFaults>>

AoFault == aoFaults < AoMaxFaults /\ aoFaults' = aoFaults + 1
SetS(s, r) == aoS' = [aoS EXCEPT ![s] = r]
AoEndPass(s) == SetS(s, [AoRest EXCEPT !.pc = "wait"])

\* workerLoop: the look at the flags, at the top and after the wait.  A stop request
\* ("stop") and a disabled supervisor end the thread.
AoLoop(s) ==
    /\ aoS[s].pc \in {"top", "wait"}
    /\ SetS(s, [AoRest EXCEPT !.pc = IF ~aoOn[s] \/ aoReq[s].pc = "join" THEN "off"
                                     ELSE IF aoS[s].pc = "top" THEN "own" ELSE "top"])
    /\ UNCHANGED <<aoSetup, aoArrived, aoTables, aoOwners, aoConfig, aoOverlap, aoFaults>>

Renewed(rows) == {[o EXCEPT !.live = TRUE] : o \in rows}

\* worker_ownership_allows_processing: the row with the latest lease decides.  No
\* row, or an expired one, is taken over under a managed lease, by deleting the rows
\* and inserting one's own; the owner renews, and without a lease the row must name
\* it.
AoOwn(s) ==
    /\ aoS[s].pc = "own"
    /\ \/ /\ aoSetup.mode = "none"
          /\ SetS(s, [aoS[s] EXCEPT !.pc = "load"]) /\ UNCHANGED aoFaults
       \/ aoSetup.mode # "none" /\ AoFault /\ AoEndPass(s)
       \/ /\ aoSetup.mode # "none" /\ aoOwners = {} /\ UNCHANGED aoFaults
          /\ SetS(s, [aoS[s] EXCEPT !.pc = IF aoSetup.mode = "lease" THEN "delete" ELSE "wait"])
       \/ /\ aoSetup.mode # "none" /\ UNCHANGED aoFaults
          /\ \E o \in aoOwners :
               /\ o.live \/ \A q \in aoOwners : ~q.live
               /\ SetS(s, [aoS[s] EXCEPT !.pc =
                    IF o.owner = s THEN (IF aoSetup.mode = "lease" THEN "renew" ELSE "load")
                    ELSE IF aoSetup.mode = "lease" /\ ~o.live THEN "delete" ELSE "wait"])
    /\ UNCHANGED <<aoSetup, aoArrived, aoTables, aoOwners, aoConfig, aoOverlap>>

\* renew_ownership_lease: every row of the supervisor's name gets the new lease,
\* whoever owns it by now, and the pass goes on even if there is none left.
AoRenew(s) ==
    /\ aoS[s].pc = "renew"
    /\ \/ AoFault /\ AoEndPass(s) /\ UNCHANGED aoOwners
       \/ /\ aoOwners' = Renewed(aoOwners) /\ SetS(s, [aoS[s] EXCEPT !.pc = "load"])
          /\ UNCHANGED aoFaults
    /\ UNCHANGED <<aoSetup, aoArrived, aoTables, aoConfig, aoOverlap>>

\* acquire_ownership_lease: two statements.
AoDeleteOwnership(s) ==
    /\ aoS[s].pc = "delete"
    /\ \/ AoFault /\ AoEndPass(s) /\ UNCHANGED aoOwners
       \/ /\ aoOwners' = {} /\ SetS(s, [aoS[s] EXCEPT !.pc = "insert"])
          /\ UNCHANGED aoFaults
    /\ UNCHANGED <<aoSetup, aoArrived, aoTables, aoConfig, aoOverlap>>

AoInsertOwnership(s) ==
    /\ aoS[s].pc = "insert"
    /\ \/ AoFault /\ AoEndPass(s) /\ UNCHANGED aoOwners
       \/ /\ aoOwners' = aoOwners \cup {[owner |-> s, live |-> TRUE]}
          /\ SetS(s, [aoS[s] EXCEPT !.pc = "load"]) /\ UNCHANGED aoFaults
    /\ UNCHANGED <<aoSetup, aoArrived, aoTables, aoConfig, aoOverlap>>

\* The lease runs out; an operator assigns another owner.
AoExpire ==
    /\ AoFault
    /\ \/ aoSetup.mode = "lease" /\ (\E o \in aoOwners : o.live)
          /\ aoOwners' = {[o EXCEPT !.live = FALSE] : o \in aoOwners}
       \/ aoSetup.mode = "assigned"
          /\ \E s \in AoSupervisors : aoOwners' = {[owner |-> s, live |-> TRUE]}
    /\ UNCHANGED <<aoSetup, aoArrived, aoTables, aoS, aoConfig, aoOverlap>>

InPass(s) == aoS[s].pc \in {"next", "ledger", "decide", "reread", "commit", "check", "evidence", "decision"}

\* ORDER BY source_ts_ns LIMIT n.
FirstIds(S) == LET q == SetToSortSeq(S, <) IN ToSet(SubSeq(q, 1, Min({AoLimit, Len(q)})))

\* load_proposals: the earliest committed proposals, to be repaired, and the earliest
\* ones without a ledger row; runOnce sorts them by time.  The queries are one step:
\* a commit between them only hides a proposal until the next pass.
AoLoad(s) ==
    /\ aoS[s].pc = "load"
    /\ \/ AoFault /\ AoEndPass(s) /\ UNCHANGED aoOverlap
       \/ /\ LET table == 1 .. aoArrived
                 committed == {p \in table : aoLedger[p] # <<>>}
             IN  SetS(s, [aoS[s] EXCEPT !.pc = "next",
                              !.todo = SetToSortSeq(FirstIds(committed) \cup FirstIds(table \ committed), <)])
          /\ aoOverlap' = (aoOverlap \/ \E q \in AoSupervisors \ {s} : InPass(q))
          /\ UNCHANGED aoFaults
    /\ UNCHANGED <<aoSetup, aoArrived, aoTables, aoOwners, aoConfig>>

\* The pass's loop: an incomplete proposal is rejected and uses up the batch.
AoNextProposal(s) ==
    LET r == aoS[s] IN
    /\ r.pc = "next"
    /\ IF r.todo = <<>> THEN AoEndPass(s)
       ELSE IF AoProposals[Head(r.todo)] THEN SetS(s, [r EXCEPT !.pc = "ledger"])
       ELSE IF r.batch >= AoLimit THEN AoEndPass(s)
       ELSE SetS(s, [r EXCEPT !.todo = Tail(@), !.batch = @ + 1])
    /\ UNCHANGED <<aoSetup, aoArrived, aoTables, aoOwners, aoConfig, aoOverlap, aoFaults>>

\* already_decided: a committed proposal is repaired from the ledger and skipped
\* before it counts against the batch; an error ends the pass.
AoAlreadyDecided(s) ==
    LET r == aoS[s]
        rows == aoLedger[Head(r.todo)]
    IN
    /\ r.pc = "ledger"
    /\ \/ AoFault /\ AoEndPass(s)
       \/ /\ UNCHANGED aoFaults
          /\ IF rows # <<>> THEN SetS(s, [r EXCEPT !.pc = "check", !.dec = Head(rows), !.dup = TRUE])
             ELSE IF r.batch >= AoLimit THEN AoEndPass(s)
             ELSE SetS(s, [r EXCEPT !.pc = "decide", !.batch = @ + 1])
    /\ UNCHANGED <<aoSetup, aoArrived, aoTables, aoOwners, aoConfig, aoOverlap>>

\* The decide hook, on the scores of the action's past outcomes.
DecisionOf(scores) ==
    IF scores = <<>> THEN "suppress_no_evidence"
    ELSE IF Cardinality({i \in DOMAIN scores : scores[i] < AoScoreFloor}) >= AoMinFailures
      THEN "suppress_historical_failure"
    ELSE "allow"

\* runOnce's use of it: an error becomes a fail-closed decision until the pass's error budget is
\* used up.
AoDecide(s) ==
    LET r == aoS[s] IN
    /\ r.pc = "decide"
    /\ \/ /\ AoFault
          /\ IF r.decErrs + 1 >= AoMaxDecisionErrors THEN AoEndPass(s)
             ELSE SetS(s, [r EXCEPT !.pc = "reread", !.dec = "fail closed", !.decErrs = @ + 1])
       \/ \E h \in AoHistories :
            SetS(s, [r EXCEPT !.pc = "reread", !.dec = DecisionOf(h)]) /\ UNCHANGED aoFaults
    /\ UNCHANGED <<aoSetup, aoArrived, aoTables, aoOwners, aoConfig, aoOverlap>>

\* A statement of the sink fails: the next proposal, within the error budget; in the
\* repair of a committed one, the end of the pass.
AoSinkError(s) ==
    LET r == aoS[s] IN
    IF r.dup \/ r.sinkErrs + 1 >= AoMaxSinkErrors THEN AoEndPass(s)
    ELSE SetS(s, [r EXCEPT !.pc = "next", !.todo = Tail(@), !.sinkErrs = @ + 1])

\* The decision sink_decision goes on with: the committed one, if there is one.
CommittedOr(rows, dec) == IF rows = <<>> THEN dec ELSE Head(rows)

\* sink_decision: the ledger is read again, and the commit row inserted if none is
\* there.
AoReread(s) ==
    LET r == aoS[s]
        rows == aoLedger[Head(r.todo)]
    IN
    /\ r.pc = "reread"
    /\ \/ AoFault /\ AoSinkError(s)
       \/ /\ SetS(s, [r EXCEPT !.pc = IF rows = <<>> THEN "commit" ELSE "check",
                              !.dec = CommittedOr(rows, @)])
          /\ UNCHANGED aoFaults
    /\ UNCHANGED <<aoSetup, aoArrived, aoTables, aoOwners, aoConfig, aoOverlap>>

AoCommit(s) ==
    LET r == aoS[s]
        p == Head(r.todo)
    IN
    /\ r.pc = "commit"
    /\ \/ AoFault /\ AoSinkError(s) /\ UNCHANGED aoLedger
       \/ /\ aoLedger' = [aoLedger EXCEPT ![p] = Append(@, r.dec)]
          /\ SetS(s, [r EXCEPT !.pc = "check"]) /\ UNCHANGED aoFaults
    /\ UNCHANGED <<aoSetup, aoArrived, aoDecided, aoEvidence, aoOwners, aoConfig, aoOverlap>>

\* A bug: a projection is taken to be missing.
NeverThere(rows) == FALSE

\* row_exists_by_string_key.
RowExists(rows) == rows # <<>>

\* repair_projection_from_commit: what is missing is written, the evidence first.
AoCheck(s) ==
    LET r == aoS[s]
        p == Head(r.todo)
    IN
    /\ r.pc = "check"
    /\ \/ AoFault /\ AoSinkError(s)
       \/ /\ SetS(s, [r EXCEPT !.pc = "evidence", !.hasDec = RowExists(aoDecided[p]),
                              !.hasEv = aoEvidence[p] > 0])
          /\ UNCHANGED aoFaults
    /\ UNCHANGED <<aoSetup, aoArrived, aoTables, aoOwners, aoConfig, aoOverlap>>

AoWriteEvidence(s) ==
    LET r == aoS[s]
        p == Head(r.todo)
    IN
    /\ r.pc = "evidence"
    /\ \/ ~r.hasEv /\ AoFault /\ AoSinkError(s) /\ UNCHANGED aoEvidence
       \/ /\ aoEvidence' = [aoEvidence EXCEPT ![p] = IF r.hasEv THEN @ ELSE @ + 1]
          /\ SetS(s, [r EXCEPT !.pc = "decision"]) /\ UNCHANGED aoFaults
    /\ UNCHANGED <<aoSetup, aoArrived, aoLedger, aoDecided, aoOwners, aoConfig, aoOverlap>>

AoWriteDecision(s) ==
    LET r == aoS[s]
        p == Head(r.todo)
    IN
    /\ r.pc = "decision"
    /\ \/ ~r.hasDec /\ AoFault /\ AoSinkError(s) /\ UNCHANGED aoDecided
       \/ /\ aoDecided' = [aoDecided EXCEPT ![p] = IF r.hasDec THEN @ ELSE Append(@, r.dec)]
          /\ SetS(s, [r EXCEPT !.pc = "next", !.todo = Tail(@), !.dup = FALSE]) /\ UNCHANGED aoFaults
    /\ UNCHANGED <<aoSetup, aoArrived, aoLedger, aoEvidence, aoOwners, aoConfig, aoOverlap>>

AoWork(s) ==
    \/ AoLoop(s) \/ AoOwn(s) \/ AoRenew(s) \/ AoDeleteOwnership(s) \/ AoInsertOwnership(s)
    \/ AoLoad(s) \/ AoNextProposal(s) \/ AoAlreadyDecided(s)
    \/ AoDecide(s) \/ AoReread(s) \/ AoCommit(s) \/ AoCheck(s) \/ AoWriteEvidence(s)
    \/ AoWriteDecision(s)

(***************************************************************************)
(* The requests.  POST stops the worker, configures, installs the SQL      *)
(* hooks, starts and saves the file and then the catalog row; DELETE stops *)
(* the worker, clears, and removes the file and then the catalog rows.     *)
(***************************************************************************)

SetReq(s, pc) == aoReq' = [aoReq EXCEPT ![s].pc = pc]
aoData == <<aoSetup, aoArrived, aoTables, aoOwners, aoOverlap>>

\* kind is the configuration to be saved: "on", "off", or "none" for a DELETE.
AoRequest(s, kind) ==
    /\ aoReq[s].pc = "idle" /\ aoS[s].pc # "down" /\ aoRequests < aoSetup.requests
    /\ aoRequests' = aoRequests + 1 /\ aoReq' = [aoReq EXCEPT ![s] = [kind |-> kind, pc |-> "join"]]
    /\ UNCHANGED <<aoData, aoS, aoOn, aoFile, aoCat, aoStuck, aoFaults>>

\* stop() has joined the worker: configure() or clear().
AoStopped(s) ==
    /\ aoReq[s].pc = "join" /\ aoS[s].pc = "off"
    /\ aoOn' = [aoOn EXCEPT ![s] = FALSE]
    /\ SetReq(s, IF aoReq[s].kind = "none" THEN "file" ELSE "install")
    /\ UNCHANGED <<aoData, aoS, aoFile, aoCat, aoStuck, aoRequests, aoFaults>>

AoRefused(s) == AoFault /\ SetReq(s, "idle") /\ aoStuck' = [aoStuck EXCEPT ![s] = TRUE]

\* ensureActionOutcomeSqlTables: one of six CREATE TABLE IF NOT EXISTS fails.
AoEnsureFails(s) ==
    /\ aoReq[s].pc = "install" /\ AoRefused(s)
    /\ UNCHANGED <<aoData, aoS, aoOn, aoFile, aoCat, aoRequests>>

\* set_action_outcome_supervisor_sql_adapter, then start().
AoInstall(s) ==
    /\ aoReq[s].pc = "install"
    /\ aoOn' = [aoOn EXCEPT ![s] = aoReq[s].kind = "on"]
    /\ SetS(s, AoStarted(aoReq[s].kind = "on"))
    /\ SetReq(s, "file")
    /\ UNCHANGED <<aoData, aoFile, aoCat, aoStuck, aoRequests, aoFaults>>

\* The file is written or, by DELETE, removed.
AoFileStep(s) ==
    /\ aoReq[s].pc = "file"
    /\ \/ AoRefused(s) /\ UNCHANGED aoFile
       \/ /\ aoFile' = [aoFile EXCEPT ![s] = aoReq[s].kind]
          /\ SetReq(s, "catalog") /\ UNCHANGED <<aoStuck, aoFaults>>
    /\ UNCHANGED <<aoData, aoS, aoOn, aoCat, aoRequests>>

AoPersistFile(s) == aoReq[s].kind # "none" /\ AoFileStep(s)
AoRemoveFile(s) == aoReq[s].kind = "none" /\ AoFileStep(s)

\* A row with the latest epoch is inserted in the catalog or, by DELETE, every row of
\* the supervisor deleted.
AoCatalogStep(s) ==
    /\ aoReq[s].pc = "catalog"
    /\ \/ AoRefused(s) /\ UNCHANGED aoCat
       \/ /\ aoCat' = [aoCat EXCEPT ![s] = aoReq[s].kind]
          /\ SetReq(s, "idle") /\ aoStuck' = [aoStuck EXCEPT ![s] = FALSE] /\ UNCHANGED aoFaults
    /\ UNCHANGED <<aoData, aoS, aoOn, aoFile, aoRequests>>

AoPersistCatalog(s) == aoReq[s].kind # "none" /\ AoCatalogStep(s)
AoClearCatalog(s) == aoReq[s].kind = "none" /\ AoCatalogStep(s)

AoCrash(s) ==
    /\ aoS[s].pc # "down" /\ AoFault
    /\ SetS(s, [AoRest EXCEPT !.pc = "down"]) /\ SetReq(s, "idle")
    /\ UNCHANGED <<aoData, aoOn, aoFile, aoCat, aoStuck, aoRequests>>

\* The configuration a server starts with: the file's, then the latest catalog row's.
AoBoot(file, cat) == IF cat # "none" THEN cat ELSE file

AoRestart(s) ==
    LET on == AoBoot(aoFile[s], aoCat[s]) = "on" IN
    /\ aoS[s].pc = "down"
    /\ aoOn' = [aoOn EXCEPT ![s] = on] /\ SetS(s, AoStarted(on))
    /\ aoStuck' = [aoStuck EXCEPT ![s] = FALSE]
    /\ UNCHANGED <<aoData, aoReq, aoFile, aoCat, aoRequests, aoFaults>>

AoServe(s) ==
    \/ AoStopped(s) \/ AoEnsureFails(s) \/ AoInstall(s)
    \/ AoPersistFile(s) \/ AoRemoveFile(s) \/ AoPersistCatalog(s) \/ AoClearCatalog(s)

AoNext ==
    \/ AoArrive \/ AoExpire
    \/ \E s \in AoSupervisors :
         \/ AoWork(s) \/ AoServe(s) \/ AoCrash(s) \/ AoRestart(s)
         \/ \E kind \in {"on", "off", "none"} : AoRequest(s, kind)

\* Threads run on and a crashed server is started again.  In the waits nothing is
\* contended: a worker's poll interval ends, a join follows the worker's end.
AoFairness ==
    /\ WF_aoVars(AoArrive)
    /\ \A s \in UNION {u.supervisors : u \in AoSetups} :
         /\ WF_aoVars(s \in AoSupervisors /\ AoWork(s))
         /\ WF_aoVars(s \in AoSupervisors /\ AoServe(s))
         /\ WF_aoVars(s \in AoSupervisors /\ AoRestart(s))

(***************************************************************************)
(* Properties                                                              *)
(***************************************************************************)

\* As long as no two supervisors have been in a pass at the same time, whatever
\* statement failed and wherever a supervisor crashed, a proposal has at most one
\* ledger row, at most one decision row, which holds the committed decision, and at
\* most one evidence row; and no projection without a commit (sink_decision,
\* repair_projection_from_commit).  A supervisor whose last request succeeded runs
\* as its next start would (the configuration file and the catalog row), and has a
\* worker thread exactly if it is enabled and configured to have one.
OutcomeOnce ==
    /\ ~aoOverlap =>
         \A p \in AoIds :
            /\ Len(aoLedger[p]) <= 1 /\ Len(aoDecided[p]) <= 1 /\ aoEvidence[p] <= 1
            /\ IsPrefix(aoDecided[p], aoLedger[p]) /\ aoEvidence[p] <= Len(aoLedger[p])
    /\ \A s \in AoSupervisors :
         aoReq[s].pc = "idle" /\ aoS[s].pc # "down" =>
           /\ ~aoStuck[s] => aoOn[s] = (AoBoot(aoFile[s], aoCat[s]) = "on")
           /\ (aoS[s].pc # "off") = (aoOn[s] /\ aoSetup.worker)

AoComplete == {p \in AoIds : AoProposals[p]}
AoAlone == aoSetup.mode = "none" /\ aoSetup.worker /\ aoOn[1]
AoProjected(p) == aoDecided[p] # <<>> /\ aoEvidence[p] > 0

\* Under a supervisor that stays enabled, has its worker and needs no ownership, every complete
\* proposal is committed in the end, with its evidence and decision rows, if the
\* incomplete ones and the committed ones each leave room in the query limit
\* (workerLoop, load_proposals, repair_projection_from_commit).
AoReached ==
    AoAlone /\ Cardinality(AoIds \ AoComplete) < AoLimit /\ Cardinality(AoComplete) <= AoLimit
      => \A p \in AoComplete : aoLedger[p] # <<>> /\ AoProjected(p)
OutcomeReached == []<>AoReached

\* Every committed proposal gets its projections, however many there are.
ProjectionsRepaired ==
    []<>(AoAlone => \A p \in AoComplete : aoLedger[p] # <<>> => AoProjected(p))

\* Ownership keeps a decision from being written twice.
OwnedOnce == aoSetup.mode # "none" => \A p \in AoIds : Len(aoDecided[p]) <= 1
====
