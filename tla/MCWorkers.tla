------------------------------ MODULE MCWorkers ------------------------------
(* Small instances of the threads a server runs beside its clients: those   *)
(* of the RPC transport, the one that rebuilds the search index of agent    *)
(* memories, and the action-outcome supervisor.  A behaviour is one of one  *)
(* part, the subject; the others stay where they start.                     *)
EXTENDS RpcTransport, AgentStore, ActionOutcome

VARIABLE subject

-----------------------------------------------------------------------------
(* RpcTransport: one caller asks, the other writes or pings.               *)

MCRpKinds == <<{"sql"}, {"wal", "ping"}>>

-----------------------------------------------------------------------------
(* AgentStore                                                              *)

AgM(i, p, e, x, n) == [id |-> i, part |-> p, emb |-> e, exp |-> x, pin |-> n]
MCAgMemories == {AgM("a", "p", 1, 0, FALSE), AgM("b", "p", 2, 1, FALSE),
                 AgM("c", "p", 1, 0, TRUE), AgM("a", "q", AgZero, 0, FALSE),
                 AgM("d", "q", AgNoEmb, 0, FALSE)}
AgE(k, p, e, x) == [key |-> k, part |-> p, emb |-> e, exp |-> x]
MCAgEntries == {AgE("k", "p", 1, 0), AgE("l", "q", AgNoEmb, 1)}
MCAgQuotas == <<[part |-> "q", max |-> 1, cache |-> 1]>>

-----------------------------------------------------------------------------
(* ActionOutcome                                                           *)

AoS(n, q, m, w, r) == [supervisors |-> 1 .. n, proposals |-> q, mode |-> m, worker |-> w, requests |-> r]
MCAoSetups == {AoS(1, <<TRUE, FALSE, TRUE>>, "none", TRUE, 2), AoS(1, <<TRUE>>, "none", FALSE, 2),
               AoS(2, <<TRUE>>, "assigned", TRUE, 0), AoS(2, <<TRUE>>, "lease", TRUE, 0)}
MCAoHistories == {<<0, 1>>}

-----------------------------------------------------------------------------
vars == <<rpVars, agVars, aoVars, subject>>

Init ==
    /\ RpInit /\ AgInit /\ AoInit
    /\ subject \in {"rpc", "agent", "action"}
    /\ subject = "rpc" \/ rpSecret = "off"
    /\ subject = "agent" \/ agMode = "Off"
    /\ subject = "action" \/ aoSetup.mode = "lease"

Next ==
    /\ \/ subject = "rpc" /\ RpNext /\ UNCHANGED <<agVars, aoVars>>
       \/ subject = "agent" /\ AgNext /\ UNCHANGED <<rpVars, aoVars>>
       \/ subject = "action" /\ AoNext /\ UNCHANGED <<rpVars, agVars>>
    /\ UNCHANGED subject

OfRpc(A) == subject = "rpc" /\ A /\ UNCHANGED <<agVars, aoVars, subject>>
OfAgent(A) == subject = "agent" /\ A /\ UNCHANGED <<rpVars, aoVars, subject>>
OfAction(A) == subject = "action" /\ A /\ UNCHANGED <<rpVars, agVars, subject>>

\* The fairness of the three specifications.  A behaviour has one subject, so one
\* condition can stand for an action of each.
FairSpec ==
    /\ Init /\ [][Next]_vars
    /\ \A t \in RpCallers : WF_vars(OfRpc(RpCaller(t)) \/ OfAction(t \in AoSupervisors /\ AoWork(t)))
    /\ \A w \in RpWorkers : WF_vars(OfRpc(RpServing(w)) \/ OfAction(AoArrive))
    /\ WF_vars(OfRpc(RpAccept) \/ OfAgent(AgSnapshot("worker")) \/ OfAction(AoServe(1)))
    /\ WF_vars(\/ OfRpc(rpStop # "no" /\ RpStopStep) \/ OfAgent(AgSwap("worker"))
               \/ OfAction(AoRestart(1)))
    /\ \A s \in {2} : WF_vars(OfAction(s \in AoSupervisors /\ AoServe(s)))
                     /\ WF_vars(OfAction(s \in AoSupervisors /\ AoRestart(s)))

-----------------------------------------------------------------------------
(* Nobody waits for ever: a call returns and so does stop() while the       *)
(* server's host is there, a rebuild of the index is installed, a complete  *)
(* proposal is committed with its evidence and decision rows (TcpRpcClient, *)
(* TcpRpcServer, AgentMemoryStore, workerLoop).  Both RpReturned and        *)
(* AoReached hold of a part that is not the subject.                        *)
WorkersProgress ==
    /\ \A t \in RpCallers : []<>(RpReturned(t) /\ AoReached)
    /\ RebuildCompletes
=============================================================================
