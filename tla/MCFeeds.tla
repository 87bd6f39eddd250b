------------------------------- MODULE MCFeeds -------------------------------
(* Small instances of what brings rows to a server from outside: the        *)
(* consumers of message brokers, the sensor feeds, the connector that moves *)
(* the outbox of an edge server to the fleet, and the file that keeps a     *)
(* connector's configuration.  A behaviour is one of one part, the subject; *)
(* the others stay where they start.                                        *)
EXTENDS FeedConsumer, SensorFeed, EdgeFleet, ConfigFile

VARIABLE subject

-----------------------------------------------------------------------------
(* FeedConsumer: a message for a peer, one that does not decode, one stored here.*)

FdM(g, o) == [good |-> g, owner |-> o]
MCFdMessages == <<FdM(TRUE, "peer"), FdM(FALSE, "local"), FdM(TRUE, "local")>>
FdS(k, f, w, t) == [kind |-> k, from |-> f, wire |-> w, table |-> t]
MCFdSetups ==
    {FdS(k, "oldest", "routed", "known") : k \in {"kafka_auto", "kafka", "pulsar", "kinesis"}}
    \cup {FdS(k, "latest", "routed", "default") : k \in {"kafka", "pulsar", "kinesis"}}
    \cup {FdS("mqtt", "resume", "routed", "known"), FdS("mqtt", "latest", "single", "default"),
           FdS("kafka", "oldest", "single", "unknown"), FdS("kafka", "oldest", "bare", "default")}
MCFdKafka == {FdS("kafka", "oldest", "routed", "known")}

-----------------------------------------------------------------------------
(* SensorFeed                                                              *)

SnP(s, c, g, o) == [sym |-> s, conv |-> c, good |-> g, owner |-> o]
SnOk == SnP(TRUE, TRUE, TRUE, "local")
SnPeer == SnP(TRUE, TRUE, FALSE, "peer")
SnGone == SnP(TRUE, TRUE, TRUE, "gone")
SnBad == SnP(TRUE, FALSE, TRUE, "local")
SnNone == SnP(FALSE, TRUE, TRUE, "local")
SnMsg(f, k, p) == [form |-> f, val |-> "ok", known |-> k, parts |-> p]
MCSnMessages ==
    {SnMsg("data", FALSE, <<SnOk>>), SnMsg("array", TRUE, <<SnPeer, SnBad>>), SnMsg("string", TRUE, <<SnGone>>),
     SnMsg("structured", TRUE, <<SnNone, SnOk>>), SnMsg("structured", TRUE, <<>>), SnMsg("alarm", TRUE, <<SnNone>>),
     SnMsg("history", TRUE, <<SnBad, SnOk>>)}
    \cup {[SnMsg("array", TRUE, <<SnOk, SnOk>>) EXCEPT !.val = v] : v \in {"none", "unsupported"}}
    \cup {SnMsg(f, TRUE, p) : f \in {"standard", "typed"}, p \in {<<>>, <<SnBad, SnOk>>, <<SnGone, SnPeer>>}}
    \cup {SnMsg("scalar", TRUE, <<p>>) : p \in {SnOk, SnPeer, SnBad, SnNone}}
SnS(k, q, w, t) == [kind |-> k, quality |-> q, wire |-> w, table |-> t]
MCSnSetups ==
    {SnS("opc", q, "routed", "known") : q \in {"IgnoreBad", "AcceptAll"}}
    \cup {SnS(k, "AcceptAll", "routed", "known") : k \in {"scalar", "standard", "typed"}}
    \cup {SnS(k, "AcceptAll", "single", "unknown") : k \in {"opc", "standard"}}
    \cup {SnS(k, "AcceptAll", "bare", "default") : k \in {"opc", "scalar", "typed"}}
SnB(n, k, t, p) == [null |-> n, known |-> k, typed |-> t, parts |-> p]
SnBag == <<SnB(FALSE, TRUE, TRUE, <<SnOk, SnBad>>), SnB(TRUE, TRUE, TRUE, <<>>), SnB(FALSE, FALSE, TRUE, <<SnOk>>),
         SnB(FALSE, TRUE, FALSE, <<SnOk>>)>>
MCSnBags == {[msgs |-> SnBag, limit |-> 0, fatal |-> TRUE], [msgs |-> SnBag, limit |-> 3, fatal |-> FALSE]}

-----------------------------------------------------------------------------
(* EdgeFleet: rows of the outbox that arrive in the order of neither stream.*)

MCEfEvents == <<2, 1>>
EfS(w, c, l, p, r, f) == [worker |-> w, ckpt |-> c, late |-> l, poison |-> p, requests |-> r, faults |-> f]
MCEfSetups ==
    {EfS(TRUE, TRUE, TRUE, 0, 2, 1), EfS(TRUE, TRUE, TRUE, 0, 1, 2), EfS(TRUE, FALSE, TRUE, 1, 1, 2),
     EfS(TRUE, TRUE, FALSE, 0, 1, 2), EfS(FALSE, TRUE, TRUE, 0, 2, 2), EfS(FALSE, FALSE, TRUE, 0, 3, 0)}

-----------------------------------------------------------------------------
(* ConfigFile: texts that need escapes and texts that look like escapes.   *)

MCLits == {<<>>, <<"d", "Q">>, <<"B", "n">>, <<"B", "B", "d">>, <<"C">>}
MCNums == {-1, 0, 1, 4}

-----------------------------------------------------------------------------
vars == <<fdVars, snVars, efVars, cfVars, subject>>

Init ==
    /\ subject \in {"broker", "sensor", "edge", "config"}
    /\ FdInit /\ (subject = "broker" \/ fdSetup = FdS("kafka", "oldest", "bare", "default"))
    /\ SnInit /\ (subject = "sensor" \/ (snSetup = SnS("opc", "AcceptAll", "bare", "default") /\ snBag.limit = 0))
    /\ EfInit /\ (subject = "edge" \/ ~efSetup.late)
    /\ CfInit /\ (subject = "config" \/ cfSvc = "edge")

Next ==
    /\ \/ subject = "broker" /\ FdNext /\ UNCHANGED <<snVars, efVars, cfVars>>
       \/ subject = "sensor" /\ SnNext /\ UNCHANGED <<fdVars, efVars, cfVars>>
       \/ subject = "edge" /\ EfNext /\ UNCHANGED <<fdVars, snVars, cfVars>>
       \/ subject = "config" /\ CfNext /\ UNCHANGED <<fdVars, snVars, efVars>>
    /\ UNCHANGED subject

OfBroker(A) == subject = "broker" /\ A /\ UNCHANGED <<snVars, efVars, cfVars, subject>>
OfSensor(A) == subject = "sensor" /\ A /\ UNCHANGED <<fdVars, efVars, cfVars, subject>>
OfEdge(A) == subject = "edge" /\ A /\ UNCHANGED <<fdVars, snVars, cfVars, subject>>

\* The fairness of the specifications; nothing must happen to a configuration file.  A behaviour has one subject, so one
\* condition can stand for an action of each.
FairSpec ==
    /\ Init /\ [][Next]_vars
    /\ WF_vars(OfBroker(FdStart) \/ OfSensor(SnPart(SnSpin)) \/ OfEdge(EfRestart))
    /\ WF_vars(OfBroker(FdDrop) \/ OfSensor(SnIngest(SnSpin)))
    /\ WF_vars(OfBroker(FdRefuse) \/ OfSensor(SnIterate))
    /\ WF_vars(OfBroker(FdReturn) \/ OfSensor(SnConnect(FALSE)))
    /\ WF_vars(OfBroker(FdJoin) \/ OfSensor(SnSubscribe(FALSE)))
    /\ SF_vars(OfBroker(FdAccept) \/ OfSensor(SnConnect(TRUE)) \/ OfEdge(EfWork(1)))
    /\ SF_vars(OfBroker(FdReceive(1)) \/ OfSensor(SnSubscribe(TRUE)) \/ OfEdge(EfWork(2)))
    /\ SF_vars(OfBroker(FdReceive(2)) \/ OfEdge(EfAdmin("a")))
    /\ SF_vars(OfBroker(FdReceive(3)) \/ OfEdge(EfAdmin("b")))

-----------------------------------------------------------------------------
(* What is sent arrives: a Pulsar message is stored, a lost OPC UA session  *)
(* comes back, an event of the outbox is acknowledged, and a request to the *)
(* connector returns (PulsarConsumer, OpcUaConsumer, worker_loop).  Each of *)
(* the conditions holds of a part that is not the subject.                  *)
FeedsProgress ==
    /\ []<>(FdDelivered /\ SnConnected /\ EfDrained)
    /\ \A a \in EfAdmins : []<>EfReturned(a)
=============================================================================
