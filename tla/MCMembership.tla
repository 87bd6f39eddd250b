---------------------------- MODULE MCMembership ----------------------------
(* Small instances of the two parts that decide who is up: the failure      *)
(* detector of a node and the pair of coordinators.  A behaviour is one of  *)
(* one part, the subject; the other stays where it starts.                  *)
EXTENDS HealthMonitor, CoordinatorHA

CONSTANTS n1, n2, udp, tcp, c1, c2, d1

VARIABLE subject

-----------------------------------------------------------------------------
(* HealthMonitor                                                           *)

TwoPeers == {n1, n2}
TwoReceivers == {udp, tcp}

\* Both receive threads, and a probe that can be trusted.
TcpSetup == [peers |-> {n1}, seeds |-> {n1}, receivers |-> {udp, tcp}, rejoin |-> TRUE, reliable |-> TRUE]
\* A node met by heartbeat, or added later, beside a registered one.
MetSetup == [peers |-> {n1, n2}, seeds |-> {n1}, receivers |-> {udp}, rejoin |-> TRUE, reliable |-> TRUE]
\* A probe that may time out, with and without the way back from DEAD.
LossySetups ==
    {[peers |-> {n1}, seeds |-> {n1}, receivers |-> {udp}, rejoin |-> r, reliable |-> FALSE] : r \in BOOLEAN}

MembershipSetups == {TcpSetup, MetSetup} \cup LossySetups

-----------------------------------------------------------------------------
(* CoordinatorHA                                                           *)

TwoCoords == {c1, c2}
OneDataNode == {d1}

-----------------------------------------------------------------------------
vars == <<hmVars, haVars, subject>>

Init ==
    /\ HmInit /\ HaInit
    /\ subject \in {"health", "ha"}
    /\ subject = "health" \/ hmSetup = TcpSetup
    /\ subject = "ha" \/ ~require_lease

Next ==
    \/ subject = "health" /\ HmNext /\ UNCHANGED <<haVars, subject>>
    \/ subject = "ha" /\ HaNext /\ UNCHANGED <<hmVars, subject>>

OfHealth(A) == subject = "health" /\ A /\ UNCHANGED <<haVars, subject>>
OfHa(A) == subject = "ha" /\ A /\ UNCHANGED <<hmVars, subject>>

\* The fairness of the two specifications.  A behaviour has one subject, so one
\* condition can stand for an action of each.
FairSpec ==
    /\ Init /\ [][Next]_vars
    /\ WF_vars(OfHealth(HmThreadNext(udp)) \/ OfHa(HaThreadNext(c1)))
    /\ WF_vars(OfHealth(HmThreadNext(tcp)) \/ OfHa(HaThreadNext(c2)))
    /\ WF_vars(OfHealth(HmThreadNext(Checker)))
    /\ WF_vars(OfHealth(CheckNext))
    /\ SF_vars(OfHealth(n1 \notin alive /\ Silence(n1)))
    /\ SF_vars(OfHealth(n2 \notin alive /\ Silence(n2)))

-----------------------------------------------------------------------------
(* Whoever is down is replaced: a node that stays down leaves the ring, and *)
(* a coordinator that is up becomes ACTIVE when the other is gone           *)
(* (check_loop, monitor_loop, lease_loop).                                  *)
DownIsReplaced == DeadLeavesRing /\ FailoverHappens
=============================================================================
