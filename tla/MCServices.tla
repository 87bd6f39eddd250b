----------------------------- MODULE MCServices -----------------------------
(* Small instances of what a server keeps for its clients: the requests it  *)
(* runs, the API keys and sessions it admits them by, and the memories of   *)
(* agents, logged, replicated and routed over the cluster.  A behaviour is  *)
(* one of one part, the subject; the others stay where they start.          *)
EXTENDS AgentWal, AgentRouting, HttpServing, KeyStore, SessionStore

VARIABLE subject

-----------------------------------------------------------------------------
(* AgentWal                                                                *)

AwS(m, f, c, n) == [mode |-> m, flush |-> f, cap |-> c, ops |-> n]
MCAwSetups == {AwS("Routed", 2, 2, 3), AwS("Quorum", 0, 1, 3), AwS("Sync", 2, 1, 3), AwS("Sync", 0, 2, 2)}

-----------------------------------------------------------------------------
(* AgentRouting: three points on a ring of nine.                           *)

MCArPoint == (1 :> {2}) @@ (2 :> {5}) @@ (3 :> {8})
MCArKeys == {<<0,0>>, <<0,1>>, <<-1,1>>, <<-2,1>>} \cup ((1..3) \X (1..3))
MCArHash == [k \in MCArKeys |-> (k[1] * 4 + k[2] * 3 + 9) % 9]
MCArMemories == {[name |-> 0, subj |-> 1, score |-> 2, text |-> 1, tokens |-> 2],
                 [name |-> 0, subj |-> 0, score |-> 3, text |-> 1, tokens |-> 1],
                 [name |-> 1, subj |-> 0, score |-> 1, text |-> 2, tokens |-> 1]}
MCArPrompts == {[prompt |-> 1, sim |-> 1]}
MCArQueries == {[limit |-> 1, budget |-> 0], [limit |-> 2, budget |-> 2]}

-----------------------------------------------------------------------------
(* HttpServing                                                             *)

Id(role, n, tables, symbols) == [role |-> role, tenant |-> n, tables |-> tables, symbols |-> symbols]
Client == [twice |-> FALSE, limited |-> FALSE, bearer |-> TRUE, asks |-> "", cookie |-> HsNobody,
           sso |-> HsNobody, jwt |-> HsNobody, key |-> HsNobody]
MCHsClients ==
    { [Client EXCEPT !.key = Id("writer", "n", {}, FALSE)],
      [Client EXCEPT !.jwt = Id("admin", "", {"x"}, FALSE), !.twice = TRUE],
      [Client EXCEPT !.bearer = FALSE, !.cookie = Id("reader", "", {"x"}, FALSE), !.asks = "n"] }
Stmt(kind, target, froms, ctes) == [kind |-> kind, target |-> target, froms |-> froms, ctes |-> ctes]
MCHsStatements ==
    { Stmt("insert", {"y"}, {}, <<>>), Stmt("unparsed", {}, {}, <<>>), Stmt("create", {"x"}, {}, <<>>),
      Stmt("select", {}, {"c", "x"}, <<[name |-> "c", from |-> "x"]>>) }
MCHsNamespace == [n \in HsTenants |-> {"x"}]
HsS(timeout, flight, auth, cluster, puts) ==
    [timeout |-> timeout, flight |-> flight, auth |-> auth, cluster |-> cluster, puts |-> puts]
MCHsSetups ==
    { HsS(TRUE, FALSE, "enabled", "closed", TRUE), HsS(FALSE, TRUE, "disabled", "none", FALSE),
      HsS(TRUE, TRUE, "absent", "open", FALSE) }

-----------------------------------------------------------------------------
Init ==
    /\ AwInit /\ ArInit /\ HsInit /\ KyInit /\ SeInit
    /\ subject \in {"wal", "routing", "http", "keys", "sessions"}
    /\ subject = "wal" \/ awMode = "Routed"
    /\ subject = "http" \/ hsSetup.puts
    /\ subject = "keys" \/ ~kyVault
    /\ subject = "sessions" \/ seLife = 0

Next ==
    /\ \/ subject = "wal" /\ AwNext /\ UNCHANGED <<arVars, hsVars, kyVars, seVars>>
       \/ subject = "routing" /\ ArNext /\ UNCHANGED <<awVars, hsVars, kyVars, seVars>>
       \/ subject = "http" /\ HsNext /\ UNCHANGED <<awVars, arVars, kyVars, seVars>>
       \/ subject = "keys" /\ KyNext /\ UNCHANGED <<awVars, arVars, hsVars, seVars>>
       \/ subject = "sessions" /\ SeNext /\ UNCHANGED <<awVars, arVars, hsVars, kyVars>>
    /\ UNCHANGED subject

Spec == Init /\ [][Next]_<<awVars, arVars, hsVars, kyVars, seVars, subject>>
=============================================================================
