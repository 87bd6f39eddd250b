---------------------------- MODULE AgentRouting ----------------------------
(***************************************************************************)
(* Agent memory spread over several HTTP servers: which server a memory or *)
(* a cache entry is sent to (src/ai/agent_memory_router.cpp), and the      *)
(* routed put, get, delete, search, context and cache handlers of          *)
(* src/server/http_server.cpp.  A search is a fan-out whose answers come   *)
(* in any order while other requests, a crash and the failover handlers of *)
(* the survivors go on.  What a server makes durable is AgentWal's; here a *)
(* crashed owner's shard is whole, and the successor adopts all of it.     *)
(***************************************************************************)
EXTENDS Integers, FiniteSets, Sequences, SequencesExt

CONSTANTS
    ArNodes,     \* node ids, positive integers
    ArPoint,     \* node -> its points on the ring
    ArHash,      \* routing key -> point
    ArMemories,  \* what a client may put: [name, subj, score, text, tokens]
    ArPrompts,   \* prompts of cache entries: [prompt, sim]
    ArQueries,   \* searches: [limit, budget]
    ArMaxOps     \* bound on requests

ASSUME ArConstants ==
    /\ ArNodes \subseteq Nat \ {0} /\ ArNodes # {}
    /\ \A n \in ArNodes : ArPoint[n] # {} /\ ArPoint[n] \subseteq Nat
    /\ \A q \in ArQueries : q.limit \in Nat \ {0} /\ q.budget \in Nat
    /\ ArMaxOps \in Nat

VARIABLES
    arUp,      \* nodes that run
    arView,    \* node -> nodes on its ring
    arStore,   \* node -> set of stored memories [id, score, text, tokens]
    arCache,   \* node -> set of cache entries
    arNext,    \* node -> counter of generated ids
    arKept,    \* ids acknowledged and not deleted since
    arFind,    \* the search in progress or answered
    arAns,     \* the point read or cache lookup just answered
    arOps

arVars == <<arUp, arView, arStore, arCache, arNext, arKept, arFind, arAns, arOps>>

ArNoAns == [op |-> "none", id |-> <<0, 0>>, found |-> FALSE, failed |-> FALSE]
ArNoFind == [pc |-> "idle", at |-> 0, q |-> [limit |-> 1, budget |-> 0],
             left |-> {}, got |-> {}, out |-> <<>>, ctx |-> <<>>,
             steady |-> {}, seen |-> {}]

\* memory_key with select_logical_subject: session, agent or user before the
\* id.  A record without either hashes the empty subject.
MemoryKey(m) == IF m.subj # 0 THEN <<-1, m.subj>> ELSE <<0, m.name>>
CacheKey(p) == <<-2, p>>

\* AgentMemoryRouter::route: lower_bound on the ring, wrapping to its start.
ArRoute(view, key) ==
    LET points == UNION {ArPoint[n] : n \in view}
        after == {p \in points : p >= ArHash[key]}
        least(S) == CHOOSE p \in S : \A q \in S : p <= q
        p == IF after = {} THEN least(points) ELSE least(after)
    IN  CHOOSE n \in view : p \in ArPoint[n]

\* A bug: the owner inside a generated id is ignored.
RingAlways(a, id) == ArRoute(arView[a], id)

\* Point reads and deletes: the owner inside a generated id while it is on the
\* ring, the ring otherwise.
ArIdOwner(a, id) ==
    IF id[1] \in arView[a] THEN id[1] ELSE ArRoute(arView[a], id)

ArInit ==
    /\ arUp = ArNodes
    /\ arView = [n \in ArNodes |-> ArNodes]
    /\ arStore = [n \in ArNodes |-> {}]
    /\ arCache = [n \in ArNodes |-> {}]
    /\ arNext = [n \in ArNodes |-> 1]
    /\ arKept = {}
    /\ arFind = ArNoFind
    /\ arAns = ArNoAns
    /\ arOps = 0

ArServed == UNION {arStore[n] : n \in arUp}

\* A running search sees the stores change: steady are the memories some
\* running server held since it began, seen the ones held at some moment of it.
ArWatch(up, stores) ==
    LET now == UNION {stores[n] : n \in up}
    IN  IF arFind.pc = "run"
        THEN [arFind EXCEPT !.steady = @ \cap now, !.seen = @ \cup now]
        ELSE arFind

ArRequest(a) == a \in arUp /\ arOps < ArMaxOps /\ arOps' = arOps + 1

\* The reply of a remote owner may be lost before or after it did its work; a
\* dead owner does nothing.  done: the owner acted, acked: the caller knows.
ArCall(a, o, done, acked) ==
    /\ acked => done
    /\ o = a => acked
    /\ o \notin arUp => ~done

ArWithout(S, id) == {r \in S : r.id # id}

\* put_agent_memory_routed_ with the owner's handle_agent_memory_put_rpc.
ArPut(a, m) ==
    /\ ArRequest(a)
    /\ LET o == ArRoute(arView[a], MemoryKey(m))
           id == IF m.name = 0 THEN <<o, arNext[o]>> ELSE <<0, m.name>>
           rec == [id |-> id, score |-> m.score, text |-> m.text,
                   tokens |-> m.tokens]
       IN  \E done, acked \in BOOLEAN :
             /\ ArCall(a, o, done, acked)
             /\ arStore' = IF done THEN [arStore EXCEPT ![o] =
                                             ArWithout(@, id) \cup {rec}]
                           ELSE arStore
             /\ arNext' = IF done /\ m.name = 0
                          THEN [arNext EXCEPT ![o] = @ + 1] ELSE arNext
             /\ arKept' = IF acked /\ (m.name = 0 \/ m.subj = 0)
                          THEN arKept \cup {id} ELSE arKept
    /\ arFind' = ArWatch(arUp, arStore')
    /\ arAns' = ArNoAns
    /\ UNCHANGED <<arUp, arView, arCache>>

\* handle_agent_memory_get_rpc at the owner.
ArHas(o, id) == \E r \in arStore[o] : r.id = id

\* GET /api/ai/memories/:id answers 502 for an owner that failed, 404 for a
\* memory it does not have.
ArGetAnswer(id, has, acked) ==
    [op |-> "get", id |-> id, failed |-> ~acked, found |-> acked /\ has]

\* get_agent_memory_routed_
ArGet(a, id) ==
    /\ ArRequest(a)
    /\ LET o == ArIdOwner(a, id)
       IN  \E done, acked \in BOOLEAN :
             /\ ArCall(a, o, done, acked)
             /\ arAns' = ArGetAnswer(id, ArHas(o, id), acked)
    /\ UNCHANGED <<arUp, arView, arStore, arCache, arNext, arKept, arFind>>

\* delete_agent_memory_routed_: the owner removes the row, or has none.
ArDelete(a, id) ==
    /\ ArRequest(a)
    /\ LET o == ArIdOwner(a, id)
       IN  \E done, acked \in BOOLEAN :
             /\ ArCall(a, o, done, acked)
             /\ arStore' = IF done
                           THEN [arStore EXCEPT ![o] = ArWithout(@, id)]
                           ELSE arStore
    /\ arKept' = arKept \ {id}
    /\ arFind' = ArWatch(arUp, arStore')
    /\ arAns' = ArNoAns
    /\ UNCHANGED <<arUp, arView, arCache, arNext>>

ArCacheWithout(o, p) == {f \in arCache[o] : f.prompt # p}

\* The owner's cache after a call for the prompt that may not have reached it.
ArCacheCall(a, p, new) ==
    /\ ArRequest(a)
    /\ LET o == ArRoute(arView[a], CacheKey(p))
       IN  \E done, acked \in BOOLEAN :
             /\ ArCall(a, o, done, acked)
             /\ arCache' = IF done THEN [arCache EXCEPT ![o] = ArCacheWithout(o, p) \cup new]
                           ELSE arCache
    /\ arAns' = ArNoAns
    /\ UNCHANGED <<arUp, arView, arStore, arNext, arKept, arFind>>

\* store_agent_cache_routed_
ArStoreCache(a, e) == ArCacheCall(a, e.prompt, {e})

\* delete_agent_cache_routed_
ArDropCache(a, p) == ArCacheCall(a, p, {})

\* POST /api/ai/cache/lookup: a hit of the prompt itself, or of a similar one.
ArLookupAnswer(p, exact, near, failed) ==
    [op |-> "lookup", id |-> <<-2, p>>, found |-> exact \/ near, failed |-> failed]

\* lookup_agent_cache_routed_: the owner of the prompt first, then every
\* server for the most similar entry.  Servers that fail are passed over.
ArLookup(a, p, sem) ==
    /\ ArRequest(a)
    /\ LET o == ArRoute(arView[a], CacheKey(p))
       IN  \E reach \in SUBSET ((arUp \cap arView[a]) \ {a}) :
             LET asked == reach \cup {a}
                 exact == o \in asked /\ \E e \in arCache[o] : e.prompt = p
                 near == UNION {arCache[n] : n \in asked}
             IN  arAns' = ArLookupAnswer(p, exact, sem /\ near # {}, o \notin asked)
    /\ UNCHANGED <<arUp, arView, arStore, arCache, arNext, arKept, arFind>>

ArBetter(x, y) == x.score > y.score

\* search_scan_locked_'s bounded heap and the final sort, trim_memory_matches.
ArTop(S, k) == LET all == SetToSortSeq(S, ArBetter)
               IN  SubSeq(all, 1, IF Len(all) < k THEN Len(all) ELSE k)

\* search_agent_memory_routed_: the remotes are fixed, then asked in parallel.
ArSearch(a, q) ==
    /\ arFind.pc # "run"
    /\ ArRequest(a)
    /\ arFind' = [ArNoFind EXCEPT !.pc = "run", !.at = a, !.q = q,
                                  !.left = arView[a], !.steady = ArServed,
                                  !.seen = ArServed]
    /\ arAns' = ArNoAns
    /\ UNCHANGED <<arUp, arView, arStore, arCache, arNext, arKept>>

\* One server answers with its own top matches, tagged by where they came from.
ArPartial(n) ==
    /\ arFind.pc = "run" /\ n \in arFind.left \cap arUp /\ arFind.at \in arUp
    /\ arFind' = [arFind EXCEPT
          !.left = @ \ {n},
          !.got = @ \cup {[n |-> n, r |-> r] :
                           r \in ToSet(ArTop(arStore[n], arFind.q.limit))}]
    /\ arAns' = ArNoAns
    /\ UNCHANGED <<arUp, arView, arStore, arCache, arNext, arKept, arOps>>

\* assemble_context_from_matches: one copy of each text, and what fits in what
\* is left of the budget (0: no budget).
ArContext(matches, budget) ==
    LET RECURSIVE go(_, _, _)
        go(i, sum, out) ==
            IF i > Len(matches) THEN out
            ELSE LET m == matches[i]
                     twin == \E j \in 1..(i - 1) : matches[j].text = m.text
                 IN  IF twin \/ (budget > 0 /\ m.tokens > budget - sum)
                     THEN go(i + 1, sum, out)
                     ELSE go(i + 1, sum + m.tokens, Append(out, m))
    IN  go(1, 0, <<>>)

ArOutcome(failed) == IF failed THEN "error" ELSE "done"

\* The answers are merged when all are in; one failed server fails the search.
ArMerge ==
    /\ arFind.pc = "run" /\ arFind.at \in arUp
    /\ \E failed \in BOOLEAN :
         /\ arFind.left # {} => failed
         /\ LET all == SetToSortSeq(arFind.got,
                                    LAMBDA x, y : ArBetter(x.r, y.r))
                cut == SubSeq(all, 1, IF Len(all) < arFind.q.limit
                                      THEN Len(all) ELSE arFind.q.limit)
                out == [i \in DOMAIN cut |-> cut[i].r]
            IN  arFind' = [arFind EXCEPT
                   !.pc = ArOutcome(failed), !.out = out,
                   !.ctx = ArContext(out, arFind.q.budget)]
    /\ arAns' = ArNoAns
    /\ UNCHANGED <<arUp, arView, arStore, arCache, arNext, arKept, arOps>>

ArCrash(d) ==
    /\ arUp = ArNodes /\ Cardinality(arUp) > 1
    /\ arUp' = arUp \ {d}
    /\ arFind' = IF arFind.pc = "run" /\ arFind.at = d THEN ArNoFind
                 ELSE ArWatch(arUp', arStore)
    /\ arAns' = ArNoAns
    /\ UNCHANGED <<arView, arStore, arCache, arNext, arKept, arOps>>

\* The first live id above the dead one, wrapping to the lowest.
ArSuccessor(d) ==
    LET above == {n \in arUp : n > d}
        least(S) == CHOOSE n \in S : \A k \in S : n <= k
    IN  {least(IF above = {} THEN arUp ELSE above)}

\* handle_agent_memory_owner_failover on a survivor: the dead node leaves its
\* ring; the successor also adopts the dead node's shard, as puts of its own.
ArFailover(n, d) ==
    /\ n \in arUp /\ d \in arView[n] \ arUp
    /\ arView' = [arView EXCEPT ![n] = @ \ {d}]
    /\ LET mine == n \in ArSuccessor(d)
           ids == {r.id : r \in arStore[d]}
           prompts == {e.prompt : e \in arCache[d]}
       IN  /\ arStore' = IF mine
                 THEN [arStore EXCEPT
                         ![n] = {r \in @ : r.id \notin ids} \cup arStore[d]]
                 ELSE arStore
           /\ arCache' = IF mine
                 THEN [arCache EXCEPT
                         ![n] = {e \in @ : e.prompt \notin prompts}
                                  \cup arCache[d]]
                 ELSE arCache
    /\ arFind' = ArWatch(arUp, arStore')
    /\ arAns' = ArNoAns
    /\ UNCHANGED <<arUp, arNext, arKept, arOps>>

ArIds == UNION {{r.id : r \in arStore[n]} : n \in ArNodes}

ArNext ==
    \/ \E a \in ArNodes :
         \/ \E m \in ArMemories : ArPut(a, m)
         \/ \E id \in ArIds : ArGet(a, id) \/ ArDelete(a, id)
         \/ \E e \in ArPrompts : ArStoreCache(a, e) \/ ArDropCache(a, e.prompt)
         \/ \E e \in ArPrompts, sem \in BOOLEAN : ArLookup(a, e.prompt, sem)
         \/ \E q \in ArQueries : ArSearch(a, q)
         \/ ArPartial(a) \/ ArCrash(a)
         \/ \E d \in ArNodes : ArFailover(a, d)
    \/ ArMerge

-----------------------------------------------------------------------------
\* A search that answers has, of the memories on running servers since it
\* began, every one that beats the last it returns, and nothing that was never stored: a server
\* that dies, and a shard adopted meanwhile, make it fail or leave it whole.
\* Its context holds each text once and stays in the budget, and what was left
\* out would not fit in what remains (search_agent_memory_routed_,
\* assemble_context_from_matches).
SearchIsWhole ==
    arFind.pc = "done" =>
      LET out == arFind.out  ctx == arFind.ctx  b == arFind.q.budget
          sum == FoldLeft(LAMBDA s, m : s + m.tokens, 0, ctx)
      IN  /\ ToSet(out) \subseteq arFind.seen
          /\ \A r \in arFind.steady \ ToSet(out) :
                /\ Len(out) = arFind.q.limit
                /\ \A i \in DOMAIN out : out[i].score >= r.score
          /\ \A i, j \in DOMAIN ctx : ctx[i].text = ctx[j].text => i = j
          /\ b > 0 => sum <= b
          /\ \A r \in ToSet(out) :
                \/ \E i \in DOMAIN ctx : ctx[i].text = r.text
                \/ b > 0 /\ \E s \in ToSet(out) :
                      s.text = r.text /\ s.tokens > b - sum

\* A memory whose put was acknowledged, under an id the owner generated or
\* routed by its own id, is found by a point read sent to any server, while no
\* server has died (get_agent_memory_routed_).
PointReadFinds ==
    arAns.op = "get" /\ arUp = ArNodes /\ ~arAns.failed /\ arAns.id \in arKept
        => arAns.found

\* Reads see the memories of every server while servers join, leave and adopt shards.
AgentReads == SearchIsWhole /\ PointReadFinds

\* What the design says of the same read after a failover: an id of the removed
\* node falls back to the ring and is found, once every survivor has handled
\* the failover and the successor adopted the shard.
ReadsSurviveFailover ==
    /\ arAns.op = "get" /\ ~arAns.failed /\ arAns.id \in arKept
    /\ \A n \in arUp : arView[n] = arUp
    => arAns.found
=============================================================================
