---- MODULE SessionStore ----
(***************************************************************************)
(* Web sessions: the table of SessionStore, which every call locks, and    *)
(* the HTTP handlers that use it.  Time is counted in ticks.  A login or a *)
(* callback of the identity provider opens a session; a request with the   *)
(* cookie slides its expiry; /auth/logout closes it; /auth/refresh reads   *)
(* the session, calls the provider without the lock and writes the renewed *)
(* identity back.  The provider (external) gives a new refresh token with  *)
(* every answer and refuses one it has replaced.                           *)
(***************************************************************************)
EXTENDS Naturals, FiniteSets

CONSTANTS
    SeIds,          \* session ids, in the order they are drawn
    SeThreads,      \* request threads running /auth/refresh
    SeTtl, SeWindow, SeLives,   \* session_ttl_s, refresh_window_s, max_session_lifetime_s (0: none)
    SeMax,          \* max_sessions
    SeEnd,          \* bound: the last tick
    SeMaxToken      \* bound: refresh tokens of one session

ASSUME SeConstants ==
    /\ SeIds \subseteq Nat /\ SeTtl \in Nat \ {0} /\ SeWindow \in Nat /\ SeLives \subseteq Nat
    /\ SeMax \in Nat \ {0} /\ SeEnd \in Nat /\ SeMaxToken \in Nat

VARIABLES
    seLife,         \* max_session_lifetime_s
    seNow,          \* the steady clock
    seTable,        \* sessions_
    seDrawn,        \* session ids generated so far
    seToken,        \* the refresh token the provider accepts, by session
    seT             \* the /auth/refresh calls

seVars == <<seLife, seNow, seTable, seDrawn, seToken, seT>>

SeAbsent == [there |-> FALSE, created |-> 0, expires |-> 0, token |-> 0]
SeCall == [pc |-> "idle", id |-> 0, token |-> 0, ok |-> FALSE]

SeInit ==
    /\ seLife \in SeLives /\ seNow = 0
    /\ seTable = [i \in SeIds |-> SeAbsent] /\ seDrawn = 0
    /\ seToken = [i \in SeIds |-> 1]
    /\ seT = [t \in SeThreads |-> SeCall]

Live == {i \in SeIds : seTable[i].there}

\* Expiry after activity at tick now of a session created at created; add_seconds_saturated
\* reaches its limit only with lifetimes of centuries.
IdleExpiry(created, now) == now + SeTtl

Expiry(created, now) ==
    IF seLife = 0 \/ now + SeTtl <= created + seLife THEN now + SeTtl ELSE created + seLife

SeTick == seNow < SeEnd /\ seNow' = seNow + 1 /\ UNCHANGED <<seLife, seTable, seDrawn, seToken, seT>>

\* The sessions create reclaims when the table is full.
Reclaimed == {i \in Live : seNow > seTable[i].expires}

\* create: refused when the table is full of sessions that have not expired.
SeCreate(token) ==
    LET full == Cardinality(Live) >= SeMax
        kept == [i \in SeIds |-> IF full /\ i \in Reclaimed THEN SeAbsent ELSE seTable[i]]
        room == Cardinality({i \in SeIds : kept[i].there}) < SeMax
        id == seDrawn + 1
    IN
    /\ id \in SeIds
    /\ seTable' = IF room THEN [kept EXCEPT ![id] = [there |-> TRUE, created |-> seNow,
                                  expires |-> Expiry(seNow, seNow), token |-> token]] ELSE kept
    /\ seDrawn' = IF room THEN id ELSE seDrawn
    /\ UNCHANGED <<seLife, seNow, seToken, seT>>

\* GET /auth/callback: the provider may give a refresh token.  POST /auth/session: a login
\* with a token or key, which has none.
SeCallback == \E token \in {0, 1} : SeCreate(token)
SeLogin == SeCreate(0)

\* get: an expired session goes; one close to its expiry is extended.
Got(i) ==
    LET s == seTable[i] IN
    IF ~s.there \/ seNow > s.expires THEN SeAbsent
    ELSE IF seNow + SeWindow > s.expires THEN [s EXCEPT !.expires = Expiry(s.created, seNow)]
    ELSE s

\* check_session, for a request with the session's cookie
SeCheck(i) ==
    /\ i <= seDrawn /\ seTable' = [seTable EXCEPT ![i] = Got(i)]
    /\ UNCHANGED <<seLife, seNow, seDrawn, seToken, seT>>

\* evict_expired
SeEvict ==
    /\ seTable' = [i \in SeIds |-> IF i \in Reclaimed THEN SeAbsent ELSE seTable[i]]
    /\ UNCHANGED <<seLife, seNow, seDrawn, seToken, seT>>

SeLogout(i) ==
    /\ i \in Live /\ seTable' = [seTable EXCEPT ![i] = SeAbsent]
    /\ UNCHANGED <<seLife, seNow, seDrawn, seToken, seT>>

\* POST /auth/refresh: the session and its refresh token
SeRefresh(t, i) ==
    LET s == Got(i) IN
    /\ seT[t].pc = "idle" /\ i <= seDrawn
    /\ seTable' = [seTable EXCEPT ![i] = s]
    /\ seT' = [seT EXCEPT ![t] = IF s.there /\ s.token # 0
                 THEN [pc |-> "call", id |-> i, token |-> s.token, ok |-> FALSE] ELSE SeCall]
    /\ UNCHANGED <<seLife, seNow, seDrawn, seToken>>

\* The provider answers: a new identity and a new token, or a refusal.
SeProvider(t) ==
    LET c == seT[t] IN
    /\ c.pc = "call"
    /\ \/ /\ c.token = seToken[c.id] /\ seToken[c.id] < SeMaxToken
          /\ seToken' = [seToken EXCEPT ![c.id] = @ + 1]
          /\ seT' = [seT EXCEPT ![t] = [c EXCEPT !.pc = "write", !.ok = TRUE, !.token = @ + 1]]
       \/ seT' = [seT EXCEPT ![t] = [c EXCEPT !.pc = "write"]] /\ UNCHANGED seToken
    /\ UNCHANGED <<seLife, seNow, seTable, seDrawn>>

\* A bug: the renewed identity is written whether the session is still there or not.
WritesBack(i) == TRUE

\* update_identity finds the session.
StillThere(i) == seTable[i].there

\* update_identity, or destroy when the refresh failed or the identity was not accepted.
SeWrite(t) ==
    LET c == seT[t] IN
    /\ c.pc = "write"
    /\ seTable' = [seTable EXCEPT ![c.id] =
         IF ~c.ok THEN SeAbsent
         ELSE IF StillThere(c.id) THEN [@ EXCEPT !.there = TRUE, !.token = c.token] ELSE @]
    /\ seT' = [seT EXCEPT ![t] = SeCall]
    /\ UNCHANGED <<seLife, seNow, seDrawn, seToken>>

SeNext ==
    \/ SeTick \/ SeCallback \/ SeLogin \/ SeEvict
    \/ \E i \in SeIds : SeCheck(i) \/ SeLogout(i)
    \/ \E t \in SeThreads : (\E i \in SeIds : SeRefresh(t, i)) \/ SeProvider(t) \/ SeWrite(t)

SeSpec == SeInit /\ [][SeNext]_seVars

(***************************************************************************)
(* Properties                                                              *)
(***************************************************************************)

\* What no step may do to a session: bring it back once it has gone, whatever refresh was
\* under way; let it live past its lifetime, however often it is used; take it away before
\* it expires unless it is logged out or its refresh fails, a full table included.
SessionsKept ==
    [][seTable' # seTable => \A i \in SeIds :
         LET old == seTable[i]
             new == seTable'[i]
         IN
         /\ ~old.there /\ new.there => i > seDrawn
         /\ new.there /\ seLife > 0 => new.expires <= new.created + seLife
         /\ old.there /\ ~new.there /\ seNow <= old.expires
              => SeLogout(i) \/ \E t \in SeThreads : seT[t].id = i /\ SeWrite(t)]_seVars

\* A session whose refresh the provider accepted is still there.
RefreshKeeps ==
    [][\A i \in SeIds : seToken[i] > 1 /\ seTable[i].there /\ ~seTable'[i].there /\ seNow <= seTable[i].expires
         => SeLogout(i)]_seVars
====
