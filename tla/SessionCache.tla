---------------------------- MODULE SessionCache ----------------------------
(***************************************************************************)
(* JwtAuthGuard, SignOutService and the Valkey session cache they share.   *)
(*                                                                         *)
(* A request presents a token whose jti names an auth_sessions row.  The   *)
(* guard looks in the cache, then in the database, then writes the cache;  *)
(* each is an await, and any other request, among them a sign-out of the   *)
(* same session, runs in between.  A sign-out is a request the guard let   *)
(* in: it commits the revocation, then poisons the cache.                  *)
(*                                                                         *)
(* The endpoints of MFA sign tokens with new jtis and write no             *)
(* auth_sessions row for them.                                             *)
(***************************************************************************)
EXTENDS Naturals

CONSTANTS
    Request,   \* concurrent requests
    Session,   \* jtis that have an auth_sessions row
    Minted,    \* jtis of signed tokens without a row in auth_sessions
    Expires,   \* Expires[j]: absolute_expires_at of session j
    TTL,       \* SESSION_CACHE_TTL_SECONDS
    Pause,     \* the longest a request stays in the guard or in signOut
    MaxTime    \* bound on the clock

ASSUME ExpiresAssumption == Expires \in [Session -> Nat]
ASSUME TimeAssumption == TTL \in Nat \ {0} /\ Pause \in Nat /\ MaxTime \in Nat
ASSUME DisjointAssumption == Session \cap Minted = {}

Jti == Session \cup Minted

VARIABLES
    now,       \* the clock
    revoked,   \* revoked[j]: revoked_at is set
    lastValid, \* lastValid[j]: the last moment at which j was a valid session
    cache,     \* cache[j]: the sess:j key and the time at which it expires
    at,        \* at[r]: where request r stands
    jti,       \* jti[r]: the jti of its token
    started,   \* started[r]: when it entered the guard, or signOut
    checked    \* checked[r]: when the cache or the database last answered it

vars == <<now, revoked, lastValid, cache, at, jti, started, checked>>

Places == {"idle", "cache", "db", "positive", "negative", "granted", "poison", "denied", "refused"}
InFlight == {"cache", "db", "positive", "negative", "poison"}

TypeOK ==
    /\ now \in 0..MaxTime
    /\ revoked \in [Session -> BOOLEAN]
    /\ lastValid \in [Session -> Nat]
    /\ cache \in [Jti -> [value : {"none", "ok", "revoked"}, until : Nat]]
    /\ at \in [Request -> Places]
    /\ jti \in [Request -> Jti]
    /\ started \in [Request -> Nat]
    /\ checked \in [Request -> Nat]

-----------------------------------------------------------------------------

\* A key that is not there, or has expired.
NoLine == [value |-> "none", until |-> 0]

Init ==
    /\ now = 0
    /\ revoked = [j \in Session |-> FALSE]
    /\ lastValid = Expires
    /\ cache = [j \in Jti |-> NoLine]
    /\ at = [r \in Request |-> "idle"]
    /\ jti \in [Request -> Jti]
    /\ started = [r \in Request |-> 0]
    /\ checked = [r \in Request |-> 0]

Earlier(a, b) == IF a <= b THEN a ELSE b

\* set sess:j value EX TTL.
setSession(j, value) ==
    cache' = [cache EXCEPT ![j] = [value |-> value, until |-> now + TTL]]

Goto(r, place) == at' = [at EXCEPT ![r] = place]

\* The response is sent: what the request recorded is forgotten.
Leave(r) ==
    /\ Goto(r, "idle")
    /\ started' = [started EXCEPT ![r] = 0]
    /\ checked' = [checked EXCEPT ![r] = 0]
    /\ UNCHANGED jti

UnchangedRequest == UNCHANGED <<jti, started>>

-----------------------------------------------------------------------------
(* The guard.                                                              *)

\* A request with a token whose signature, issuer and expiry are good.
Arrive(r, j) ==
    /\ at[r] = "idle"
    /\ Goto(r, "cache")
    /\ jti' = [jti EXCEPT ![r] = j]
    /\ started' = [started EXCEPT ![r] = now]
    /\ UNCHANGED <<now, revoked, lastValid, cache, checked>>

\* Variant: a cache hit that also renews the line.
GetSessionSliding(r) ==
    /\ at[r] = "cache"
    /\ checked' = [checked EXCEPT ![r] = now]
    /\ \/ cache[jti[r]].value = "ok" /\ Goto(r, "granted") /\ setSession(jti[r], "ok")
       \/ cache[jti[r]].value = "revoked" /\ Goto(r, "denied") /\ UNCHANGED cache
       \/ cache[jti[r]].value = "none" /\ Goto(r, "db") /\ UNCHANGED cache
       \/ Goto(r, "refused") /\ UNCHANGED cache
    /\ UNCHANGED <<now, revoked, lastValid>> /\ UnchangedRequest

\* The last disjunct is an unreachable cache, which fails closed.
getSession(r) ==
    /\ at[r] = "cache"
    /\ checked' = [checked EXCEPT ![r] = now]
    /\ \/ cache[jti[r]].value = "ok" /\ Goto(r, "granted")
       \/ cache[jti[r]].value = "revoked" /\ Goto(r, "denied")
       \/ cache[jti[r]].value = "none" /\ Goto(r, "db")
       \/ Goto(r, "refused")
    /\ UNCHANGED <<now, revoked, lastValid, cache>> /\ UnchangedRequest

Expired(j) == Expires[j] < now

\* Variant: a missing row taken for a token without a session.
ValidRowIfAny(j) == j \in Session => ~revoked[j] /\ ~Expired(j)

ValidRow(j) == j \in Session /\ ~revoked[j] /\ ~Expired(j)

\* Variant: a session query without WHERE revoked_at IS NULL.
CheckSessionIgnoringRevocation(r) ==
    /\ at[r] = "db"
    /\ checked' = [checked EXCEPT ![r] = now]
    /\ \/ jti[r] \in Session /\ ~Expired(jti[r]) /\ Goto(r, "positive")
       \/ ~(jti[r] \in Session /\ ~Expired(jti[r])) /\ Goto(r, "negative")
    /\ UNCHANGED <<now, revoked, lastValid, cache>> /\ UnchangedRequest

\* A fingerprint mismatch is refused and leaves the cache alone.
checkSession(r) ==
    /\ at[r] = "db"
    /\ checked' = [checked EXCEPT ![r] = now]
    /\ \/ ValidRow(jti[r]) /\ Goto(r, "positive")
       \/ ValidRow(jti[r]) /\ Goto(r, "refused")
       \/ ~ValidRow(jti[r]) /\ Goto(r, "negative")
    /\ UNCHANGED <<now, revoked, lastValid, cache>> /\ UnchangedRequest

\* Either write may fail; the answer does not depend on it.
cachePositive(r) ==
    /\ at[r] = "positive"
    /\ setSession(jti[r], "ok") \/ UNCHANGED cache
    /\ Goto(r, "granted")
    /\ UNCHANGED <<now, revoked, lastValid, checked>> /\ UnchangedRequest

cacheNegative(r) ==
    /\ at[r] = "negative"
    /\ setSession(jti[r], "revoked") \/ UNCHANGED cache
    /\ Goto(r, "denied")
    /\ UNCHANGED <<now, revoked, lastValid, checked>> /\ UnchangedRequest

-----------------------------------------------------------------------------
(* What a request does once it is let in.                                  *)

\* Variant: a transaction whose failure is swallowed, so that the cache is
\* poisoned for a session that was not revoked.
SignOutSwallowingErrors(r) ==
    /\ at[r] = "granted"
    /\ jti[r] \in Session
    /\ UNCHANGED <<revoked, lastValid>>
    /\ started' = [started EXCEPT ![r] = now]
    /\ Goto(r, "poison")
    /\ UNCHANGED <<now, cache, jti, checked>>

\* UPDATE ... WHERE revoked_at IS NULL and the audit row, in one transaction.
\* A transaction that fails throws out of signOut: FinishRequest.
signOut(r) ==
    LET j == jti[r] IN
    /\ at[r] = "granted"
    /\ j \in Session
    /\ revoked' = [revoked EXCEPT ![j] = TRUE]
    /\ lastValid' = [lastValid EXCEPT ![j] = Earlier(@, now)]
    /\ started' = [started EXCEPT ![r] = now]
    /\ Goto(r, "poison")
    /\ UNCHANGED <<now, cache, jti, checked>>

\* The failed write is logged; a stale ok line is left to expire.
poisonCache(r) ==
    /\ at[r] = "poison"
    /\ setSession(jti[r], "revoked") \/ UNCHANGED cache
    /\ Leave(r)
    /\ UNCHANGED <<now, revoked, lastValid>>

\* Any other endpoint, or an error response.
FinishRequest(r) ==
    /\ at[r] \in {"granted", "denied", "refused"}
    /\ Leave(r)
    /\ UNCHANGED <<now, revoked, lastValid, cache>>

Tick ==
    /\ now < MaxTime
    /\ \A r \in Request : at[r] \in InFlight => now < started[r] + Pause
    /\ now' = now + 1
    /\ cache' = [j \in Jti |-> IF cache[j].until <= now + 1 THEN NoLine ELSE cache[j]]
    /\ UNCHANGED <<revoked, lastValid, checked, at>> /\ UnchangedRequest

Next ==
    \/ Tick
    \/ \E r \in Request :
        \/ \E j \in Jti : Arrive(r, j)
        \/ getSession(r)
        \/ checkSession(r)
        \/ cachePositive(r)
        \/ cacheNegative(r)
        \/ signOut(r)
        \/ poisonCache(r)
        \/ FinishRequest(r)

Spec == Init /\ [][Next]_vars

-----------------------------------------------------------------------------
(* Properties.                                                             *)

\* However sign-outs, failed poisons and slow guards interleave, a request is
\* let in on a session that has ended only if the cache or the database
\* answered it less than TTL + Pause after the end: a stale ok line is written
\* at most Pause late, and nothing renews it.
StaleGrantBounded ==
    \A r \in Request :
        at[r] = "granted" /\ jti[r] \in Session =>
            checked[r] < lastValid[jti[r]] + TTL + Pause

\* The negative cache never locks out a session that is still valid: who is
\* told that the session was revoked or has expired holds one that was or has.
DenialsDeserved ==
    \A r \in Request :
        at[r] = "denied" /\ jti[r] \in Session => revoked[jti[r]] \/ Expired(jti[r])

\* The session is revoked, its line is not ok, and no guard is between its
\* database read and its cache write.
Shut(j) ==
    /\ revoked[j]
    /\ cache[j].value # "ok"
    /\ \A r \in Request : jti[r] = j => at[r] # "positive"

\* The race between a sign-out and a guard is over with the last guard that
\* read the row before it: from then on no step of anyone, no failed poison
\* and no expiring line lets the session in again.
ShutStaysShut == [][\A j \in Session : Shut(j) => Shut(j)']_vars

=============================================================================
