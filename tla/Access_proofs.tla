---------------------------- MODULE Access_proofs ----------------------------
(***************************************************************************)
(* Proofs about SessionCache, for any number of requests and sessions, any *)
(* lifetime of a cache line and any bound on how slow a guard may be; and, *)
(* on top of them, about Access, for any tokens, roles and routes and any  *)
(* window of MFA.                                                          *)
(***************************************************************************)
EXTENDS Access, TLAPS

USE ExpiresAssumption, TimeAssumption, DisjointAssumption

-----------------------------------------------------------------------------
(* The session cache: the inductive invariant.                             *)

Ended(j) == revoked[j] \/ Expires[j] < now

\* lastValid is the expiry until a revocation brings it forward.
RowInv ==
    \A j \in Session :
        /\ lastValid[j] <= Expires[j]
        /\ ~revoked[j] => lastValid[j] = Expires[j]

\* Tick waits for the slow, and a line is never written for the future.
ClockInv ==
    /\ \A r \in Request :
        /\ checked[r] <= now
        /\ at[r] \in InFlight => started[r] <= now /\ now <= started[r] + Pause
    /\ \A j \in Jti :
        /\ cache[j].until <= now + TTL
        /\ cache[j].value # "none" => now < cache[j].until

\* A guard on its way to write ok entered while the session was valid.
PositiveInv ==
    \A r \in Request : at[r] = "positive" =>
        /\ jti[r] \in Session
        /\ started[r] <= lastValid[jti[r]]
        /\ checked[r] <= lastValid[jti[r]]

\* An ok line outlives the session by a guard's pause and its own lifetime.
OkInv ==
    \A j \in Session :
        cache[j].value = "ok" => cache[j].until <= lastValid[j] + Pause + TTL

\* A negative line, and whoever is about to write or was told one, is of a
\* session that has ended.
NegativeInv ==
    /\ \A j \in Session : cache[j].value = "revoked" => Ended(j)
    /\ \A r \in Request :
        at[r] \in {"negative", "denied", "poison"} /\ jti[r] \in Session => Ended(jti[r])

IInv ==
    /\ TypeOK
    /\ RowInv
    /\ ClockInv
    /\ PositiveInv
    /\ OkInv
    /\ StaleGrantBounded
    /\ NegativeInv

-----------------------------------------------------------------------------

LEMMA InitIInv == Init => IInv
BY DEF Init, IInv, TypeOK, RowInv, ClockInv, PositiveInv, OkInv, StaleGrantBounded,
       NegativeInv, NoLine, InFlight, Places, Jti

SameLine(j) == cache'[j].value = cache[j].value /\ cache'[j].until = cache[j].until

LEMMA SetSession ==
    ASSUME TypeOK, NEW j \in Jti, NEW v \in {"ok", "revoked"}, setSession(j, v)
    PROVE  /\ cache' \in [Jti -> [value : {"none", "ok", "revoked"}, until : Nat]]
           /\ cache'[j].value = v /\ cache'[j].until = now + TTL
           /\ \A k \in Jti : k # j => SameLine(k)
<1>1. [value |-> v, until |-> now + TTL] \in [value : {"none", "ok", "revoked"}, until : Nat]
  BY DEF TypeOK
<1> QED
  BY <1>1 DEF setSession, TypeOK, SameLine

\* A write of r's line that may fail.
LEMMA WrittenLine ==
    ASSUME TypeOK, NEW r \in Request, NEW v \in {"ok", "revoked"},
           setSession(jti[r], v) \/ UNCHANGED cache
    PROVE  \A k \in Jti :
            SameLine(k) \/ (k = jti[r] /\ cache'[k].value = v /\ cache'[k].until = now + TTL)
<1>1. jti[r] \in Jti
  BY DEF TypeOK
<1>2. CASE setSession(jti[r], v)
  <2>1. cache'[jti[r]].value = v /\ cache'[jti[r]].until = now + TTL
    BY <1>1, <1>2, SetSession
  <2>2. \A k \in Jti : k # jti[r] => SameLine(k)
    BY <1>1, <1>2, SetSession
  <2>3. QED
    BY <2>1, <2>2
<1>3. CASE UNCHANGED cache
  BY <1>3 DEF SameLine
<1> QED
  BY <1>2, <1>3

LEMMA TypeStep == TypeOK /\ [Next]_vars => TypeOK'
<1> SUFFICES ASSUME TypeOK, [Next]_vars PROVE TypeOK'
  OBVIOUS
<1> USE DEF TypeOK, Places, Goto, UnchangedRequest
<1>1. CASE Tick
  BY <1>1 DEF Tick, NoLine
<1>2. ASSUME NEW r \in Request, NEW j \in Jti, Arrive(r, j) PROVE TypeOK'
  BY <1>2 DEF Arrive
<1>3. ASSUME NEW r \in Request, getSession(r) PROVE TypeOK'
  <2>1. /\ \E place \in Places : at' = [at EXCEPT ![r] = place]
        /\ checked' = [checked EXCEPT ![r] = now]
    <3> HIDE DEF TypeOK
    <3>1. QED
      BY <1>3 DEF getSession
  <2>2. UNCHANGED <<now, revoked, lastValid, cache, jti, started>>
    BY <1>3 DEF getSession
  <2>3. QED
    BY <2>1, <2>2
<1>4. ASSUME NEW r \in Request, checkSession(r) PROVE TypeOK'
  <2>1. at' \in [Request -> Places] /\ checked' \in [Request -> Nat]
    BY <1>4 DEF checkSession
  <2>2. UNCHANGED <<now, revoked, lastValid, cache, jti, started>>
    BY <1>4 DEF checkSession
  <2>3. QED
    BY <2>1, <2>2
<1>5. ASSUME NEW r \in Request, cachePositive(r) PROVE TypeOK'
  <2>1. cache' \in [Jti -> [value : {"none", "ok", "revoked"}, until : Nat]]
    BY <1>5, SetSession DEF cachePositive
  <2>2. QED
    BY <1>5, <2>1 DEF cachePositive
<1>6. ASSUME NEW r \in Request, cacheNegative(r) PROVE TypeOK'
  <2>1. cache' \in [Jti -> [value : {"none", "ok", "revoked"}, until : Nat]]
    BY <1>6, SetSession DEF cacheNegative
  <2>2. QED
    BY <1>6, <2>1 DEF cacheNegative
<1>7. ASSUME NEW r \in Request, signOut(r) PROVE TypeOK'
  BY <1>7 DEF signOut, Earlier
<1>8. ASSUME NEW r \in Request, poisonCache(r) PROVE TypeOK'
  <2>1. cache' \in [Jti -> [value : {"none", "ok", "revoked"}, until : Nat]]
    BY <1>8, SetSession DEF poisonCache
  <2>2. QED
    BY <1>8, <2>1 DEF poisonCache, Leave
<1>9. ASSUME NEW r \in Request, FinishRequest(r) PROVE TypeOK'
  BY <1>9 DEF FinishRequest, Leave
<1>10. CASE UNCHANGED vars
  BY <1>10 DEF vars
<1> QED
  BY <1>1, <1>2, <1>3, <1>4, <1>5, <1>6, <1>7, <1>8, <1>9, <1>10 DEF Next

\* The conjuncts of IInv after the type invariant, for a step of the system.
Rest == RowInv /\ ClockInv /\ PositiveInv /\ OkInv /\ StaleGrantBounded /\ NegativeInv

\* A step of a request that touches neither the sessions nor the cache.
Untouched == UNCHANGED <<now, revoked, lastValid, cache>>

LEMMA RestStep == IInv /\ TypeOK' /\ [Next]_vars => Rest'
<1> SUFFICES ASSUME IInv, TypeOK', [Next]_vars PROVE Rest'
  OBVIOUS
<1> USE DEF IInv, Rest, RowInv, ClockInv, PositiveInv, OkInv, StaleGrantBounded, NegativeInv,
            Ended, Expired, InFlight, SameLine
<1>1. CASE Tick
  <2>1. now' = now + 1 /\ now \in Nat
    BY <1>1 DEF Tick, TypeOK
  <2>2. \A j \in Jti :
            (cache'[j].value = "none" /\ cache'[j].until = 0) \/ (SameLine(j) /\ ~(cache[j].until <= now + 1))
    <3>1. cache' = [j \in Jti |-> IF cache[j].until <= now + 1 THEN NoLine ELSE cache[j]]
      BY <1>1 DEF Tick
    <3> HIDE DEF IInv
    <3>2. ASSUME NEW j \in Jti PROVE cache'[j] = IF cache[j].until <= now + 1 THEN NoLine ELSE cache[j]
      BY <3>1
    <3>3. NoLine.value = "none" /\ NoLine.until = 0
      BY DEF NoLine
    <3>4. QED
      BY <3>2, <3>3 DEF SameLine
  <2>3. UNCHANGED <<revoked, lastValid, checked, at, jti, started>>
    BY <1>1 DEF Tick, UnchangedRequest
  <2>4. RowInv'
    BY <2>3
  <2>5. ClockInv'
    BY <1>1, <2>1, <2>2, <2>3 DEF Tick, TypeOK
  <2>6. PositiveInv' /\ StaleGrantBounded'
    BY <2>3
  <2>7. OkInv'
    BY <2>2, <2>3 DEF Jti
  <2>8. NegativeInv'
    BY <2>1, <2>2, <2>3 DEF Jti, TypeOK
  <2>9. QED
    BY <2>4, <2>5, <2>6, <2>7, <2>8
<1>2. ASSUME NEW r \in Request, NEW j \in Jti, Arrive(r, j) PROVE Rest'
  BY <1>2 DEF Arrive, Goto, TypeOK
<1>3. ASSUME NEW r \in Request, getSession(r) PROVE Rest'
  BY <1>3 DEF getSession, Goto, TypeOK, UnchangedRequest, Jti
<1>4. ASSUME NEW r \in Request, checkSession(r) PROVE Rest'
  BY <1>4 DEF checkSession, ValidRow, Goto, TypeOK, UnchangedRequest, Jti
<1>5. ASSUME NEW r \in Request, cachePositive(r) PROVE Rest'
  <2>1. UNCHANGED <<now, revoked, lastValid, checked, jti, started>>
    BY <1>5 DEF cachePositive, UnchangedRequest
  <2>2. at[r] = "positive" /\ at' = [at EXCEPT ![r] = "granted"]
    BY <1>5 DEF cachePositive, Goto
  <2>3. \A k \in Jti :
            SameLine(k) \/ (k = jti[r] /\ cache'[k].value = "ok" /\ cache'[k].until = now + TTL)
    <3>1. setSession(jti[r], "ok") \/ UNCHANGED cache
      BY <1>5 DEF cachePositive
    <3>2. TypeOK
      OBVIOUS
    <3> HIDE DEF IInv
    <3>3. QED
      BY <3>1, <3>2, WrittenLine
  <2>4. RowInv' /\ PositiveInv' /\ StaleGrantBounded'
    BY <2>1, <2>2 DEF TypeOK
  <2>5. ClockInv'
    BY <2>1, <2>2, <2>3 DEF TypeOK
  <2>6. OkInv'
    BY <2>1, <2>2, <2>3 DEF TypeOK, Jti
  <2>7. NegativeInv'
    BY <2>1, <2>2, <2>3 DEF TypeOK, Jti
  <2>8. QED
    BY <2>4, <2>5, <2>6, <2>7
<1>6. ASSUME NEW r \in Request, cacheNegative(r) PROVE Rest'
  <2>1. UNCHANGED <<now, revoked, lastValid, checked, jti, started>>
    BY <1>6 DEF cacheNegative, UnchangedRequest
  <2>2. at[r] = "negative" /\ at' = [at EXCEPT ![r] = "denied"]
    BY <1>6 DEF cacheNegative, Goto
  <2>3. \A k \in Jti :
            SameLine(k) \/ (k = jti[r] /\ cache'[k].value = "revoked" /\ cache'[k].until = now + TTL)
    <3>1. setSession(jti[r], "revoked") \/ UNCHANGED cache
      BY <1>6 DEF cacheNegative
    <3>2. TypeOK
      OBVIOUS
    <3> HIDE DEF IInv
    <3>3. QED
      BY <3>1, <3>2, WrittenLine
  <2>4. RowInv' /\ PositiveInv' /\ StaleGrantBounded'
    BY <2>1, <2>2 DEF TypeOK
  <2>5. ClockInv'
    <3>1. \A q \in Request :
            /\ checked'[q] <= now'
            /\ at'[q] \in InFlight => started'[q] <= now' /\ now' <= started'[q] + Pause
      BY <2>1, <2>2 DEF TypeOK
    <3>2. \A k \in Jti :
            /\ cache'[k].until <= now' + TTL
            /\ cache'[k].value # "none" => now' < cache'[k].until
      BY <2>1, <2>3 DEF TypeOK
    <3>3. QED
      BY <3>1, <3>2
  <2>6. OkInv'
    BY <2>1, <2>3 DEF TypeOK, Jti
  <2>7. NegativeInv'
    BY <2>1, <2>2, <2>3 DEF TypeOK, Jti
  <2>8. QED
    BY <2>4, <2>5, <2>6, <2>7
<1>7. ASSUME NEW r \in Request, signOut(r) PROVE Rest'
  <2>1. PICK j \in Session : /\ j = jti[r]
                             /\ revoked' = [revoked EXCEPT ![j] = TRUE]
                             /\ lastValid' = [lastValid EXCEPT ![j] = Earlier(@, now)]
    BY <1>7 DEF signOut
  <2>2. UNCHANGED <<now, cache, checked, jti>>
    BY <1>7 DEF signOut
  <2>3. at' = [at EXCEPT ![r] = "poison"] /\ started' = [started EXCEPT ![r] = now]
    BY <1>7 DEF signOut, Goto
  <2>4. /\ \A k \in Session : k # j => lastValid'[k] = lastValid[k] /\ revoked'[k] = revoked[k]
        /\ revoked'[j] /\ lastValid'[j] \in {lastValid[j], now} /\ lastValid'[j] <= lastValid[j]
    BY <2>1 DEF Earlier, TypeOK
  <2>5. RowInv'
    <3>1. ASSUME NEW k \in Session
          PROVE  lastValid'[k] <= Expires[k] /\ (~revoked'[k] => lastValid'[k] = Expires[k])
      <4>1. CASE k = j
        BY <2>4, <4>1 DEF TypeOK
      <4>2. CASE k # j
        BY <2>4, <4>2 DEF TypeOK
      <4>3. QED
        BY <4>1, <4>2
    <3>2. QED
      BY <3>1
  <2>6. ClockInv'
    BY <2>2, <2>3 DEF TypeOK
  <2>7. PositiveInv'
    BY <2>2, <2>3, <2>4 DEF TypeOK
  <2>8. OkInv'
    BY <2>2, <2>4 DEF TypeOK, Jti
  <2>9. StaleGrantBounded'
    BY <2>2, <2>3, <2>4 DEF TypeOK
  <2>10. NegativeInv'
    BY <2>1, <2>2, <2>3, <2>4 DEF TypeOK
  <2>11. QED
    BY <2>5, <2>6, <2>7, <2>8, <2>9, <2>10
<1>8. ASSUME NEW r \in Request, poisonCache(r) PROVE Rest'
  <2>1. UNCHANGED <<now, revoked, lastValid, jti>>
    BY <1>8 DEF poisonCache, Leave
  <2>2. /\ at[r] = "poison" /\ at' = [at EXCEPT ![r] = "idle"]
        /\ checked' = [checked EXCEPT ![r] = 0] /\ started' = [started EXCEPT ![r] = 0]
    BY <1>8 DEF poisonCache, Leave, Goto
  <2>3. \A k \in Jti :
            SameLine(k) \/ (k = jti[r] /\ cache'[k].value = "revoked" /\ cache'[k].until = now + TTL)
    <3>1. setSession(jti[r], "revoked") \/ UNCHANGED cache
      BY <1>8 DEF poisonCache
    <3>2. TypeOK
      OBVIOUS
    <3> HIDE DEF IInv
    <3>3. QED
      BY <3>1, <3>2, WrittenLine
  <2>4. RowInv' /\ PositiveInv' /\ StaleGrantBounded'
    BY <2>1, <2>2 DEF TypeOK
  <2>5. ClockInv'
    <3>1. \A q \in Request :
            /\ checked'[q] <= now'
            /\ at'[q] \in InFlight => started'[q] <= now' /\ now' <= started'[q] + Pause
      BY <2>1, <2>2 DEF TypeOK
    <3>2. \A k \in Jti :
            /\ cache'[k].until <= now' + TTL
            /\ cache'[k].value # "none" => now' < cache'[k].until
      BY <2>1, <2>3 DEF TypeOK
    <3>3. QED
      BY <3>1, <3>2
  <2>6. OkInv'
    BY <2>1, <2>3 DEF TypeOK, Jti
  <2>7. NegativeInv'
    BY <2>1, <2>2, <2>3 DEF TypeOK, Jti
  <2>8. QED
    BY <2>4, <2>5, <2>6, <2>7
<1>9. ASSUME NEW r \in Request, FinishRequest(r) PROVE Rest'
  BY <1>9 DEF FinishRequest, Leave, Goto, TypeOK
<1>10. CASE UNCHANGED vars
  BY <1>10 DEF vars
<1> QED
  BY <1>1, <1>2, <1>3, <1>4, <1>5, <1>6, <1>7, <1>8, <1>9, <1>10 DEF Next

LEMMA IInvHolds == Spec => []IInv
<1>1. IInv /\ [Next]_vars => IInv'
  BY TypeStep, RestStep DEF IInv, Rest
<1> QED
  BY InitIInv, <1>1, PTL DEF Spec

-----------------------------------------------------------------------------
(* The session cache: the theorems.                                        *)

\* Every reachable state of the guard, the sign-outs and the cache is typed.
THEOREM TypeCorrect == Spec => []TypeOK
BY IInvHolds, PTL DEF IInv

\* For every cache lifetime and every bound on a guard's pause: nobody is let
\* in on a session TTL + Pause after it was revoked or expired.
THEOREM StaleGrants == Spec => []StaleGrantBounded
BY IInvHolds, PTL DEF IInv

\* No interleaving of failed cache writes, sign-outs and expiries makes the
\* guard deny a session that is still valid.
THEOREM Denials == Spec => []DenialsDeserved
<1>1. IInv => DenialsDeserved
  BY DEF IInv, NegativeInv, DenialsDeserved, Ended, Expired
<1> QED
  BY <1>1, IInvHolds, PTL

\* The race between a sign-out and slow guards ends, and then stays over.
THEOREM ShutForGood == Spec => ShutStaysShut
<1> DEFINE Stays == \A j \in Session : Shut(j) => Shut(j)'
<1>1. ASSUME TypeOK, [Next]_vars PROVE [Stays]_vars
  <2> SUFFICES ASSUME NEW j \in Session, Shut(j) PROVE Shut(j)'
    OBVIOUS
  <2> USE <1>1 DEF Shut, TypeOK, Goto, UnchangedRequest, Jti, SameLine
  <2>1. CASE Tick
    BY <2>1 DEF Tick, NoLine
  <2>2. ASSUME NEW r \in Request, NEW k \in Jti, Arrive(r, k) PROVE Shut(j)'
    BY <2>2 DEF Arrive
  <2>3. ASSUME NEW r \in Request, getSession(r) PROVE Shut(j)'
    BY <2>3 DEF getSession
  <2>4. ASSUME NEW r \in Request, checkSession(r) PROVE Shut(j)'
    BY <2>4 DEF checkSession, ValidRow
  <2>5. ASSUME NEW r \in Request, cachePositive(r) PROVE Shut(j)'
    <3>1. jti[r] # j /\ jti[r] \in Jti
      BY <2>5 DEF cachePositive
    <3>2. SameLine(j)
      BY <2>5, <3>1, SetSession DEF cachePositive
    <3>3. QED
      BY <2>5, <3>2 DEF cachePositive
  <2>6. ASSUME NEW r \in Request, cacheNegative(r) PROVE Shut(j)'
    <3>1. SameLine(j) \/ cache'[j].value = "revoked"
      BY <2>6, SetSession DEF cacheNegative
    <3>2. QED
      BY <2>6, <3>1 DEF cacheNegative
  <2>7. ASSUME NEW r \in Request, signOut(r) PROVE Shut(j)'
    BY <2>7 DEF signOut
  <2>8. ASSUME NEW r \in Request, poisonCache(r) PROVE Shut(j)'
    <3>1. SameLine(j) \/ cache'[j].value = "revoked"
      BY <2>8, SetSession DEF poisonCache
    <3>2. QED
      BY <2>8, <3>1 DEF poisonCache, Leave
  <2>9. ASSUME NEW r \in Request, FinishRequest(r) PROVE Shut(j)'
    BY <2>9 DEF FinishRequest, Leave
  <2>10. CASE UNCHANGED vars
    BY <2>10 DEF vars
  <2> QED
    BY <1>1, <2>1, <2>2, <2>3, <2>4, <2>5, <2>6, <2>7, <2>8, <2>9, <2>10 DEF Next
<1> QED
  BY <1>1, TypeCorrect, PTL DEF Spec, ShutStaysShut

-----------------------------------------------------------------------------
(* The guards refine the session cache.                                    *)

LEMMA AccessStep == [AccessNext]_accessVars => [Next]_vars
BY DEF AccessNext, accessVars, vars, Next, Present, Enter, MfaGuard, RbacGuard, Passes,
       MfaController, enroll, verify, consumeBackupCode, SignOut, Poison, Answer, AccessTick

\* The guards behind JwtAuthGuard, MFA and its tokens take no step that the
\* session cache does not allow: what is proved of it holds with them.
THEOREM AccessImplementsSessions == AccessSpec => Spec
<1>1. AccessInit => Init
  BY DEF AccessInit
<1> QED
  BY <1>1, AccessStep, PTL DEF AccessSpec, Spec

-----------------------------------------------------------------------------
(* The inductive invariant.                                                *)

Guard == {"none", "auth", "mfa", "rbac", "handler", "forbidden"}
Entry == [next : Guard, codes : SUBSET Permission, passed : Nat]

GateTyped ==
    /\ gate \in [Request -> Entry]
    /\ DOMAIN token = Jti

\* No cache line ever lets a token in that has no session.
MintedInv == \A j \in Minted : cache[j].value # "ok"

\* A request behind JwtAuthGuard presents the token of a session, was answered
\* at most a pause before MfaGuard saw it, and MfaGuard saw a verification.
SoundRequest(r) ==
    /\ gate[r].next # "none" => at[r] = "granted"
    /\ at[r] \in {"positive", "granted"} => jti[r] \in Session
    /\ at[r] = "positive" => started[r] <= checked[r]
    /\ gate[r].next = "mfa" => now <= checked[r] + Pause
    /\ gate[r].next \in {"rbac", "handler"} =>
        /\ gate[r].passed <= checked[r] + Pause
        /\ requiresMfa(user(r)) => \E t \in user(r).mfaVerifiedAt : gate[r].passed <= t + Window

GateInv == \A r \in Request : SoundRequest(r)

AccessInv == IInv /\ GateTyped /\ MintedInv /\ GateInv

-----------------------------------------------------------------------------

LEMMA InitAccessInv == AccessInit => AccessInv
<1> SUFFICES ASSUME AccessInit PROVE AccessInv
  OBVIOUS
<1>1. IInv
  BY InitIInv DEF AccessInit
<1>2. GateTyped
  BY DEF AccessInit, GateTyped, Entry, Guard, Closed, Before
<1>3. MintedInv /\ GateInv
  BY DEF AccessInit, Init, MintedInv, GateInv, SoundRequest, Closed, Before, NoLine, Jti
<1> QED
  BY <1>1, <1>2, <1>3 DEF AccessInv

\* What a step leaves of the requests it is not about.
SameRequest(q) ==
    /\ gate'[q] = gate[q] /\ at'[q] = at[q] /\ jti'[q] = jti[q]
    /\ started'[q] = started[q] /\ checked'[q] = checked[q]

\* No step signs a token of a session.
SameTokens == \A j \in Session : token'[j] = token[j]

LEMMA SoundOthers ==
    ASSUME NEW q \in Request, SoundRequest(q), SameRequest(q), SameTokens, UNCHANGED now
    PROVE  SoundRequest(q)'
<1>1. CASE jti[q] \in Session
  <2>1. user(q)' = user(q)
    BY <1>1 DEF SameRequest, SameTokens, user
  <2> QED
    BY <2>1 DEF SoundRequest, SameRequest, requiresMfa
<1>2. CASE jti[q] \notin Session
  BY <1>2 DEF SoundRequest, SameRequest
<1> QED
  BY <1>1, <1>2

\* A request at rest is sound.
LEMMA SoundAtRest ==
    ASSUME NEW q \in Request, gate'[q].next = "none", at'[q] \notin {"positive", "granted"}
    PROVE  SoundRequest(q)'
BY DEF SoundRequest

LEMMA ClosedNext == Closed.next = "none" /\ Forbidden.next = "forbidden"
BY DEF Closed, Forbidden, Before

\* Enter: a request that is let in holds the token of a session, and was
\* answered at most a pause ago.
LEMMA EnterStep ==
    ASSUME AccessInv, NEW r \in Request, Enter(r)
    PROVE  GateTyped' /\ MintedInv' /\ GateInv'
<1> USE DEF AccessInv
<1>1. UNCHANGED <<now, jti, started, token>> /\ SameTokens
  BY DEF Enter, getSession, checkSession, cachePositive, cacheNegative, UnchangedRequest, SameTokens
<1>2. /\ TypeOK /\ jti[r] \in Jti /\ now \in Nat /\ started[r] \in Nat /\ checked[r] \in Nat
  BY DEF IInv, TypeOK
<1>3. \A q \in Request \ {r} : at'[q] = at[q] /\ checked'[q] = checked[q]
  BY <1>2 DEF Enter, getSession, checkSession, cachePositive, cacheNegative, Goto, TypeOK
<1>4. MintedInv'
  <2>1. CASE getSession(r) \/ checkSession(r)
    BY <2>1 DEF getSession, checkSession, MintedInv
  <2>2. CASE cachePositive(r)
    <3>1. jti[r] \in Session
      BY <2>2 DEF cachePositive, IInv, PositiveInv
    <3>2. \A j \in Minted : SameLine(j)
      BY <1>2, <2>2, <3>1, WrittenLine, DisjointAssumption DEF cachePositive, Jti
    <3> QED
      BY <3>2 DEF MintedInv, SameLine
  <2>3. CASE cacheNegative(r)
    <3>1. \A j \in Minted : SameLine(j) \/ cache'[j].value = "revoked"
      BY <1>2, <2>3, WrittenLine DEF cacheNegative, Jti
    <3> QED
      BY <3>1 DEF MintedInv, SameLine
  <2> QED
    BY <2>1, <2>2, <2>3 DEF Enter
<1>5. at[r] \in {"cache", "db", "positive", "negative"} /\ gate[r].next = "none"
  BY DEF Enter, getSession, checkSession, cachePositive, cacheNegative, GateInv, SoundRequest,
         GateTyped, Entry
<1>6. CASE at'[r] = "granted"
  <2>1. PICK entry \in Entry : /\ gate' = [gate EXCEPT ![r] = entry]
                              /\ entry.next \in {"auth", "mfa"}
    <3>1. \A codes \in Routes \cup {{}} : codes \subseteq Permission
      BY RoleAssumption
    <3>2. \A codes \in Routes \cup {{}}, next \in {"auth", "mfa"} :
              Before(next, codes, 0) \in Entry /\ Before(next, codes, 0).next = next
      BY <3>1 DEF Before, Entry, Guard
    <3>3. PICK entry : /\ gate' = [gate EXCEPT ![r] = entry]
                       /\ \/ entry = Before("auth", {}, 0)
                          \/ \E codes \in Routes : entry = Before("mfa", codes, 0)
      BY <1>6 DEF Enter
    <3>4. entry \in Entry /\ entry.next \in {"auth", "mfa"}
      BY <3>2, <3>3
    <3> QED
      BY <3>3, <3>4
  <2>2. jti[r] \in Session
    <3>1. CASE getSession(r)
      <4>1. cache[jti[r]].value = "ok"
        BY <1>2, <1>6, <3>1 DEF getSession, Goto, TypeOK
      <4> QED
        BY <1>2, <4>1 DEF MintedInv, Jti
    <3>2. CASE cachePositive(r)
      BY <3>2 DEF cachePositive, IInv, PositiveInv
    <3>3. ~checkSession(r) /\ ~cacheNegative(r)
      BY <1>2, <1>6 DEF checkSession, cacheNegative, Goto, TypeOK
    <3> QED
      BY <3>1, <3>2, <3>3 DEF Enter
  <2>3. now <= checked'[r] + Pause
    <3>1. CASE getSession(r)
      BY <1>2, <3>1, TimeAssumption DEF getSession, TypeOK
    <3>2. CASE cachePositive(r)
      <4>1. checked'[r] = checked[r] /\ at[r] = "positive"
        BY <3>2 DEF cachePositive
      <4>2. started[r] <= checked[r] /\ now <= started[r] + Pause
        BY <4>1 DEF GateInv, SoundRequest, IInv, ClockInv, InFlight
      <4> QED
        BY <1>2, <4>1, <4>2, TimeAssumption
    <3>3. ~checkSession(r) /\ ~cacheNegative(r)
      BY <1>2, <1>6 DEF checkSession, cacheNegative, Goto, TypeOK
    <3> QED
      BY <3>1, <3>2, <3>3 DEF Enter
  <2>4. GateTyped'
    BY <1>1, <2>1 DEF GateTyped
  <2>5. gate'[r] = entry /\ \A q \in Request \ {r} : gate'[q] = gate[q]
    BY <2>1 DEF GateTyped
  <2>6. SoundRequest(r)'
    BY <1>1, <1>6, <2>1, <2>2, <2>3, <2>5 DEF SoundRequest
  <2>7. \A q \in Request \ {r} : SoundRequest(q)'
    BY <1>1, <1>3, <2>5, SoundOthers DEF SameRequest, GateInv
  <2> QED
    BY <1>4, <2>4, <2>6, <2>7 DEF GateInv
<1>7. CASE at'[r] # "granted"
  <2>1. UNCHANGED gate
    BY <1>7 DEF Enter
  <2>2. SoundRequest(r)'
    <3>1. CASE at'[r] = "positive"
      <4>1. checkSession(r) /\ jti[r] \in Session
        BY <1>2, <3>1 DEF Enter, getSession, checkSession, cachePositive, cacheNegative, Goto, TypeOK, ValidRow
      <4>2. checked'[r] = now
        BY <4>1 DEF checkSession, IInv, TypeOK
      <4>3. started[r] <= now
        BY <4>1 DEF checkSession, IInv, ClockInv, InFlight
      <4> QED
        BY <1>1, <1>5, <2>1, <3>1, <4>1, <4>2, <4>3 DEF SoundRequest
    <3>2. CASE at'[r] # "positive"
      BY <1>5, <1>7, <2>1, <3>2, SoundAtRest
    <3> QED
      BY <3>1, <3>2
  <2>3. \A q \in Request \ {r} : SoundRequest(q)'
    BY <1>1, <1>3, <2>1, SoundOthers DEF SameRequest, GateInv
  <2> QED
    BY <1>1, <1>4, <2>1, <2>2, <2>3 DEF GateInv, GateTyped
<1> QED
  BY <1>6, <1>7

\* A request that is done rests; nothing is known of it.
LEMMA LeaveStep ==
    ASSUME AccessInv, NEW r \in Request, Closes(r), SameTokens, DOMAIN token' = Jti,
           UNCHANGED <<now, jti>>,
           at'[r] \notin {"positive", "granted"},
           \A q \in Request \ {r} : at'[q] = at[q] /\ started'[q] = started[q] /\ checked'[q] = checked[q]
    PROVE  GateTyped' /\ GateInv'
<1>1. Closed \in Entry
  BY DEF Closed, Before, Entry, Guard
<1>2. GateTyped'
  BY <1>1 DEF AccessInv, GateTyped, Closes
<1>3. gate'[r] = Closed /\ \A q \in Request \ {r} : gate'[q] = gate[q]
  BY DEF AccessInv, GateTyped, Closes
<1>4. SoundRequest(r)'
  BY <1>3, ClosedNext, SoundAtRest
<1>5. \A q \in Request \ {r} : SoundRequest(q)'
  BY <1>3, SoundOthers DEF SameRequest, AccessInv, GateInv
<1> QED
  BY <1>2, <1>4, <1>5 DEF GateInv

LEMMA FinishStep ==
    ASSUME AccessInv, NEW r \in Request, FinishRequest(r), Closes(r), SameTokens, DOMAIN token' = Jti
    PROVE  GateTyped' /\ MintedInv' /\ GateInv'
<1>1. /\ UNCHANGED <<now, jti, cache>> /\ at'[r] = "idle"
      /\ \A q \in Request \ {r} : at'[q] = at[q] /\ started'[q] = started[q] /\ checked'[q] = checked[q]
  BY DEF FinishRequest, Leave, Goto, AccessInv, IInv, TypeOK
<1>2. MintedInv'
  BY <1>1 DEF AccessInv, MintedInv
<1> QED
  BY <1>1, <1>2, LeaveStep

LEMMA NoTokenSigned == UNCHANGED token => SameTokens
BY DEF SameTokens

\* A token that is signed has a jti of its own.
LEMMA TokenSigned ==
    ASSUME AccessInv, NEW m \in Minted, NEW claims, sign(m, claims)
    PROVE  SameTokens /\ DOMAIN token' = Jti
BY DisjointAssumption DEF sign, SameTokens, AccessInv, GateTyped, Jti

\* A guard's verdict changes the gate alone.
LEMMA PassStep ==
    ASSUME AccessInv, NEW r \in Request, NEW entry \in Entry, Passes(r, entry),
           at[r] = "granted" /\ entry.next # "mfa",
           entry.next \in {"rbac", "handler"} =>
               /\ entry.passed <= checked[r] + Pause
               /\ requiresMfa(user(r)) => \E t \in user(r).mfaVerifiedAt : entry.passed <= t + Window
    PROVE  GateTyped' /\ MintedInv' /\ GateInv'
<1>1. /\ UNCHANGED <<now, cache, at, jti, started, checked, token>>
      /\ gate' = [gate EXCEPT ![r] = entry]
  BY DEF Passes, vars
<1>2. GateTyped' /\ MintedInv'
  BY <1>1 DEF AccessInv, GateTyped, MintedInv
<1>3. gate'[r] = entry /\ \A q \in Request \ {r} : gate'[q] = gate[q]
  BY <1>1 DEF AccessInv, GateTyped
<1>4. SoundRequest(r)'
  <2>1. jti[r] \in Session
    BY DEF AccessInv, GateInv, SoundRequest
  <2>2. user(r)' = user(r)
    BY <1>1 DEF user
  <2> QED
    BY <1>1, <1>3, <2>1, <2>2 DEF SoundRequest, requiresMfa
<1>5. \A q \in Request \ {r} : SoundRequest(q)'
  BY <1>1, <1>3, NoTokenSigned, SoundOthers DEF SameRequest, AccessInv, GateInv
<1> QED
  BY <1>2, <1>4, <1>5 DEF GateInv

LEMMA MfaStep ==
    ASSUME AccessInv, NEW r \in Request, MfaGuard(r)
    PROVE  GateTyped' /\ MintedInv' /\ GateInv'
<1>1. gate[r] \in Entry /\ now \in Nat /\ gate[r].next = "mfa"
  BY DEF AccessInv, GateTyped, IInv, TypeOK, MfaGuard
<1>2. at[r] = "granted" /\ now <= checked[r] + Pause
  BY <1>1 DEF AccessInv, GateInv, SoundRequest
<1>3. CASE Passes(r, Forbidden)
  <2>1. Forbidden \in Entry /\ Forbidden.next = "forbidden"
    BY DEF Forbidden, Before, Entry, Guard
  <2> QED
    BY <1>2, <1>3, <2>1, PassStep
<1>4. ASSUME Passes(r, Before("rbac", gate[r].codes, now)),
             requiresMfa(user(r)) => \E t \in user(r).mfaVerifiedAt : now <= t + Window
      PROVE  GateTyped' /\ MintedInv' /\ GateInv'
  <2>1. /\ Before("rbac", gate[r].codes, now) \in Entry
        /\ Before("rbac", gate[r].codes, now).next = "rbac"
        /\ Before("rbac", gate[r].codes, now).passed = now
    BY <1>1 DEF Before, Entry, Guard
  <2> QED
    BY <1>2, <1>4, <2>1, PassStep
<1> QED
  BY <1>3, <1>4 DEF MfaGuard

LEMMA RbacStep ==
    ASSUME AccessInv, NEW r \in Request, RbacGuard(r)
    PROVE  GateTyped' /\ MintedInv' /\ GateInv'
<1>1. gate[r] \in Entry /\ gate[r].next = "rbac"
  BY DEF AccessInv, GateTyped, RbacGuard
<1>2. /\ at[r] = "granted" /\ gate[r].passed <= checked[r] + Pause
      /\ requiresMfa(user(r)) => \E t \in user(r).mfaVerifiedAt : gate[r].passed <= t + Window
  BY <1>1 DEF AccessInv, GateInv, SoundRequest
<1>3. CASE Passes(r, Forbidden)
  <2>1. Forbidden \in Entry /\ Forbidden.next = "forbidden"
    BY DEF Forbidden, Before, Entry, Guard
  <2> QED
    BY <1>2, <1>3, <2>1, PassStep
<1>4. CASE Passes(r, Before("handler", {}, gate[r].passed))
  <2>1. /\ Before("handler", {}, gate[r].passed) \in Entry
        /\ Before("handler", {}, gate[r].passed).next = "handler"
        /\ Before("handler", {}, gate[r].passed).passed = gate[r].passed
    BY <1>1 DEF Before, Entry, Guard
  <2> QED
    BY <1>2, <1>4, <2>1, PassStep
<1> QED
  BY <1>3, <1>4 DEF RbacGuard

\* Time passes: no request is at MfaGuard, and nothing else is about the clock.
LEMMA TickStep == AccessInv /\ AccessTick => GateTyped' /\ MintedInv' /\ GateInv'
<1> SUFFICES ASSUME AccessInv, AccessTick PROVE GateTyped' /\ MintedInv' /\ GateInv'
  OBVIOUS
<1>1. /\ UNCHANGED <<at, jti, started, checked, token, gate>>
      /\ \A r \in Request : gate[r].next # "mfa"
      /\ \A j \in Jti : cache'[j] = cache[j] \/ cache'[j] = NoLine
  BY DEF AccessTick, Tick, UnchangedRequest
<1>2. GateTyped' /\ MintedInv'
  BY <1>1 DEF AccessInv, GateTyped, MintedInv, NoLine, Jti
<1>3. GateInv'
  BY <1>1 DEF AccessInv, GateInv, SoundRequest, requiresMfa, user
<1> QED
  BY <1>2, <1>3

LEMMA PresentStep ==
    ASSUME AccessInv, NEW r \in Request, Present(r)
    PROVE  GateTyped' /\ MintedInv' /\ GateInv'
<1>1. PICK j \in Jti : Arrive(r, j)
  BY DEF Present
<1>2. UNCHANGED <<now, cache, token, gate>> /\ at[r] = "idle" /\ at'[r] = "cache"
  BY <1>1 DEF Present, Arrive, Goto, AccessInv, IInv, TypeOK
<1>3. GateTyped' /\ MintedInv'
  BY <1>2 DEF AccessInv, GateTyped, MintedInv
<1>4. \A q \in Request \ {r} : SameRequest(q)
  BY <1>1, <1>2 DEF Arrive, Goto, SameRequest, AccessInv, IInv, TypeOK
<1>5. gate'[r].next = "none"
  BY <1>2 DEF AccessInv, GateInv, SoundRequest
<1>6. SoundRequest(r)'
  BY <1>2, <1>5, SoundAtRest
<1>7. \A q \in Request \ {r} : SoundRequest(q)'
  BY <1>2, <1>4, NoTokenSigned, SoundOthers DEF AccessInv, GateInv
<1> QED
  BY <1>3, <1>6, <1>7 DEF GateInv

LEMMA SignOutStep ==
    ASSUME AccessInv, NEW r \in Request, SignOut(r)
    PROVE  GateTyped' /\ MintedInv' /\ GateInv'
<1>1. /\ UNCHANGED <<now, cache, jti, checked, token>> /\ at'[r] = "poison" /\ Closes(r)
      /\ \A q \in Request \ {r} : at'[q] = at[q] /\ started'[q] = started[q]
  BY DEF SignOut, signOut, Goto, AccessInv, IInv, TypeOK
<1>2. MintedInv' /\ DOMAIN token' = Jti
  BY <1>1 DEF AccessInv, MintedInv, GateTyped
<1> QED
  BY <1>1, <1>2, NoTokenSigned, LeaveStep

LEMMA PoisonStep ==
    ASSUME AccessInv, NEW r \in Request, Poison(r)
    PROVE  GateTyped' /\ MintedInv' /\ GateInv'
<1>1. /\ UNCHANGED <<now, jti, token, gate>> /\ at[r] = "poison" /\ at'[r] = "idle"
      /\ \A q \in Request \ {r} : SameRequest(q)
  BY DEF Poison, poisonCache, Leave, Goto, SameRequest, AccessInv, IInv, TypeOK
<1>2. \A j \in Jti : SameLine(j) \/ cache'[j].value = "revoked"
  BY WrittenLine DEF Poison, poisonCache, AccessInv, IInv
<1>3. GateTyped' /\ MintedInv'
  BY <1>1, <1>2 DEF AccessInv, GateTyped, MintedInv, SameLine, Jti
<1>4. gate'[r].next = "none"
  BY <1>1 DEF AccessInv, GateInv, SoundRequest
<1>5. SoundRequest(r)'
  BY <1>1, <1>4, SoundAtRest
<1>6. \A q \in Request \ {r} : SoundRequest(q)'
  BY <1>1, NoTokenSigned, SoundOthers DEF AccessInv, GateInv
<1> QED
  BY <1>3, <1>5, <1>6 DEF GateInv

LEMMA ControllerStep ==
    ASSUME AccessInv, NEW r \in Request, MfaController(r) \/ Answer(r)
    PROVE  GateTyped' /\ MintedInv' /\ GateInv'
<1>1. FinishRequest(r) /\ Closes(r)
  BY DEF MfaController, enroll, verify, consumeBackupCode, Answer
<1>2. UNCHANGED token \/ \E m \in Minted : sign(m, user(r))
  BY DEF MfaController, enroll, verify, consumeBackupCode, Answer
<1>3. SameTokens /\ DOMAIN token' = Jti
  <2>1. CASE UNCHANGED token
    BY <2>1, NoTokenSigned DEF AccessInv, GateTyped
  <2>2. CASE \E m \in Minted : sign(m, user(r))
    BY <2>2, TokenSigned
  <2> QED
    BY <1>2, <2>1, <2>2
<1> QED
  BY <1>1, <1>3, FinishStep

LEMMA AccessInvStep == AccessInv /\ [AccessNext]_accessVars => AccessInv'
<1> SUFFICES ASSUME AccessInv, [AccessNext]_accessVars PROVE AccessInv'
  OBVIOUS
<1>1. IInv'
  BY AccessStep, TypeStep, RestStep DEF AccessInv, IInv, Rest
<1>2. CASE UNCHANGED accessVars
  BY <1>1, <1>2 DEF accessVars, vars, AccessInv, GateTyped, MintedInv, GateInv, SoundRequest, requiresMfa, user
<1>3. CASE AccessNext
  <2>1. GateTyped' /\ MintedInv' /\ GateInv'
    BY <1>3, TickStep, PresentStep, EnterStep, MfaStep, RbacStep, ControllerStep, SignOutStep,
       PoisonStep DEF AccessNext
  <2> QED
    BY <1>1, <2>1 DEF AccessInv
<1> QED
  BY <1>2, <1>3

-----------------------------------------------------------------------------

\* Whatever tokens MFA signs and however slow the guards are, a request of an
\* officer that reaches its handler is of a session that was valid, and of a
\* verification that was in its window, not longer ago than the bounds say.
THEOREM OfficersAreAdmitted == AccessSpec => []OfficersAdmitted
<1>1. AccessInv => OfficersAdmitted
  <2> SUFFICES ASSUME AccessInv, NEW r \in Request, gate[r].next = "handler", requiresMfa(user(r))
               PROVE  /\ jti[r] \in Session
                      /\ gate[r].passed < lastValid[jti[r]] + TTL + 2 * Pause
                      /\ \E t \in user(r).mfaVerifiedAt : gate[r].passed <= t + Window
    BY DEF OfficersAdmitted
  <2>1. /\ at[r] = "granted" /\ jti[r] \in Session
        /\ gate[r].passed <= checked[r] + Pause
        /\ \E t \in user(r).mfaVerifiedAt : gate[r].passed <= t + Window
    BY DEF AccessInv, GateInv, SoundRequest
  <2>2. checked[r] < lastValid[jti[r]] + TTL + Pause
    BY <2>1 DEF AccessInv, IInv, StaleGrantBounded
  <2>3. /\ gate[r].passed \in Nat /\ checked[r] \in Nat /\ lastValid[jti[r]] \in Nat
        /\ TTL \in Nat /\ Pause \in Nat
    BY <2>1, TimeAssumption DEF AccessInv, GateTyped, Entry, IInv, TypeOK
  <2> QED
    BY <2>1, <2>2, <2>3
<1>2. AccessInv /\ [AccessNext]_accessVars => AccessInv'
  BY AccessInvStep
<1> QED
  BY <1>1, <1>2, InitAccessInv, PTL DEF AccessSpec

=============================================================================
