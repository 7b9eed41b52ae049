-------------------------- MODULE Credentials_proofs --------------------------
(***************************************************************************)
(* Proofs about Credentials for any requests, tokens and users, any time   *)
(* to live and any bound on the clock.                                     *)
(***************************************************************************)
EXTENDS Credentials, TLAPS

USE DisjointAssumption, UsesAssumption, UserOfAssumption, NoneAssumption, TimeAssumption

-----------------------------------------------------------------------------
(* The inductive invariant.                                                *)

\* The row of a token is locked by a request whose UPDATE matched it and whose
\* transaction is open, the row of a user by one that is about to commit; a
\* transaction that consumed a link has nothing left to fail at.
LockInv ==
    /\ \A t \in Token, r \in Request : rowLock[t] = r =>
           /\ token[r] = t
           /\ pc[r] \in {"hash", "password", "write", "skip"}
           /\ consumer[t] = NoRequest /\ expires[t] > 0
           /\ t \in Link => pc[r] = "write"
    /\ \A r \in Request : pc[r] \in {"hash", "password", "write"} => rowLock[token[r]] = r
    /\ \A r \in Request : pc[r] \in {"hash", "password"} => token[r] \in Reset
    /\ \A u \in User, r \in Request :
           userLock[u] = r <=> pc[r] = "write" /\ token[r] \in Reset /\ UserOf[token[r]] = u

\* A consumed token was issued and its request is done.
ConsumerInv ==
    \A t \in Token : consumer[t] # NoRequest =>
        /\ expires[t] > 0
        /\ token[consumer[t]] = t /\ pc[consumer[t]] = "done"

\* An audit row of a consumption names the request that consumed the token.
EffectInv ==
    \A a \in audit : a.action = "consume" =>
        /\ a.token = token[a.request]
        /\ consumer[a.token] = a.request

\* A password was set by a reset of its user, once.
PasswordInv ==
    /\ \A u \in User : \A i \in DOMAIN passwords[u] :
           /\ token[passwords[u][i]] \in Reset
           /\ UserOf[token[passwords[u][i]]] = u
           /\ pc[passwords[u][i]] = "done"
    /\ \A u \in User : \A i, j \in DOMAIN passwords[u] :
           passwords[u][i] = passwords[u][j] => i = j
    /\ \A r \in Request : answer[r] = "ok" /\ token[r] \in Reset => r \in Resets(UserOf[token[r]])

IInv == TypeOK /\ LockInv /\ ConsumerInv /\ EffectInv /\ AuditComplete /\ PasswordInv

-----------------------------------------------------------------------------
(* What the operators do.                                                  *)

\* A request that sets a password joins those that have.
LEMMA AppendedRequest ==
    ASSUME NEW s \in Seq(Request), NEW r \in Request
    PROVE  /\ Append(s, r) \in Seq(Request)
           /\ DOMAIN Append(s, r) = DOMAIN s \cup {Len(s) + 1}
           /\ Len(s) + 1 \notin DOMAIN s
           /\ \A i \in DOMAIN s : Append(s, r)[i] = s[i]
           /\ Append(s, r)[Len(s) + 1] = r
OBVIOUS

LEMMA TokenFacts ==
    ASSUME TypeOK, NEW r \in Request
    PROVE  /\ token[r] \in Token
           /\ token[r] \in Reset => UserOf[token[r]] \in User
           /\ token[r] \in Link \/ token[r] \in Reset
BY DEF TypeOK, Token

\* What issuing a token does.
Issues(r) ==
    /\ pc[r] = "idle" /\ expires[token[r]] = 0
    /\ \E date \in 1..(MaxTime + LinkTTL + ResetTTL) :
          expires' = [expires EXCEPT ![token[r]] = date]
    /\ audit' = audit \cup {AuditOf("request", token[r], r)}
    /\ pc' = [pc EXCEPT ![r] = "mail"]
    /\ now' = now /\ consumer' = consumer /\ passwords' = passwords /\ mailed' = mailed
    /\ rowLock' = rowLock /\ userLock' = userLock
    /\ token' = token /\ asked' = asked /\ answer' = answer

LEMMA IssueEffect ==
    ASSUME TypeOK, NEW r \in Request, issueLink(r) \/ issueReset(r)
    PROVE  Issues(r)
<1>1. /\ now + LinkTTL \in 1..(MaxTime + LinkTTL + ResetTTL)
      /\ now + ResetTTL \in 1..(MaxTime + LinkTTL + ResetTTL)
  BY DEF TypeOK
<1>2. CASE issueLink(r)
  BY <1>1, <1>2 DEF Issues, issueLink, Issued, Goto, locks
<1>3. CASE issueReset(r)
  BY <1>1, <1>3 DEF Issues, issueReset, Issued, Goto, locks
<1>4. QED
  BY <1>2, <1>3

\* What a consuming UPDATE does: it matches and locks, or it does nothing.
Consumes(r) ==
    /\ pc[r] = "consume"
    /\ \/ /\ consumer[token[r]] = NoRequest /\ expires[token[r]] > 0
          /\ rowLock[token[r]] = NoRequest
          /\ rowLock' = [rowLock EXCEPT ![token[r]] = r]
          /\ \/ token[r] \in Link /\ pc' = [pc EXCEPT ![r] = "write"]
             \/ token[r] \in Reset /\ pc' = [pc EXCEPT ![r] = "hash"]
       \/ rowLock' = rowLock /\ pc' = [pc EXCEPT ![r] = "skip"]
    /\ expires' = expires /\ consumer' = consumer /\ passwords' = passwords /\ audit' = audit
    /\ now' = now /\ mailed' = mailed /\ userLock' = userLock
    /\ token' = token /\ asked' = asked /\ answer' = answer

LEMMA ConsumeEffect ==
    ASSUME TypeOK, NEW r \in Request, consumeLink(r) \/ consumeReset(r)
    PROVE  Consumes(r)
<1>1. asked[r] \in Nat /\ expires[token[r]] \in Nat
  BY DEF TypeOK
<1>2. CASE consumeLink(r)
  BY <1>1, <1>2 DEF Consumes, consumeLink, Consume, Matches, Goto, tables
<1>3. CASE consumeReset(r)
  BY <1>1, <1>3 DEF Consumes, consumeReset, Consume, Matches, Goto, tables
<1>4. QED
  BY <1>2, <1>3

\* What a commit does to the tables: the token is consumed if its row is
\* locked, and a transaction that was not skipped installs the rest.
Commits(r) ==
    /\ pc[r] \in {"write", "skip"} /\ pc' = [pc EXCEPT ![r] = "done"]
    /\ token' = token /\ expires' = expires /\ mailed' = mailed /\ now' = now /\ asked' = asked
    /\ \/ /\ rowLock[token[r]] = r
          /\ consumer[token[r]] = NoRequest /\ expires[token[r]] > 0
          /\ consumer' = [consumer EXCEPT ![token[r]] = r]
       \/ /\ rowLock[token[r]] # r /\ pc[r] = "skip"
          /\ consumer' = consumer
    /\ IF pc[r] = "write" THEN audit' = audit \cup {AuditOf("consume", token[r], r)}
       ELSE audit' = audit
    /\ IF pc[r] = "write" /\ token[r] \in Reset
       THEN passwords' = [passwords EXCEPT ![UserOf[token[r]]] = Append(@, r)]
       ELSE passwords' = passwords
    /\ answer'[r] = "ok" => pc[r] = "write"
    /\ \A q \in Request \ {r} : answer'[q] = answer[q]

LEMMA CommitEffect ==
    ASSUME IInv, NEW r \in Request, Commit(r)
    PROVE  Commits(r)
<1> USE DEF IInv, TypeOK
<1>1. /\ pc[r] \in {"write", "skip"} /\ pc' = [pc EXCEPT ![r] = "done"]
      /\ token' = token /\ expires' = expires /\ mailed' = mailed /\ now' = now /\ asked' = asked
      /\ answer'[r] = "ok" => pc[r] = "write"
      /\ \A q \in Request \ {r} : answer'[q] = answer[q]
  BY DEF Commit, Answer, Goto, Thrown
<1>2. /\ consumer' = [t \in Token |-> IF rowLock[t] = r THEN r ELSE consumer[t]]
      /\ passwords' = [u \in User |-> IF userLock[u] = r THEN Append(passwords[u], r) ELSE passwords[u]]
      /\ IF pc[r] = "write" THEN audit' = audit \cup {AuditOf("consume", token[r], r)}
         ELSE audit' = audit
  BY <1>1 DEF Commit, Installed, Consumption
<1>3. token[r] \in Token /\ \A t \in Token : rowLock[t] = r => t = token[r]
  BY DEF LockInv
<1>4. \/ /\ rowLock[token[r]] = r
         /\ consumer[token[r]] = NoRequest /\ expires[token[r]] > 0
         /\ consumer' = [consumer EXCEPT ![token[r]] = r]
      \/ /\ rowLock[token[r]] # r /\ pc[r] = "skip"
         /\ consumer' = consumer
  <2>1. CASE rowLock[token[r]] = r
    <3>1. consumer' = [consumer EXCEPT ![token[r]] = r]
      BY <1>2, <1>3, <2>1
    <3>2. QED
      BY <1>3, <2>1, <3>1 DEF LockInv
  <2>2. CASE rowLock[token[r]] # r
    <3>1. consumer' = consumer
      BY <1>2, <1>3, <2>2
    <3>2. QED
      BY <1>1, <2>2, <3>1 DEF LockInv
  <2>3. QED
    BY <2>1, <2>2
<1>5. IF pc[r] = "write" /\ token[r] \in Reset
      THEN passwords' = [passwords EXCEPT ![UserOf[token[r]]] = Append(@, r)]
      ELSE passwords' = passwords
  <2>1. CASE pc[r] = "write" /\ token[r] \in Reset
    <3>1. \A u \in User : userLock[u] = r <=> u = UserOf[token[r]]
      BY <2>1 DEF LockInv
    <3>2. passwords' = [passwords EXCEPT ![UserOf[token[r]]] = Append(@, r)]
      <4>1. PICK w \in User : w = UserOf[token[r]]
        BY <2>1, TokenFacts
      <4>2. passwords \in [User -> Seq(Request)] /\ \A u \in User : userLock[u] = r <=> u = w
        BY <3>1, <4>1
      <4> HIDE DEF IInv, TypeOK
      <4>3. passwords' = [passwords EXCEPT ![w] = Append(@, r)]
        BY <1>2, <4>2
      <4>4. QED
        BY <4>1, <4>3
    <3>3. QED
      BY <2>1, <3>2
  <2>2. CASE ~(pc[r] = "write" /\ token[r] \in Reset)
    <3>1. \A u \in User : userLock[u] # r
      BY <2>2 DEF LockInv
    <3>2. passwords' = passwords
      BY <1>2, <3>1
    <3>3. QED
      BY <2>2, <3>2
  <2>3. QED
    BY <2>1, <2>2
<1>6. QED
  BY <1>1, <1>2, <1>4, <1>5 DEF Commits

\* Next is one of these steps.
LEMMA Steps ==
    ASSUME [Next]_vars
    PROVE  \/ Tick \/ UNCHANGED vars
           \/ \E r \in Request :
                 \/ issueLink(r) \/ issueReset(r) \/ issueUnknown(r) \/ IssueThrows(r) \/ send(r)
                 \/ Present(r) \/ consumeLink(r) \/ consumeReset(r)
                 \/ token[r] \in Reset /\ hashPassword(r)
                 \/ token[r] \in Reset /\ updatePassword(r)
                 \/ Commit(r) \/ Abort(r)
BY DEF Next, request, verify, forgot, reset

-----------------------------------------------------------------------------
(* Each conjunct of the invariant is preserved by every step.              *)

LEMMA TypeStep == IInv /\ [Next]_vars => TypeOK'
<1> SUFFICES ASSUME IInv, [Next]_vars PROVE TypeOK'
  OBVIOUS
<1> USE DEF IInv, Goto, Answer, Running, tables, locks
<1>1. ASSUME NEW r \in Request, issueLink(r) \/ issueReset(r) PROVE TypeOK'
  <2>1. AuditOf("request", token[r], r) \in AuditRow
    BY DEF AuditOf, AuditRow, TypeOK
  <2>2. Issues(r)
    BY <1>1, IssueEffect
  <2>3. QED
    BY <2>1, <2>2 DEF TypeOK, Issues
<1>2. ASSUME NEW r \in Request, issueUnknown(r) PROVE TypeOK'
  <2>1. AuditOf("request", NoToken, r) \in AuditRow
    BY DEF AuditOf, AuditRow
  <2>2. QED
    BY <1>2, <2>1 DEF TypeOK, issueUnknown
<1>3. ASSUME NEW r \in Request, IssueThrows(r) \/ send(r) PROVE TypeOK'
  <2>1. CASE IssueThrows(r)
    BY <2>1 DEF TypeOK, IssueThrows
  <2>2. CASE send(r)
    <3>1. /\ token[r] \in Token
          /\ mailed' = mailed \/ mailed' = mailed \cup {token[r]}
          /\ pc' = [pc EXCEPT ![r] = "done"]
          /\ \E what \in {"sent", "error"} : answer' = [answer EXCEPT ![r] = what]
      BY <2>2, TokenFacts DEF send
    <3>2. mailed' \subseteq Token
      BY <3>1 DEF TypeOK
    <3>3. QED
      BY <2>2, <3>1, <3>2 DEF TypeOK, send
  <2>3. QED
    BY <1>3, <2>1, <2>2
<1>4. ASSUME NEW r \in Request, Present(r) PROVE TypeOK'
  BY <1>4 DEF TypeOK, Present
<1>5. ASSUME NEW r \in Request, consumeLink(r) \/ consumeReset(r) PROVE TypeOK'
  <2>1. Consumes(r)
    BY <1>5, ConsumeEffect
  <2>2. rowLock' \in [Token -> Request \cup {NoRequest}]
    <3>1. rowLock' = rowLock \/ rowLock' = [rowLock EXCEPT ![token[r]] = r]
      BY <2>1 DEF Consumes
    <3>2. rowLock \in [Token -> Request \cup {NoRequest}]
      BY DEF TypeOK
    <3>3. QED
      BY <3>1, <3>2
  <2>3. pc' \in [Request -> Running \cup {"idle", "mail", "done"}]
    <3>1. PICK place \in {"write", "hash", "skip"} : pc' = [pc EXCEPT ![r] = place]
      BY <2>1 DEF Consumes
    <3>2. QED
      BY <3>1 DEF TypeOK
  <2>4. QED
    BY <2>1, <2>2, <2>3 DEF TypeOK, Consumes
<1>6. ASSUME NEW r \in Request, hashPassword(r) PROVE TypeOK'
  BY <1>6 DEF TypeOK, hashPassword
<1>7. ASSUME NEW r \in Request, token[r] \in Reset, updatePassword(r) PROVE TypeOK'
  BY <1>7 DEF TypeOK, updatePassword
<1>8. ASSUME NEW r \in Request, Commit(r) PROVE TypeOK'
  <2>1. AuditOf("consume", token[r], r) \in AuditRow
    BY DEF AuditOf, AuditRow, TypeOK
  <2>2. Commits(r)
    BY <1>8, CommitEffect
  <2>3. passwords' \in [User -> Seq(Request)]
    <3>1. passwords \in [User -> Seq(Request)]
      BY DEF TypeOK
    <3>2. \A u \in User : Append(passwords[u], r) \in Seq(Request)
      BY <3>1
    <3>3. CASE passwords' = passwords
      BY <3>1, <3>3
    <3>4. CASE passwords' # passwords
      <4>1. PICK u \in User : passwords' = [passwords EXCEPT ![u] = Append(@, r)]
        BY <2>2, <3>4, TokenFacts DEF Commits
      <4>2. QED
        BY <3>1, <3>2, <4>1
    <3>5. QED
      BY <3>3, <3>4
  <2>4. /\ rowLock' \in [Token -> Request \cup {NoRequest}]
        /\ userLock' \in [User -> Request \cup {NoRequest}]
        /\ answer' \in [Request -> {"none", "sent", "ok", "false", "error"}]
    BY <1>8 DEF TypeOK, Commit, ReleaseLocks, Thrown
  <2>5. consumer' \in [Token -> Request \cup {NoRequest}]
    <3>1. consumer' = consumer \/ consumer' = [consumer EXCEPT ![token[r]] = r]
      BY <2>2 DEF Commits
    <3>2. consumer \in [Token -> Request \cup {NoRequest}]
      BY DEF TypeOK
    <3>3. QED
      BY <3>1, <3>2
  <2>6. audit' \subseteq AuditRow
    BY <2>1, <2>2 DEF TypeOK, Commits
  <2>7. QED
    BY <2>2, <2>3, <2>4, <2>5, <2>6 DEF TypeOK, Commits
<1>9. ASSUME NEW r \in Request, Abort(r) PROVE TypeOK'
  BY <1>9 DEF TypeOK, Abort, ReleaseLocks, Thrown
<1>10. CASE Tick
  BY <1>10 DEF TypeOK, Tick
<1>11. CASE UNCHANGED vars
  BY <1>11 DEF TypeOK, vars
<1>12. QED
  BY <1>1, <1>2, <1>3, <1>4, <1>5, <1>6, <1>7, <1>8, <1>9, <1>10, <1>11, Steps

LEMMA LockStep == IInv /\ [Next]_vars => LockInv'
<1> SUFFICES ASSUME IInv, [Next]_vars PROVE LockInv'
  OBVIOUS
<1> USE DEF IInv, Goto, Answer, tables, locks
<1>1. ASSUME NEW r \in Request, issueLink(r) \/ issueReset(r) PROVE LockInv'
  <2>1. Issues(r)
    BY <1>1, IssueEffect
  <2>2. QED
    BY <2>1 DEF Issues, TypeOK, LockInv
<1>2. ASSUME NEW r \in Request, issueUnknown(r) PROVE LockInv'
  BY <1>2 DEF issueUnknown, TypeOK, LockInv
<1>3. ASSUME NEW r \in Request, IssueThrows(r) \/ send(r) PROVE LockInv'
  <2>1. CASE IssueThrows(r)
    BY <2>1 DEF IssueThrows, TypeOK, LockInv
  <2>2. CASE send(r)
    BY <2>2 DEF send, TypeOK, LockInv
  <2>3. QED
    BY <1>3, <2>1, <2>2
<1>4. ASSUME NEW r \in Request, Present(r) PROVE LockInv'
  BY <1>4 DEF Present, TypeOK, LockInv
<1>5. ASSUME NEW r \in Request, consumeLink(r) \/ consumeReset(r) PROVE LockInv'
  <2>1. Consumes(r)
    BY <1>5, ConsumeEffect
  <2>2. CASE rowLock' = rowLock /\ pc' = [pc EXCEPT ![r] = "skip"]
    BY <2>1, <2>2 DEF Consumes, TypeOK, LockInv
  <2>3. ASSUME NEW place, rowLock' = [rowLock EXCEPT ![token[r]] = r], pc' = [pc EXCEPT ![r] = place],
               consumer[token[r]] = NoRequest, expires[token[r]] > 0, rowLock[token[r]] = NoRequest,
               \/ token[r] \in Link /\ place = "write"
               \/ token[r] \in Reset /\ place = "hash"
        PROVE  LockInv'
    <3>1. /\ pc[r] = "consume" /\ token' = token /\ userLock' = userLock
          /\ consumer' = consumer /\ expires' = expires
      BY <2>1 DEF Consumes
    <3>2. token[r] \in Token /\ ~(token[r] \in Link /\ token[r] \in Reset)
      BY TokenFacts
    <3>3. \A t \in Token : rowLock'[t] = (IF t = token[r] THEN r ELSE rowLock[t])
      BY <2>3, <3>2 DEF TypeOK
    <3>4. \A q \in Request : pc'[q] = (IF q = r THEN place ELSE pc[q])
      BY <2>3 DEF TypeOK
    <3>5. \A q \in Request : rowLock[token[q]] = q => token[q] # token[r]
      BY <2>3, NoneAssumption
    <3>6. \A q \in Request : token[q] \in Token
      BY DEF TypeOK
    <3>7. QED
      BY <2>3, <3>1, <3>2, <3>3, <3>4, <3>5, <3>6 DEF LockInv
  <2>4. QED
    BY <2>1, <2>2, <2>3 DEF Consumes
<1>6. ASSUME NEW r \in Request, token[r] \in Reset, hashPassword(r) PROVE LockInv'
  <2>1. /\ pc[r] = "hash" /\ token' = token /\ rowLock' = rowLock /\ userLock' = userLock
        /\ consumer' = consumer /\ expires' = expires
    BY <1>6 DEF hashPassword
  <2>2. PICK place \in {"password", "skip"} : pc' = [pc EXCEPT ![r] = place]
    BY <1>6 DEF hashPassword
  <2>3. \A q \in Request : pc'[q] = (IF q = r THEN place ELSE pc[q])
    BY <2>2 DEF TypeOK
  <2>4. \A t \in Link : token[r] # t
    BY <1>6
  <2>5. QED
    BY <1>6, <2>1, <2>3, <2>4 DEF LockInv
<1>7. ASSUME NEW r \in Request, token[r] \in Reset, updatePassword(r) PROVE LockInv'
  BY <1>7 DEF updatePassword, TypeOK, LockInv
<1>8. ASSUME NEW r \in Request, Commit(r) PROVE LockInv'
  <2>1. Commits(r)
    BY <1>8, CommitEffect
  <2>2. /\ pc' = [pc EXCEPT ![r] = "done"] /\ token' = token /\ expires' = expires
        /\ \A t \in Token : rowLock[t] # r => consumer'[t] = consumer[t]
    BY <2>1, TokenFacts DEF TypeOK, Commits
  <2>3. /\ rowLock' = [t \in Token |-> IF rowLock[t] = r THEN NoRequest ELSE rowLock[t]]
        /\ userLock' = [u \in User |-> IF userLock[u] = r THEN NoRequest ELSE userLock[u]]
    BY <1>8 DEF Commit, ReleaseLocks
  <2>4. QED
    BY <2>2, <2>3 DEF TypeOK, LockInv
<1>9. ASSUME NEW r \in Request, Abort(r) PROVE LockInv'
  BY <1>9 DEF Abort, ReleaseLocks, TypeOK, LockInv
<1>10. CASE Tick
  BY <1>10 DEF Tick, TypeOK, LockInv
<1>11. CASE UNCHANGED vars
  BY <1>11 DEF vars, TypeOK, LockInv
<1>12. QED
  BY <1>1, <1>2, <1>3, <1>4, <1>5, <1>6, <1>7, <1>8, <1>9, <1>10, <1>11, Steps

\* Every step but a commit leaves what was consumed, installed and answered ok
\* alone; it may issue a token or record a request.
Calm ==
    /\ consumer' = consumer /\ passwords' = passwords /\ token' = token
    /\ \A q \in Request : pc[q] = "done" => pc'[q] = "done"
    /\ \A q \in Request : answer'[q] = "ok" => answer[q] = "ok"
    /\ \/ expires' = expires /\ audit' = audit
       \/ \E r \in Request : Issues(r)
       \/ expires' = expires /\ \E r \in Request : audit' = audit \cup {AuditOf("request", NoToken, r)}

LEMMA CalmOrCommit == IInv /\ [Next]_vars => Calm \/ \E r \in Request : Commit(r)
<1> SUFFICES ASSUME IInv, [Next]_vars PROVE Calm \/ \E r \in Request : Commit(r)
  OBVIOUS
<1> USE DEF IInv, TypeOK, Goto, Answer, tables, locks, Calm
<1>1. ASSUME NEW r \in Request, issueLink(r) \/ issueReset(r) PROVE Calm
  <2>1. Issues(r)
    BY <1>1, IssueEffect
  <2>2. QED
    BY <2>1 DEF Issues
<1>2. ASSUME NEW r \in Request, issueUnknown(r) PROVE Calm
  BY <1>2 DEF issueUnknown
<1>3. ASSUME NEW r \in Request, IssueThrows(r) \/ send(r) PROVE Calm
  BY <1>3 DEF IssueThrows, send
<1>4. ASSUME NEW r \in Request, Present(r) PROVE Calm
  BY <1>4 DEF Present
<1>5. ASSUME NEW r \in Request, consumeLink(r) \/ consumeReset(r) PROVE Calm
  BY <1>5, ConsumeEffect DEF Consumes
<1>6. ASSUME NEW r \in Request, hashPassword(r) \/ updatePassword(r) PROVE Calm
  BY <1>6 DEF hashPassword, updatePassword
<1>7. ASSUME NEW r \in Request, Abort(r) PROVE Calm
  BY <1>7 DEF Abort, Thrown, Running
<1>8. CASE Tick \/ UNCHANGED vars
  BY <1>8 DEF Tick, vars
<1>9. QED
  BY <1>1, <1>2, <1>3, <1>4, <1>5, <1>6, <1>7, <1>8, Steps

\* The rows of consumptions are not touched by a calm step.
LEMMA CalmRows ==
    ASSUME IInv, Calm
    PROVE  /\ \A a \in audit' : a.action = "consume" => a \in audit
           /\ audit \subseteq audit'
           /\ \A t \in Token : expires[t] > 0 => expires'[t] > 0
           /\ \A t \in Token : expires'[t] > 0 <=>
                  \E r \in Request : AuditOf("request", t, r) \in audit'
<1>1. \A t \in Token : expires[t] > 0 <=> \E r \in Request : AuditOf("request", t, r) \in audit
  BY DEF IInv, AuditComplete
<1>2. \A r, q \in Request, t, w \in Token \cup {NoToken} :
          AuditOf("request", t, r) = AuditOf("request", w, q) => t = w
  BY DEF AuditOf
<1>3. NoToken \notin Token
  BY DEF Token
<1>4. CASE expires' = expires /\ audit' = audit
  BY <1>1, <1>4
<1>5. ASSUME NEW r \in Request, Issues(r)
      PROVE  /\ \A a \in audit' : a.action = "consume" => a \in audit
             /\ audit \subseteq audit'
             /\ \A t \in Token : expires[t] > 0 => expires'[t] > 0
             /\ \A t \in Token : expires'[t] > 0 <=>
                    \E q \in Request : AuditOf("request", t, q) \in audit'
  <2>1. audit' = audit \cup {AuditOf("request", token[r], r)} /\ expires[token[r]] = 0
    BY <1>5 DEF Issues
  <2>2. token[r] \in Token
    BY TokenFacts DEF IInv
  <2>3. \A t \in Token : IF t = token[r] THEN expires'[t] > 0 ELSE expires'[t] = expires[t]
    BY <1>5, <2>2 DEF Issues, IInv, TypeOK
  <2>4. AuditOf("request", token[r], r).action = "request"
    BY DEF AuditOf
  <2>5. QED
    BY <1>1, <1>2, <2>1, <2>2, <2>3, <2>4
<1>6. ASSUME expires' = expires, NEW r \in Request, audit' = audit \cup {AuditOf("request", NoToken, r)}
      PROVE  /\ \A a \in audit' : a.action = "consume" => a \in audit
             /\ audit \subseteq audit'
             /\ \A t \in Token : expires[t] > 0 => expires'[t] > 0
             /\ \A t \in Token : expires'[t] > 0 <=>
                    \E q \in Request : AuditOf("request", t, q) \in audit'
  <2>1. AuditOf("request", NoToken, r).action = "request"
    BY DEF AuditOf
  <2>2. QED
    BY <1>1, <1>2, <1>3, <1>6, <2>1
<1>7. QED
  BY <1>4, <1>5, <1>6 DEF Calm

LEMMA CalmStep ==
    ASSUME IInv, Calm
    PROVE  ConsumerInv' /\ EffectInv' /\ AuditComplete' /\ PasswordInv'
<1>1. /\ consumer' = consumer /\ passwords' = passwords /\ token' = token
      /\ \A q \in Request : pc[q] = "done" => pc'[q] = "done"
      /\ \A q \in Request : answer'[q] = "ok" => answer[q] = "ok"
  BY DEF Calm
<1>2. ConsumerInv'
  BY <1>1, CalmRows DEF IInv, TypeOK, ConsumerInv
<1>3. EffectInv'
  BY <1>1, CalmRows DEF IInv, EffectInv
<1>4. \A t \in Token, r \in Request : AuditOf("consume", t, r) \in audit' <=> AuditOf("consume", t, r) \in audit
  <2>1. \A t \in Token, r \in Request : AuditOf("consume", t, r).action = "consume"
    BY DEF AuditOf
  <2>2. QED
    BY <2>1, CalmRows
<1>5. \A u \in User : Resets(u)' = Resets(u)
  BY <1>1 DEF Resets
<1>6. AuditComplete'
  <2>1. /\ \A t \in Link, r \in Request : AuditOf("consume", t, r) \in audit' <=> consumer'[t] = r
        /\ \A t \in Reset, r \in Request :
               AuditOf("consume", t, r) \in audit' <=> r \in Resets(UserOf[t])' /\ token'[r] = t
    BY <1>1, <1>4, <1>5 DEF IInv, AuditComplete, Token
  <2>2. QED
    BY <2>1, CalmRows DEF AuditComplete
<1>7. PasswordInv'
  <2>1. \A u \in User : \A i \in DOMAIN passwords[u] : passwords[u][i] \in Request
    BY DEF IInv, TypeOK
  <2>2. \A r \in Request : token[r] \in Reset => UserOf[token[r]] \in User
    BY TokenFacts DEF IInv
  <2>3. QED
    BY <1>1, <1>5, <2>1, <2>2 DEF IInv, PasswordInv
<1>8. QED
  BY <1>2, <1>3, <1>6, <1>7

NewResets(u) == {passwords'[u][i] : i \in DOMAIN passwords'[u]}

\* After a commit that installs a password, the request is the last of those
\* that set it.
LEMMA InstalledPassword ==
    ASSUME IInv, NEW r \in Request, Commits(r)
    PROVE  /\ \A u \in User : passwords'[u] = passwords[u] \/ passwords'[u] = Append(passwords[u], r)
           /\ \A u \in User : Resets(u) \subseteq NewResets(u)
           /\ \A u \in User : \A q \in NewResets(u) :
                  q \in Resets(u) \/ (q = r /\ pc[r] = "write" /\ token[r] \in Reset /\ UserOf[token[r]] = u)
           /\ pc[r] = "write" /\ token[r] \in Reset => r \in NewResets(UserOf[token[r]])
           /\ \A u \in User : r \notin Resets(u)
<1>1. \A u \in User : r \notin Resets(u)
  BY DEF IInv, PasswordInv, Resets, Commits
<1>2. CASE pc[r] = "write" /\ token[r] \in Reset
  <2>1. PICK w \in User : w = UserOf[token[r]]
    BY <1>2, TokenFacts DEF IInv
  <2>2. PICK s \in Seq(Request) : s = passwords[w]
    BY DEF IInv, TypeOK
  <2>3. passwords'[w] = Append(s, r) /\ \A u \in User \ {w} : passwords'[u] = passwords[u]
    BY <1>2, <2>1, <2>2 DEF IInv, TypeOK, Commits
  <2>4. NewResets(w) = Resets(w) \cup {r}
    <3> DEFINE z == Append(s, r)
    <3>1. /\ DOMAIN z = DOMAIN s \cup {Len(s) + 1}
          /\ \A i \in DOMAIN s : z[i] = s[i]
          /\ Len(s) + 1 \notin DOMAIN s /\ z[Len(s) + 1] = r
      BY AppendedRequest
    <3> HIDE DEF z
    <3>2. {z[i] : i \in DOMAIN z} \subseteq {s[i] : i \in DOMAIN s} \cup {r}
      BY <3>1
    <3>3. {s[i] : i \in DOMAIN s} \cup {r} \subseteq {z[i] : i \in DOMAIN z}
      BY <3>1
    <3>4. {z[i] : i \in DOMAIN z} = {s[i] : i \in DOMAIN s} \cup {r}
      BY <3>2, <3>3
    <3>5. Resets(w) = {s[i] : i \in DOMAIN s}
      BY <2>2 DEF Resets
    <3>6. NewResets(w) = {z[i] : i \in DOMAIN z}
      BY <2>3 DEF NewResets, z
    <3>7. QED
      BY <3>4, <3>5, <3>6
  <2>5. \A u \in User \ {w} : NewResets(u) = Resets(u)
    BY <2>3 DEF Resets, NewResets
  <2>6. \A u \in User : passwords'[u] = passwords[u] \/ passwords'[u] = Append(passwords[u], r)
    BY <2>2, <2>3
  <2>7. ASSUME NEW u \in User
        PROVE  /\ Resets(u) \subseteq NewResets(u)
               /\ \A q \in NewResets(u) : q \in Resets(u) \/ (q = r /\ w = u)
    BY <2>4, <2>5
  <2>8. r \in NewResets(w)
    BY <2>4
  <2>9. QED
    BY <1>1, <1>2, <2>1, <2>6, <2>7, <2>8
<1>3. CASE ~(pc[r] = "write" /\ token[r] \in Reset)
  <2>1. passwords' = passwords
    BY <1>3 DEF Commits
  <2>2. \A u \in User : NewResets(u) = Resets(u)
    BY <2>1 DEF Resets, NewResets
  <2>3. QED
    BY <1>1, <1>3, <2>1, <2>2
<1>4. QED
  BY <1>2, <1>3

LEMMA CommitStep ==
    ASSUME IInv, NEW r \in Request, Commit(r)
    PROVE  ConsumerInv' /\ EffectInv' /\ AuditComplete' /\ PasswordInv'
<1>1. Commits(r)
  BY CommitEffect
<1>2. /\ token[r] \in Token /\ token' = token /\ expires' = expires
      /\ pc[r] \in {"write", "skip"} /\ pc'[r] = "done"
      /\ \A q \in Request : pc[q] = "done" => pc'[q] = "done"
      /\ \A q \in Request : token[q] \in Token
  BY <1>1, TokenFacts DEF Commits, IInv, TypeOK
<1>3. /\ \A t \in Token : consumer'[t] = consumer[t] \/ (t = token[r] /\ consumer'[t] = r)
      /\ \A t \in Token : consumer[t] # NoRequest => consumer'[t] = consumer[t]
      /\ pc[r] = "write" => consumer'[token[r]] = r
      /\ consumer'[token[r]] = r => expires[token[r]] > 0
      /\ consumer'[token[r]] = r /\ token[r] \in Link => pc[r] = "write"
  <2>1. CASE rowLock[token[r]] = r
    BY <1>1, <1>2, <2>1 DEF Commits, IInv, TypeOK, LockInv
  <2>2. CASE rowLock[token[r]] # r
    <3>1. consumer' = consumer /\ pc[r] = "skip"
      BY <1>1, <2>2 DEF Commits
    <3>2. consumer[token[r]] # r
      BY <1>1, <1>2, <3>1, NoneAssumption DEF IInv, ConsumerInv
    <3>3. QED
      BY <3>1, <3>2
  <2>3. QED
    BY <2>1, <2>2
<1>4. ConsumerInv'
  BY <1>2, <1>3 DEF IInv, TypeOK, ConsumerInv
<1>5. /\ audit \subseteq audit'
      /\ \A a \in audit' : a \in audit \/ (pc[r] = "write" /\ a = AuditOf("consume", token[r], r))
      /\ pc[r] = "write" => AuditOf("consume", token[r], r) \in audit'
  BY <1>1 DEF Commits
<1>6. EffectInv'
  <2> SUFFICES ASSUME NEW a \in audit', a.action = "consume"
               PROVE  a.token = token[a.request] /\ consumer'[a.token] = a.request
    BY <1>2 DEF EffectInv
  <2>1. CASE a \in audit
    <3>1. a.token = token[a.request] /\ consumer[a.token] = a.request /\ a.request \in Request
      BY <2>1 DEF IInv, EffectInv, TypeOK, AuditRow
    <3>2. QED
      BY <1>2, <1>3, <3>1, NoneAssumption
  <2>2. CASE pc[r] = "write" /\ a = AuditOf("consume", token[r], r)
    BY <1>3, <2>2 DEF AuditOf
  <2>3. QED
    BY <1>5, <2>1, <2>2
<1>7. ASSUME NEW t \in Token, NEW q \in Request
      PROVE  AuditOf("consume", t, q) \in audit' <=>
                 AuditOf("consume", t, q) \in audit \/ (q = r /\ t = token[r] /\ pc[r] = "write")
  BY <1>5 DEF AuditOf
<1>8. \A t \in Token : expires'[t] > 0 <=> \E q \in Request : AuditOf("request", t, q) \in audit'
  <2>1. \A t \in Token, q \in Request : AuditOf("request", t, q) \in audit' <=> AuditOf("request", t, q) \in audit
    BY <1>5 DEF AuditOf
  <2>2. QED
    BY <1>2, <2>1 DEF IInv, AuditComplete
<1>9. \A t \in Link, q \in Request : AuditOf("consume", t, q) \in audit' <=> consumer'[t] = q
  <2> SUFFICES ASSUME NEW t \in Link, NEW q \in Request
               PROVE  AuditOf("consume", t, q) \in audit' <=> consumer'[t] = q
    OBVIOUS
  <2>1. t \in Token /\ (AuditOf("consume", t, q) \in audit <=> consumer[t] = q)
    BY DEF IInv, AuditComplete, Token
  <2>2. QED
    BY <1>3, <1>7, <2>1, NoneAssumption
<1>10. \A t \in Reset, q \in Request :
           AuditOf("consume", t, q) \in audit' <=> q \in NewResets(UserOf[t]) /\ token'[q] = t
  <2> SUFFICES ASSUME NEW t \in Reset, NEW q \in Request
               PROVE  AuditOf("consume", t, q) \in audit' <=> q \in NewResets(UserOf[t]) /\ token[q] = t
    BY <1>2
  <2>1. /\ t \in Token /\ UserOf[t] \in User
        /\ AuditOf("consume", t, q) \in audit <=> q \in Resets(UserOf[t]) /\ token[q] = t
    BY DEF IInv, AuditComplete, Token
  <2>2. /\ Resets(UserOf[t]) \subseteq NewResets(UserOf[t])
        /\ q \in NewResets(UserOf[t]) => q \in Resets(UserOf[t]) \/ (q = r /\ pc[r] = "write")
        /\ pc[r] = "write" /\ t = token[r] => r \in NewResets(UserOf[t])
    BY <1>1, <2>1, InstalledPassword
  <2>3. QED
    BY <1>7, <2>1, <2>2
<1>11. AuditComplete'
  BY <1>8, <1>9, <1>10 DEF AuditComplete, Resets, NewResets
<1>12. \A u \in User : \A i \in DOMAIN passwords'[u] :
           /\ token'[passwords'[u][i]] \in Reset
           /\ UserOf[token'[passwords'[u][i]]] = u
           /\ pc'[passwords'[u][i]] = "done"
  <2> SUFFICES ASSUME NEW u \in User, NEW i \in DOMAIN passwords'[u]
               PROVE  /\ token[passwords'[u][i]] \in Reset
                      /\ UserOf[token[passwords'[u][i]]] = u
                      /\ pc'[passwords'[u][i]] = "done"
    BY <1>2
  <2>1. PICK q : q = passwords'[u][i]
    OBVIOUS
  <2>2. q \in NewResets(u)
    BY <2>1 DEF NewResets
  <2>3. CASE q \in Resets(u)
    <3>1. \A j \in DOMAIN passwords[u] : passwords[u][j] \in Request
      BY DEF IInv, TypeOK
    <3>2. token[q] \in Reset /\ UserOf[token[q]] = u /\ pc'[q] = "done"
      BY <1>2, <2>3, <3>1 DEF IInv, PasswordInv, Resets
    <3>3. QED
      BY <2>1, <3>2
  <2>4. CASE q \notin Resets(u)
    <3>1. q = r /\ token[r] \in Reset /\ UserOf[token[r]] = u
      BY <1>1, <2>2, <2>4, InstalledPassword
    <3>2. QED
      BY <1>2, <2>1, <3>1
  <2>5. QED
    BY <2>3, <2>4
<1>13. \A u \in User : \A i, j \in DOMAIN passwords'[u] : passwords'[u][i] = passwords'[u][j] => i = j
  <2> SUFFICES ASSUME NEW u \in User, NEW i \in DOMAIN passwords'[u], NEW j \in DOMAIN passwords'[u],
                      passwords'[u][i] = passwords'[u][j]
               PROVE  i = j
    OBVIOUS
  <2>1. \A k, l \in DOMAIN passwords[u] : passwords[u][k] = passwords[u][l] => k = l
    BY DEF IInv, PasswordInv
  <2>2. CASE passwords'[u] = passwords[u]
    BY <2>1, <2>2
  <2>3. CASE passwords'[u] # passwords[u]
    <3>1. passwords[u] \in Seq(Request) /\ passwords'[u] = Append(passwords[u], r)
      BY <1>1, <2>3, InstalledPassword DEF IInv, TypeOK
    <3>2. \A k \in DOMAIN passwords[u] : passwords[u][k] # r
      BY <1>1, InstalledPassword DEF Resets
    <3>3. QED
      BY <2>1, <3>1, <3>2, AppendedRequest
  <2>4. QED
    BY <2>2, <2>3
<1>14. \A q \in Request : answer'[q] = "ok" /\ token'[q] \in Reset => q \in NewResets(UserOf[token'[q]])
  <2> SUFFICES ASSUME NEW q \in Request, answer'[q] = "ok", token[q] \in Reset
               PROVE  q \in NewResets(UserOf[token[q]])
    BY <1>2
  <2>1. UserOf[token[q]] \in User
    BY TokenFacts DEF IInv
  <2>2. CASE q = r
    <3>1. pc[r] = "write"
      BY <1>1, <2>2 DEF Commits
    <3>2. QED
      BY <1>1, <2>2, <3>1, InstalledPassword
  <2>3. CASE q # r
    <3>1. q \in Resets(UserOf[token[q]])
      BY <1>1, <2>3 DEF Commits, IInv, PasswordInv
    <3>2. QED
      BY <1>1, <2>1, <3>1, InstalledPassword
  <2>4. QED
    BY <2>2, <2>3
<1>15. PasswordInv'
  BY <1>12, <1>13, <1>14 DEF PasswordInv, Resets, NewResets
<1>16. QED
  BY <1>4, <1>6, <1>11, <1>15

LEMMA InitIInv == Init => IInv
<1> SUFFICES ASSUME Init PROVE IInv
  OBVIOUS
<1>1. TypeOK
  BY DEF Init, TypeOK, Token
<1>2. LockInv
  BY <1>1 DEF Init, LockInv
<1>3. ConsumerInv /\ EffectInv /\ AuditComplete
  BY DEF Init, ConsumerInv, EffectInv, AuditComplete, Resets, Token
<1>4. PasswordInv
  BY DEF Init, PasswordInv
<1>5. QED
  BY <1>1, <1>2, <1>3, <1>4 DEF IInv

LEMMA IInvHolds == Spec => []IInv
<1>1. IInv /\ [Next]_vars => IInv'
  BY TypeStep, LockStep, CalmOrCommit, CalmStep, CommitStep DEF IInv
<1>2. QED
  BY <1>1, InitIInv, PTL DEF Spec

-----------------------------------------------------------------------------
(* The theorems.                                                           *)

\* Every reachable state of the requests, the tables and the locks is typed.
THEOREM TypeCorrect == Spec => []TypeOK
BY IInvHolds, PTL DEF IInv

\* However requests interleave, fail or lose their answers, the audit log
\* tells of every token that was issued and of every consumption that had an
\* effect, and of no other.
THEOREM AuditTellsAll == Spec => []AuditComplete
BY IInvHolds, PTL DEF IInv

\* A reset that was answered ok set the password, and no token set two.
THEOREM OkIsKept == Spec => []OkAnswersKept
<1>1. ASSUME IInv PROVE OkAnswersKept
  <2>1. ASSUME NEW u \in User, NEW i \in DOMAIN passwords[u], NEW j \in DOMAIN passwords[u],
               token[passwords[u][i]] = token[passwords[u][j]]
        PROVE  i = j
    <3>1. /\ passwords[u][i] \in Request /\ passwords[u][j] \in Request
          /\ passwords[u][i] \in Resets(u) /\ passwords[u][j] \in Resets(u)
      <4>1. passwords[u] \in Seq(Request)
        BY <1>1 DEF IInv, TypeOK
      <4>2. QED
        BY <4>1 DEF Resets
    <3>2. PICK t \in Reset : t = token[passwords[u][i]] /\ UserOf[t] = u
      BY <1>1 DEF IInv, PasswordInv
    <3>3. /\ AuditOf("consume", t, passwords[u][i]) \in audit
          /\ AuditOf("consume", t, passwords[u][j]) \in audit
      BY <1>1, <2>1, <3>1, <3>2 DEF IInv, AuditComplete
    <3>4. consumer[t] = passwords[u][i] /\ consumer[t] = passwords[u][j]
      BY <1>1, <3>3 DEF IInv, EffectInv, AuditOf
    <3>5. \A k, l \in DOMAIN passwords[u] : passwords[u][k] = passwords[u][l] => k = l
      BY <1>1 DEF IInv, PasswordInv
    <3>6. QED
      BY <3>4, <3>5
  <2>2. QED
    BY <1>1, <2>1 DEF IInv, PasswordInv, OkAnswersKept
<1>2. QED
  BY <1>1, IInvHolds, PTL

\* Two requests that race for a token cannot both win: rows, locks, failures
\* and lost acknowledgments implement a token that is issued once, spent once,
\* and works for the request that spent it or for no one.
THEOREM SpentOnce == Spec => ImplementsSingleUse
<1> DEFINE live == {t \in Token : expires[t] > 0 /\ consumer[t] = NoRequest}
           spent == {t \in Token : consumer[t] # NoRequest}
           effect == {<<a.token, a.request>> : a \in {b \in audit : b.action = "consume"}}
<1>1. Init => Promise!SInit
  BY DEF Init, Promise!SInit
<1>2. ASSUME IInv, [Next]_vars PROVE [Promise!SNext]_<<live, spent, effect>>
  <2> USE <1>2
  <2>1. \A t \in Token : expires[t] \in Nat
    BY DEF IInv, TypeOK
  <2>2. CASE Calm
    <3>1. consumer' = consumer
      BY <2>2 DEF Calm
    <3>2. spent' = spent
      BY <3>1
    <3>3. effect' = effect
      <4>1. {b \in audit : b.action = "consume"}' = {b \in audit : b.action = "consume"}
        BY <2>2, CalmRows
      <4>2. QED
        BY <4>1
    <3>4. CASE expires' = expires
      <4>1. live' = live
        BY <3>1, <3>4
      <4>2. QED
        BY <3>2, <3>3, <4>1
    <3>5. ASSUME NEW r \in Request, Issues(r) PROVE \E t \in Token : Promise!Issue(t)
      <4>1. PICK t \in Token : t = token[r]
        BY TokenFacts DEF IInv
      <4>2. expires[t] = 0 /\ expires'[t] > 0 /\ \A u \in Token \ {t} : expires'[u] = expires[u]
        BY <3>5, <4>1 DEF Issues, IInv, TypeOK
      <4>3. consumer[t] = NoRequest
        BY <2>1, <4>2 DEF IInv, ConsumerInv
      <4>4. t \notin live \cup spent /\ live' = live \cup {t}
        BY <2>1, <3>1, <4>2, <4>3
      <4>5. QED
        BY <3>2, <3>3, <4>4 DEF Promise!Issue
    <3>6. QED
      BY <2>2, <3>4, <3>5 DEF Calm, Promise!SNext
  <2>3. ASSUME NEW r \in Request, Commit(r)
        PROVE  [Promise!SNext]_<<live, spent, effect>>
    <3>1. Commits(r)
      BY <2>3, CommitEffect
    <3>2. PICK t \in Token : t = token[r]
      BY TokenFacts DEF IInv
    <3>3. expires' = expires
      BY <3>1 DEF Commits
    <3>4. CASE rowLock[t] # r
      <4>1. consumer' = consumer /\ audit' = audit
        BY <3>1, <3>2, <3>4 DEF Commits
      <4>2. QED
        BY <3>3, <4>1
    <3>5. CASE rowLock[t] = r
      <4>1. /\ consumer[t] = NoRequest /\ expires[t] > 0
            /\ consumer'[t] = r /\ \A u \in Token \ {t} : consumer'[u] = consumer[u]
        BY <3>1, <3>2, <3>5 DEF Commits, IInv, TypeOK
      <4>2. t \in live /\ live' = live \ {t} /\ spent' = spent \cup {t}
        BY <3>3, <4>1, NoneAssumption
      <4>3. CASE pc[r] = "write"
        <5>1. audit' = audit \cup {AuditOf("consume", t, r)}
          BY <3>1, <3>2, <4>3 DEF Commits
        <5>2. effect' = effect \cup {<<t, r>>}
          <6>1. PICK x : x = AuditOf("consume", t, r)
            OBVIOUS
          <6>2. x.action = "consume" /\ x.token = t /\ x.request = r
            BY <6>1 DEF AuditOf
          <6>3. {b \in audit : b.action = "consume"}' = {b \in audit : b.action = "consume"} \cup {x}
            BY <5>1, <6>1, <6>2
          <6>4. QED
            BY <6>2, <6>3
        <5>3. Promise!Redeem(t, r)
          BY <4>2, <5>2 DEF Promise!Redeem, Promise!Spend
        <5>4. QED
          BY <5>3 DEF Promise!SNext
      <4>4. CASE pc[r] # "write"
        <5>1. audit' = audit
          BY <3>1, <4>4 DEF Commits
        <5>2. Promise!Waste(t)
          BY <4>2, <5>1 DEF Promise!Waste, Promise!Spend
        <5>3. QED
          BY <5>2 DEF Promise!SNext
      <4>5. QED
        BY <4>3, <4>4
    <3>6. QED
      BY <3>4, <3>5
  <2>4. QED
    BY <2>2, <2>3, CalmOrCommit
<1>3. QED
  BY <1>1, <1>2, IInvHolds, PTL DEF Spec, ImplementsSingleUse, Promise!SSpec

=============================================================================
