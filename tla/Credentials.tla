----------------------------- MODULE Credentials -----------------------------
(***************************************************************************)
(* PasswordResetService and MagicLinkService: one-time tokens that are     *)
(* mailed, and spent by the request that brings them back.                 *)
(*                                                                         *)
(* Each operation is a transaction of AuditService.writeSystem, and other  *)
(* requests run between its statements.  The UPDATE that consumes a token  *)
(* holds the token's row until the transaction ends, the UPDATE of a       *)
(* password that of the user; a second UPDATE waits, and then judges its   *)
(* WHERE clause by the committed row.  Until it commits, a consumption is  *)
(* known by its row lock.  A commit may reach the database and its answer  *)
(* not the service.                                                        *)
(***************************************************************************)
EXTENDS Naturals, Sequences

CONSTANTS
    Request,   \* requests, each of which calls one endpoint once
    Link,      \* tokens of magic_links
    Reset,     \* tokens of password_resets
    User,
    UserOf,    \* UserOf[t]: the user_id of a password_resets row
    Uses,      \* which token each request makes or brings: the cases considered
    NoRequest,
    NoToken,   \* the target of the audit row of an unknown address
    LinkTTL,   \* TTL_MS of magic-link.service
    ResetTTL,  \* TTL_MS of password-reset.service
    MaxTime    \* bound on the clock

ASSUME DisjointAssumption == Link \cap Reset = {}
ASSUME UsesAssumption == Uses \subseteq [Request -> Link \cup Reset]
ASSUME UserOfAssumption == UserOf \in [Reset -> User]
ASSUME NoneAssumption == NoRequest \notin Request /\ NoToken \notin Link \cup Reset
ASSUME TimeAssumption == {LinkTTL, ResetTTL} \subseteq Nat \ {0} /\ MaxTime \in Nat

Token == Link \cup Reset

VARIABLES
    now,
    expires,   \* expires[t]: expires_at of the row of t, 0 when there is none
    consumer,  \* consumer[t]: the request whose UPDATE set consumed_at, committed
    passwords, \* passwords[u]: the requests that set password_hash, in order
    audit,     \* committed audit rows: the action, its token and its request
    mailed,    \* tokens that reached a mailbox
    rowLock,   \* rowLock[t]: the request that holds the row of t
    userLock,  \* userLock[u]: the request that holds the row of u
    pc,        \* pc[r]: where request r stands
    token,     \* token[r]: the token it makes or brings
    asked,     \* asked[r]: the new Date() it compares expires_at with
    answer     \* answer[r]: what the client is told

tables == <<expires, consumer, passwords, audit>>
locks == <<rowLock, userLock>>
vars == <<now, tables, mailed, locks, pc, token, asked, answer>>

\* In a transaction that has written something or may still.
Running == {"consume", "hash", "password", "write", "skip"}

AuditRow == [action : {"request", "consume"}, token : Token \cup {NoToken}, request : Request]

AuditOf(action, t, r) == [action |-> action, token |-> t, request |-> r]

TypeOK ==
    /\ now \in 0..MaxTime
    /\ expires \in [Token -> 0..(MaxTime + LinkTTL + ResetTTL)]
    /\ consumer \in [Token -> Request \cup {NoRequest}]
    /\ passwords \in [User -> Seq(Request)]
    /\ audit \subseteq AuditRow
    /\ mailed \subseteq Token
    /\ rowLock \in [Token -> Request \cup {NoRequest}]
    /\ userLock \in [User -> Request \cup {NoRequest}]
    /\ pc \in [Request -> Running \cup {"idle", "mail", "done"}]
    /\ token \in [Request -> Token]
    /\ asked \in [Request -> 0..MaxTime]
    /\ answer \in [Request -> {"none", "sent", "ok", "false", "error"}]

-----------------------------------------------------------------------------

Init ==
    /\ now = 0
    /\ expires = [t \in Token |-> 0]
    /\ consumer = [t \in Token |-> NoRequest]
    /\ passwords = [u \in User |-> <<>>]
    /\ audit = {}
    /\ mailed = {}
    /\ rowLock = [t \in Token |-> NoRequest]
    /\ userLock = [u \in User |-> NoRequest]
    /\ pc = [r \in Request |-> "idle"]
    /\ token \in Uses
    /\ asked = [r \in Request |-> 0]
    /\ answer = [r \in Request |-> "none"]

Goto(r, place) == pc' = [pc EXCEPT ![r] = place]

Answer(r, what) == Goto(r, "done") /\ answer' = [answer EXCEPT ![r] = what]

\* reset() catches what its transaction throws, consume() does not.
Thrown(r) == IF token[r] \in Reset THEN "false" ELSE "error"

-----------------------------------------------------------------------------
(* POST /auth/magic-link/request and /auth/password/forgot.                *)

\* The row and its audit row commit together; the token is random and new.
Issued(r, ttl) ==
    LET t == token[r] IN
    /\ pc[r] = "idle" /\ expires[t] = 0
    /\ expires' = [expires EXCEPT ![t] = now + ttl]
    /\ audit' = audit \cup {AuditOf("request", t, r)}
    /\ Goto(r, "mail")
    /\ UNCHANGED <<now, consumer, passwords, mailed, locks, token, asked, answer>>

issueLink(r) == token[r] \in Link /\ Issued(r, LinkTTL)

issueReset(r) == token[r] \in Reset /\ Issued(r, ResetTTL)

\* forgot, for an address no user has: an audit row and the usual answer.
issueUnknown(r) ==
    /\ pc[r] = "idle" /\ token[r] \in Reset
    /\ audit' = audit \cup {AuditOf("request", NoToken, r)}
    /\ Answer(r, "sent")
    /\ UNCHANGED <<now, expires, consumer, passwords, mailed, locks, token, asked>>

IssueThrows(r) ==
    /\ pc[r] = "idle" /\ expires[token[r]] = 0
    /\ Answer(r, "error")
    /\ UNCHANGED <<now, tables, mailed, locks, token, asked>>

\* After the commit.  A mailer that throws leaves a live token no one has.
send(r) ==
    /\ pc[r] = "mail"
    /\ \/ mailed' = mailed \cup {token[r]} /\ Answer(r, "sent")
       \/ UNCHANGED mailed /\ Answer(r, "error")
    /\ UNCHANGED <<now, tables, locks, token, asked>>

-----------------------------------------------------------------------------
(* POST /auth/magic-link/verify and /auth/password/reset.                  *)

\* Tokens come from mailboxes; one that no row has would match nothing.
Present(r) ==
    /\ pc[r] = "idle" /\ token[r] \in mailed
    /\ asked' = [asked EXCEPT ![r] = now]
    /\ Goto(r, "consume")
    /\ UNCHANGED <<now, tables, mailed, locks, token, answer>>

\* The WHERE clause of the consuming UPDATE, on the committed row.
Matches(t, date) == consumer[t] = NoRequest /\ expires[t] > date

\* Variant: a SELECT that checks the token before the UPDATE that consumes
\* it, so that a request that had to wait does not look again.
ConsumeCheckedFirst(r, place) ==
    LET t == token[r] IN
    /\ pc[r] = "consume"
    /\ expires[t] > asked[r]
    /\ rowLock[t] = NoRequest
    /\ rowLock' = [rowLock EXCEPT ![t] = r]
    /\ Goto(r, place)
    /\ UNCHANGED <<now, tables, mailed, userLock, token, asked, answer>>

\* The consuming UPDATE, and the place it leads to when it matches.  One that
\* matches no row waits for no one, and makes the transaction skip its audit
\* row.
Consume(r, place) ==
    LET t == token[r] IN
    /\ pc[r] = "consume"
    /\ \/ /\ Matches(t, asked[r])
          /\ rowLock[t] = NoRequest
          /\ rowLock' = [rowLock EXCEPT ![t] = r]
          /\ Goto(r, place)
       \/ /\ ~Matches(t, asked[r])
          /\ Goto(r, "skip")
          /\ UNCHANGED rowLock
    /\ UNCHANGED <<now, tables, mailed, userLock, token, asked, answer>>

consumeLink(r) == token[r] \in Link /\ Consume(r, "write")

consumeReset(r) == token[r] \in Reset /\ Consume(r, "hash")

\* Variant: a failure to hash that is logged and passed over.
HashPasswordOrNot(r) ==
    /\ pc[r] = "hash"
    /\ Goto(r, "password") \/ Goto(r, "write")
    /\ UNCHANGED <<now, tables, mailed, locks, token, asked, answer>>

\* A password that cannot be hashed makes the transaction skip, with the
\* token consumed.
hashPassword(r) ==
    /\ pc[r] = "hash"
    /\ Goto(r, "password") \/ Goto(r, "skip")
    /\ UNCHANGED <<now, tables, mailed, locks, token, asked, answer>>

updatePassword(r) ==
    LET u == UserOf[token[r]] IN
    /\ pc[r] = "password"
    /\ userLock[u] = NoRequest
    /\ userLock' = [userLock EXCEPT ![u] = r]
    /\ Goto(r, "write")
    /\ UNCHANGED <<now, tables, mailed, rowLock, token, asked, answer>>

\* Variant: a transaction that leaves the user's row locked.
ReleaseTokenLock(r) ==
    /\ rowLock' = [t \in Token |-> IF rowLock[t] = r THEN NoRequest ELSE rowLock[t]]
    /\ UNCHANGED userLock

ReleaseLocks(r) ==
    /\ rowLock' = [t \in Token |-> IF rowLock[t] = r THEN NoRequest ELSE rowLock[t]]
    /\ userLock' = [u \in User |-> IF userLock[u] = r THEN NoRequest ELSE userLock[u]]

Consumption(r) ==
    /\ consumer' = [t \in Token |-> IF rowLock[t] = r THEN r ELSE consumer[t]]
    /\ passwords' = [u \in User |-> IF userLock[u] = r THEN Append(passwords[u], r) ELSE passwords[u]]

\* Variant: a writeSystem that does not look at skip.
InstalledSkipOrNot(r) ==
    Consumption(r) /\ audit' = audit \cup {AuditOf("consume", token[r], r)}

\* What commits: the consumption, the password, and, unless the transaction
\* skips it, the audit row.
Installed(r) ==
    /\ Consumption(r)
    /\ IF pc[r] = "skip" THEN UNCHANGED audit
       ELSE audit' = audit \cup {AuditOf("consume", token[r], r)}

\* The second disjunct of the answer is a commit whose acknowledgment is lost.
Commit(r) ==
    /\ pc[r] \in {"write", "skip"}
    /\ Installed(r)
    /\ ReleaseLocks(r)
    /\ \/ Answer(r, IF pc[r] = "write" THEN "ok" ELSE "false")
       \/ Answer(r, Thrown(r))
    /\ UNCHANGED <<now, expires, mailed, token, asked>>

\* A statement, or the connection, fails: the transaction is rolled back.
Abort(r) ==
    /\ pc[r] \in Running
    /\ ReleaseLocks(r)
    /\ Answer(r, Thrown(r))
    /\ UNCHANGED <<now, tables, mailed, token, asked>>

Tick ==
    /\ now < MaxTime
    /\ now' = now + 1
    /\ UNCHANGED <<tables, mailed, locks, pc, token, asked, answer>>

-----------------------------------------------------------------------------
(* The endpoints.                                                          *)

\* MagicLinkController.
request(r) == token[r] \in Link /\ (issueLink(r) \/ IssueThrows(r) \/ send(r))

verify(r) == token[r] \in Link /\ (Present(r) \/ consumeLink(r) \/ Commit(r) \/ Abort(r))

\* PasswordResetController.
forgot(r) ==
    /\ token[r] \in Reset
    /\ issueReset(r) \/ issueUnknown(r) \/ IssueThrows(r) \/ send(r)

reset(r) ==
    /\ token[r] \in Reset
    /\ \/ Present(r) \/ consumeReset(r)
       \/ hashPassword(r) \/ updatePassword(r)
       \/ Commit(r) \/ Abort(r)

Next == Tick \/ \E r \in Request : request(r) \/ verify(r) \/ forgot(r) \/ reset(r)

Spec == Init /\ [][Next]_vars

\* The service and the database go on with a transaction that is not blocked;
\* no one owes it an error.
Fairness ==
    \A r \in Request :
        /\ WF_vars(consumeLink(r) \/ consumeReset(r))
        /\ WF_vars(hashPassword(r)) /\ WF_vars(updatePassword(r)) /\ WF_vars(Commit(r))

FairSpec == Spec /\ Fairness

-----------------------------------------------------------------------------
(* Properties.                                                             *)

\* "two concurrent verify calls can't both win": whatever is interleaved,
\* rolled back or lost, a token is spent once, and works for the request that
\* spent it or for no one.
Promise == INSTANCE SingleUse WITH
    live   <- {t \in Token : expires[t] > 0 /\ consumer[t] = NoRequest},
    spent  <- {t \in Token : consumer[t] # NoRequest},
    effect <- {<<a.token, a.request>> : a \in {b \in audit : b.action = "consume"}}
ImplementsSingleUse == Promise!SSpec

Resets(u) == {passwords[u][i] : i \in DOMAIN passwords[u]}

\* The tables and the audit log tell one story: every token was asked for,
\* every spent link and every password has its audit row, and no audit row
\* speaks of a consumption or a password that was rolled back.
AuditComplete ==
    /\ \A t \in Token : expires[t] > 0 <=> \E r \in Request : AuditOf("request", t, r) \in audit
    /\ \A t \in Link, r \in Request : AuditOf("consume", t, r) \in audit <=> consumer[t] = r
    /\ \A t \in Reset, r \in Request : AuditOf("consume", t, r) \in audit <=> r \in Resets(UserOf[t]) /\ token[r] = t

\* A reset that was answered ok set the password, however many resets of one
\* user raced; and no token set two.
OkAnswersKept ==
    /\ \A r \in Request : answer[r] = "ok" /\ token[r] \in Reset => r \in Resets(UserOf[token[r]])
    /\ \A u \in User : \A i, j \in DOMAIN passwords[u] :
        token[passwords[u][i]] = token[passwords[u][j]] => i = j

\* Every request that brings a token is answered, though requests queue on
\* the rows of a token and of a user.
RequestsAnswered == \A r \in Request : pc[r] = "consume" ~> pc[r] = "done"

=============================================================================
