------------------------------ MODULE AuditLog ------------------------------
(***************************************************************************)
(* The HMAC-chained audit log and the transactions that append to it.      *)
(*                                                                         *)
(* Every mutation of the API runs in a transaction that changes one entity *)
(* (a status change, a vote, a token) or, for the bulk endpoints, a list   *)
(* of them, and inserts one audit_log row for each change.  A BEFORE       *)
(* INSERT trigger takes a transaction-scoped advisory lock, reads the row  *)
(* with the highest id it can see, and stamps prev_hash and row_hash.  The *)
(* row's id is a bigserial default: it is drawn before the trigger runs.   *)
(*                                                                         *)
(* Transactions are READ COMMITTED; a row update holds the entity's row    *)
(* lock until the transaction ends; an abort stands for a thrown error, a  *)
(* constraint violation, a lost connection and a crash of the API process. *)
(***************************************************************************)
EXTENDS Integers, Sequences, FiniteSets

CONSTANTS
    Tx,      \* the transactions
    Entity,  \* what they change: issues, ideas, users, tokens
    Plan,    \* Plan[t]: the entities t changes, in the order it changes them
    NoTx     \* the holder of a free lock

ASSUME PlanAssumption == Plan \in [Tx -> Seq(Entity) \ {<<>>}]
ASSUME NoTxAssumption == NoTx \notin Tx

VARIABLES
    pc,         \* pc[t]: where transaction t stands
    step,       \* step[t]: the index in Plan[t] of the change being made
    drawn,      \* drawn[t]: the id drawn for the row t is inserting, 0 if none
    lastId,     \* last value of the audit_log id sequence
    rowLock,    \* rowLock[e]: the transaction that holds e's row lock
    auditLock,  \* the transaction that holds the chain's advisory lock
    table       \* the audit_log rows of committed and of open transactions

vars == <<pc, step, drawn, lastId, rowLock, auditLock, table>>

\* A hash is what it commits to: the payloads from genesis to the row.  Two
\* rows with the same predecessor and the same payload have the same hash.
Hash == Seq(Entity)
GENESIS == <<>>

\* "head" is the id of the row the trigger read prev_hash from, 0 for none.
Row == [id: Nat, owner: Tx, head: Nat, prev: Hash, hash: Hash]

Running == {"update", "insert", "trigger", "commit"}
Places == Running \cup {"idle", "committed", "aborted"}

TypeOK ==
    /\ pc \in [Tx -> Places]
    /\ step \in [Tx -> Nat]
    /\ \A t \in Tx : pc[t] \in {"idle", "update", "insert", "trigger"} => step[t] \in DOMAIN Plan[t]
    /\ drawn \in [Tx -> Nat]
    /\ lastId \in Nat
    /\ rowLock \in [Entity -> Tx \cup {NoTx}]
    /\ auditLock \in Tx \cup {NoTx}
    /\ table \in SUBSET Row

-----------------------------------------------------------------------------
(* What a statement sees, and what the trigger computes from it.           *)

\* The committed rows: what the verify endpoint and the anchor worker read.
Log == {r \in table : pc[r.owner] = "committed"}

\* The rows a statement of t sees: the committed ones and its own.
Visible(t) == {r \in table : r.owner = t \/ pc[r.owner] = "committed"}

\* The row ORDER BY id DESC LIMIT 1 returns, for a nonempty set of rows.
Newest(rows) == CHOOSE r \in rows : \A s \in rows : s.id <= r.id

compute_audit_row_hash(prev, payload) == Append(prev, payload)

\* The row t inserts when the head query sees rows.
StampFrom(t, rows) ==
    LET empty == rows = {}
        prev == IF empty THEN GENESIS ELSE Newest(rows).hash
    IN  [id    |-> drawn[t],
         owner |-> t,
         head  |-> IF empty THEN 0 ELSE Newest(rows).id,
         prev  |-> prev,
         hash  |-> compute_audit_row_hash(prev, Plan[t][step[t]])]

\* Variant: a head query that sees only the inserting transaction's rows, as
\* row-level security made it before the trigger was SECURITY DEFINER.
StampedUnderRLS(t) == StampFrom(t, {r \in table : r.owner = t})

Stamped(t) == StampFrom(t, Visible(t))

-----------------------------------------------------------------------------

Init ==
    /\ pc = [t \in Tx |-> "idle"]
    /\ step = [t \in Tx |-> 1]
    /\ drawn = [t \in Tx |-> 0]
    /\ lastId = 0
    /\ rowLock = [e \in Entity |-> NoTx]
    /\ auditLock = NoTx
    /\ table = {}

Begin(t) ==
    /\ pc[t] = "idle"
    /\ pc' = [pc EXCEPT ![t] = "update"]
    /\ UNCHANGED <<step, drawn, lastId, rowLock, auditLock, table>>

\* Variant: a loop that runs one change past the end of its list.
ContinuePastEnd(t) ==
    /\ step' = [step EXCEPT ![t] = @ + 1]
    /\ pc' = [pc EXCEPT ![t] = IF step[t] > Len(Plan[t]) THEN "commit" ELSE "update"]

\* After the last change the callback returns and the driver commits.
Continue(t) ==
    /\ step' = [step EXCEPT ![t] = @ + 1]
    /\ pc' = [pc EXCEPT ![t] = IF step[t] = Len(Plan[t]) THEN "commit" ELSE "update"]

\* Variant: a transaction that may build its audit row, under the chain's
\* lock, before it changes the entity.
UpdateAfterChainLock(t) ==
    LET e == Plan[t][step[t]] IN
    /\ pc[t] = "update"
    /\ \/ /\ auditLock = NoTx
          /\ auditLock' = t
          /\ UNCHANGED <<pc, rowLock>>
       \/ /\ rowLock[e] \in {NoTx, t}
          /\ rowLock' = [rowLock EXCEPT ![e] = t]
          /\ pc' = [pc EXCEPT ![t] = "insert"]
          /\ UNCHANGED auditLock
    /\ UNCHANGED <<step, drawn, lastId, table>>

UpdateEntity(t) ==
    LET e == Plan[t][step[t]] IN
    /\ pc[t] = "update"
    /\ rowLock[e] \in {NoTx, t}
    /\ rowLock' = [rowLock EXCEPT ![e] = t]
    /\ pc' = [pc EXCEPT ![t] = "insert"]
    /\ UNCHANGED <<step, drawn, lastId, auditLock, table>>

\* The UPDATE matched no row: the bulk loops go on to the next id and
\* writeSystem's mutate returns skip; neither writes an audit row.
SkipEntity(t) ==
    /\ pc[t] = "update"
    /\ Continue(t)
    /\ UNCHANGED <<drawn, lastId, rowLock, auditLock, table>>

\* The column default of audit_log.id is evaluated before any trigger runs,
\* and a sequence value is never given back.  (buildRow reads a head of its
\* own before the INSERT; the trigger overwrites what it computes from it.)
DrawId(t) ==
    /\ pc[t] = "insert"
    /\ lastId' = lastId + 1
    /\ drawn' = [drawn EXCEPT ![t] = lastId + 1]
    /\ pc' = [pc EXCEPT ![t] = "trigger"]
    /\ UNCHANGED <<step, rowLock, auditLock, table>>

\* Variant: an advisory lock that ends with the statement, not the transaction.
ChainStampStatementLock(t) ==
    /\ pc[t] = "trigger"
    /\ auditLock \in {NoTx, t}
    /\ table' = table \cup {Stamped(t)}
    /\ Continue(t)
    /\ UNCHANGED <<drawn, lastId, rowLock, auditLock>>

audit_log_chain_stamp(t) ==
    /\ pc[t] = "trigger"
    /\ auditLock \in {NoTx, t}
    /\ auditLock' = t
    /\ table' = table \cup {Stamped(t)}
    /\ Continue(t)
    /\ UNCHANGED <<drawn, lastId, rowLock>>

ReleaseLocks(t) ==
    /\ rowLock' = [e \in Entity |-> IF rowLock[e] = t THEN NoTx ELSE rowLock[e]]
    /\ auditLock' = IF auditLock = t THEN NoTx ELSE auditLock

\* Variant: a commit that leaves the advisory lock held, as a session-level
\* pg_advisory_lock would on a pooled connection.
CommitKeepingAuditLock(t) ==
    /\ pc[t] = "commit"
    /\ pc' = [pc EXCEPT ![t] = "committed"]
    /\ rowLock' = [e \in Entity |-> IF rowLock[e] = t THEN NoTx ELSE rowLock[e]]
    /\ UNCHANGED <<step, drawn, lastId, auditLock, table>>

Commit(t) ==
    /\ pc[t] = "commit"
    /\ pc' = [pc EXCEPT ![t] = "committed"]
    /\ ReleaseLocks(t)
    /\ UNCHANGED <<step, drawn, lastId, table>>

Abort(t) ==
    /\ pc[t] \in Running
    /\ pc' = [pc EXCEPT ![t] = "aborted"]
    /\ table' = {r \in table : r.owner # t}
    /\ ReleaseLocks(t)
    /\ UNCHANGED <<step, drawn, lastId>>

Next ==
    \E t \in Tx :
        \/ Begin(t)
        \/ UpdateEntity(t)
        \/ SkipEntity(t)
        \/ DrawId(t)
        \/ audit_log_chain_stamp(t)
        \/ Commit(t)
        \/ Abort(t)

Spec == Init /\ [][Next]_vars

-----------------------------------------------------------------------------
(* Lock waits and deadlock.                                                *)

\* The transaction whose lock t waits for, NoTx when t waits for none.
WaitsFor(t) ==
    CASE pc[t] = "update" /\ rowLock[Plan[t][step[t]]] # t -> rowLock[Plan[t][step[t]]]
      [] pc[t] = "trigger" /\ auditLock # t -> auditLock
      [] OTHER -> NoTx

\* A set of transactions each of which waits for, and is waited for by,
\* another of them: every one of them is on a cycle of waits.
WaitCycle(S) == S # {} /\ {WaitsFor(t) : t \in S} = S

\* PostgreSQL's deadlock detector aborts one member of a cycle.
AbortDeadlocked(t) == (\E S \in SUBSET Tx : t \in S /\ WaitCycle(S)) /\ Abort(t)

\* The connection goes on with a transaction that is not blocked, and the
\* deadlock detector runs.  No one owes the system a new request or an error.
Fairness ==
    \A t \in Tx :
        /\ WF_vars(UpdateEntity(t))
        /\ WF_vars(DrawId(t))
        /\ WF_vars(audit_log_chain_stamp(t))
        /\ WF_vars(Commit(t))
        /\ WF_vars(AbortDeadlocked(t))

FairSpec == Spec /\ Fairness

-----------------------------------------------------------------------------
(* GET /admin/audit/verify walks the log in id order and stops at the      *)
(* first row whose prev_hash is not the row_hash of the row before it; the *)
(* recomputed row_hash agrees, since the trigger computed it the same way. *)

\* The prev_hash the walk expects of r: that of the row before it.
Expected(r) ==
    LET before == {s \in Log : s.id < r.id}
    IN  IF before = {} THEN GENESIS ELSE Newest(before).hash

Linked(r) == r.prev = Expected(r)

\* The row the walk reports as brokenAtId, if any.
BrokenAt == {r \in Log : ~Linked(r) /\ \A s \in Log : s.id < r.id => Linked(s)}

\* A row whose predecessor has a higher id: its id was drawn before, and its
\* stamp taken after, those of another transaction's row.
Inverted(r) == r.head > r.id

-----------------------------------------------------------------------------
(* Properties.                                                             *)

\* 0040: "Serialize chain appends".  Rows that are stamped and not committed
\* belong to one transaction, the holder of the advisory lock, so no head
\* query can miss a row that will commit.
AppendsSerialized ==
    \A r \in table : pc[r.owner] # "committed" => auditLock = r.owner

\* The only thing that can break the id-order chain is an inversion, whatever
\* was interleaved, skipped or rolled back: the verify walk reports a break at
\* the first inverted row and nowhere else, so the break it reports in a log
\* nobody tampered with is always an inversion, and it misses none.
WalkReportsFirstInversion ==
    BrokenAt = {r \in Log : Inverted(r) /\ \A s \in Log : s.id < r.id => ~Inverted(s)}

\* 0040: "every row's prev_hash is the row_hash of the row with the
\* immediately preceding id".  The code does not ensure it.
ChainInIdOrder == \A r \in Log : Linked(r)

\* Taking the entity's row lock before the chain's lock keeps single-entity
\* transactions free of deadlock: a cycle of waits has a bulk one in it.
DeadlockNeedsBulk ==
    \A S \in SUBSET Tx : WaitCycle(S) => \E t \in S : Len(Plan[t]) > 1

\* Every transaction that begins comes to an end, though all of them queue on
\* one lock and bulk ones deadlock: no lock outlives its transaction.
TransactionsEnd ==
    \A t \in Tx : pc[t] = "update" ~> pc[t] \in {"committed", "aborted"}

=============================================================================
