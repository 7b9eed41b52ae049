----------------------------- MODULE AuditAnchor -----------------------------
(***************************************************************************)
(* The daily anchor job on top of the audit log: it reads the newest rows, *)
(* hashes the concatenation of their row hashes, has a time-stamping       *)
(* authority sign it and stores the signed hash with the id range.  The    *)
(* read, the call and the insert are three steps of no common transaction, *)
(* and rows are appended in between.                                       *)
(***************************************************************************)
EXTENDS AuditLog, SequencesExt

CONSTANTS
    Lookback,  \* ANCHOR_LOOKBACK_ROWS
    MaxRuns,   \* bound on the runs of the repeatable job
    NoRange    \* the worker is idle

ASSUME LookbackAssumption == Lookback \in Nat \ {0}
ASSUME MaxRunsAssumption == MaxRuns \in Nat

VARIABLES
    range,    \* the AnchorRange of the running job, in the worker's memory
    anchors,  \* the audit_anchors rows
    runs      \* runs of the job so far

anchorVars == <<range, anchors, runs>>
allVars == <<vars, anchorVars>>

\* A SHA-256 of concatenated row hashes is the sequence of them, newest first.
AnchorHash(rows) ==
    LET newestFirst == SetToSortSeq(rows, LAMBDA r, s : r.id > s.id)
    IN  [i \in 1..Len(newestFirst) |-> newestFirst[i].hash]

\* ORDER BY id DESC LIMIT Lookback.
Latest(rows) == {r \in rows : Cardinality({s \in rows : s.id > r.id}) < Lookback}

InRange(rows, a) == {r \in rows : a.start <= r.id /\ r.id <= a.end}

-----------------------------------------------------------------------------

AnchorInit ==
    /\ Init
    /\ range = NoRange
    /\ anchors = {}
    /\ runs = 0

\* The job starts; on an empty log it is a no-op.
computeAnchorRange ==
    LET rows == Latest(Log)
        ids == {r.id : r \in rows}
    IN  /\ range = NoRange
        /\ runs < MaxRuns
        /\ runs' = runs + 1
        /\ range' = IF rows = {} THEN NoRange
                    ELSE [start |-> Min(ids), end |-> Max(ids), hash |-> AnchorHash(rows)]
        /\ UNCHANGED <<vars, anchors>>

\* The authority answered: the anchor is stored unless its hash is there.
runAuditAnchor ==
    /\ range # NoRange
    /\ anchors' = IF \E a \in anchors : a.hash = range.hash
                  THEN anchors ELSE anchors \cup {range}
    /\ range' = NoRange
    /\ UNCHANGED <<vars, runs>>

\* The authority refused or timed out, the insert failed, or the worker died.
AnchorFails ==
    /\ range # NoRange
    /\ range' = NoRange
    /\ UNCHANGED <<vars, anchors, runs>>

AnchorNext ==
    \/ Next /\ UNCHANGED anchorVars
    \/ computeAnchorRange
    \/ runAuditAnchor
    \/ AnchorFails

AnchorSpec == AnchorInit /\ [][AnchorNext]_allVars /\ Fairness

-----------------------------------------------------------------------------

\* The payloads that the hash of the log's newest row commits to.
HeadHash == IF Log = {} THEN GENESIS ELSE Newest(Log).hash

Chain == INSTANCE AppendOnlyChain WITH
             chain <- HeadHash,
             committed <- {t \in Tx : pc[t] = "committed"}

\* The trigger, its lock and the id sequence implement a chain that grows by
\* whole transactions and never loses what it holds, aborts included.  (A
\* transaction whose rows are all inverted leaves the head where it was.)
ImplementsChain == Chain!Spec

\* An anchor proves something later only if its hash can be computed again
\* from the rows of its range.  Rows may commit into a range already anchored,
\* but only inverted ones: without an inversion in its range, every anchor
\* stays reproducible whatever is appended, retried or rolled back after it.
AnchorsReproducible ==
    \A a \in anchors :
        \/ AnchorHash(InRange(Log, a)) = a.hash
        \/ \E r \in InRange(Log, a) : Inverted(r)

=============================================================================
