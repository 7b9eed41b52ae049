------------------------------- MODULE Migrate -------------------------------
(***************************************************************************)
(* apps/migrate: the program that brings a database up to the files of a   *)
(* release, in passes, and may die or lose its connection at any point.    *)
(*                                                                         *)
(* The schema and its seeds are a set of facts.  A migration needs facts   *)
(* and adds facts, and it may copy: INSERT ... SELECT adds a fact when     *)
(* another is there, and succeeds without a word when it is not.           *)
(* Migrations are numbered by their names, which the program sorts.        *)
(*                                                                         *)
(* kysely_migration_lock is created and never taken: runners may overlap.  *)
(***************************************************************************)
EXTENDS Integers, FiniteSets

CONSTANTS
    Runner,
    Migration,    \* the names
    Fact,
    Needs, Adds,  \* Needs[m], Adds[m]: sets of facts
    Copies,       \* Copies[m]: pairs of facts, the one looked for and the one added
    Concurrently, \* those whose text has the word: no transaction around them
    Repeatable,   \* those that can be applied twice: ON CONFLICT DO NOTHING, IF NOT EXISTS
    Releases,     \* sets of migrations: the files of each release
    MAX_PASSES,
    MaxStarts, MaxFaults \* bounds

ASSUME MigrationAssumption == Migration \subseteq Nat /\ IsFiniteSet(Migration)
ASSUME SqlAssumption ==
    /\ Needs \in [Migration -> SUBSET Fact]
    /\ Adds \in [Migration -> SUBSET Fact]
    /\ Copies \in [Migration -> SUBSET (Fact \X Fact)]
Supplies(n, fact) == fact \in Adds[n] \/ \E d \in Copies[n] : d[2] = fact
\* What a migration copies from is seeded under an earlier name, or its own.
ASSUME CopyAssumption ==
    \A m, n \in Migration : \A c \in Copies[m] : Supplies(n, c[1]) => n <= m
\* It does not copy what it copied: the copies look at what it has seeded.
ASSUME ShallowAssumption ==
    \A m \in Migration : \A c, d \in Copies[m] : c[1] # d[2]
ASSUME SubsetAssumption == Concurrently \subseteq Migration /\ Repeatable \subseteq Migration
ASSUME ReleaseAssumption == Releases \subseteq SUBSET Migration
ASSUME BoundAssumption == MAX_PASSES \in Nat \ {0} /\ MaxStarts \in Nat /\ MaxFaults \in Nat

VARIABLES
    facts,    \* the schema
    recorded, \* the names in kysely_migration
    applied,  \* the migrations whose body was ever committed (history)
    before,   \* before[m]: applied, when m first was (history)
    overlaps, \* two runners were at work at once (history)
    starts, faults, \* counted for the bounds
    at,       \* at[r]: where runner r stands
    names,    \* allNames[r]
    pending,  \* pending[r]: those it has not come to in this pass
    failures, \* failures[r]: the keys of the map
    pass,
    start,    \* start[r]: beforeCount and beforeFailures
    final,    \* finalExecuted[r]
    flaky,    \* flaky[r]: a failure of this pass was not the migration's own (history)
    exit      \* exit[r]

database == <<facts, recorded, applied, before>>
bounds == <<overlaps, starts, faults>>
vars == <<database, bounds, at, names, pending, failures, pass, start, final, flaky, exit>>

Place == {"off", "list", "apply", "record", "judge", "finish", "rewrite", "exit"}

TypeOK ==
    /\ facts \subseteq Fact
    /\ recorded \subseteq Migration /\ applied \subseteq Migration
    /\ before \in [Migration -> SUBSET Migration]
    /\ overlaps \in BOOLEAN /\ starts \in Nat /\ faults \in Nat
    /\ at \in [Runner -> Place]
    /\ names \in [Runner -> SUBSET Migration]
    /\ pending \in [Runner -> SUBSET Migration]
    /\ failures \in [Runner -> SUBSET Migration]
    /\ pass \in [Runner -> Nat]
    /\ start \in [Runner -> [count : Nat, failures : Nat]]
    /\ final \in [Runner -> SUBSET Migration]
    /\ flaky \in [Runner -> BOOLEAN]
    /\ exit \in [Runner -> {"none", "ok", "failed", "crashed"}]

Init ==
    /\ facts = {} /\ recorded = {} /\ applied = {}
    /\ before = [m \in Migration |-> {}]
    /\ overlaps = FALSE /\ starts = 0 /\ faults = 0
    /\ at = [r \in Runner |-> "off"]
    /\ names = [r \in Runner |-> {}]
    /\ pending = [r \in Runner |-> {}]
    /\ failures = [r \in Runner |-> {}]
    /\ pass = [r \in Runner |-> 0]
    /\ start = [r \in Runner |-> [count |-> 0, failures |-> 0]]
    /\ final = [r \in Runner |-> {}]
    /\ flaky = [r \in Runner |-> FALSE]
    /\ exit = [r \in Runner |-> "none"]

-----------------------------------------------------------------------------
(* SQL.                                                                    *)

\* A migration whose record was lost is tried again.
Applicable(m) ==
    /\ Needs[m] \subseteq facts
    /\ m \in applied => m \in Repeatable

\* Variant: only the first statement of the file is run.
BodyFirstStatement(m) ==
    /\ facts' = facts \cup Adds[m]
    /\ applied' = applied \cup {m}
    /\ before' = IF m \in applied THEN before ELSE [before EXCEPT ![m] = applied]

\* The body of m is committed.  The second time its copies find what is there
\* by then.
Body(m) ==
    LET seeded == facts \cup Adds[m]
    IN  /\ facts' = seeded \cup {c[2] : c \in {d \in Copies[m] : d[1] \in seeded}}
        /\ applied' = applied \cup {m}
        /\ before' = IF m \in applied THEN before ELSE [before EXCEPT ![m] = applied]

Fault == faults < MaxFaults /\ faults' = faults + 1 /\ UNCHANGED <<overlaps, starts>>

-----------------------------------------------------------------------------

Goes(r, place) == at' = [at EXCEPT ![r] = place]

\* A release is deployed, or an older one again: the program starts and reads
\* the directory.
Start(r) ==
    /\ at[r] = "off"
    /\ starts < MaxStarts
    /\ starts' = starts + 1
    /\ overlaps' = (overlaps \/ \E q \in Runner : at[q] # "off")
    /\ \E files \in Releases : names' = [names EXCEPT ![r] = files]
    /\ failures' = [failures EXCEPT ![r] = {}]
    /\ pass' = [pass EXCEPT ![r] = 0]
    /\ flaky' = [flaky EXCEPT ![r] = FALSE]
    /\ exit' = [exit EXCEPT ![r] = "none"]
    /\ Goes(r, "list")
    /\ UNCHANGED <<database, faults, pending, start, final>>

\* The head of the loop: getExecuted.
ListPending(r) ==
    /\ at[r] = "list"
    /\ pass[r] < MAX_PASSES
    /\ names[r] \ recorded # {}
    /\ pending' = [pending EXCEPT ![r] = names[r] \ recorded]
    /\ start' = [start EXCEPT ![r] =
           [count |-> Cardinality(recorded), failures |-> Cardinality(failures[r])]]
    /\ flaky' = [flaky EXCEPT ![r] = FALSE]
    /\ Goes(r, "apply")
    /\ UNCHANGED <<database, bounds, names, failures, pass, final, exit>>

LeaveLoop(r) ==
    /\ at[r] = "list"
    /\ pass[r] = MAX_PASSES \/ names[r] \subseteq recorded
    /\ Goes(r, "finish")
    /\ UNCHANGED <<database, bounds, names, pending, failures, pass, start, final, flaky, exit>>

IsCurrent(r, m) ==
    /\ m \in pending[r]
    /\ \A n \in pending[r] : m <= n

\* The migration is done with, for this pass.
DoneWith(r, m) ==
    /\ pending' = [pending EXCEPT ![r] = @ \ {m}]
    /\ Goes(r, IF pending[r] = {m} THEN "judge" ELSE "apply")
    /\ UNCHANGED <<names, pass, start, final, exit>>

Succeeds(r, m) == failures' = [failures EXCEPT ![r] = @ \ {m}] /\ UNCHANGED flaky /\ DoneWith(r, m)
Fails(r, m) == failures' = [failures EXCEPT ![r] = @ \cup {m}] /\ DoneWith(r, m)

\* One transaction: the body and the record.
ApplyInTransaction(r, m) ==
    /\ at[r] = "apply" /\ IsCurrent(r, m) /\ m \notin Concurrently
    /\ Applicable(m) /\ m \notin recorded
    /\ Body(m)
    /\ recorded' = recorded \cup {m}
    /\ Succeeds(r, m)
    /\ UNCHANGED bounds

\* The body alone, and the record in a statement of its own.
ApplyOutside(r, m) ==
    /\ at[r] = "apply" /\ IsCurrent(r, m) /\ m \in Concurrently
    /\ Applicable(m)
    /\ Body(m)
    /\ Goes(r, "record")
    /\ UNCHANGED <<recorded, bounds, names, pending, failures, pass, start, final, flaky, exit>>

Record(r, m) ==
    /\ at[r] = "record" /\ IsCurrent(r, m)
    /\ m \notin recorded
    /\ recorded' = recorded \cup {m}
    /\ Succeeds(r, m)
    /\ UNCHANGED <<facts, applied, before, bounds>>

\* Variant: what failed is recorded, so as not to be tried again.
RejectedRecorded(r, m) ==
    /\ IsCurrent(r, m)
    /\ at[r] = "apply" /\ ~Applicable(m)
    /\ recorded' = recorded \cup {m}
    /\ Fails(r, m)
    /\ UNCHANGED <<facts, applied, before, bounds, flaky>>

\* The body fails, or the primary key of the record does: rolled back where
\* there is a transaction.
Rejected(r, m) ==
    /\ IsCurrent(r, m)
    /\ \/ at[r] = "apply" /\ ~Applicable(m)
       \/ at[r] = "apply" /\ m \notin Concurrently /\ m \in recorded
       \/ at[r] = "record" /\ m \in recorded
    /\ Fails(r, m)
    /\ UNCHANGED <<database, bounds, flaky>>

\* Variant: the body is not in the transaction of the record.
InterruptedTorn(r, m) ==
    /\ at[r] = "apply" /\ IsCurrent(r, m) /\ Applicable(m)
    /\ Fault
    /\ Body(m)
    /\ Fails(r, m)
    /\ flaky' = [flaky EXCEPT ![r] = TRUE]
    /\ UNCHANGED recorded

\* A lock timeout, a dropped connection: the catch block takes it for a
\* failure of the migration.  In the second disjunct the commit was done.
Interrupted(r, m) ==
    /\ at[r] \in {"apply", "record"} /\ IsCurrent(r, m)
    /\ Fault
    /\ \/ UNCHANGED database
       \/ /\ at[r] = "apply" /\ m \notin Concurrently /\ Applicable(m) /\ m \notin recorded
          /\ Body(m) /\ recorded' = recorded \cup {m}
       \/ /\ at[r] = "record" /\ m \notin recorded
          /\ recorded' = recorded \cup {m} /\ UNCHANGED <<facts, applied, before>>
    /\ Fails(r, m)
    /\ flaky' = [flaky EXCEPT ![r] = TRUE]

\* Variant: stop when no failure went away.
NoProgressByFailures(r) == Cardinality(failures[r]) >= start[r].failures

\* Stop when nothing was applied and no failure went away.
NoProgress(r) ==
    /\ Cardinality(recorded) = start[r].count
    /\ Cardinality(failures[r]) >= start[r].failures

Judge(r) ==
    /\ at[r] = "judge"
    /\ IF NoProgress(r)
       THEN Goes(r, "finish") /\ UNCHANGED pass
       ELSE Goes(r, "list") /\ pass' = [pass EXCEPT ![r] = @ + 1]
    /\ UNCHANGED <<database, bounds, names, pending, failures, start, final, flaky, exit>>

ReadFinal(r) ==
    /\ at[r] = "finish"
    /\ final' = [final EXCEPT ![r] = recorded]
    /\ Goes(r, IF Cardinality(recorded) > 1 THEN "rewrite" ELSE "exit")
    /\ UNCHANGED <<database, bounds, names, pending, failures, pass, start, flaky, exit>>

\* DELETE FROM kysely_migration, then the names that were read, in order.
Rewrite(r) ==
    /\ at[r] = "rewrite"
    /\ recorded' = final[r]
    /\ Goes(r, "exit")
    /\ UNCHANGED <<facts, applied, before, bounds, names, pending, failures, pass, start, final, flaky, exit>>

Exit(r) ==
    /\ at[r] = "exit"
    /\ exit' = [exit EXCEPT ![r] =
           IF failures[r] = {} /\ Cardinality(final[r]) = Cardinality(names[r]) THEN "ok" ELSE "failed"]
    /\ Goes(r, "off")
    /\ UNCHANGED <<database, bounds, names, pending, failures, pass, start, final, flaky>>

\* The process dies, or a statement outside the catch throws.
Crash(r) ==
    /\ at[r] # "off"
    /\ Fault
    /\ exit' = [exit EXCEPT ![r] = "crashed"]
    /\ Goes(r, "off")
    /\ UNCHANGED <<database, names, pending, failures, pass, start, final, flaky>>

Next ==
    \E r \in Runner :
        \/ Start(r) \/ ListPending(r) \/ LeaveLoop(r)
        \/ \E m \in Migration :
            \/ ApplyInTransaction(r, m) \/ ApplyOutside(r, m) \/ Record(r, m)
            \/ Rejected(r, m) \/ Interrupted(r, m)
        \/ Judge(r) \/ ReadFinal(r) \/ Rewrite(r) \/ Exit(r) \/ Crash(r)

Spec == Init /\ [][Next]_vars

-----------------------------------------------------------------------------
(* Properties.                                                             *)

\* The record never runs ahead of the schema, however runners die, overlap or
\* rewrite each other's records, and the exit code that lets the API start is
\* given only when every migration of the release has been applied.
RecordedWasApplied ==
    /\ recorded \subseteq applied
    /\ \A r \in Runner : exit[r] = "ok" => names[r] \subseteq applied

\* The record falls behind the schema in two ways only: the program died
\* between the body of a CONCURRENTLY migration and its record, or another
\* runner rewrote the table from what it had read before.
UnrecordedExplained ==
    \A m \in applied \ recorded : m \in Concurrently \/ overlaps

\* The passes end where another would change nothing: when the program gives
\* up before MAX_PASSES, no migration of the release that is left could be
\* applied, unless the failure was a transient one, or other runners were there.
StopsAtFixpoint ==
    \A r \in Runner :
        (at[r] = "finish" /\ pass[r] < MAX_PASSES /\ ~flaky[r] /\ ~overlaps)
        => \A m \in names[r] \ recorded : ~Applicable(m)

\* m was applied before one with an earlier name that seeds what m copies, as
\* happens when that one has failed in its turn; or one that m may copy from
\* was, of what it copies itself.
OutOfOrder(m) ==
    \E k \in applied : k <= m /\ \E n \in applied \ (before[k] \cup {k}) :
        n < k /\ \E c \in Copies[k] : Supplies(n, c[1])

\* A copy that was made too early is not made up for, unless the migration is
\* applied again, by whoever lost its record: it counts as applied.  It happens
\* only where migrations were applied out of order.
LostOnlyOutOfOrder ==
    \A m \in applied : \A c \in Copies[m] :
        c[1] \in facts /\ c[2] \notin facts => OutOfOrder(m)

=============================================================================
