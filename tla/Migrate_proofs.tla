--------------------------- MODULE Migrate_proofs ---------------------------
(***************************************************************************)
(* Proofs about Migrate for any migrations, releases and number of         *)
(* runners that overlap, die, lose connections and go back to an older     *)
(* release.                                                                *)
(***************************************************************************)
EXTENDS Migrate, FiniteSetTheorems, TLAPS

USE MigrationAssumption, SqlAssumption, SubsetAssumption, ReleaseAssumption, BoundAssumption

-----------------------------------------------------------------------------
(* The inductive invariant.                                                *)

\* The part of the type invariant that the proofs need.
Typed ==
    /\ recorded \subseteq Migration /\ applied \subseteq Migration
    /\ before \in [Migration -> SUBSET Migration]
    /\ at \in [Runner -> Place]
    /\ names \in [Runner -> SUBSET Migration]
    /\ pending \in [Runner -> SUBSET Migration]
    /\ failures \in [Runner -> SUBSET Migration]
    /\ pass \in [Runner -> Nat]
    /\ final \in [Runner -> SUBSET Migration]
    /\ exit \in [Runner -> {"none", "ok", "failed", "crashed"}]

\* What is recorded, was read for the rewrite, or waits for its record.
AppliedInv ==
    /\ recorded \subseteq applied
    /\ \A r \in Runner :
        /\ final[r] \subseteq applied
        /\ at[r] = "record" => \A m \in Migration : IsCurrent(r, m) => m \in applied

\* Of its release, a runner has applied what it has met in its first pass and
\* did not note as a failure.
LeftInv ==
    \A r \in Runner :
        /\ at[r] \in {"apply", "record"} => names[r] \subseteq applied \cup pending[r] \cup failures[r]
        /\ at[r] = "list" => pass[r] = 0 \/ names[r] \subseteq applied \cup failures[r]
        /\ at[r] \in {"judge", "finish", "rewrite", "exit"} => names[r] \subseteq applied \cup failures[r]
        /\ exit[r] = "ok" => names[r] \subseteq applied

\* A runner that has never been overtaken is alone, and what it read is what
\* is there.
AloneInv ==
    ~overlaps =>
        /\ \A q, r \in Runner : at[q] # "off" /\ at[r] # "off" => q = r
        /\ \A r \in Runner : at[r] = "rewrite" => final[r] = recorded

\* What was applied before m is applied; what was applied has left its facts.
HistoryInv ==
    /\ \A m \in applied : before[m] \subseteq applied
    /\ \A m \in applied : Adds[m] \subseteq facts

CountsTyped == start \in [Runner -> [count : Nat, failures : Nat]] /\ flaky \in [Runner -> BOOLEAN]

\* In a pass that no transient failure and no other runner disturbed, the count
\* of what is recorded never falls, what is still to come is not recorded, and,
\* as long as the count has not risen, what was tried still cannot be applied.
\* While a body waits for its record the schema has moved and the count has not.
Undisturbed(r) ==
    /\ at[r] \in {"apply", "record", "judge"} =>
        /\ pending[r] \cap recorded = {}
        /\ start[r].count <= Cardinality(recorded)
    /\ at[r] = "judge" => pending[r] = {}
    /\ at[r] \in {"apply", "judge"} /\ start[r].count = Cardinality(recorded) =>
        \A m \in names[r] \ (recorded \cup pending[r]) : ~Applicable(m)
    /\ at[r] = "finish" /\ pass[r] < MAX_PASSES =>
        \A m \in names[r] \ recorded : ~Applicable(m)

FixpointInv == ~overlaps => \A r \in Runner : flaky[r] \/ Undisturbed(r)

IInv ==
    /\ Typed /\ AppliedInv /\ LeftInv /\ AloneInv
    /\ UnrecordedExplained
    /\ HistoryInv /\ LostOnlyOutOfOrder
    /\ CountsTyped /\ FixpointInv

-----------------------------------------------------------------------------

LEMMA InitIInv == Init => IInv
BY DEF Init, IInv, Typed, Place, AppliedInv, LeftInv, AloneInv, UnrecordedExplained, HistoryInv,
       LostOnlyOutOfOrder, CountsTyped, FixpointInv, Undisturbed

\* Committing a body adds to what is applied, and records the order.
LEMMA BodyApplies ==
    ASSUME Typed, NEW m \in Migration, Body(m)
    PROVE  /\ applied' = applied \cup {m}
           /\ before' \in [Migration -> SUBSET Migration]
           /\ \A k \in applied : before'[k] = before[k]
           /\ m \notin applied => before'[m] = applied
BY DEF Body, Typed

\* Nothing puts the order of what was applied right.
LEMMA OutOfOrderStays ==
    ASSUME Typed, NEW k \in Migration, Body(k), NEW m, OutOfOrder(m)
    PROVE  OutOfOrder(m)'
BY BodyApplies DEF OutOfOrder

\* The heart of the matter: what m looks for is there since a body that was not
\* applied when m was, or was applied again; then what that body had lost was
\* lost out of order.
LEMMA BodyKeepsHistory ==
    ASSUME Typed, HistoryInv, LostOnlyOutOfOrder, NEW k \in Migration, Applicable(k), Body(k)
    PROVE  HistoryInv' /\ LostOnlyOutOfOrder'
<1> DEFINE seeded == facts \cup Adds[k]
           copied == {c[2] : c \in {d \in Copies[k] : d[1] \in seeded}}
<1>1. facts' = seeded \cup copied
  BY DEF Body
<1>2. /\ applied' = applied \cup {k}
      /\ \A m \in applied : before'[m] = before[m]
      /\ k \notin applied => before'[k] = applied
  BY BodyApplies
<1>3. HistoryInv'
  BY <1>1, <1>2 DEF HistoryInv
<1>4. ASSUME NEW m \in applied', NEW c \in Copies[m], c[1] \in facts', c[2] \notin facts'
      PROVE  OutOfOrder(m)'
  <2>1. c[2] \notin facts /\ m \in Migration
    BY <1>1, <1>2, <1>4 DEF Typed
  <2>2. ASSUME m = k PROVE FALSE
    <3>1. c[1] \notin seeded
      BY <1>1, <1>4, <2>2
    <3>2. PICK d \in Copies[k] : c[1] = d[2]
      BY <1>1, <1>4, <3>1
    <3>3. QED
      BY <2>2, <3>2, ShallowAssumption
  <2>3. m \in applied
    BY <1>2, <2>2
  <2>4. CASE c[1] \in facts
    BY <2>1, <2>3, <2>4, OutOfOrderStays DEF LostOnlyOutOfOrder
  <2>5. CASE c[1] \notin facts
    <3>1. c[1] \in Adds[k] \/ \E d \in Copies[k] : d[1] \in seeded /\ d[2] = c[1]
      BY <1>1, <1>4, <2>5
    <3>2. k <= m /\ Supplies(k, c[1])
      BY <1>4, <2>1, <3>1, CopyAssumption DEF Supplies
    <3>3. CASE k \notin applied
      <4>1. k < m
        BY <2>1, <2>2, <3>2
      <4>2. k \notin before'[m] /\ k # m
        BY <1>2, <2>2, <2>3, <3>3 DEF HistoryInv
      <4> QED
        BY <1>2, <1>4, <2>1, <3>2, <4>1, <4>2 DEF OutOfOrder
    <3>4. CASE k \in applied
      <4>1. Adds[k] \subseteq facts
        BY <3>4 DEF HistoryInv
      <4>2. PICK d \in Copies[k] : d[1] \in facts /\ d[2] \notin facts
        BY <2>5, <3>1, <4>1
      <4>3. OutOfOrder(k)'
        BY <3>4, <4>2, OutOfOrderStays DEF LostOnlyOutOfOrder
      <4>4. PICK j \in applied' : j <= k /\ \E n \in applied' \ (before'[j] \cup {j}) :
                                      n < j /\ \E e \in Copies[j] : Supplies(n, e[1])
        BY <4>3 DEF OutOfOrder
      <4>5. j \in Migration /\ j <= k
        BY <1>2, <4>4 DEF Typed
      <4>6. j <= m
        BY <2>1, <3>2, <4>5, MigrationAssumption
      <4> QED
        BY <4>4, <4>6 DEF OutOfOrder
    <3> QED
      BY <3>3, <3>4
  <2>6. QED
    BY <2>4, <2>5
<1>5. LostOnlyOutOfOrder'
  BY <1>4 DEF LostOnlyOutOfOrder
<1> QED
  BY <1>3, <1>5

-----------------------------------------------------------------------------
(* The steps.                                                              *)

\* A body that is committed, with or without its record, keeps the types.
LEMMA BodyTyped ==
    ASSUME Typed, NEW m \in Migration, Body(m)
    PROVE  applied' \subseteq Migration /\ before' \in [Migration -> SUBSET Migration]
<1>1. applied' = applied \cup {m} /\ before' \in [Migration -> SUBSET Migration]
  BY BodyApplies
<1> QED
  BY <1>1 DEF Typed

\* The cases of the steps below: those that commit a body, and the rest.
LEMMA HistoryCases ==
    ASSUME [Next]_vars
    PROVE  \/ \E m \in Migration : Applicable(m) /\ Body(m)
           \/ UNCHANGED <<facts, applied, before>>
BY DEF Next, vars, database, Start, ListPending, LeaveLoop, ApplyInTransaction, ApplyOutside, Record,
       Rejected, Interrupted, Judge, ReadFinal, Rewrite, Exit, Crash

LEMMA HistoryStep ==
    ASSUME Typed, HistoryInv, LostOnlyOutOfOrder, [Next]_vars
    PROVE  HistoryInv' /\ LostOnlyOutOfOrder'
<1>1. CASE \E m \in Migration : Applicable(m) /\ Body(m)
  BY <1>1, BodyKeepsHistory
<1>2. CASE UNCHANGED <<facts, applied, before>>
  BY <1>2 DEF HistoryInv, LostOnlyOutOfOrder, OutOfOrder
<1> QED
  BY <1>1, <1>2, HistoryCases

\* Nothing that was applied is taken back.
LEMMA AppliedGrows ==
    ASSUME Typed, [Next]_vars
    PROVE  /\ applied \subseteq applied'
           /\ applied' \subseteq Migration
           /\ before' \in [Migration -> SUBSET Migration]
<1>1. CASE \E m \in Migration : Applicable(m) /\ Body(m)
  BY <1>1, BodyApplies, BodyTyped
<1>2. CASE UNCHANGED <<facts, applied, before>>
  BY <1>2 DEF Typed
<1> QED
  BY <1>1, <1>2, HistoryCases

\* Types.
LEMMA TypeStep ==
    ASSUME Typed, [Next]_vars
    PROVE  Typed'
<1> USE AppliedGrows DEF Typed, Place
<1>1. ASSUME NEW r \in Runner, Start(r) PROVE Typed'
  BY <1>1 DEF Start, Goes, database, bounds
<1>2. ASSUME NEW r \in Runner, ListPending(r) PROVE Typed'
  BY <1>2 DEF ListPending, Goes, database, bounds
<1>3. ASSUME NEW r \in Runner, LeaveLoop(r) PROVE Typed'
  BY <1>3 DEF LeaveLoop, Goes, database, bounds
<1>4. ASSUME NEW r \in Runner, NEW m \in Migration, ApplyInTransaction(r, m) PROVE Typed'
  BY <1>4 DEF ApplyInTransaction, Succeeds, DoneWith, Goes, database, bounds
<1>5. ASSUME NEW r \in Runner, NEW m \in Migration, ApplyOutside(r, m) PROVE Typed'
  BY <1>5 DEF ApplyOutside, Goes, database, bounds
<1>6. ASSUME NEW r \in Runner, NEW m \in Migration, Record(r, m) PROVE Typed'
  BY <1>6 DEF Record, Succeeds, DoneWith, Goes, database, bounds
<1>7. ASSUME NEW r \in Runner, NEW m \in Migration, Rejected(r, m) PROVE Typed'
  BY <1>7 DEF Rejected, Fails, DoneWith, Goes, database, bounds
<1>8. ASSUME NEW r \in Runner, NEW m \in Migration, Interrupted(r, m) PROVE Typed'
  <2>1. recorded' \subseteq Migration
    BY <1>8 DEF Interrupted, database
  <2>2. Fails(r, m)
    BY <1>8 DEF Interrupted
  <2>3. failures' \in [Runner -> SUBSET Migration] /\ pending' \in [Runner -> SUBSET Migration]
    BY <2>2 DEF Fails, DoneWith
  <2>4. at' \in [Runner -> Place] /\ UNCHANGED <<names, pass, start, final, exit>>
    BY <2>2 DEF Fails, DoneWith, Goes
  <2> QED
    BY <2>1, <2>3, <2>4
<1>9. ASSUME NEW r \in Runner, Judge(r) PROVE Typed'
  BY <1>9 DEF Judge, Goes, database, bounds
<1>10. ASSUME NEW r \in Runner, ReadFinal(r) PROVE Typed'
  BY <1>10 DEF ReadFinal, Goes, database, bounds
<1>11. ASSUME NEW r \in Runner, Rewrite(r) PROVE Typed'
  BY <1>11 DEF Rewrite, Goes, database, bounds
<1>12. ASSUME NEW r \in Runner, Exit(r) PROVE Typed'
  BY <1>12 DEF Exit, Goes, database, bounds
<1>13. ASSUME NEW r \in Runner, Crash(r) PROVE Typed'
  BY <1>13 DEF Crash, Fault, Goes, database, bounds
<1>14. CASE UNCHANGED vars
  BY <1>14 DEF vars, database, bounds
<1> QED
  BY <1>1, <1>2, <1>3, <1>4, <1>5, <1>6, <1>7, <1>8, <1>9, <1>10, <1>11, <1>12, <1>13, <1>14 DEF Next

\* A migration is the current one of a runner alone.
LEMMA CurrentIsOne ==
    ASSUME NEW r \in Runner, NEW m \in Migration, NEW n \in Migration, IsCurrent(r, m), IsCurrent(r, n)
    PROVE  m = n
<1>1. m \in Nat /\ n \in Nat
  BY MigrationAssumption
<1> QED
  BY <1>1 DEF IsCurrent

\* The record, and what is about to be written to it, stays within what was applied.
LEMMA AppliedStep ==
    ASSUME Typed, AppliedInv, [Next]_vars
    PROVE  AppliedInv'
<1> USE AppliedGrows DEF Typed, AppliedInv, IsCurrent
<1>1. ASSUME NEW r \in Runner, Start(r) PROVE AppliedInv'
  BY <1>1 DEF Start, Goes, database, bounds
<1>2. ASSUME NEW r \in Runner, ListPending(r) PROVE AppliedInv'
  BY <1>2 DEF ListPending, Goes, database, bounds
<1>3. ASSUME NEW r \in Runner, LeaveLoop(r) PROVE AppliedInv'
  BY <1>3 DEF LeaveLoop, Goes, database, bounds
<1>4. ASSUME NEW r \in Runner, NEW m \in Migration, ApplyInTransaction(r, m) PROVE AppliedInv'
  <2>1. /\ at' = [at EXCEPT ![r] = IF pending[r] = {m} THEN "judge" ELSE "apply"]
        /\ m \in applied' /\ recorded' = recorded \cup {m} /\ UNCHANGED final
        /\ pending' = [pending EXCEPT ![r] = @ \ {m}]
    BY <1>4, BodyApplies DEF ApplyInTransaction, Succeeds, DoneWith, Goes
  <2> QED
    BY <2>1
<1>5. ASSUME NEW r \in Runner, NEW m \in Migration, ApplyOutside(r, m) PROVE AppliedInv'
  <2>1. /\ at' = [at EXCEPT ![r] = "record"] /\ m \in applied'
        /\ UNCHANGED <<recorded, pending, final>>
    BY <1>5, BodyApplies DEF ApplyOutside, Goes
  <2>2. \A n \in Migration : IsCurrent(r, n) => n = m
    BY <1>5, CurrentIsOne DEF ApplyOutside
  <2> QED
    BY <2>1, <2>2
<1>6. ASSUME NEW r \in Runner, NEW m \in Migration, Record(r, m) PROVE AppliedInv'
  BY <1>6 DEF Record, Succeeds, DoneWith, Goes, database, bounds
<1>7. ASSUME NEW r \in Runner, NEW m \in Migration, Rejected(r, m) PROVE AppliedInv'
  BY <1>7 DEF Rejected, Fails, DoneWith, Goes, database, bounds
<1>8. ASSUME NEW r \in Runner, NEW m \in Migration, Interrupted(r, m) PROVE AppliedInv'
  <2>1. /\ at' = [at EXCEPT ![r] = IF pending[r] = {m} THEN "judge" ELSE "apply"]
        /\ UNCHANGED final
        /\ pending' = [pending EXCEPT ![r] = @ \ {m}]
    BY <1>8 DEF Interrupted, Fails, DoneWith, Goes
  <2>2. recorded' \subseteq applied'
    <3>1. recorded' = recorded \/ (recorded' = recorded \cup {m} /\ m \in applied')
      BY <1>8, BodyApplies DEF Interrupted, database
    <3> QED
      BY <3>1
  <2> QED
    BY <2>1, <2>2
<1>9. ASSUME NEW r \in Runner, Judge(r) PROVE AppliedInv'
  BY <1>9 DEF Judge, Goes, database, bounds
<1>10. ASSUME NEW r \in Runner, ReadFinal(r) PROVE AppliedInv'
  BY <1>10 DEF ReadFinal, Goes, database, bounds
<1>11. ASSUME NEW r \in Runner, Rewrite(r) PROVE AppliedInv'
  BY <1>11 DEF Rewrite, Goes, database, bounds
<1>12. ASSUME NEW r \in Runner, Exit(r) PROVE AppliedInv'
  BY <1>12 DEF Exit, Goes, database, bounds
<1>13. ASSUME NEW r \in Runner, Crash(r) PROVE AppliedInv'
  BY <1>13 DEF Crash, Fault, Goes, database, bounds
<1>14. CASE UNCHANGED vars
  BY <1>14 DEF vars, database, bounds
<1> QED
  BY <1>1, <1>2, <1>3, <1>4, <1>5, <1>6, <1>7, <1>8, <1>9, <1>10, <1>11, <1>12, <1>13, <1>14 DEF Next

\* What a runner has come to in a pass it has applied, or noted as a failure.
LEMMA LeftStep ==
    ASSUME Typed, AppliedInv, LeftInv, [Next]_vars
    PROVE  LeftInv'
<1> USE AppliedGrows DEF Typed, AppliedInv, LeftInv
<1>1. ASSUME NEW r \in Runner, Start(r) PROVE LeftInv'
  BY <1>1 DEF Start, Goes, database, bounds
<1>2. ASSUME NEW r \in Runner, ListPending(r) PROVE LeftInv'
  BY <1>2 DEF ListPending, Goes, database, bounds
<1>3. ASSUME NEW r \in Runner, LeaveLoop(r) PROVE LeftInv'
  BY <1>3 DEF LeaveLoop, Goes, database, bounds
<1>4. ASSUME NEW r \in Runner, NEW m \in Migration, ApplyInTransaction(r, m) PROVE LeftInv'
  <2>1. /\ at' = [at EXCEPT ![r] = IF pending[r] = {m} THEN "judge" ELSE "apply"]
        /\ at[r] = "apply"
        /\ m \in applied' /\ UNCHANGED <<names, pass, exit>>
        /\ pending' = [pending EXCEPT ![r] = @ \ {m}]
        /\ failures' = [failures EXCEPT ![r] = @ \ {m}]
    BY <1>4, BodyApplies DEF ApplyInTransaction, Succeeds, DoneWith, Goes
  <2> QED
    BY <2>1
<1>5. ASSUME NEW r \in Runner, NEW m \in Migration, ApplyOutside(r, m) PROVE LeftInv'
  BY <1>5 DEF ApplyOutside, Goes, database, bounds
<1>6. ASSUME NEW r \in Runner, NEW m \in Migration, Record(r, m) PROVE LeftInv'
  BY <1>6 DEF Record, Succeeds, DoneWith, Goes, database, bounds
<1>7. ASSUME NEW r \in Runner, NEW m \in Migration, Rejected(r, m) PROVE LeftInv'
  BY <1>7 DEF Rejected, Fails, DoneWith, Goes, database, bounds
<1>8. ASSUME NEW r \in Runner, NEW m \in Migration, Interrupted(r, m) PROVE LeftInv'
  BY <1>8 DEF Interrupted, Fails, DoneWith, Fault, Goes, database, bounds
<1>9. ASSUME NEW r \in Runner, Judge(r) PROVE LeftInv'
  BY <1>9 DEF Judge, Goes, database, bounds
<1>10. ASSUME NEW r \in Runner, ReadFinal(r) PROVE LeftInv'
  BY <1>10 DEF ReadFinal, Goes, database, bounds
<1>11. ASSUME NEW r \in Runner, Rewrite(r) PROVE LeftInv'
  BY <1>11 DEF Rewrite, Goes, database, bounds
<1>12. ASSUME NEW r \in Runner, Exit(r) PROVE LeftInv'
  BY <1>12 DEF Exit, Goes, database, bounds
<1>13. ASSUME NEW r \in Runner, Crash(r) PROVE LeftInv'
  BY <1>13 DEF Crash, Fault, Goes, database, bounds
<1>14. CASE UNCHANGED vars
  BY <1>14 DEF vars, database, bounds
<1> QED
  BY <1>1, <1>2, <1>3, <1>4, <1>5, <1>6, <1>7, <1>8, <1>9, <1>10, <1>11, <1>12, <1>13, <1>14 DEF Next

\* A runner that finds no other at work reads what it will write back.
LEMMA AloneStep ==
    ASSUME Typed, AloneInv, [Next]_vars
    PROVE  AloneInv'
<1> USE AppliedGrows DEF Typed, AloneInv
<1>1. ASSUME NEW r \in Runner, Start(r) PROVE AloneInv'
  BY <1>1 DEF Start, Goes, database, bounds
<1>2. ASSUME NEW r \in Runner, ListPending(r) PROVE AloneInv'
  BY <1>2 DEF ListPending, Goes, database, bounds
<1>3. ASSUME NEW r \in Runner, LeaveLoop(r) PROVE AloneInv'
  BY <1>3 DEF LeaveLoop, Goes, database, bounds
<1>4. ASSUME NEW r \in Runner, NEW m \in Migration, ApplyInTransaction(r, m) PROVE AloneInv'
  BY <1>4 DEF ApplyInTransaction, Succeeds, DoneWith, Goes, database, bounds
<1>5. ASSUME NEW r \in Runner, NEW m \in Migration, ApplyOutside(r, m) PROVE AloneInv'
  BY <1>5 DEF ApplyOutside, Goes, database, bounds
<1>6. ASSUME NEW r \in Runner, NEW m \in Migration, Record(r, m) PROVE AloneInv'
  BY <1>6 DEF Record, Succeeds, DoneWith, Goes, database, bounds
<1>7. ASSUME NEW r \in Runner, NEW m \in Migration, Rejected(r, m) PROVE AloneInv'
  BY <1>7 DEF Rejected, Fails, DoneWith, Goes, database, bounds
<1>8. ASSUME NEW r \in Runner, NEW m \in Migration, Interrupted(r, m) PROVE AloneInv'
  BY <1>8 DEF Interrupted, Fails, DoneWith, Fault, Goes, database, bounds
<1>9. ASSUME NEW r \in Runner, Judge(r) PROVE AloneInv'
  BY <1>9 DEF Judge, Goes, database, bounds
<1>10. ASSUME NEW r \in Runner, ReadFinal(r) PROVE AloneInv'
  BY <1>10 DEF ReadFinal, Goes, database, bounds
<1>11. ASSUME NEW r \in Runner, Rewrite(r) PROVE AloneInv'
  BY <1>11 DEF Rewrite, Goes, database, bounds
<1>12. ASSUME NEW r \in Runner, Exit(r) PROVE AloneInv'
  BY <1>12 DEF Exit, Goes, database, bounds
<1>13. ASSUME NEW r \in Runner, Crash(r) PROVE AloneInv'
  BY <1>13 DEF Crash, Fault, Goes, database, bounds
<1>14. CASE UNCHANGED vars
  BY <1>14 DEF vars, database, bounds
<1> QED
  BY <1>1, <1>2, <1>3, <1>4, <1>5, <1>6, <1>7, <1>8, <1>9, <1>10, <1>11, <1>12, <1>13, <1>14 DEF Next

\* A migration is applied with its record, unless it runs outside a transaction.
LEMMA UnrecordedStep ==
    ASSUME Typed, AloneInv, UnrecordedExplained, [Next]_vars
    PROVE  UnrecordedExplained'
<1> USE AppliedGrows DEF Typed, AloneInv, UnrecordedExplained
<1>1. ASSUME NEW r \in Runner, Start(r) PROVE UnrecordedExplained'
  BY <1>1 DEF Start, Goes, database, bounds
<1>2. ASSUME NEW r \in Runner, ListPending(r) PROVE UnrecordedExplained'
  BY <1>2 DEF ListPending, Goes, database, bounds
<1>3. ASSUME NEW r \in Runner, LeaveLoop(r) PROVE UnrecordedExplained'
  BY <1>3 DEF LeaveLoop, Goes, database, bounds
<1>4. ASSUME NEW r \in Runner, NEW m \in Migration, ApplyInTransaction(r, m) PROVE UnrecordedExplained'
  <2>1. /\ applied' = applied \cup {m}
        /\ recorded' = recorded \cup {m} /\ UNCHANGED overlaps
    BY <1>4, BodyApplies DEF ApplyInTransaction, bounds
  <2> QED
    BY <2>1
<1>5. ASSUME NEW r \in Runner, NEW m \in Migration, ApplyOutside(r, m) PROVE UnrecordedExplained'
  <2>1. /\ applied' = applied \cup {m} /\ m \in Concurrently
        /\ UNCHANGED <<recorded, overlaps>>
    BY <1>5, BodyApplies DEF ApplyOutside, bounds
  <2> QED
    BY <2>1
<1>6. ASSUME NEW r \in Runner, NEW m \in Migration, Record(r, m) PROVE UnrecordedExplained'
  BY <1>6 DEF Record, Succeeds, DoneWith, Goes, database, bounds
<1>7. ASSUME NEW r \in Runner, NEW m \in Migration, Rejected(r, m) PROVE UnrecordedExplained'
  BY <1>7 DEF Rejected, Fails, DoneWith, Goes, database, bounds
<1>8. ASSUME NEW r \in Runner, NEW m \in Migration, Interrupted(r, m) PROVE UnrecordedExplained'
  <2>1. /\ UNCHANGED overlaps
        /\ \/ UNCHANGED <<applied, recorded>>
           \/ applied' = applied \cup {m} /\ recorded' = recorded \cup {m}
           \/ UNCHANGED applied /\ recorded' = recorded \cup {m}
    BY <1>8, BodyApplies DEF Interrupted, Fault, database
  <2> QED
    BY <2>1
<1>9. ASSUME NEW r \in Runner, Judge(r) PROVE UnrecordedExplained'
  BY <1>9 DEF Judge, Goes, database, bounds
<1>10. ASSUME NEW r \in Runner, ReadFinal(r) PROVE UnrecordedExplained'
  BY <1>10 DEF ReadFinal, Goes, database, bounds
<1>11. ASSUME NEW r \in Runner, Rewrite(r) PROVE UnrecordedExplained'
  BY <1>11 DEF Rewrite, Goes, database, bounds
<1>12. ASSUME NEW r \in Runner, Exit(r) PROVE UnrecordedExplained'
  BY <1>12 DEF Exit, Goes, database, bounds
<1>13. ASSUME NEW r \in Runner, Crash(r) PROVE UnrecordedExplained'
  BY <1>13 DEF Crash, Fault, Goes, database, bounds
<1>14. CASE UNCHANGED vars
  BY <1>14 DEF vars, database, bounds
<1> QED
  BY <1>1, <1>2, <1>3, <1>4, <1>5, <1>6, <1>7, <1>8, <1>9, <1>10, <1>11, <1>12, <1>13, <1>14 DEF Next

\* The record is finite, and a migration that is not in it makes it longer by one.
LEMMA RecordCounts ==
    ASSUME Typed
    PROVE  /\ IsFiniteSet(recorded) /\ Cardinality(recorded) \in Nat
           /\ \A m \in Migration \ recorded : Cardinality(recorded \cup {m}) = Cardinality(recorded) + 1
<1>1. IsFiniteSet(recorded)
  BY FS_Subset DEF Typed
<1> QED
  BY <1>1, FS_CardinalityType, FS_AddElement

LEMMA CountsStep ==
    ASSUME Typed, CountsTyped, [Next]_vars
    PROVE  CountsTyped'
<1>1. ASSUME NEW r \in Runner, Start(r) PROVE CountsTyped'
  BY <1>1 DEF Start, CountsTyped
<1>2. ASSUME NEW r \in Runner, ListPending(r) PROVE CountsTyped'
  <2>1. Cardinality(recorded) \in Nat
    BY RecordCounts
  <2>2. Cardinality(failures[r]) \in Nat
    BY FS_Subset, FS_CardinalityType DEF Typed
  <2> QED
    BY <1>2, <2>1, <2>2 DEF ListPending, CountsTyped
<1>3. ASSUME NEW r \in Runner, NEW m \in Migration, Interrupted(r, m) PROVE CountsTyped'
  BY <1>3 DEF Interrupted, Fails, DoneWith, CountsTyped
<1>4. CASE UNCHANGED <<start, flaky>>
  BY <1>4 DEF CountsTyped
<1>5. ASSUME NEW r \in Runner,
             LeaveLoop(r) \/ Judge(r) \/ ReadFinal(r) \/ Rewrite(r) \/ Exit(r) \/ Crash(r)
      PROVE  UNCHANGED <<start, flaky>>
  BY <1>5 DEF LeaveLoop, Judge, ReadFinal, Rewrite, Exit, Crash
<1>6. ASSUME NEW r \in Runner, NEW m \in Migration,
             ApplyInTransaction(r, m) \/ ApplyOutside(r, m) \/ Record(r, m) \/ Rejected(r, m)
      PROVE  UNCHANGED <<start, flaky>>
  BY <1>6 DEF ApplyInTransaction, ApplyOutside, Record, Rejected, Succeeds, Fails, DoneWith
<1>7. CASE UNCHANGED vars
  BY <1>4, <1>7 DEF vars
<1> QED
  BY <1>1, <1>2, <1>3, <1>4, <1>5, <1>6, <1>7 DEF Next

\* Where runners have not met, the others are off when one takes a step.
LEMMA OthersAreOff ==
    ASSUME Typed, AloneInv, FixpointInv, NEW r \in Runner, at[r] # "off", ~overlaps,
           \A q \in Runner \ {r} : at'[q] = at[q]
    PROVE  /\ \A q \in Runner \ {r} : at'[q] = "off"
           /\ flaky[r] \/ Undisturbed(r)
BY DEF AloneInv, FixpointInv

\* A pass that has not been disturbed is left so by every step.
LEMMA FixpointStep ==
    ASSUME Typed, CountsTyped, AloneInv, FixpointInv, [Next]_vars
    PROVE  FixpointInv'
<1> SUFFICES ASSUME ~overlaps', NEW p \in Runner, ~flaky'[p], at'[p] # "off"
             PROVE  Undisturbed(p)'
  BY DEF FixpointInv, Undisturbed
<1> USE RecordCounts DEF Typed, CountsTyped
<1>1. ASSUME NEW r \in Runner, Start(r) PROVE Undisturbed(p)'
  BY <1>1 DEF Start, Goes, Undisturbed
<1>2. ASSUME NEW r \in Runner, ListPending(r) PROVE Undisturbed(p)'
  <2>1. r = p /\ ~overlaps
    BY <1>2, OthersAreOff DEF ListPending, Goes, bounds
  <2>2. flaky[p] \/ Undisturbed(p)
    BY <1>2, <2>1, OthersAreOff DEF FixpointInv
  <2> QED
    BY <1>2, <2>1, <2>2 DEF ListPending, Goes, database, bounds, IsCurrent, Undisturbed, Applicable
<1>3. ASSUME NEW r \in Runner, LeaveLoop(r) PROVE Undisturbed(p)'
  <2>1. r = p /\ ~overlaps
    BY <1>3, OthersAreOff DEF LeaveLoop, Goes, bounds
  <2>2. flaky[p] \/ Undisturbed(p)
    BY <1>3, <2>1, OthersAreOff DEF FixpointInv
  <2> QED
    BY <1>3, <2>1, <2>2 DEF LeaveLoop, Goes, database, bounds, IsCurrent, Undisturbed, Applicable
<1>4. ASSUME NEW r \in Runner, NEW m \in Migration, ApplyInTransaction(r, m) PROVE Undisturbed(p)'
  <2>1. r = p /\ ~overlaps
    BY <1>4, OthersAreOff DEF ApplyInTransaction, Succeeds, DoneWith, Goes, bounds
  <2>2. flaky[p] \/ Undisturbed(p)
    BY <1>4, <2>1, OthersAreOff DEF FixpointInv
  <2> QED
    BY <1>4, <2>1, <2>2 DEF ApplyInTransaction, Succeeds, DoneWith, Goes, database, bounds, IsCurrent, Undisturbed, Applicable
<1>5. ASSUME NEW r \in Runner, NEW m \in Migration, ApplyOutside(r, m) PROVE Undisturbed(p)'
  <2>1. r = p /\ ~overlaps
    BY <1>5, OthersAreOff DEF ApplyOutside, Goes, bounds
  <2>2. flaky[p] \/ Undisturbed(p)
    BY <1>5, <2>1, OthersAreOff DEF FixpointInv
  <2> QED
    BY <1>5, <2>1, <2>2 DEF ApplyOutside, Goes, database, bounds, IsCurrent, Undisturbed, Applicable
<1>6. ASSUME NEW r \in Runner, NEW m \in Migration, Record(r, m) PROVE Undisturbed(p)'
  <2>1. r = p /\ ~overlaps
    BY <1>6, OthersAreOff DEF Record, Succeeds, DoneWith, Goes, bounds
  <2>2. flaky[p] \/ Undisturbed(p)
    BY <1>6, <2>1, OthersAreOff DEF FixpointInv
  <2> QED
    BY <1>6, <2>1, <2>2 DEF Record, Succeeds, DoneWith, Goes, database, bounds, IsCurrent, Undisturbed, Applicable
<1>7. ASSUME NEW r \in Runner, NEW m \in Migration, Rejected(r, m) PROVE Undisturbed(p)'
  <2>1. r = p /\ ~overlaps
    BY <1>7, OthersAreOff DEF Rejected, Fails, DoneWith, Goes, bounds
  <2>2. flaky[p] \/ Undisturbed(p)
    BY <1>7, <2>1, OthersAreOff DEF FixpointInv
  <2> QED
    BY <1>7, <2>1, <2>2 DEF Rejected, Fails, DoneWith, Goes, database, bounds, IsCurrent, Undisturbed, Applicable
<1>8. ASSUME NEW r \in Runner, NEW m \in Migration, Interrupted(r, m) PROVE Undisturbed(p)'
  <2>1. r = p /\ ~overlaps
    BY <1>8, OthersAreOff DEF Interrupted, Fault, Fails, DoneWith, Goes, bounds
  <2>2. flaky[p] \/ Undisturbed(p)
    BY <1>8, <2>1, OthersAreOff DEF FixpointInv
  <2> QED
    BY <1>8, <2>1, <2>2 DEF Interrupted, Fault, Fails, DoneWith, Goes, database, bounds, IsCurrent, Undisturbed, Applicable
<1>9. ASSUME NEW r \in Runner, Judge(r) PROVE Undisturbed(p)'
  <2>1. r = p /\ ~overlaps
    BY <1>9, OthersAreOff DEF Judge, NoProgress, Goes, bounds
  <2>2. flaky[p] \/ Undisturbed(p)
    BY <1>9, <2>1, OthersAreOff DEF FixpointInv
  <2> QED
    BY <1>9, <2>1, <2>2 DEF Judge, NoProgress, Goes, database, bounds, IsCurrent, Undisturbed, Applicable
<1>10. ASSUME NEW r \in Runner, ReadFinal(r) PROVE Undisturbed(p)'
  <2>1. r = p /\ ~overlaps
    BY <1>10, OthersAreOff DEF ReadFinal, Goes, bounds
  <2>2. flaky[p] \/ Undisturbed(p)
    BY <1>10, <2>1, OthersAreOff DEF FixpointInv
  <2> QED
    BY <1>10, <2>1, <2>2 DEF ReadFinal, Goes, database, bounds, IsCurrent, Undisturbed, Applicable
<1>11. ASSUME NEW r \in Runner, Rewrite(r) PROVE Undisturbed(p)'
  <2>1. r = p /\ ~overlaps
    BY <1>11, OthersAreOff DEF Rewrite, Goes, bounds
  <2>2. flaky[p] \/ Undisturbed(p)
    BY <1>11, <2>1, OthersAreOff DEF FixpointInv
  <2> QED
    BY <1>11, <2>1, <2>2 DEF Rewrite, Goes, database, bounds, IsCurrent, Undisturbed, Applicable
<1>12. ASSUME NEW r \in Runner, Exit(r) PROVE Undisturbed(p)'
  <2>1. r = p /\ ~overlaps
    BY <1>12, OthersAreOff DEF Exit, Goes, bounds
  <2>2. flaky[p] \/ Undisturbed(p)
    BY <1>12, <2>1, OthersAreOff DEF FixpointInv
  <2> QED
    BY <1>12, <2>1, <2>2 DEF Exit, Goes, database, bounds, IsCurrent, Undisturbed, Applicable
<1>13. ASSUME NEW r \in Runner, Crash(r) PROVE Undisturbed(p)'
  <2>1. r = p /\ ~overlaps
    BY <1>13, OthersAreOff DEF Crash, Fault, Goes, bounds
  <2>2. flaky[p] \/ Undisturbed(p)
    BY <1>13, <2>1, OthersAreOff DEF FixpointInv
  <2> QED
    BY <1>13, <2>1, <2>2 DEF Crash, Fault, Goes, database, bounds, IsCurrent, Undisturbed, Applicable
<1>14. CASE UNCHANGED vars
  BY <1>14 DEF vars, database, bounds, FixpointInv, Undisturbed, Applicable
<1> QED
  BY <1>1, <1>2, <1>3, <1>4, <1>5, <1>6, <1>7, <1>8, <1>9, <1>10, <1>11, <1>12, <1>13, <1>14 DEF Next

LEMMA IInvStep == IInv /\ [Next]_vars => IInv'
BY TypeStep, AppliedStep, LeftStep, AloneStep, UnrecordedStep, HistoryStep, CountsStep, FixpointStep DEF IInv

LEMMA IInvHolds == Spec => []IInv
<1>1. Init => IInv
  BY InitIInv
<1>2. IInv /\ [Next]_vars => IInv'
  BY IInvStep
<1> QED
  BY <1>1, <1>2, PTL DEF Spec

-----------------------------------------------------------------------------

\* No runner records, writes back or vouches with its exit code for a
\* migration that no database transaction ever committed.
THEOREM RecordsAreApplied == Spec => []RecordedWasApplied
<1>1. IInv => RecordedWasApplied
  BY DEF IInv, AppliedInv, LeftInv, RecordedWasApplied
<1> QED
  BY <1>1, IInvHolds, PTL

\* As long as runners never overlap, only a migration outside a transaction can
\* be applied and not be in the record.
THEOREM UnrecordedIsExplained == Spec => []UnrecordedExplained
<1>1. IInv => UnrecordedExplained
  BY DEF IInv
<1> QED
  BY <1>1, IInvHolds, PTL

\* A grant that a migration should have copied is missing only where that
\* migration, or one it copies from, was applied before one with an earlier name
\* that seeds what it copies.
THEOREM LossIsOutOfOrder == Spec => []LostOnlyOutOfOrder
<1>1. IInv => LostOnlyOutOfOrder
  BY DEF IInv
<1> QED
  BY <1>1, IInvHolds, PTL

\* A runner that gives up before its last pass, met by no other runner and by no
\* transient failure, leaves nothing that could be applied.
THEOREM PassesReachFixpoint == Spec => []StopsAtFixpoint
<1>1. IInv => StopsAtFixpoint
  BY DEF IInv, FixpointInv, Undisturbed, StopsAtFixpoint
<1> QED
  BY <1>1, IInvHolds, PTL

=============================================================================
