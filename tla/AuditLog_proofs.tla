--------------------------- MODULE AuditLog_proofs ---------------------------
(***************************************************************************)
(* Proofs about AuditLog for every set of transactions, every plan and any *)
(* number of rows.                                                         *)
(***************************************************************************)
EXTENDS AuditAnchor, WellFoundedInduction, FiniteSetTheorems, SequenceTheorems, TLAPS

\* A payload appended to a chain is appended to the chain's tail.
LEMMA AppendToConcat ==
    ASSUME NEW c \in Seq(Entity), NEW k \in Seq(Entity), NEW e \in Entity
    PROVE  Append(c \o k, e) = c \o Append(k, e)
OBVIOUS

USE PlanAssumption, NoTxAssumption

-----------------------------------------------------------------------------
(* The inductive invariant.                                                *)

\* Places in which t can hold no lock: it has not begun, or has ended.
Ended == {"idle", "committed", "aborted"}

\* Locks and uncommitted rows belong to transactions that are running, and the
\* uncommitted rows to the holder of the advisory lock.
LockInv ==
    /\ auditLock # NoTx => pc[auditLock] \notin Ended
    /\ \A r \in table : pc[r.owner] = "committed" \/ auditLock = r.owner

\* An id is drawn once: it is on one row, or with one transaction that is
\* about to insert it.
IdInv ==
    /\ \A r \in table : 0 < r.id /\ r.id <= lastId
    /\ \A r, s \in table : r.id = s.id => r = s
    /\ \A t \in Tx : pc[t] = "trigger" =>
          /\ 0 < drawn[t] /\ drawn[t] <= lastId
          /\ \A r \in table : r.id # drawn[t]
          /\ \A u \in Tx : pc[u] = "trigger" /\ drawn[u] = drawn[t] => u = t

\* The row that r's trigger read, and what was in between.
ChainInv ==
    \A r \in table :
        /\ r.head # r.id
        /\ Len(r.hash) = Len(r.prev) + 1
        /\ r.head = 0 => r.prev = GENESIS
        /\ r.head # 0 => \E s \in table : s.id = r.head /\ s.hash = r.prev
        /\ \A s \in table : s.id = r.head => s.owner = r.owner \/ pc[s.owner] = "committed"
        /\ \A x \in table : r.head < x.id /\ x.id < r.id => Inverted(x)
        /\ \A x \in table : r.id < x.id => Inverted(r) \/ Len(r.hash) < Len(x.hash)

IInv == TypeOK /\ LockInv /\ IdInv /\ ChainInv

-----------------------------------------------------------------------------

LEMMA PlanFacts ==
    ASSUME NEW t \in Tx
    PROVE  /\ Plan[t] \in Seq(Entity)
           /\ Len(Plan[t]) \in Nat \ {0}
           /\ DOMAIN Plan[t] = 1..Len(Plan[t])
           /\ \A i \in DOMAIN Plan[t] : Plan[t][i] \in Entity
<1>1. Plan[t] \in Seq(Entity) /\ Plan[t] # <<>>
  OBVIOUS
<1>2. QED
  BY <1>1


\* ORDER BY id DESC LIMIT 1 finds a row among any nonempty set of rows whose
\* ids are bounded, and that row has the highest id of them.
LEMMA NewestRow ==
    ASSUME NEW rows \in SUBSET Row, rows # {},
           NEW n \in Nat, \A r \in rows : r.id <= n
    PROVE  /\ Newest(rows) \in rows
           /\ \A s \in rows : s.id <= Newest(rows).id
<1> DEFINE gaps == {n - r.id : r \in rows}
<1>1. gaps \in SUBSET Nat /\ gaps # {}
  BY DEF Row
<1>2. PICK g \in gaps : \A h \in gaps : g <= h
  <2> DEFINE Less == OpToRel(<, Nat)
  <2>1. IsWellFoundedOn(Less, Nat)
    BY NatLessThanWellFounded
  <2>2. PICK g \in gaps : \A h \in gaps : <<h, g>> \notin Less
    <3> HIDE DEF Less, gaps
    <3> QED
      BY <1>1, <2>1, WFMin
  <2>3. Less = {ss \in Nat \X Nat : ss[1] < ss[2]}
    BY DEF OpToRel
  <2>4. \A h \in gaps : ~(h < g)
    BY <1>1, <2>2, <2>3
  <2>5. QED
    <3> HIDE DEF gaps
    <3>1. g \in Nat /\ \A h \in gaps : h \in Nat
      BY <1>1
    <3>2. \A h \in gaps : g <= h
      BY <3>1, <2>4
    <3>3. QED
      BY <3>2
<1>3. PICK r \in rows : g = n - r.id
  OBVIOUS
<1>4. \A s \in rows : s.id <= r.id
  <2>1. SUFFICES ASSUME NEW s \in rows PROVE s.id <= r.id
    OBVIOUS
  <2>2. r.id \in Nat /\ s.id \in Nat
    BY DEF Row
  <2>3. n - s.id \in gaps
    OBVIOUS
  <2>4. g <= n - s.id
    BY <2>3, <1>2
  <2>5. QED
    BY <2>2, <2>4, <1>3
<1>5. QED
  BY <1>4 DEF Newest

\* Well-typed rows: what the trigger stamps is a row of the table's type.
LEMMA StampedRow ==
    ASSUME TypeOK, IdInv, NEW t \in Tx, step[t] \in DOMAIN Plan[t]
    PROVE  /\ Stamped(t) \in Row
           /\ Stamped(t).id = drawn[t]
           /\ Stamped(t).owner = t
           /\ Len(Stamped(t).hash) = Len(Stamped(t).prev) + 1
           /\ \/ /\ Visible(t) = {}
                 /\ Stamped(t).head = 0
                 /\ Stamped(t).prev = GENESIS
              \/ \E h \in Visible(t) :
                    /\ \A s \in Visible(t) : s.id <= h.id
                    /\ Stamped(t).head = h.id
                    /\ Stamped(t).prev = h.hash
<1> DEFINE rows == Visible(t)
<1>1. rows \in SUBSET Row
  BY DEF TypeOK, Visible
<1>2. Plan[t][step[t]] \in Entity
  BY PlanFacts
<1>3. CASE rows = {}
  <2>1. Stamped(t) = [id |-> drawn[t], owner |-> t, head |-> 0, prev |-> GENESIS,
                      hash |-> Append(GENESIS, Plan[t][step[t]])]
    BY <1>3 DEF Stamped, StampFrom, compute_audit_row_hash
  <2>2. GENESIS \in Hash /\ Len(GENESIS) = 0
    BY DEF GENESIS, Hash
  <2>3. QED
    BY <2>1, <2>2, <1>2, <1>3 DEF TypeOK, Row, Hash
<1>4. CASE rows # {}
  <2> DEFINE h == Newest(rows)
  <2>1. h \in rows /\ \A s \in rows : s.id <= h.id
    BY <1>1, <1>4, NewestRow DEF IdInv, TypeOK, Visible
  <2>2. Stamped(t) = [id |-> drawn[t], owner |-> t, head |-> h.id, prev |-> h.hash,
                      hash |-> Append(h.hash, Plan[t][step[t]])]
    BY <1>4 DEF Stamped, StampFrom, compute_audit_row_hash
  <2>3. h.id \in Nat /\ h.hash \in Seq(Entity)
    BY <1>1, <2>1 DEF Row, Hash
  <2>4. QED
    BY <2>1, <2>2, <2>3, <1>2 DEF TypeOK, Row, Hash
<1>5. QED
  BY <1>3, <1>4

-----------------------------------------------------------------------------
(* Each conjunct of the invariant is preserved by every step.              *)

LEMMA TypeStep == TypeOK /\ IdInv /\ [Next]_vars => TypeOK'
<1> SUFFICES ASSUME TypeOK, IdInv, [Next]_vars PROVE TypeOK'
  OBVIOUS
<1> USE DEF TypeOK, Places, Running
<1>1. ASSUME NEW t \in Tx, Begin(t) PROVE TypeOK'
  BY <1>1 DEF Begin
<1>2. ASSUME NEW t \in Tx, UpdateEntity(t) PROVE TypeOK'
  BY <1>2 DEF UpdateEntity
<1>3. ASSUME NEW t \in Tx, SkipEntity(t) PROVE TypeOK'
  BY <1>3, PlanFacts DEF SkipEntity, Continue
<1>4. ASSUME NEW t \in Tx, DrawId(t) PROVE TypeOK'
  BY <1>4 DEF DrawId
<1>5. ASSUME NEW t \in Tx, audit_log_chain_stamp(t) PROVE TypeOK'
  BY <1>5, PlanFacts, StampedRow DEF audit_log_chain_stamp, Continue
<1>6. ASSUME NEW t \in Tx, Commit(t) PROVE TypeOK'
  BY <1>6 DEF Commit, ReleaseLocks
<1>7. ASSUME NEW t \in Tx, Abort(t) PROVE TypeOK'
  BY <1>7 DEF Abort, ReleaseLocks
<1>8. CASE UNCHANGED vars
  BY <1>8 DEF vars
<1> QED
  BY <1>1, <1>2, <1>3, <1>4, <1>5, <1>6, <1>7, <1>8 DEF Next

LEMMA LockStep == TypeOK /\ LockInv /\ IdInv /\ [Next]_vars => LockInv'
<1> SUFFICES ASSUME TypeOK, LockInv, IdInv, [Next]_vars PROVE LockInv'
  OBVIOUS
<1> USE DEF TypeOK, LockInv, Places, Running, Ended
<1>1. ASSUME NEW t \in Tx, Begin(t) PROVE LockInv'
  BY <1>1 DEF Begin, Row
<1>2. ASSUME NEW t \in Tx, UpdateEntity(t) PROVE LockInv'
  BY <1>2 DEF UpdateEntity, Row
<1>3. ASSUME NEW t \in Tx, SkipEntity(t) PROVE LockInv'
  BY <1>3 DEF SkipEntity, Continue, Row
<1>4. ASSUME NEW t \in Tx, DrawId(t) PROVE LockInv'
  BY <1>4 DEF DrawId, Row
<1>5. ASSUME NEW t \in Tx, audit_log_chain_stamp(t) PROVE LockInv'
  <2>1. Stamped(t).owner = t
    BY <1>5, StampedRow DEF audit_log_chain_stamp
  <2>2. \A r \in table : pc[r.owner] = "committed" \/ r.owner = t
    BY <1>5 DEF audit_log_chain_stamp, Row
  <2>3. QED
    BY <1>5, <2>1, <2>2 DEF audit_log_chain_stamp, Continue, Row
<1>6. ASSUME NEW t \in Tx, Commit(t) PROVE LockInv'
  BY <1>6 DEF Commit, ReleaseLocks, Row
<1>7. ASSUME NEW t \in Tx, Abort(t) PROVE LockInv'
  BY <1>7 DEF Abort, ReleaseLocks, Row
<1>8. CASE UNCHANGED vars
  BY <1>8 DEF vars
<1> QED
  BY <1>1, <1>2, <1>3, <1>4, <1>5, <1>6, <1>7, <1>8 DEF Next

LEMMA IdStep == TypeOK /\ IdInv /\ [Next]_vars => IdInv'
<1> SUFFICES ASSUME TypeOK, IdInv, [Next]_vars PROVE IdInv'
  OBVIOUS
<1> USE DEF TypeOK, IdInv
<1>1. ASSUME NEW t \in Tx, Begin(t) PROVE IdInv'
  BY <1>1 DEF Begin
<1>2. ASSUME NEW t \in Tx, UpdateEntity(t) PROVE IdInv'
  BY <1>2 DEF UpdateEntity
<1>3. ASSUME NEW t \in Tx, SkipEntity(t) PROVE IdInv'
  BY <1>3 DEF SkipEntity, Continue
<1>4. ASSUME NEW t \in Tx, DrawId(t) PROVE IdInv'
  BY <1>4, SMTT(20) DEF DrawId, Row
<1>5. ASSUME NEW t \in Tx, audit_log_chain_stamp(t) PROVE IdInv'
  <2>1. Stamped(t).id = drawn[t] /\ Stamped(t) \in Row
    BY <1>5, StampedRow DEF audit_log_chain_stamp
  <2>2. QED
    BY <1>5, <2>1 DEF audit_log_chain_stamp, Continue
<1>6. ASSUME NEW t \in Tx, Commit(t) PROVE IdInv'
  BY <1>6 DEF Commit
<1>7. ASSUME NEW t \in Tx, Abort(t) PROVE IdInv'
  BY <1>7 DEF Abort
<1>8. CASE UNCHANGED vars
  BY <1>8 DEF vars
<1> QED
  BY <1>1, <1>2, <1>3, <1>4, <1>5, <1>6, <1>7, <1>8 DEF Next

\* The heart of the argument: while t is in the trigger nobody else's row is
\* uncommitted, so the head it reads is the newest row of the whole table.
LEMMA ChainStep == IInv /\ [Next]_vars => ChainInv'
<1> SUFFICES ASSUME IInv, [Next]_vars PROVE ChainInv'
  OBVIOUS
<1> USE DEF IInv, ChainInv, Inverted
<1>0. ASSUME table' = table, \A r \in table : pc[r.owner] = "committed" => pc'[r.owner] = "committed"
      PROVE  ChainInv'
  BY <1>0
<1>1. ASSUME NEW t \in Tx, Begin(t) PROVE ChainInv'
  BY <1>0, <1>1 DEF Begin, TypeOK, Row
<1>2. ASSUME NEW t \in Tx, UpdateEntity(t) PROVE ChainInv'
  BY <1>0, <1>2 DEF UpdateEntity, TypeOK, Row
<1>3. ASSUME NEW t \in Tx, SkipEntity(t) PROVE ChainInv'
  BY <1>0, <1>3 DEF SkipEntity, Continue, TypeOK, Row
<1>4. ASSUME NEW t \in Tx, DrawId(t) PROVE ChainInv'
  BY <1>0, <1>4 DEF DrawId, TypeOK, Row
<1>5. ASSUME NEW t \in Tx, audit_log_chain_stamp(t) PROVE ChainInv'
  <2> DEFINE z == Stamped(t)
  <2>1. /\ z \in Row /\ z.id = drawn[t] /\ z.owner = t
        /\ Len(z.hash) = Len(z.prev) + 1
    BY <1>5, StampedRow DEF audit_log_chain_stamp, TypeOK
  <2>2. Visible(t) = table
    BY <1>5 DEF audit_log_chain_stamp, LockInv, Visible, TypeOK, Row
  <2>3. \/ table = {} /\ z.head = 0 /\ z.prev = GENESIS
        \/ \E h \in table : /\ \A s \in table : s.id <= h.id
                            /\ z.head = h.id /\ z.prev = h.hash
    BY <1>5, <2>2, StampedRow DEF audit_log_chain_stamp, TypeOK
  <2>4. \A r \in table : 0 < r.id /\ r.id # z.id
    BY <1>5, <2>1 DEF audit_log_chain_stamp, IdInv
  <2>5. 0 < z.id
    BY <1>5, <2>1 DEF audit_log_chain_stamp, IdInv
  <2>6. \A r, s \in table : r.id = s.id => r = s
    BY DEF IdInv
  <2>7. table' = table \cup {z} /\ \A r \in table : r \in Row
    BY <1>5 DEF audit_log_chain_stamp, TypeOK
  <2>8. \A r \in table : pc[r.owner] = "committed" \/ r.owner = t
    BY <1>5 DEF audit_log_chain_stamp, LockInv, TypeOK, Row
  <2>9. \A r \in table \cup {z} : pc[r.owner] = "committed" => pc'[r.owner] = "committed"
    BY <1>5, <2>1 DEF audit_log_chain_stamp, Continue, TypeOK, Row
  <2> HIDE DEF z
  <2>10. ASSUME NEW r \in table' PROVE r.head # r.id /\ Len(r.hash) = Len(r.prev) + 1
    BY <2>1, <2>3, <2>4, <2>5, <2>7
  <2>11. ASSUME NEW r \in table'
         PROVE  /\ r.head = 0 => r.prev = GENESIS
                /\ r.head # 0 => \E s \in table' : s.id = r.head /\ s.hash = r.prev
    BY <2>3, <2>4, <2>7
  <2>12. ASSUME NEW r \in table', NEW s \in table', s.id = r.head
         PROVE  s.owner = r.owner \/ pc'[s.owner] = "committed"
    <3>1. CASE r \in table /\ s \in table
      BY <3>1, <2>9, <2>12
    <3>2. CASE r = z
      BY <3>2, <2>1, <2>3, <2>4, <2>5, <2>7, <2>8, <2>9, <2>12
    <3>3. CASE s = z /\ r \in table
      <4>1. r.head # 0
        BY <3>3, <2>5, <2>12
      <4>2. PICK q \in table : q.id = r.head
        BY <3>3, <4>1
      <4>3. QED
        BY <3>3, <4>2, <2>4, <2>12
    <3>4. QED
      BY <3>1, <3>2, <3>3, <2>7
  <2>13. ASSUME NEW r \in table', NEW x \in table', r.head < x.id, x.id < r.id
         PROVE  Inverted(x)
    <3>1. CASE r \in table /\ x \in table
      BY <3>1, <2>13
    <3>2. CASE r = z
      BY <3>2, <2>1, <2>3, <2>7, <2>13 DEF Row
    <3>3. CASE x = z /\ r \in table
      BY <3>3, <2>1, <2>3, <2>7, <2>13 DEF Row
    <3>4. QED
      BY <3>1, <3>2, <3>3, <2>7
  <2>14. ASSUME NEW r \in table', NEW x \in table', r.id < x.id
         PROVE  Inverted(r) \/ Len(r.hash) < Len(x.hash)
    <3>1. CASE r \in table /\ x \in table
      BY <3>1, <2>14
    <3>2. CASE r = z
      BY <3>2, <2>1, <2>3, <2>7, <2>14 DEF Row
    <3>3. CASE x = z /\ r \in table
      <4>1. PICK h \in table : /\ \A s \in table : s.id <= h.id
                               /\ z.head = h.id /\ z.prev = h.hash
        BY <3>3, <2>3
      <4>2. /\ Len(h.hash) \in Nat /\ Len(r.hash) \in Nat
            /\ h.id \in Nat /\ r.id \in Nat
        BY <3>3, <4>1, <2>7 DEF Row, Hash
      <4>3. Len(z.hash) = Len(h.hash) + 1
        BY <4>1, <2>1
      <4>4. CASE r.id = h.id
        BY <4>4, <4>1, <4>2, <4>3, <3>3, <2>6
      <4>5. CASE r.id # h.id
        <5>1. r.id < h.id
          BY <4>1, <4>2, <4>5, <3>3
        <5>2. Inverted(r) \/ Len(r.hash) < Len(h.hash)
          BY <5>1, <4>1, <3>3
        <5>3. QED
          BY <5>2, <4>2, <4>3, <3>3
      <4>6. QED
        BY <4>4, <4>5
    <3>4. QED
      BY <3>1, <3>2, <3>3, <2>7
  <2>15. QED
    BY <2>10, <2>11, <2>12, <2>13, <2>14
<1>6. ASSUME NEW t \in Tx, Commit(t) PROVE ChainInv'
  BY <1>0, <1>6 DEF Commit, TypeOK, Row
<1>7. ASSUME NEW t \in Tx, Abort(t) PROVE ChainInv'
  <2>1. /\ table' = {r \in table : r.owner # t}
        /\ \A r \in table : pc[r.owner] = "committed" => pc'[r.owner] = "committed"
        /\ pc[t] # "committed"
    BY <1>7 DEF Abort, Running, TypeOK, Row
  <2>2. ASSUME NEW r \in table', r.head # 0
        PROVE  \E s \in table' : s.id = r.head /\ s.hash = r.prev
    <3>1. PICK s \in table : s.id = r.head /\ s.hash = r.prev
      BY <2>1, <2>2
    <3>2. s.owner # t
      BY <2>1, <2>2, <3>1
    <3>3. QED
      BY <2>1, <3>1, <3>2
  <2>3. QED
    BY <2>1, <2>2
<1>8. CASE UNCHANGED vars
  BY <1>0, <1>8 DEF vars
<1> QED
  BY <1>1, <1>2, <1>3, <1>4, <1>5, <1>6, <1>7, <1>8 DEF Next

LEMMA InitIInv == Init => IInv
<1> SUFFICES ASSUME Init PROVE IInv
  OBVIOUS
<1>1. TypeOK
  BY PlanFacts DEF Init, TypeOK, Places, Running
<1>2. LockInv /\ IdInv /\ ChainInv
  BY DEF Init, LockInv, IdInv, ChainInv
<1>3. QED
  BY <1>1, <1>2 DEF IInv

LEMMA IInvHolds == Spec => []IInv
<1>1. IInv /\ [Next]_vars => IInv'
  BY TypeStep, LockStep, IdStep, ChainStep DEF IInv
<1>2. QED
  BY <1>1, InitIInv, PTL DEF Spec

-----------------------------------------------------------------------------
(* The theorems.                                                           *)

\* Every reachable state is well typed: ids are drawn, plans are walked to
\* their ends and hashes are built from payloads.
THEOREM TypeCorrect == Spec => []TypeOK
  BY IInvHolds, PTL DEF IInv

\* The advisory lock serializes appends: uncommitted rows are the holder's.
THEOREM Serialized == Spec => []AppendsSerialized
<1>1. IInv => AppendsSerialized
  BY DEF IInv, LockInv, AppendsSerialized
<1>2. QED
  BY <1>1, IInvHolds, PTL

\* In a state of the system a row is linked to the row before it exactly as
\* long as no row up to it is inverted.
LEMMA LinkedUpToInversion ==
    ASSUME IInv, NEW r \in Log, \A s \in Log : s.id < r.id => ~Inverted(s)
    PROVE  Linked(r) <=> ~Inverted(r)
<1> USE DEF Log
<1> DEFINE before == {s \in Log : s.id < r.id}
<1>1. /\ before \in SUBSET Row
      /\ r \in Row /\ r \in table
      /\ r.id \in Nat /\ 0 < r.id /\ r.head \in Nat
      /\ Len(r.hash) = Len(r.prev) + 1
      /\ r.head # r.id
  BY DEF IInv, TypeOK, IdInv, ChainInv, Row
<1>2. \A s \in table : s \in Row /\ s.id \in Nat /\ 0 < s.id /\ s.hash \in Seq(Entity) /\ s.prev \in Seq(Entity)
  BY DEF IInv, TypeOK, IdInv, Row, Hash
<1>3. CASE before = {}
  <2>1. Expected(r) = GENESIS
    BY <1>3 DEF Expected
  <2>2. CASE r.head = 0
    BY <2>1, <2>2, <1>1 DEF IInv, ChainInv, Linked, Inverted
  <2>3. CASE r.head # 0
    <3>1. PICK h \in table : h.id = r.head /\ h.hash = r.prev
      BY <2>3, <1>1 DEF IInv, ChainInv
    <3>2. h \in Log
      BY <3>1, <1>1 DEF IInv, ChainInv
    <3>3. Inverted(r)
      BY <3>1, <3>2, <1>1, <1>2, <1>3 DEF Inverted
    <3>4. Len(h.hash) = Len(h.prev) + 1 /\ Len(h.prev) \in Nat
      BY <3>1, <1>2 DEF IInv, ChainInv
    <3>5. r.prev # GENESIS
      BY <3>1, <3>4 DEF GENESIS
    <3>6. QED
      BY <2>1, <3>3, <3>5 DEF Linked
  <2>4. QED
    BY <2>2, <2>3
<1>4. CASE before # {}
  <2> DEFINE p == Newest(before)
  <2>1. p \in before /\ \A s \in before : s.id <= p.id
    BY <1>1, <1>4, NewestRow DEF IInv, TypeOK, IdInv
  <2>2. Expected(r) = p.hash
    BY <1>4 DEF Expected
  <2> HIDE DEF p
  <2>3. p \in table /\ p \in Log /\ p.id < r.id /\ ~Inverted(p)
    BY <2>1
  <2>4. ASSUME ~Inverted(r) PROVE Linked(r)
    <3>1. r.head < r.id
      BY <2>4, <1>1 DEF Inverted
    <3>2. p.id <= r.head
      BY <3>1, <2>3, <1>1, <1>2 DEF IInv, ChainInv
    <3>3. PICK h \in table : h.id = r.head /\ h.hash = r.prev
      BY <3>2, <2>3, <1>1, <1>2 DEF IInv, ChainInv
    <3>4. h \in before
      BY <3>1, <3>3, <1>1 DEF IInv, ChainInv
    <3>5. h.id = p.id
      BY <2>1, <3>2, <3>3, <3>4, <1>2, <2>3
    <3>6. h = p
      BY <3>5, <2>3, <3>3 DEF IInv, IdInv
    <3>7. QED
      BY <3>3, <3>6, <2>2 DEF Linked
  <2>5. ASSUME Inverted(r) PROVE ~Linked(r)
    <3>1. r.head # 0 /\ r.id < r.head
      BY <2>5, <1>1 DEF Inverted
    <3>2. PICK h \in table : h.id = r.head /\ h.hash = r.prev
      BY <3>1, <1>1 DEF IInv, ChainInv
    <3>3. p.id < h.id
      BY <3>1, <3>2, <2>3, <1>1, <1>2
    <3>4. Len(p.hash) < Len(h.hash)
      BY <3>3, <3>2, <2>3 DEF IInv, ChainInv
    <3>5. p.hash # h.hash
      BY <3>4, <3>2, <2>3, <1>2
    <3>6. QED
      BY <3>2, <3>5, <2>2 DEF Linked
  <2>6. QED
    BY <2>4, <2>5
<1>5. QED
  BY <1>3, <1>4

\* The least row satisfying a condition exists, so walks that stop at the
\* first bad row and statements about all earlier rows can be exchanged.
LEMMA FirstRow ==
    ASSUME NEW rows \in SUBSET Row, rows # {}
    PROVE  \E r \in rows : \A s \in rows : ~(s.id < r.id)
<1> DEFINE ids == {r.id : r \in rows}
           Less == OpToRel(<, Nat)
<1>1. ids \in SUBSET Nat /\ ids # {}
  BY DEF Row
<1>2. IsWellFoundedOn(Less, Nat)
  BY NatLessThanWellFounded
<1>3. PICK g \in ids : \A h \in ids : <<h, g>> \notin Less
  <2> HIDE DEF Less, ids
  <2> QED
    BY <1>1, <1>2, WFMin
<1>4. Less = {ss \in Nat \X Nat : ss[1] < ss[2]}
  BY DEF OpToRel
<1>5. \A h \in ids : ~(h < g)
  BY <1>1, <1>3, <1>4
<1>6. QED
  BY <1>5

\* The verify walk reports the first inverted row, and nothing else.
THEOREM WalkExact == Spec => []WalkReportsFirstInversion
<1>1. ASSUME IInv PROVE WalkReportsFirstInversion
  <2>1. Log \in SUBSET Row
    BY <1>1 DEF IInv, TypeOK, Log
  <2>2. ASSUME NEW r \in Log, \A s \in Log : s.id < r.id => Linked(s)
        PROVE  \A s \in Log : s.id < r.id => ~Inverted(s)
    <3> DEFINE bad == {s \in Log : s.id < r.id /\ Inverted(s)}
    <3>1. SUFFICES ASSUME bad # {} PROVE FALSE
      OBVIOUS
    <3>2. PICK b \in bad : \A s \in bad : ~(s.id < b.id)
      BY <2>1, <3>1, FirstRow
    <3>3. \A s \in Log : s.id < b.id => ~Inverted(s)
      BY <2>1, <3>2 DEF Row
    <3>4. ~Linked(b)
      BY <1>1, <3>2, <3>3, LinkedUpToInversion
    <3>5. QED
      BY <2>2, <3>2, <3>4
  <2>3. ASSUME NEW r \in Log, \A s \in Log : s.id < r.id => ~Inverted(s)
        PROVE  \A s \in Log : s.id < r.id => Linked(s)
    <3>1. SUFFICES ASSUME NEW s \in Log, s.id < r.id PROVE Linked(s)
      OBVIOUS
    <3>2. \A q \in Log : q.id < s.id => ~Inverted(q)
      BY <2>1, <2>3, <3>1 DEF Row
    <3>3. ~Inverted(s)
      BY <2>3, <3>1
    <3>4. QED
      BY <1>1, <3>2, <3>3, LinkedUpToInversion
  <2>4. ASSUME NEW r \in Log
        PROVE  (~Linked(r) /\ \A s \in Log : s.id < r.id => Linked(s))
               <=> (Inverted(r) /\ \A s \in Log : s.id < r.id => ~Inverted(s))
    <3>1. ASSUME ~Linked(r), \A s \in Log : s.id < r.id => Linked(s)
          PROVE  Inverted(r) /\ \A s \in Log : s.id < r.id => ~Inverted(s)
      BY <3>1, <1>1, <2>2, LinkedUpToInversion
    <3>2. ASSUME Inverted(r), \A s \in Log : s.id < r.id => ~Inverted(s)
          PROVE  ~Linked(r) /\ \A s \in Log : s.id < r.id => Linked(s)
      BY <3>2, <1>1, <2>3, LinkedUpToInversion
    <3>3. QED
      BY <3>1, <3>2
  <2>5. QED
    BY <2>4 DEF WalkReportsFirstInversion, BrokenAt
<1>2. QED
  BY <1>1, IInvHolds, PTL

-----------------------------------------------------------------------------
(* Deadlock needs a bulk transaction.                                      *)

\* A transaction that changes one entity holds nothing while it waits for the
\* entity's row lock, and no longer waits once it holds the chain's lock.
SingleInv ==
    \A t \in Tx :
        /\ pc[t] = "idle" => \A e \in Entity : rowLock[e] # t
        /\ Len(Plan[t]) = 1 =>
              /\ pc[t] = "update" => \A e \in Entity : rowLock[e] # t
              /\ auditLock = t => pc[t] = "commit"

LEMMA SingleStep == IInv /\ SingleInv /\ [Next]_vars => SingleInv'
<1> SUFFICES ASSUME IInv, SingleInv, [Next]_vars PROVE SingleInv'
  OBVIOUS
<1> USE DEF IInv, TypeOK, LockInv, SingleInv, Ended
<1>1. ASSUME NEW t \in Tx, Begin(t) PROVE SingleInv'
  BY <1>1 DEF Begin
<1>2. ASSUME NEW t \in Tx, UpdateEntity(t) PROVE SingleInv'
  BY <1>2, PlanFacts DEF UpdateEntity
<1>3. ASSUME NEW t \in Tx, SkipEntity(t) PROVE SingleInv'
  BY <1>3, PlanFacts DEF SkipEntity, Continue
<1>4. ASSUME NEW t \in Tx, DrawId(t) PROVE SingleInv'
  BY <1>4 DEF DrawId
<1>5. ASSUME NEW t \in Tx, audit_log_chain_stamp(t) PROVE SingleInv'
  <2>1. Len(Plan[t]) = 1 => step[t] = Len(Plan[t])
    BY <1>5, PlanFacts DEF audit_log_chain_stamp
  <2>2. pc'[t] \in {"update", "commit"} /\ (Len(Plan[t]) = 1 => pc'[t] = "commit")
    BY <1>5, <2>1 DEF audit_log_chain_stamp, Continue
  <2>3. \A u \in Tx : u # t => pc'[u] = pc[u]
    BY <1>5 DEF audit_log_chain_stamp, Continue
  <2>4. rowLock' = rowLock /\ auditLock' = t
    BY <1>5 DEF audit_log_chain_stamp
  <2>5. QED
    BY <2>2, <2>3, <2>4
<1>6. ASSUME NEW t \in Tx, Commit(t) PROVE SingleInv'
  BY <1>6 DEF Commit, ReleaseLocks
<1>7. ASSUME NEW t \in Tx, Abort(t) PROVE SingleInv'
  BY <1>7 DEF Abort, ReleaseLocks, Running
<1>8. CASE UNCHANGED vars
  BY <1>8 DEF vars
<1> QED
  BY <1>1, <1>2, <1>3, <1>4, <1>5, <1>6, <1>7, <1>8 DEF Next

LEMMA PositiveAtMostOne ==
    \A n \in Nat \ {0} : ~(n > 1) => n = 1
OBVIOUS

\* A cycle of waits always has a bulk transaction in it: services that change
\* one entity and then audit it cannot deadlock with each other.
THEOREM DeadlockOnlyInBulk == Spec => []DeadlockNeedsBulk
<1>1. Init => SingleInv
  BY DEF Init, SingleInv
<1>2. ASSUME IInv, SingleInv PROVE DeadlockNeedsBulk
  <2> SUFFICES ASSUME NEW S \in SUBSET Tx, WaitCycle(S),
                      \A t \in S : ~(Len(Plan[t]) > 1)
               PROVE  FALSE
    BY DEF DeadlockNeedsBulk
  <2>1. \A t \in S : Len(Plan[t]) = 1
    <3> SUFFICES ASSUME NEW t \in S PROVE Len(Plan[t]) = 1
      OBVIOUS
    <3>1. Len(Plan[t]) \in Nat \ {0}
      BY PlanFacts
    <3>2. ~(Len(Plan[t]) > 1)
      OBVIOUS
    <3>3. QED
      BY <3>1, <3>2, PositiveAtMostOne
  <2>2. \A t \in S : WaitsFor(t) \in S
    BY DEF WaitCycle
  <2>3. ASSUME NEW t \in S PROVE pc[t] = "update" /\ WaitsFor(t) = rowLock[Plan[t][step[t]]]
    <3>1. WaitsFor(t) # NoTx
      BY <2>2
    <3>2. CASE pc[t] = "trigger"
      <4>1. WaitsFor(t) = auditLock
        BY <3>1, <3>2 DEF WaitsFor
      <4>2. pc[auditLock] = "commit"
        BY <4>1, <2>1, <2>2, <1>2 DEF SingleInv
      <4>3. WaitsFor(auditLock) = NoTx
        BY <4>2 DEF WaitsFor
      <4>4. QED
        BY <4>1, <4>3, <2>2
    <3>3. QED
      BY <3>1, <3>2 DEF WaitsFor
  <2>4. PICK t \in S : TRUE
    BY DEF WaitCycle
  <2>5. PICK e \in Entity : rowLock[e] = WaitsFor(t)
    BY <2>3, PlanFacts, <1>2 DEF IInv, TypeOK
  <2>6. pc[WaitsFor(t)] = "update" /\ WaitsFor(t) \in S
    BY <2>2, <2>3
  <2>7. QED
    BY <2>1, <2>5, <2>6, <1>2 DEF SingleInv
<1>3. QED
  BY <1>1, <1>2, SingleStep, IInvHolds, PTL DEF Spec

-----------------------------------------------------------------------------
(* The anchor job: what was anchored can be computed again.                *)

\* The anchor job reads the log and leaves it alone.
LEMMA AnchorStepIsLogStep == [AnchorNext]_allVars => [Next]_vars
BY DEF AnchorNext, allVars, computeAnchorRange, runAuditAnchor, AnchorFails

LEMMA IInvWithAnchors == AnchorSpec => []IInv
<1>1. IInv /\ [AnchorNext]_allVars => IInv'
  BY AnchorStepIsLogStep, TypeStep, LockStep, IdStep, ChainStep DEF IInv
<1>2. AnchorInit => IInv
  BY InitIInv DEF AnchorInit
<1>3. QED
  BY <1>1, <1>2, PTL DEF AnchorSpec

\* A row that has yet to commit was stamped with a head no committed row is
\* above; and only finitely many rows were ever inserted.
HeadInv ==
    /\ IsFiniteSet(table)
    /\ \A r \in table : pc[r.owner] # "committed" => \A s \in Log : s.id <= r.head

\* A transaction that has committed stays so.
LEMMA CommittedStays ==
    ASSUME IInv, [Next]_vars, NEW t \in Tx, pc[t] = "committed"
    PROVE  pc'[t] = "committed"
BY DEF vars, Next, Begin, UpdateEntity, SkipEntity, Continue, DrawId, audit_log_chain_stamp,
       Commit, Abort, Running, IInv, TypeOK

\* The log changes when the holder of the advisory lock commits, and then by
\* the rows of that transaction.
LEMMA LogStep ==
    ASSUME IInv, [Next]_vars
    PROVE  \/ /\ Log' = Log
              /\ \A t \in Tx : pc'[t] = "committed" <=> pc[t] = "committed"
           \/ \E t \in Tx : /\ pc[t] = "commit" /\ pc'[t] = "committed"
                            /\ \A u \in Tx \ {t} : pc'[u] = pc[u]
                            /\ table' = table
                            /\ \/ Log' = Log /\ \A r \in table : r.owner # t
                               \/ /\ auditLock = t
                                  /\ Log' = Log \cup {r \in table : r.owner = t}
<1> USE DEF IInv, TypeOK, Log, Row
<1>1. ASSUME NEW t \in Tx, Begin(t) PROVE Log' = Log /\ pc'[t] # "committed"
  BY <1>1 DEF Begin
<1>2. ASSUME NEW t \in Tx, UpdateEntity(t) PROVE Log' = Log /\ pc'[t] # "committed"
  BY <1>2 DEF UpdateEntity
<1>3. ASSUME NEW t \in Tx, SkipEntity(t) PROVE Log' = Log /\ pc'[t] # "committed"
  BY <1>3 DEF SkipEntity, Continue
<1>4. ASSUME NEW t \in Tx, DrawId(t) PROVE Log' = Log /\ pc'[t] # "committed"
  BY <1>4 DEF DrawId
<1>5. ASSUME NEW t \in Tx, audit_log_chain_stamp(t) PROVE Log' = Log /\ pc'[t] # "committed"
  <2>1. Stamped(t).owner = t
    BY <1>5, StampedRow DEF audit_log_chain_stamp
  <2>2. QED
    BY <1>5, <2>1 DEF audit_log_chain_stamp, Continue
<1>6. ASSUME NEW t \in Tx, Commit(t), NEW r \in table, r.owner = t
      PROVE  auditLock = t /\ Log' = Log \cup {s \in table : s.owner = t}
  BY <1>6 DEF Commit, LockInv
<1>7. ASSUME NEW t \in Tx, Commit(t), \A r \in table : r.owner # t PROVE Log' = Log
  BY <1>7 DEF Commit
<1>8. ASSUME NEW t \in Tx, Abort(t) PROVE Log' = Log /\ pc'[t] # "committed"
  BY <1>8 DEF Abort, Running
<1>9. CASE UNCHANGED vars
  BY <1>9 DEF vars
<1>10. ASSUME NEW t \in Tx, Commit(t)
       PROVE  /\ pc[t] = "commit" /\ pc'[t] = "committed" /\ table' = table
              /\ \A u \in Tx \ {t} : pc'[u] = pc[u]
  BY <1>10 DEF Commit
<1>11. ASSUME NEW t \in Tx, Begin(t) \/ UpdateEntity(t) \/ SkipEntity(t) \/ DrawId(t)
                            \/ audit_log_chain_stamp(t) \/ Abort(t)
       PROVE  \A u \in Tx \ {t} : pc'[u] = pc[u]
  BY <1>11 DEF Begin, UpdateEntity, SkipEntity, Continue, DrawId, audit_log_chain_stamp, Abort
<1>12. CASE Next
  <2>1. PICK t \in Tx : \/ Begin(t) \/ UpdateEntity(t) \/ SkipEntity(t) \/ DrawId(t)
                        \/ audit_log_chain_stamp(t) \/ Commit(t) \/ Abort(t)
    BY <1>12 DEF Next
  <2> HIDE DEF IInv, TypeOK, Log, Row
  <2>2. CASE Commit(t)
    <3>1. CASE \A r \in table : r.owner # t
      BY <2>2, <3>1, <1>7, <1>10
    <3>2. CASE \E r \in table : r.owner = t
      BY <2>2, <3>2, <1>6, <1>10
    <3>3. QED
      BY <3>1, <3>2
  <2>3. CASE ~Commit(t)
    <3>1. Log' = Log /\ pc'[t] # "committed"
      BY <2>1, <2>3, <1>1, <1>2, <1>3, <1>4, <1>5, <1>8
    <3>2. \A u \in Tx \ {t} : pc'[u] = pc[u]
      BY <2>1, <2>3, <1>11
    <3>3. \A u \in Tx : pc'[u] = "committed" <=> pc[u] = "committed"
      BY <3>1, <3>2, CommittedStays
    <3>4. QED
      BY <3>1, <3>3
  <2>4. QED
    BY <2>2, <2>3
<1>13. QED
  BY <1>9, <1>12 DEF vars

LEMMA HeadStep == IInv /\ HeadInv /\ [Next]_vars => HeadInv'
<1> SUFFICES ASSUME IInv, HeadInv, [Next]_vars PROVE HeadInv'
  OBVIOUS
<1>1. ASSUME table' = table PROVE HeadInv'
  <2>1. ASSUME NEW r \in table, pc'[r.owner] # "committed", NEW s \in Log' PROVE s.id <= r.head
    <3>1. pc[r.owner] # "committed" /\ r.owner \in Tx
      BY <1>1, <2>1, CommittedStays DEF IInv, TypeOK, Row
    <3>2. Log' = Log
      BY <2>1, <3>1, LogStep DEF IInv, LockInv
    <3>3. QED
      BY <2>1, <3>1, <3>2 DEF HeadInv
  <2>2. QED
    BY <1>1, <2>1 DEF HeadInv
<1>2. ASSUME NEW t \in Tx, audit_log_chain_stamp(t) PROVE HeadInv'
  <2> DEFINE z == Stamped(t)
  <2>1. z.owner = t
    BY <1>2, StampedRow DEF IInv, audit_log_chain_stamp, TypeOK
  <2>2. Visible(t) = table
    BY <1>2 DEF audit_log_chain_stamp, IInv, LockInv, Visible, TypeOK, Row
  <2>3. \A s \in table : s.id <= z.head
    BY <1>2, <2>2, StampedRow DEF IInv, audit_log_chain_stamp, TypeOK
  <2>4. Log' = Log
    BY <1>2, <2>1 DEF audit_log_chain_stamp, Continue, Log, IInv, TypeOK, Row
  <2>5. \A r \in table : pc'[r.owner] # "committed" => pc[r.owner] # "committed"
    BY <1>2 DEF audit_log_chain_stamp, Continue, IInv, TypeOK, Row
  <2>6. table' = table \cup {z} /\ IsFiniteSet(table')
    BY <1>2, FS_AddElement DEF audit_log_chain_stamp, HeadInv
  <2> HIDE DEF z
  <2>7. \A s \in Log : s \in table
    BY DEF Log
  <2>8. QED
    BY <2>3, <2>4, <2>5, <2>6, <2>7 DEF HeadInv
<1>3. ASSUME NEW t \in Tx, Abort(t) PROVE HeadInv'
  <2>1. table' \subseteq table /\ Log' \subseteq Log
    BY <1>3 DEF Abort, Log, IInv, TypeOK, Row
  <2>2. \A r \in table' : pc'[r.owner] # "committed" => pc[r.owner] # "committed"
    BY <1>3 DEF Abort, Running, IInv, TypeOK, Row
  <2>3. IsFiniteSet(table')
    BY <2>1, FS_Subset DEF HeadInv
  <2>4. QED
    BY <2>1, <2>2, <2>3 DEF HeadInv
<1>4. QED
  BY <1>1, <1>2, <1>3 DEF Next, vars, Begin, UpdateEntity, SkipEntity, DrawId, Commit

LEMMA HeadInvHolds == AnchorSpec => []HeadInv
<1>1. AnchorInit => HeadInv
  BY FS_EmptySet DEF AnchorInit, Init, HeadInv
<1>2. QED
  BY <1>1, AnchorStepIsLogStep, HeadStep, IInvWithAnchors, PTL DEF AnchorSpec

\* The rows the job read are exactly those between its lowest and highest id.
LEMMA LatestIsARange ==
    ASSUME IInv, HeadInv, NEW h, Latest(Log) # {}
    PROVE  LET ids == {r.id : r \in Latest(Log)}
               a == [start |-> Min(ids), end |-> Max(ids), hash |-> h]
           IN  /\ a.start \in Nat /\ a.end \in Nat
               /\ \E s \in Log : s.id = a.end
               /\ InRange(Log, a) = Latest(Log)
<1> DEFINE rows == Latest(Log)
           ids == {r.id : r \in rows}
           a == [start |-> Min(ids), end |-> Max(ids), hash |-> h]
<1>1. rows \subseteq Log /\ Log \subseteq table /\ rows \in SUBSET Row /\ Log \in SUBSET Row
  BY DEF Latest, Log, IInv, TypeOK
<1>2. \A r \in Row : r.id \in Nat
  BY DEF Row
<1>3. PICK top \in rows : \A s \in rows : s.id <= top.id
  BY <1>1, NewestRow DEF IInv, TypeOK, IdInv
<1>4. PICK low \in rows : \A s \in rows : ~(s.id < low.id)
  BY <1>1, FirstRow
<1>5. ids \subseteq Nat
  BY <1>1, <1>2
<1>6. Max(ids) = top.id
  <2>1. top.id \in ids /\ \A y \in ids : top.id >= y
    BY <1>3, <1>5
  <2>2. Max(ids) \in ids /\ \A y \in ids : Max(ids) >= y
    <3> HIDE DEF ids
    <3> QED
      BY <2>1 DEF Max
  <2>3. top.id \in Nat /\ Max(ids) \in Nat
    BY <2>1, <2>2, <1>5
  <2>4. top.id >= Max(ids) /\ Max(ids) >= top.id
    BY <2>1, <2>2
  <2> HIDE DEF ids
  <2>5. QED
    BY <2>3, <2>4
<1>7. Min(ids) = low.id
  <2>1. low.id \in ids /\ \A y \in ids : low.id <= y
    BY <1>4, <1>1, <1>2
  <2>2. Min(ids) \in ids /\ \A y \in ids : Min(ids) <= y
    <3> HIDE DEF ids
    <3> QED
      BY <2>1 DEF Min
  <2>3. low.id \in Nat /\ Min(ids) \in Nat
    BY <2>1, <2>2, <1>5
  <2>4. low.id <= Min(ids) /\ Min(ids) <= low.id
    BY <2>1, <2>2
  <2> HIDE DEF ids
  <2>5. QED
    BY <2>3, <2>4
<1> HIDE DEF ids
<1>8. a.start = low.id /\ a.end = top.id
  BY <1>6, <1>7
<1>9. rows \subseteq InRange(Log, a)
  BY <1>1, <1>2, <1>3, <1>4, <1>8 DEF InRange
<1>10. ASSUME NEW r \in InRange(Log, a) PROVE r \in rows
  <2>1. r \in Log /\ low.id <= r.id
    BY <1>8, <1>10 DEF InRange
  <2> DEFINE above == {s \in Log : s.id > r.id}
             aboveLow == {s \in Log : s.id > low.id}
  <2>2. above \subseteq aboveLow
    BY <1>1, <1>2, <2>1
  <2>3. IsFiniteSet(aboveLow)
    BY <1>1, FS_Subset DEF HeadInv
  <2>4. IsFiniteSet(above) /\ Cardinality(above) <= Cardinality(aboveLow)
    BY <2>2, <2>3, FS_Subset
  <2>5. Cardinality(above) \in Nat /\ Cardinality(aboveLow) \in Nat
    BY <2>3, <2>4, FS_CardinalityType
  <2>6. Cardinality(aboveLow) < Lookback
    BY DEF Latest
  <2>7. Cardinality(above) < Lookback
    <3> HIDE DEF above, aboveLow
    <3> QED
      BY <2>4, <2>5, <2>6, LookbackAssumption
  <2>8. QED
    BY <2>1, <2>7 DEF Latest
<1>11. QED
  BY <1>1, <1>2, <1>8, <1>9, <1>10 DEF ids

\* An anchor ends at a committed row, and its hash is that of its range unless
\* an inverted row came into it since.
Anchored(a) ==
    /\ a.start \in Nat /\ a.end \in Nat
    /\ \E s \in Log : s.id = a.end
    /\ \/ AnchorHash(InRange(Log, a)) = a.hash
       \/ \E r \in InRange(Log, a) : Inverted(r)

AnchorInv ==
    /\ \A a \in anchors : Anchored(a)
    /\ range # NoRange => Anchored(range)

\* Rows that commit into an anchored range are inverted: their heads are above
\* every committed row, so above the last row of the range.
LEMMA AnchoredStep ==
    ASSUME IInv, HeadInv, [Next]_vars, NEW a, Anchored(a)
    PROVE  Anchored(a)'
<1>1. CASE Log' = Log
  BY <1>1 DEF Anchored
<1>2. ASSUME NEW t \in Tx, pc[t] = "commit", Log' = Log \cup {r \in table : r.owner = t}
      PROVE  Anchored(a)'
  <2>1. CASE \A r \in table : r.owner = t => ~(a.start <= r.id /\ r.id <= a.end)
    <3>1. InRange(Log, a)' = InRange(Log, a)
      BY <1>2, <2>1 DEF InRange
    <3>2. QED
      BY <1>2, <3>1 DEF Anchored
  <2>2. ASSUME NEW r \in table, r.owner = t, a.start <= r.id, r.id <= a.end
        PROVE  Anchored(a)'
    <3>1. PICK s \in Log : s.id = a.end
      BY DEF Anchored
    <3>2. a.end <= r.head
      BY <1>2, <2>2, <3>1 DEF HeadInv
    <3>3. r.id \in Nat /\ r.head \in Nat /\ a.end \in Nat /\ r.head # r.id
      BY DEF IInv, TypeOK, Row, ChainInv, Anchored
    <3>4. Inverted(r)
      BY <2>2, <3>2, <3>3 DEF Inverted
    <3>5. r \in InRange(Log, a)'
      BY <1>2, <2>2 DEF InRange
    <3>6. QED
      BY <1>2, <3>1, <3>4, <3>5 DEF Anchored
  <2>3. QED
    BY <2>1, <2>2
<1>3. QED
  BY <1>1, <1>2, LogStep

\* What was anchored can be computed again from the rows of its range unless
\* one of them is inverted, whatever was appended or rolled back since.
THEOREM Reproducible == AnchorSpec => []AnchorsReproducible
<1>1. AnchorInit => AnchorInv
  BY DEF AnchorInit, AnchorInv
<1>2. IInv /\ HeadInv /\ AnchorInv /\ [AnchorNext]_allVars => AnchorInv'
  <2> SUFFICES ASSUME IInv, HeadInv, AnchorInv, [AnchorNext]_allVars PROVE AnchorInv'
    OBVIOUS
  <2>1. ASSUME NEW a, Anchored(a) PROVE Anchored(a)'
    BY <2>1, AnchorStepIsLogStep, AnchoredStep
  <2>2. CASE computeAnchorRange
    <3>1. CASE Latest(Log) = {}
      BY <2>1, <2>2, <3>1 DEF computeAnchorRange, AnchorInv
    <3>2. CASE Latest(Log) # {}
      <4> DEFINE ids == {r.id : r \in Latest(Log)}
                 h == AnchorHash(Latest(Log))
                 a == [start |-> Min(ids), end |-> Max(ids), hash |-> h]
      <4>1. range' = a /\ anchors' = anchors
        BY <2>2, <3>2 DEF computeAnchorRange
      <4>2. /\ a.start \in Nat /\ a.end \in Nat
            /\ \E s \in Log : s.id = a.end
            /\ InRange(Log, a) = Latest(Log)
        BY <3>2, LatestIsARange
      <4>3. a.hash = AnchorHash(InRange(Log, a))
        BY <4>2
      <4> HIDE DEF a
      <4>4. Anchored(a)
        BY <4>2, <4>3 DEF Anchored
      <4>5. PICK b : b = a
        OBVIOUS
      <4>6. Anchored(b)'
        BY <4>4, <4>5, <2>1
      <4>7. QED
        BY <2>1, <4>1, <4>5, <4>6 DEF AnchorInv
    <3>3. QED
      BY <3>1, <3>2
  <2>3. CASE runAuditAnchor
    BY <2>1, <2>3 DEF runAuditAnchor, AnchorInv
  <2>4. CASE AnchorFails
    BY <2>1, <2>4 DEF AnchorFails, AnchorInv
  <2>5. CASE UNCHANGED anchorVars
    BY <2>1, <2>5 DEF anchorVars, AnchorInv
  <2>6. QED
    BY <2>2, <2>3, <2>4, <2>5 DEF AnchorNext, allVars
<1>3. AnchorInv => AnchorsReproducible
  BY DEF AnchorInv, Anchored, AnchorsReproducible
<1>4. QED
  BY <1>1, <1>2, <1>3, IInvWithAnchors, HeadInvHolds, PTL DEF AnchorSpec

-----------------------------------------------------------------------------
(* The log implements the append-only chain.                               *)

\* What t has stamped so far: r's hash is the log's, and n of the payloads of
\* t's first changes after it.
Extends(r, t, n, f) ==
    /\ n < step[t]
    /\ f \in [1..n -> DOMAIN Plan[t]]
    /\ \A i \in 1..n : f[i] < step[t]
    /\ \A i, j \in 1..n : i < j => f[i] < f[j]
    /\ r.hash = HeadHash \o [i \in 1..n |-> Plan[t][f[i]]]

OwnInv ==
    /\ \A t \in Tx : step[t] <= Len(Plan[t]) + 1
    /\ \A r \in table : pc[r.owner] # "committed" =>
           \E n \in Nat : \E f \in [1..n -> DOMAIN Plan[r.owner]] : Extends(r, r.owner, n, f)

\* The hash of the log's newest row is a sequence of payloads.
LEMMA HeadHashTyped ==
    ASSUME IInv
    PROVE  /\ HeadHash \in Seq(Entity)
           /\ Log # {} => /\ Newest(Log) \in Log
                          /\ \A s \in Log : s.id <= Newest(Log).id
                          /\ HeadHash = Newest(Log).hash
<1>1. Log \in SUBSET Row /\ \A r \in Log : r.id <= lastId
  BY DEF IInv, TypeOK, IdInv, Log
<1>2. CASE Log = {}
  BY <1>2 DEF HeadHash, GENESIS
<1>3. CASE Log # {}
  <2>1. Newest(Log) \in Log /\ \A s \in Log : s.id <= Newest(Log).id
    BY <1>1, <1>3, NewestRow DEF IInv, TypeOK
  <2>2. QED
    BY <1>1, <1>3, <2>1 DEF HeadHash, Row, Hash
<1>4. QED
  BY <1>2, <1>3

\* The payloads of picked changes are a sequence of payloads.
LEMMA PickedTyped ==
    ASSUME NEW t \in Tx, NEW n \in Nat, NEW f \in [1..n -> DOMAIN Plan[t]]
    PROVE  LET k == [i \in 1..n |-> Plan[t][f[i]]]
           IN  k \in Seq(Entity) /\ Len(k) = n
<1> DEFINE k == [i \in 1..n |-> Plan[t][f[i]]]
<1>1. \A i \in 1..n : Plan[t][f[i]] \in Entity
  BY PlanFacts
<1>2. k \in [1..n -> Entity]
  BY <1>1
<1> HIDE DEF k
<1>3. k \in Seq(Entity) /\ Len(k) = n
  BY <1>2
<1>4. QED
  BY <1>3 DEF k

\* The trigger stamps the next payload of its transaction.
LEMMA StampExtends ==
    ASSUME IInv, OwnInv, NEW t \in Tx, audit_log_chain_stamp(t), NEW z, z = Stamped(t)
    PROVE  \E n \in Nat : \E f \in [1..n -> DOMAIN Plan[t]] : Extends(z, t, n, f)'
<1> DEFINE m == step[t]
<1>1. m \in DOMAIN Plan[t] /\ m \in Nat /\ step'[t] = m + 1
  BY PlanFacts DEF audit_log_chain_stamp, Continue, IInv, TypeOK
<1>2. Visible(t) = table
  BY DEF audit_log_chain_stamp, IInv, LockInv, Visible, TypeOK, Row
<1>3. Log' = Log /\ HeadHash' = HeadHash /\ HeadHash \in Seq(Entity)
  <2>1. Log' = Log
    BY LogStep DEF audit_log_chain_stamp, Continue, Next, IInv, TypeOK
  <2>2. QED
    BY <2>1, HeadHashTyped DEF HeadHash
<1>4. table \in SUBSET Row /\ \A r \in table : r.id <= lastId
  BY DEF IInv, TypeOK, IdInv
<1> DEFINE prev == IF table = {} THEN GENESIS ELSE Newest(table).hash
           PrevExtends(n, f) ==
               /\ n < m
               /\ \A i \in 1..n : f[i] < m
               /\ \A i, j \in 1..n : i < j => f[i] < f[j]
               /\ prev = HeadHash \o [i \in 1..n |-> Plan[t][f[i]]]
<1>5. \E n \in Nat : \E f \in [1..n -> DOMAIN Plan[t]] : PrevExtends(n, f)
  <2>1. CASE IF table = {} THEN Log = {} ELSE Newest(table) \in Log
    <3>1. prev = HeadHash
      <4>1. CASE table = {}
        BY <2>1, <4>1 DEF HeadHash
      <4>2. CASE table # {}
        <5>1. Newest(table) \in Log /\ \A s \in table : s.id <= Newest(table).id
          BY <2>1, <4>2, <1>4, NewestRow DEF IInv, TypeOK
        <5>2. Newest(Log) \in Log /\ \A s \in Log : s.id <= Newest(Log).id
          BY <5>1, HeadHashTyped
        <5>3. Newest(Log).id = Newest(table).id
          BY <5>1, <5>2, <1>4 DEF Log, Row
        <5>4. Newest(Log) = Newest(table)
          BY <5>1, <5>2, <5>3 DEF Log, IInv, IdInv
        <5>5. QED
          BY <4>2, <5>1, <5>4 DEF HeadHash
      <4>3. QED
        BY <4>1, <4>2
    <3> DEFINE f == [i \in 1..0 |-> m]
    <3>2. f \in [1..0 -> DOMAIN Plan[t]] /\ [i \in 1..0 |-> Plan[t][f[i]]] = <<>>
      OBVIOUS
    <3>3. HeadHash \o <<>> = HeadHash
      BY <1>3, ConcatEmptySeq
    <3>4. 0 < m
      BY <1>1, PlanFacts
    <3>5. PrevExtends(0, f)
      <4>1. \A i, j \in 1..0 : FALSE
        OBVIOUS
      <4> HIDE DEF f, prev
      <4>2. QED
        BY <3>1, <3>2, <3>3, <3>4, <4>1
    <3> HIDE DEF f, PrevExtends
    <3>6. QED
      BY <3>2, <3>5
  <2>2. CASE table # {} /\ Newest(table) \notin Log
    <3>1. Newest(table) \in table /\ pc[Newest(table).owner] # "committed"
      BY <2>2, <1>4, NewestRow DEF IInv, TypeOK, Log
    <3>2. Newest(table).owner = t
      BY <3>1 DEF audit_log_chain_stamp, IInv, LockInv, TypeOK, Row
    <3>3. PICK n \in Nat : \E f \in [1..n -> DOMAIN Plan[t]] : Extends(Newest(table), t, n, f)
      BY <3>1, <3>2 DEF OwnInv
    <3>4. PICK f \in [1..n -> DOMAIN Plan[t]] : Extends(Newest(table), t, n, f)
      BY <3>3
    <3>5. PrevExtends(n, f)
      BY <2>2, <3>4 DEF Extends
    <3> HIDE DEF PrevExtends
    <3>6. QED
      BY <3>5
  <2>3. QED
    BY <2>1, <2>2 DEF Log
<1>6. z.hash = Append(prev, Plan[t][m])
  BY <1>2 DEF Stamped, StampFrom, compute_audit_row_hash
<1>7. PICK n \in Nat : \E f \in [1..n -> DOMAIN Plan[t]] : PrevExtends(n, f)
  BY <1>5
<1>8. PICK f \in [1..n -> DOMAIN Plan[t]] : PrevExtends(n, f)
  BY <1>7
<1> DEFINE g == [i \in 1..(n + 1) |-> IF i = n + 1 THEN m ELSE f[i]]
<1>9. /\ g \in [1..(n + 1) -> DOMAIN Plan[t]]
      /\ z.hash = HeadHash \o [i \in 1..(n + 1) |-> Plan[t][g[i]]]
  <2> DEFINE k == [i \in 1..n |-> Plan[t][f[i]]]
             l == [i \in 1..(n + 1) |-> Plan[t][g[i]]]
  <2>1. g \in [1..(n + 1) -> DOMAIN Plan[t]]
    BY <1>1
  <2>2. k \in Seq(Entity) /\ Len(k) = n
    BY PickedTyped
  <2>3. l \in Seq(Entity) /\ Len(l) = n + 1
    <3>1. n + 1 \in Nat
      OBVIOUS
    <3> HIDE DEF g
    <3>2. QED
      BY <2>1, <3>1, PickedTyped
  <2>4. \A i \in 1..Len(k) : l[i] = k[i]
    BY <2>2
  <2>5. l[Len(k) + 1] = Plan[t][m]
    BY <2>2
  <2>6. prev = HeadHash \o k
    BY <1>8
  <2>7. Plan[t][m] \in Entity
    BY <1>1, PlanFacts
  <2> HIDE DEF k, l, prev, m, g, PrevExtends
  <2>8. Append(k, Plan[t][m]) = l
    BY <2>2, <2>3, <2>4, <2>5, <2>7
  <2>9. Append(HeadHash \o k, Plan[t][m]) = HeadHash \o Append(k, Plan[t][m])
    BY <1>3, <2>2, <2>7, AppendToConcat
  <2>10. QED
    BY <1>6, <2>1, <2>6, <2>8, <2>9 DEF l
<1>10. \A i \in 1..(n + 1) : g[i] < m + 1
  BY <1>1, <1>8, PlanFacts
<1>11. \A i, j \in 1..(n + 1) : i < j => g[i] < g[j]
  BY <1>1, <1>8, PlanFacts
<1> HIDE DEF g
<1>12. n + 1 \in Nat /\ n + 1 < m + 1
  BY <1>1, <1>8
<1>13. PICK picked : picked = g
  OBVIOUS
<1>14. Extends(z, t, n + 1, picked)'
  BY <1>1, <1>3, <1>9, <1>10, <1>11, <1>12, <1>13 DEF Extends
<1>15. QED
  BY <1>9, <1>12, <1>13, <1>14

LEMMA KeepsExtending ==
    ASSUME IInv, OwnInv, [Next]_vars, NEW r \in table, pc'[r.owner] # "committed"
    PROVE  \E n \in Nat : \E f \in [1..n -> DOMAIN Plan[r.owner]] : Extends(r, r.owner, n, f)'
<1> DEFINE t == r.owner
<1>1. t \in Tx /\ pc[t] # "committed" /\ auditLock = t
  BY CommittedStays DEF IInv, LockInv, TypeOK, Row
<1>2. Log' = Log
  BY <1>1, LogStep
<1>3. HeadHash' = HeadHash
  BY <1>2 DEF HeadHash
<1>4. step[t] <= step'[t] /\ step[t] \in Nat /\ step'[t] \in Nat
  <2>1. step[t] \in Nat
    BY <1>1 DEF IInv, TypeOK
  <2>2. step' = step \/ \E u \in Tx : step' = [step EXCEPT ![u] = @ + 1]
    BY DEF Next, vars, Begin, UpdateEntity, SkipEntity, Continue, DrawId,
           audit_log_chain_stamp, Commit, Abort
  <2>3. step'[t] \in {step[t], step[t] + 1}
    BY <1>1, <2>2 DEF IInv, TypeOK
  <2>4. QED
    BY <2>1, <2>3
<1>5. PICK n \in Nat : \E f \in [1..n -> DOMAIN Plan[t]] : Extends(r, t, n, f)
  BY <1>1 DEF OwnInv
<1>6. PICK f \in [1..n -> DOMAIN Plan[t]] : Extends(r, t, n, f)
  BY <1>5
<1>7. \A i \in 1..n : f[i] \in Nat
  BY <1>1, PlanFacts
<1>8. Extends(r, t, n, f)'
  BY <1>3, <1>4, <1>6, <1>7 DEF Extends
<1>9. QED
  BY <1>8

LEMMA OwnStep == IInv /\ OwnInv /\ [Next]_vars => OwnInv'
<1> SUFFICES ASSUME IInv, OwnInv, [Next]_vars PROVE OwnInv'
  OBVIOUS
<1>1. \A t \in Tx : step'[t] <= Len(Plan[t]) + 1
  <2> SUFFICES ASSUME NEW t \in Tx PROVE step'[t] <= Len(Plan[t]) + 1
    OBVIOUS
  <2>1. CASE step'[t] = step[t]
    BY <2>1 DEF OwnInv
  <2>2. CASE SkipEntity(t) \/ audit_log_chain_stamp(t)
    BY <2>2, PlanFacts DEF SkipEntity, audit_log_chain_stamp, Continue, IInv, TypeOK
  <2>3. QED
    BY <2>1, <2>2 DEF IInv, TypeOK, Next, vars, Begin, UpdateEntity, SkipEntity, Continue,
                      DrawId, audit_log_chain_stamp, Commit, Abort
<1>2. ASSUME NEW r \in table', pc'[r.owner] # "committed"
      PROVE  \E n \in Nat : \E f \in [1..n -> DOMAIN Plan[r.owner]] : Extends(r, r.owner, n, f)'
  <2>1. CASE r \in table
    BY <1>2, <2>1, KeepsExtending
  <2>2. CASE r \notin table
    <3>1. PICK t \in Tx : audit_log_chain_stamp(t) /\ r = Stamped(t)
      BY <2>2 DEF Next, vars, Begin, UpdateEntity, SkipEntity, DrawId,
                  audit_log_chain_stamp, Commit, Abort
    <3>2. r.owner = t
      BY <3>1, StampedRow DEF audit_log_chain_stamp, IInv, TypeOK
    <3>3. QED
      BY <3>1, <3>2, StampExtends
  <2>3. QED
    BY <2>1, <2>2
<1>3. QED
  BY <1>1, <1>2 DEF OwnInv

LEMMA OwnInvHolds == AnchorSpec => []OwnInv
<1>1. AnchorInit => OwnInv
  BY PlanFacts DEF AnchorInit, Init, OwnInv
<1>2. QED
  BY <1>1, AnchorStepIsLogStep, OwnStep, IInvWithAnchors, PTL DEF AnchorSpec

\* A commit puts the payloads of the kept changes at the end of the chain: all
\* of them when the newest row is the transaction's own, none otherwise.
LEMMA CommitExtends ==
    ASSUME IInv, OwnInv, NEW t \in Tx, pc[t] = "commit", table' = table,
           Log' = Log \cup {r \in table : r.owner = t}
    PROVE  \E n \in 0..Len(Plan[t]) : \E kept \in Chain!Kept(Plan[t], n) :
               HeadHash' = HeadHash \o kept
<1>1. /\ Log' \in SUBSET Row /\ \A r \in Log' : r.id <= lastId
      /\ lastId \in Nat /\ Log \subseteq Log' /\ Log' \subseteq table
  BY DEF IInv, TypeOK, IdInv, Log
<1>2. HeadHash \in Seq(Entity)
  BY HeadHashTyped
<1>3. ASSUME HeadHash' = HeadHash
      PROVE  \E kept \in Chain!Kept(Plan[t], 0) : HeadHash' = HeadHash \o kept
  <2> DEFINE f == [i \in 1..0 |-> 1]
  <2>1. /\ f \in [1..0 -> DOMAIN Plan[t]]
        /\ \A i, j \in 1..0 : i < j => f[i] < f[j]
        /\ [i \in 1..0 |-> Plan[t][f[i]]] = <<>>
    OBVIOUS
  <2>2. <<>> \in Chain!Kept(Plan[t], 0)
    <3> HIDE DEF f
    <3>1. QED
      BY <2>1 DEF Chain!Kept
  <2>3. HeadHash \o <<>> = HeadHash
    BY <1>2, ConcatEmptySeq
  <2>4. QED
    BY <1>3, <2>2, <2>3
<1>4. CASE Log' = {}
  <2>1. HeadHash' = HeadHash
    BY <1>1, <1>4 DEF HeadHash
  <2>2. QED
    BY <2>1, <1>3, PlanFacts
<1>5. CASE Log' # {}
  <2>1. PICK w : w = Newest(Log')
    OBVIOUS
  <2>2. w \in Log' /\ \A s \in Log' : s.id <= w.id
    BY <1>1, <1>5, <2>1, NewestRow
  <2>3. HeadHash' = w.hash
    BY <1>5, <2>1 DEF HeadHash
  <2>4. CASE w \in Log
    <3>1. Newest(Log) \in Log /\ w.id <= Newest(Log).id /\ HeadHash = Newest(Log).hash
      BY <2>4, HeadHashTyped
    <3>2. Newest(Log).id = w.id
      BY <1>1, <2>2, <3>1 DEF Row
    <3>3. Newest(Log) = w
      BY <1>1, <2>2, <3>1, <3>2 DEF IInv, IdInv
    <3>4. QED
      BY <2>3, <3>1, <3>3, <1>3, PlanFacts
  <2>5. CASE w \notin Log
    <3>1. w \in table /\ w.owner = t /\ pc[w.owner] # "committed"
      BY <2>2, <2>5
    <3>2. PICK n \in Nat : \E f \in [1..n -> DOMAIN Plan[t]] : Extends(w, t, n, f)
      BY <3>1 DEF OwnInv
    <3>3. PICK f \in [1..n -> DOMAIN Plan[t]] : Extends(w, t, n, f)
      BY <3>2
    <3>4. n \in 0..Len(Plan[t])
      BY <3>3, PlanFacts DEF Extends, OwnInv, IInv, TypeOK
    <3>5. [i \in 1..n |-> Plan[t][f[i]]] \in Chain!Kept(Plan[t], n)
      BY <3>3 DEF Extends, Chain!Kept
    <3>6. w.hash = HeadHash \o [i \in 1..n |-> Plan[t][f[i]]]
      BY <3>3 DEF Extends
    <3>7. QED
      BY <2>3, <3>4, <3>5, <3>6
  <2>6. QED
    BY <2>4, <2>5
<1>6. QED
  BY <1>4, <1>5

\* Locks, ids, aborts and anchors implement a chain to which transactions add
\* the payloads of their changes, in order and all at once, and which never
\* loses what it holds.
THEOREM ImplementsAppendOnly == AnchorSpec => ImplementsChain
<1> DEFINE done == {t \in Tx : pc[t] = "committed"}
<1>1. AnchorInit => Chain!Init
  BY DEF AnchorInit, Init, Chain!Init, HeadHash, Log, GENESIS
<1>2. IInv /\ OwnInv /\ [AnchorNext]_allVars => [Chain!Next]_<<HeadHash, done>>
  <2> SUFFICES ASSUME IInv, OwnInv, [AnchorNext]_allVars
               PROVE  [Chain!Next]_<<HeadHash, done>>
    OBVIOUS
  <2>1. [Next]_vars
    BY AnchorStepIsLogStep
  <2>2. CASE Log' = Log /\ \A t \in Tx : pc'[t] = "committed" <=> pc[t] = "committed"
    BY <2>2 DEF HeadHash
  <2>3. ASSUME NEW t \in Tx, pc[t] = "commit", pc'[t] = "committed",
               \A u \in Tx \ {t} : pc'[u] = pc[u], table' = table,
               Log' = Log \cup {r \in table : r.owner = t}
        PROVE  Chain!Next
    <3>1. t \notin done /\ done' = done \cup {t}
      BY <2>3
    <3>2. QED
      BY <2>3, <3>1, CommitExtends DEF Chain!Next, Chain!Commit
  <2>4. ASSUME NEW t \in Tx, \A r \in table : r.owner # t, Log' = Log
        PROVE  Log' = Log \cup {r \in table : r.owner = t}
    BY <2>4
  <2>5. QED
    BY <2>1, <2>2, <2>3, <2>4, LogStep
<1>3. QED
  BY <1>1, <1>2, IInvWithAnchors, OwnInvHolds, PTL DEF AnchorSpec, ImplementsChain, Chain!Spec

=============================================================================
