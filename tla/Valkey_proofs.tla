----------------------------- MODULE Valkey_proofs -----------------------------
(***************************************************************************)
(* The two components that keep their state in Valkey.  The throttlers,    *)
(* for any limits, routes, keys and number of replicas, whatever requests  *)
(* interleave and however often Valkey restarts from an old snapshot or    *)
(* loses an answer; and the queues, for any number of deliveries, batches  *)
(* and sweepers, any number of attempts, stalls and sweeps, whatever those *)
(* restarts forget.                                                        *)
(***************************************************************************)
EXTENDS Delivery, Throttler, Integers, FiniteSetTheorems, TLAPS

USE BoundsAssumption

-----------------------------------------------------------------------------
(* Deliveries.                                                             *)

\* The part of the type invariant that the proofs need.
JobsTyped ==
    /\ job \in [Delivery -> JobState]
    /\ attempts \in [Delivery -> Nat]
    /\ stalls \in [Delivery -> 0..MaxStalled]
    /\ accepted \in [Delivery -> Nat]
    /\ forgotten \in [Delivery -> Nat]
    /\ stored \in [Delivery -> [job : JobState, attempts : Nat, stalls : 0..MaxStalled]]

RowsTyped ==
    /\ row \in [Delivery -> Status]
    /\ sweeps \in [Delivery -> Nat]

\* A job that was never added has not been tried, and one that can still run
\* has failed less often than it may: now, and in the snapshot.
JobFits(d, j) ==
    /\ j.job = "none" => j.attempts = 0 /\ j.stalls = 0
    /\ j.job \in {"none", "waiting", "delayed", "active"} => j.attempts < MaxAttempts(d)

\* What the forgotten jobs of d may have cost.
Spent(d) == forgotten[d] * Tries(d)

\* Beyond that the provider took a message at most once for every failure and
\* every stall that the job remembers, and once more when it ended.
Paced(d) ==
    /\ JobFits(d, Job(d)) /\ JobFits(d, stored[d])
    /\ job[d] \in {"none", "waiting", "delayed", "active"} =>
        accepted[d] <= Spent(d) + attempts[d] + stalls[d]
    /\ accepted[d] <= Spent(d) + MaxAttempts(d) + stalls[d]

JobsInv == JobsTyped /\ \A d \in Delivery : Paced(d)

\* The count never passes the cap.
RowsInv ==
    /\ RowsTyped
    /\ \A d \in Delivery : sweeps[d] <= MAX_SWEEP_ATTEMPTS
    /\ DeadLetterAtCap

-----------------------------------------------------------------------------
(* The jobs.                                                               *)

LEMMA MaxAttemptsPositive == \A d \in Delivery : MaxAttempts(d) \in Nat /\ MaxAttempts(d) >= 1
BY DEF MaxAttempts

LEMMA ProductGrows == \A n, t \in Nat : n * t \in Nat /\ (n + 1) * t = n * t + t
OBVIOUS

LEMMA SpentIsNatural == ASSUME JobsTyped, NEW d \in Delivery PROVE Spent(d) \in Nat
<1>1. forgotten[d] \in Nat /\ Tries(d) \in Nat
  BY MaxAttemptsPositive DEF JobsTyped, Tries
<1> QED
  BY <1>1, ProductGrows DEF Spent

LEMMA InitJobs == Init => JobsInv
<1> SUFFICES ASSUME Init PROVE JobsInv
  OBVIOUS
<1>1. JobsTyped
  BY DEF Init, JobsTyped, JobState
<1>2. ASSUME NEW d \in Delivery PROVE Paced(d)
  <2>1. Spent(d) \in Nat /\ MaxAttempts(d) \in Nat /\ MaxAttempts(d) >= 1
    BY <1>1, MaxAttemptsPositive, SpentIsNatural
  <2> QED
    BY <2>1 DEF Init, Paced, JobFits, Job
<1> QED
  BY <1>1, <1>2 DEF JobsInv

\* Adding a job that is there is a no-op.
LEMMA EnqueueStep ==
    ASSUME JobsInv, NEW d, enqueue(d), UNCHANGED <<stored, forgotten>>
    PROVE  JobsInv'
<1>1. /\ job' = [job EXCEPT ![d] = IF @ = "none" THEN "waiting" ELSE @]
      /\ UNCHANGED <<attempts, stalls, accepted>>
  BY DEF enqueue
<1>2. JobsTyped'
  BY <1>1 DEF JobsInv, JobsTyped, JobState
<1>3. \A e \in Delivery : job'[e] = job[e] \/ (job[e] = "none" /\ job'[e] = "waiting")
  BY <1>1 DEF JobsInv, JobsTyped
<1>4. ASSUME NEW e \in Delivery PROVE Paced(e)'
  <2>1. MaxAttempts(e)' = MaxAttempts(e) /\ Spent(e)' = Spent(e)
    BY DEF MaxAttempts, Channel, Spent, Tries
  <2> QED
    BY <1>1, <1>3, <2>1 DEF JobsInv, Paced, JobFits, Job
<1> QED
  BY <1>2, <1>4 DEF JobsInv

\* A step of the job of d alone.
LEMMA JobStep ==
    ASSUME JobsInv, NEW d \in Delivery, JobsTyped', Paced(d)', UNCHANGED <<stored, forgotten>>,
           \A e \in Delivery \ {d} :
               /\ job'[e] = job[e] /\ attempts'[e] = attempts[e]
               /\ stalls'[e] = stalls[e] /\ accepted'[e] = accepted[e]
    PROVE  JobsInv'
<1>1. ASSUME NEW e \in Delivery \ {d} PROVE Paced(e)'
  BY DEF JobsInv, Paced, JobFits, Job, Spent, Tries, MaxAttempts, Channel
<1> QED
  BY <1>1 DEF JobsInv

\* The worker's steps: every one of them that lets the provider take the
\* message once more counts a failure or a stall, or ends the job.
LEMMA WorkerStep ==
    ASSUME JobsInv, NEW d \in Delivery,
           TakeJob(d) \/ pushSend(d) \/ emailSend(d) \/ WorkerCrash(d)
    PROVE  JobsInv'
<1> DEFINE Moved(state, failed, stalled, took) ==
        /\ job' = [job EXCEPT ![d] = state]
        /\ attempts' = [attempts EXCEPT ![d] = @ + failed]
        /\ stalls' = [stalls EXCEPT ![d] = @ + stalled]
        /\ accepted' = [accepted EXCEPT ![d] = @ + took]
<1>1. /\ MaxAttempts(d) \in Nat /\ MaxAttempts(d) >= 1 /\ MaxAttempts(d)' = MaxAttempts(d)
      /\ job[d] \in JobState /\ attempts[d] \in Nat /\ accepted[d] \in Nat /\ Spent(d) \in Nat
      /\ stalls[d] \in Nat /\ stalls[d] <= MaxStalled
  BY MaxAttemptsPositive, SpentIsNatural DEF MaxAttempts, Channel, JobsInv, JobsTyped
<1>2. job[d] \in {"waiting", "delayed", "active"} /\ UNCHANGED <<stored, forgotten>>
  BY DEF TakeJob, pushSend, emailSend, SendAccepted, SendTerminalError, SendThrows, WorkerCrash,
         snapshotVars
<1>3. /\ attempts[d] < MaxAttempts(d) /\ accepted[d] <= Spent(d) + attempts[d] + stalls[d]
      /\ JobFits(d, stored[d])
  BY <1>2 DEF JobsInv, Paced, JobFits, Job
<1>4. Spent(d)' = Spent(d) /\ JobFits(d, stored[d])'
  BY <1>1, <1>2, <1>3 DEF Spent, Tries, JobFits
<1>5. ASSUME NEW state \in JobState, NEW failed \in {0, 1}, NEW stalled \in {0, 1}, NEW took \in {0, 1},
             Moved(state, failed, stalled, took), state # "none", stalls[d] + stalled <= MaxStalled,
             state \in {"waiting", "delayed", "active"} =>
                 attempts[d] + failed < MaxAttempts(d) /\ took <= failed + stalled
      PROVE  JobsInv'
  <2>1. JobsTyped'
    BY <1>1, <1>2, <1>5 DEF JobsInv, JobsTyped
  <2>2. /\ job'[d] = state /\ attempts'[d] = attempts[d] + failed
        /\ stalls'[d] = stalls[d] + stalled /\ accepted'[d] = accepted[d] + took
    BY <1>5 DEF JobsInv, JobsTyped
  <2>3. Paced(d)'
    BY <1>1, <1>3, <1>4, <1>5, <2>2 DEF Paced, JobFits, Job
  <2> QED
    BY <1>2, <1>5, <2>1, <2>3, JobStep DEF JobsInv, JobsTyped
<1> HIDE DEF Moved
<1>6. CASE TakeJob(d)
  <2>1. Moved("active", 0, 0, 0)
    BY <1>6 DEF Moved, TakeJob, JobsInv, JobsTyped
  <2> QED
    BY <1>1, <1>3, <1>5, <2>1 DEF JobState
<1>7. CASE SendAccepted(d)
  <2>1. Moved("completed", 0, 0, 1)
    BY <1>7 DEF Moved, SendAccepted, JobsInv, JobsTyped
  <2> QED
    BY <1>1, <1>3, <1>5, <2>1 DEF JobState
<1>8. CASE SendTerminalError(d)
  <2>1. Moved("completed", 0, 0, 0)
    BY <1>8 DEF Moved, SendTerminalError, JobsInv, JobsTyped
  <2> QED
    BY <1>1, <1>3, <1>5, <2>1 DEF JobState
<1>9. CASE SendThrows(d)
  <2>1. PICK took \in {0, 1} :
            Moved(IF attempts[d] + 1 < MaxAttempts(d) THEN "delayed" ELSE "failed", 1, 0, took)
    BY <1>9 DEF Moved, SendThrows, SendBegun, JobsInv, JobsTyped
  <2>2. CASE attempts[d] + 1 < MaxAttempts(d)
    <3>1. Moved("delayed", 1, 0, took)
      BY <2>1, <2>2
    <3> QED
      BY <1>1, <1>3, <1>5, <2>2, <3>1 DEF JobState
  <2>3. CASE ~(attempts[d] + 1 < MaxAttempts(d))
    <3>1. Moved("failed", 1, 0, took)
      BY <2>1, <2>3
    <3> QED
      BY <1>1, <1>3, <1>5, <3>1 DEF JobState
  <2> QED
    BY <2>2, <2>3
<1>10. CASE WorkerCrash(d)
  <2>1. PICK took \in {0, 1} : \/ Moved("waiting", 0, 1, took) /\ stalls[d] < MaxStalled
                              \/ Moved("failed", 0, 0, took)
    BY <1>10 DEF Moved, WorkerCrash, SendBegun, JobsInv, JobsTyped
  <2>2. CASE Moved("waiting", 0, 1, took) /\ stalls[d] < MaxStalled
    BY <1>1, <1>3, <1>5, <2>2 DEF JobState
  <2>3. CASE Moved("failed", 0, 0, took)
    BY <1>1, <1>3, <1>5, <2>3 DEF JobState
  <2> QED
    BY <2>1, <2>2, <2>3
<1> QED
  BY <1>6, <1>7, <1>8, <1>9, <1>10 DEF pushSend, emailSend

\* A snapshot takes the jobs as they are.
LEMMA QueueSnapshotStep == ASSUME JobsInv, QueueSnapshot PROVE JobsInv'
<1>1. /\ UNCHANGED <<job, attempts, stalls, accepted, forgotten>>
      /\ stored' = [d \in Delivery |-> Job(d)]
  BY DEF QueueSnapshot, jobVars
<1>2. ASSUME NEW d \in Delivery PROVE Job(d) \in [job : JobState, attempts : Nat, stalls : 0..MaxStalled]
  BY DEF JobsInv, JobsTyped, Job
<1>3. JobsTyped'
  BY <1>1, <1>2 DEF JobsInv, JobsTyped
<1>4. ASSUME NEW d \in Delivery PROVE Paced(d)'
  <2>1. stored'[d] = Job(d) /\ Job(d)' = Job(d)
    BY <1>1 DEF Job
  <2>2. MaxAttempts(d)' = MaxAttempts(d) /\ Spent(d)' = Spent(d)
    BY <1>1 DEF MaxAttempts, Channel, Spent, Tries
  <2> QED
    BY <1>1, <2>1, <2>2 DEF JobsInv, Paced, JobFits
<1> QED
  BY <1>3, <1>4 DEF JobsInv

\* A restart that forgets a job, whatever it had cost, accounts for a whole one.
LEMMA QueueRestartStep == ASSUME JobsInv, QueueRestart PROVE JobsInv'
<1>1. PICK took \in SUBSET Delivery :
          /\ job' = [d \in Delivery |-> stored[d].job]
          /\ attempts' = [d \in Delivery |-> stored[d].attempts]
          /\ stalls' = [d \in Delivery |-> stored[d].stalls]
          /\ forgotten' = [d \in Delivery |-> IF Forgets(d) THEN forgotten[d] + 1 ELSE forgotten[d]]
          /\ accepted' = [d \in Delivery |-> IF d \in took THEN accepted[d] + 1 ELSE accepted[d]]
          /\ \A d \in took : job[d] = "active" /\ Forgets(d)
          /\ UNCHANGED stored
  BY DEF QueueRestart
<1>2. JobsTyped'
  BY <1>1 DEF JobsInv, JobsTyped
<1>3. ASSUME NEW d \in Delivery PROVE Paced(d)'
  <2>1. /\ MaxAttempts(d)' = MaxAttempts(d) /\ MaxAttempts(d) \in Nat
        /\ accepted[d] \in Nat /\ forgotten[d] \in Nat /\ Spent(d) \in Nat
        /\ attempts[d] \in Nat /\ stalls[d] \in Nat /\ stalls[d] <= MaxStalled
        /\ Tries(d)' = Tries(d) /\ Tries(d) \in Nat /\ Tries(d) = MaxAttempts(d) + MaxStalled
    BY MaxAttemptsPositive, SpentIsNatural DEF MaxAttempts, Channel, JobsInv, JobsTyped, Tries
  <2>2. /\ Job(d)' = [job |-> stored[d].job, attempts |-> stored[d].attempts, stalls |-> stored[d].stalls]
        /\ stored'[d] = stored[d] /\ Job(d)' = stored[d]
        /\ stored[d].attempts \in Nat /\ stored[d].stalls \in Nat
    BY <1>1 DEF Job, JobsInv, JobsTyped
  <2>3. JobFits(d, Job(d))' /\ JobFits(d, stored[d])'
    BY <2>1, <2>2 DEF JobsInv, Paced, JobFits
  <2>4. CASE Forgets(d)
    <3>1. forgotten'[d] = forgotten[d] + 1
      BY <1>1, <2>4
    <3>2. Spent(d)' = Spent(d) + Tries(d)
      BY <2>1, <3>1, ProductGrows DEF Spent
    <3>3. accepted'[d] <= Spent(d) + Tries(d)
      <4>1. CASE d \in took
        <5>1. accepted'[d] = accepted[d] + 1 /\ job[d] = "active"
          BY <1>1, <4>1
        <5>2. accepted[d] <= Spent(d) + attempts[d] + stalls[d] /\ attempts[d] < MaxAttempts(d)
          BY <5>1 DEF JobsInv, Paced, JobFits, Job
        <5> QED
          BY <2>1, <5>1, <5>2
      <4>2. CASE d \notin took
        <5>1. accepted'[d] = accepted[d] /\ accepted[d] <= Spent(d) + MaxAttempts(d) + stalls[d]
          BY <1>1, <4>2 DEF JobsInv, Paced
        <5> QED
          BY <2>1, <5>1
      <4> QED
        BY <4>1, <4>2
    <3>4. /\ attempts'[d] = stored[d].attempts /\ stalls'[d] = stored[d].stalls
          /\ accepted'[d] \in Nat
      BY <1>1, <1>2 DEF JobsTyped
    <3> QED
      BY <2>1, <2>2, <2>3, <3>2, <3>3, <3>4 DEF Paced
  <2>5. CASE ~Forgets(d)
    <3>1. forgotten'[d] = forgotten[d] /\ accepted'[d] = accepted[d] /\ stored[d] = Job(d)
      BY <1>1, <2>5 DEF Forgets
    <3>2. /\ Spent(d)' = Spent(d) /\ job'[d] = job[d] /\ attempts'[d] = attempts[d]
          /\ stalls'[d] = stalls[d]
      BY <1>1, <2>1, <3>1 DEF Spent, Job
    <3> QED
      BY <2>1, <2>3, <3>1, <3>2 DEF JobsInv, Paced
  <2> QED
    BY <2>4, <2>5
<1> QED
  BY <1>2, <1>3 DEF JobsInv

LEMMA JobsStep == JobsInv /\ [Next]_vars => JobsInv'
<1> SUFFICES ASSUME JobsInv, [Next]_vars PROVE JobsInv'
  OBVIOUS
<1>1. CASE \E d \in Delivery : TakeJob(d) \/ pushSend(d) \/ emailSend(d) \/ WorkerCrash(d)
  BY <1>1, WorkerStep
<1>2. CASE (\E d : enqueue(d)) /\ UNCHANGED <<stored, forgotten>>
  BY <1>2, EnqueueStep
<1>3. CASE UNCHANGED <<job, attempts, stalls, accepted, stored, forgotten>>
  BY <1>3 DEF JobsInv, JobsTyped, Paced, JobFits, Job, Spent, Tries, MaxAttempts, Channel
<1>4. ASSUME NEW b \in Batches, fanout(b) \/ EnqueueNext(b) \/ ApiCrash(b)
      PROVE  /\ (\E d : enqueue(d)) \/ UNCHANGED <<job, attempts, stalls, accepted>>
             /\ UNCHANGED <<stored, forgotten>>
  BY <1>4 DEF fanout, EnqueueNext, EnqueueThrows, ApiCrash, jobVars, snapshotVars
<1>5. ASSUME NEW s \in Sweeper, \/ fetchStalePending(s) \/ requeue(s) \/ recordEnqueued(s)
                                \/ recordSkip(s) \/ RecordEnqueuedThrows(s) \/ SweepAborts(s)
      PROVE  /\ (\E d : enqueue(d)) \/ UNCHANGED <<job, attempts, stalls, accepted>>
             /\ UNCHANGED <<stored, forgotten>>
  BY <1>5 DEF fetchStalePending, requeue, EnqueueThrows, recordEnqueued, recordSkip,
              RecordEnqueuedThrows, SweepAborts, jobVars, snapshotVars
<1>6. ASSUME NEW d \in Delivery, GrowsStale(d)
      PROVE  UNCHANGED <<job, attempts, stalls, accepted, stored, forgotten>>
  BY <1>6 DEF GrowsStale, jobVars, snapshotVars
<1>7. CASE UNCHANGED vars
  BY <1>3, <1>7 DEF vars, jobVars, snapshotVars
<1> QED
  BY <1>1, <1>2, <1>3, <1>4, <1>5, <1>6, <1>7, QueueSnapshotStep, QueueRestartStep DEF Next

-----------------------------------------------------------------------------
(* The rows.                                                               *)

LEMMA InitRows == Init => RowsInv
BY DEF Init, RowsInv, RowsTyped, Status, DeadLetterAtCap

LEMMA RowsStep == RowsInv /\ [Next]_vars => RowsInv'
<1> SUFFICES ASSUME RowsInv, [Next]_vars PROVE RowsInv'
  OBVIOUS
<1> USE DEF RowsInv, RowsTyped, Status, DeadLetterAtCap
<1>1. CASE UNCHANGED <<row, sweeps>>
  BY <1>1
<1>2. ASSUME NEW b \in Batches, fanout(b) PROVE RowsInv'
  <2>1. /\ UNCHANGED sweeps /\ row' \in [Delivery -> Status]
        /\ \A d \in Delivery : row'[d] = row[d] \/ (row[d] = "none" /\ row'[d] = "pending")
    BY <1>2 DEF fanout
  <2> QED
    BY <2>1
<1>3. ASSUME NEW s \in Sweeper, recordEnqueued(s) PROVE RowsInv'
  <2>1. /\ UNCHANGED row /\ sweeps' \in [Delivery -> Nat]
        /\ \A d \in Delivery : sweeps'[d] = sweeps[d] \/ (row[d] = "pending" /\ sweeps'[d] = 0)
    BY <1>3 DEF recordEnqueued
  <2> QED
    BY <2>1
<1>4. ASSUME NEW s \in Sweeper, recordSkip(s) PROVE RowsInv'
  <2> DEFINE d == Head(batch[s])
             status == IF sweeps[d] + 1 >= MAX_SWEEP_ATTEMPTS THEN "failed" ELSE "pending"
  <2>1. CASE row[d] = "pending" /\ d \in Delivery
    <3>1. /\ sweeps' = [sweeps EXCEPT ![d] = @ + 1] /\ row' = [row EXCEPT ![d] = status]
      BY <1>4, <2>1 DEF recordSkip
    <3>2. sweeps[d] \in Nat /\ sweeps[d] < MAX_SWEEP_ATTEMPTS
      BY <2>1
    <3>3. /\ sweeps'[d] = sweeps[d] + 1 /\ row'[d] = status
          /\ \A e \in Delivery \ {d} : sweeps'[e] = sweeps[e] /\ row'[e] = row[e]
          /\ row' \in [Delivery -> Status] /\ sweeps' \in [Delivery -> Nat]
      BY <2>1, <3>1
    <3>4. sweeps'[d] <= MAX_SWEEP_ATTEMPTS /\ (row'[d] = "failed" <=> sweeps'[d] = MAX_SWEEP_ATTEMPTS)
      BY <3>2, <3>3
    <3> HIDE DEF d
    <3> QED
      BY <3>3, <3>4
  <2>2. CASE ~(row[d] = "pending" /\ d \in Delivery)
    <3>1. UNCHANGED <<row, sweeps>>
      BY <1>4, <2>2 DEF recordSkip
    <3> QED
      BY <1>1, <3>1
  <2> QED
    BY <2>1, <2>2
<1>5. ASSUME NEW b \in Batches, EnqueueNext(b) \/ ApiCrash(b) PROVE UNCHANGED <<row, sweeps>>
  BY <1>5 DEF EnqueueNext, ApiCrash, rowVars
<1>6. ASSUME NEW d \in Delivery, \/ TakeJob(d) \/ pushSend(d) \/ emailSend(d)
                                 \/ WorkerCrash(d) \/ GrowsStale(d)
      PROVE  UNCHANGED <<row, sweeps>>
  BY <1>6 DEF TakeJob, pushSend, emailSend, SendAccepted, SendTerminalError, SendThrows,
              WorkerCrash, GrowsStale, rowVars
<1>7. ASSUME NEW s \in Sweeper, \/ fetchStalePending(s) \/ requeue(s)
                                \/ RecordEnqueuedThrows(s) \/ SweepAborts(s)
      PROVE  UNCHANGED <<row, sweeps>>
  BY <1>7 DEF fetchStalePending, requeue, RecordEnqueuedThrows, SweepAborts, rowVars
<1>8. CASE QueueSnapshot \/ QueueRestart \/ UNCHANGED vars
  BY <1>8 DEF QueueSnapshot, QueueRestart, vars, rowVars
<1> QED
  BY <1>1, <1>2, <1>3, <1>4, <1>5, <1>6, <1>7, <1>8 DEF Next

-----------------------------------------------------------------------------

\* However often jobs are added again, the provider gets a message at most as
\* often as one job may try, plus the times its worker died, plus a whole job's
\* tries for every restart of Valkey that forgot what became of the job.
THEOREM NeverResent == Spec => []SweepNeverResends
<1>1. JobsInv => SweepNeverResends
  BY DEF JobsInv, Paced, Spent, SweepNeverResends
<1> QED
  BY <1>1, InitJobs, JobsStep, PTL DEF Spec

\* Whichever sweepers race on a row, it is dead-lettered exactly when its
\* count is at the cap.
THEOREM DeadLettersAtCap == Spec => []DeadLetterAtCap
<1>1. RowsInv => DeadLetterAtCap
  BY DEF RowsInv
<1> QED
  BY <1>1, InitRows, RowsStep, PTL DEF Spec

-----------------------------------------------------------------------------
(* The throttlers.                                                         *)

HIDE BoundsAssumption
USE TtlAssumption

\* The part of the type invariant that the proofs need.
Typed ==
    /\ now \in Nat /\ era \in Nat
    /\ counter \in [Key -> Counter] /\ saved.counter \in [Key -> Counter]
    /\ block \in [Key -> Nat] /\ saved.block \in [Key -> Nat]
    /\ seen \in [Key -> Seq(Event)]

\* Every block that was answered since the last restart is still covered by
\* the marker: a later one only prolongs it.
MarkerCovers ==
    \A k \in Key : \A i \in DOMAIN seen[k] :
        /\ seen[k][i].era <= era
        /\ seen[k][i].era = era => seen[k][i].until <= block[k]

\* The runs of the script under k at time t and after.
Since(k, t) == {i \in DOMAIN seen[k] : seen[k][i].at >= t}

\* A counter that is in the store or in the snapshot: its window began at some
\* time, and since then the script ran as often as it says.
CounterFits(k, c) ==
    /\ c.until <= now + Ttl
    /\ c.hits = 0 => c.until = 0
    /\ c.hits <= Cardinality(Since(k, c.until - Ttl))

\* A block that is in the store or in the snapshot: a run of the script set it,
\* and there were more runs than the limit in the window before.
BlockFits(k, b) ==
    b # 0 =>
        /\ \E i \in DOMAIN seen[k] : seen[k][i].at + Ttl = b
        /\ Cardinality(Since(k, b - 2 * Ttl + 1)) > Limit(k)

StoreFits ==
    \A k \in Key :
        /\ CounterFits(k, counter[k]) /\ CounterFits(k, saved.counter[k])
        /\ BlockFits(k, block[k]) /\ BlockFits(k, saved.block[k])

\* A run of the script counted in a window that was open, its own if it was the
\* first to be counted, and let the request pass up to the limit only.
EventFits(k, e) ==
    /\ e.at < e.window /\ e.window <= e.at + Ttl
    /\ e.hits > 0
    /\ e.hits = 1 => e.window = e.at + Ttl
    /\ e.verdict = "passed" => e.hits <= Limit(k)

\* One run of the script and a later one count on in the same window, or in
\* windows that do not overlap.
CountsOn(e, f) ==
    \/ e.window = f.window /\ e.hits < f.hits
    \/ e.window + Ttl <= f.window

\* The counter counts on from every run of its era.
CounterCountsOn(k, e) ==
    \/ e.window = counter[k].until /\ e.hits <= counter[k].hits
    \/ e.window + Ttl <= counter[k].until

WindowsInv ==
    \A k \in Key :
        /\ \A i \in DOMAIN seen[k] :
            /\ EventFits(k, seen[k][i])
            /\ seen[k][i].era = era => CounterCountsOn(k, seen[k][i])
        /\ \A i, j \in DOMAIN seen[k] :
            i < j /\ seen[k][i].era = seen[k][j].era => CountsOn(seen[k][i], seen[k][j])

IInv ==
    /\ Typed /\ MarkerCovers /\ BlockOutlivesCounter
    /\ StoreFits /\ WindowsInv /\ RefusalsDeserved

-----------------------------------------------------------------------------
(* The script.                                                             *)

LEMMA LimitType == ASSUME NEW k \in Key PROVE Limit(k) \in Nat \ {0}
<1>1. k.name \in Name
  BY DEF Key, getThrottlerKey
<1> QED
  BY <1>1, LimitAssumption DEF Limit

LEMMA InitIInv == ThrottlerInit => IInv
<1> SUFFICES ASSUME ThrottlerInit PROVE IInv
  OBVIOUS
<1>1. \A k \in Key : seen[k] = <<>> /\ DOMAIN seen[k] = {}
  BY DEF ThrottlerInit
<1>2. Typed
  BY DEF ThrottlerInit, Typed, Counter, Absent
<1>3. ASSUME NEW k \in Key, NEW t PROVE Since(k, t) = {}
  BY <1>1 DEF Since
<1>4. MarkerCovers /\ BlockOutlivesCounter /\ RefusalsDeserved /\ WindowsInv
  BY <1>1 DEF MarkerCovers, BlockOutlivesCounter, RefusalsDeserved, WindowsInv
<1>5. StoreFits
  <2>1. now = 0 /\ Cardinality({}) = 0
    BY FS_EmptySet DEF ThrottlerInit
  <2>2. ASSUME NEW k \in Key PROVE CounterFits(k, Absent)
    BY <1>3, <2>1 DEF CounterFits, Absent
  <2>3. \A k \in Key : /\ counter[k] = Absent /\ saved.counter[k] = Absent
                       /\ block[k] = 0 /\ saved.block[k] = 0
    BY DEF ThrottlerInit
  <2> QED
    BY <2>2, <2>3 DEF StoreFits, BlockFits
<1> QED
  BY <1>2, <1>4, <1>5 DEF IInv

\* The script prolongs the marker, and leaves it where it lets a request pass.
LEMMA MarkerGrows ==
    ASSUME Typed, NEW k \in Key
    PROVE  /\ BlockAfter(k) \in Nat
           /\ block[k] <= BlockAfter(k)
           /\ ~Refused(k) => BlockAfter(k) <= now
BY DEF Typed, BlockAfter, Refused, Blocked

\* What INCR and PEXPIRE return.
LEMMA CounterGrows ==
    ASSUME Typed, NEW k \in Key, CounterFits(k, counter[k])
    PROVE  /\ Incremented(k) \in Counter
           /\ now < Incremented(k).until /\ Incremented(k).until <= now + Ttl
           /\ Incremented(k).hits > 0
           /\ Incremented(k).hits = 1 => Incremented(k).until = now + Ttl
           /\ \/ Incremented(k).until = counter[k].until /\ Incremented(k).hits = counter[k].hits + 1
              \/ Incremented(k).hits = 1 /\ counter[k].until + Ttl <= Incremented(k).until
<1> PICK c, t : c = counter[k] /\ t = now
  OBVIOUS
<1>1. c.hits \in Nat /\ c.until \in Nat /\ t \in Nat /\ c.until <= t + Ttl /\ (c.hits = 0 => c.until = 0)
  BY DEF Typed, Counter, CounterFits
<1>2. CASE c.until > t
  <2>1. Incremented(k) = [hits |-> c.hits + 1, until |-> c.until]
    BY <1>2 DEF Incremented
  <2> QED
    BY <1>1, <1>2, <2>1 DEF Counter
<1>3. CASE ~(c.until > t)
  <2>1. Incremented(k) = [hits |-> 1, until |-> t + Ttl]
    BY <1>3 DEF Incremented
  <2> QED
    BY <1>1, <1>3, <2>1 DEF Counter
<1> QED
  BY <1>2, <1>3

\* A request passes up to the limit only.
LEMMA PassedWithinLimit ==
    ASSUME Typed, NEW k \in Key, CounterFits(k, counter[k]), ~Refused(k)
    PROVE  Incremented(k).hits <= Limit(k)
<1> PICK h : h = Incremented(k).hits
  OBVIOUS
<1>1. h \in Nat /\ Limit(k) \in Nat /\ block[k] \in Nat /\ now \in Nat
  BY CounterGrows, LimitType DEF Typed, Counter
<1>2. ~(h > Limit(k))
  BY <1>1 DEF Refused, BlockAfter, Blocked
<1> QED
  BY <1>1, <1>2

\* The effect of one run of the script.
Runs(k, e) ==
    /\ e \in Event /\ e.at = now /\ e.era = era
    /\ EventFits(k, e)
    /\ \/ e.window = counter[k].until /\ e.hits = counter[k].hits + 1
       \/ e.hits = 1 /\ counter[k].until + Ttl <= e.window
    /\ \/ e.until = block[k]
       \/ e.until = now + Ttl /\ block[k] <= now /\ e.hits > Limit(k)
    /\ e.verdict = "passed" => e.until <= now
    /\ e.verdict = "refused" => e.until > now
    /\ counter' = [counter EXCEPT ![k] = [hits |-> e.hits, until |-> e.window]]
    /\ block' = [block EXCEPT ![k] = e.until]
    /\ seen' = [seen EXCEPT ![k] = Append(@, e)]
    /\ UNCHANGED <<now, era, saved>>

LEMMA ScriptRuns ==
    ASSUME Typed, StoreFits, NEW k \in Key, NEW verdict \in Verdict, INCREMENT_LUA(k, verdict),
           verdict = "passed" => ~Refused(k),
           verdict = "refused" => Refused(k)
    PROVE  \E e : Runs(k, e)
<1> DEFINE e == [at |-> now, era |-> era, verdict |-> verdict, until |-> BlockAfter(k),
                 hits |-> Incremented(k).hits, window |-> Incremented(k).until]
<1>1. CounterFits(k, counter[k])
  BY DEF StoreFits
<1>2. e \in Event /\ e.at = now /\ e.era = era
  BY <1>1, MarkerGrows, CounterGrows DEF Typed, Event, Counter
<1>3. EventFits(k, e)
  BY <1>1, CounterGrows, PassedWithinLimit DEF Typed, EventFits
<1>4. /\ \/ e.window = counter[k].until /\ e.hits = counter[k].hits + 1
         \/ e.hits = 1 /\ counter[k].until + Ttl <= e.window
      /\ \/ e.until = block[k]
         \/ e.until = now + Ttl /\ block[k] <= now /\ e.hits > Limit(k)
  <2>1. \/ e.window = counter[k].until /\ e.hits = counter[k].hits + 1
        \/ e.hits = 1 /\ counter[k].until + Ttl <= e.window
    BY <1>1, CounterGrows
  <2>2. \/ e.until = block[k]
        \/ e.until = now + Ttl /\ block[k] <= now /\ e.hits > Limit(k)
    BY DEF Typed, BlockAfter, Blocked
  <2> QED
    BY <2>1, <2>2
<1>5. /\ e.verdict = "passed" => e.until <= now
      /\ e.verdict = "refused" => e.until > now
  BY MarkerGrows DEF Refused
<1>6. Incremented(k) = [hits |-> e.hits, until |-> e.window]
  BY <1>1, CounterGrows DEF Counter
<1>7. /\ counter' = [counter EXCEPT ![k] = Incremented(k)]
      /\ block' = [block EXCEPT ![k] = e.until]
      /\ seen' = [seen EXCEPT ![k] = Append(@, e)]
      /\ UNCHANGED <<now, era, saved>>
  BY DEF INCREMENT_LUA
<1> QED
  BY <1>2, <1>3, <1>4, <1>5, <1>6, <1>7 DEF Runs

\* The events after it, of k and of the other keys.
Appended(k, e, n) ==
    /\ n \in Nat /\ n \notin DOMAIN seen[k]
    /\ DOMAIN seen'[k] = 1..n /\ DOMAIN seen[k] = 1..(n - 1)
    /\ DOMAIN seen'[k] = DOMAIN seen[k] \cup {n}
    /\ seen'[k][n] = e
    /\ \A i \in DOMAIN seen[k] : /\ seen'[k][i] = seen[k][i] /\ seen[k][i] \in Event
                                 /\ i \in Nat /\ i < n
    /\ \A l \in Key \ {k} : seen'[l] = seen[l] /\ counter'[l] = counter[l] /\ block'[l] = block[l]
    /\ counter'[k] = [hits |-> e.hits, until |-> e.window] /\ block'[k] = e.until

LEMMA EventAppended ==
    ASSUME Typed, NEW k \in Key, NEW e, Runs(k, e)
    PROVE  \E n : Appended(k, e, n)
<1> PICK n : n = Len(seen[k]) + 1
  OBVIOUS
<1>1. seen[k] \in Seq(Event) /\ Len(seen[k]) \in Nat /\ e \in Event
  BY DEF Typed, Runs
<1>2. seen'[k] = Append(seen[k], e)
  BY DEF Typed, Runs
<1>3. /\ n \in Nat /\ n \notin DOMAIN seen[k]
      /\ DOMAIN seen'[k] = 1..n /\ DOMAIN seen[k] = 1..(n - 1)
      /\ DOMAIN seen'[k] = DOMAIN seen[k] \cup {n}
      /\ seen'[k][n] = e
      /\ \A i \in DOMAIN seen[k] : /\ seen'[k][i] = seen[k][i] /\ seen[k][i] \in Event
                                   /\ i \in Nat /\ i < n
  BY <1>1, <1>2
<1>4. /\ \A l \in Key \ {k} : seen'[l] = seen[l] /\ counter'[l] = counter[l] /\ block'[l] = block[l]
      /\ counter'[k] = [hits |-> e.hits, until |-> e.window] /\ block'[k] = e.until
  BY DEF Typed, Runs
<1> QED
  BY <1>3, <1>4 DEF Appended

\* Events are of their type.
LEMMA EventType ==
    ASSUME Typed, NEW k \in Key, NEW i \in DOMAIN seen[k]
    PROVE  /\ seen[k][i] \in Event /\ i \in Nat
           /\ seen[k][i].at \in Nat /\ seen[k][i].era \in Nat /\ seen[k][i].until \in Nat
           /\ seen[k][i].hits \in Nat /\ seen[k][i].window \in Nat
<1>1. seen[k] \in Seq(Event)
  BY DEF Typed
<1>2. seen[k][i] \in Event /\ i \in Nat
  BY <1>1
<1> QED
  BY <1>2 DEF Event

LEMMA TypedStep ==
    ASSUME Typed, NEW k \in Key, NEW e, Runs(k, e)
    PROVE  Typed'
<1>1. seen[k] \in Seq(Event) /\ Append(seen[k], e) \in Seq(Event)
  BY DEF Typed, Runs
<1>2. e.until \in Nat /\ [hits |-> e.hits, until |-> e.window] \in Counter
  BY DEF Runs, Event, Counter
<1> QED
  BY <1>1, <1>2 DEF Typed, Runs

\* What was answered in this era ends where the marker did.
LEMMA MarkerStep ==
    ASSUME Typed, MarkerCovers, NEW k \in Key, NEW e, Runs(k, e)
    PROVE  MarkerCovers'
<1>0. PICK n : Appended(k, e, n)
  BY EventAppended
<1>1. e.until \in Nat /\ block[k] \in Nat /\ era \in Nat /\ block[k] <= e.until /\ era' = era /\ e.era = era
  BY DEF Typed, Runs, Event
<1>2. ASSUME NEW l \in Key, NEW i \in DOMAIN seen'[l]
      PROVE  seen'[l][i].era <= era /\ (seen'[l][i].era = era => seen'[l][i].until <= block'[l])
  <2>1. CASE l # k
    BY <1>2, <2>1, <1>0 DEF MarkerCovers, Appended
  <2>2. CASE l = k /\ i = n
    BY <1>1, <2>2, <1>0 DEF Appended
  <2>3. CASE l = k /\ i \in DOMAIN seen[k]
    <3>1. /\ seen'[k][i] = seen[k][i] /\ seen[k][i].until \in Nat /\ block'[k] = e.until
          /\ seen[k][i].era <= era /\ (seen[k][i].era = era => seen[k][i].until <= block[k])
      BY <2>3, <1>0, EventType DEF MarkerCovers, Appended
    <3> QED
      BY <1>1, <2>3, <3>1
  <2> QED
    BY <1>2, <2>1, <2>2, <2>3, <1>0 DEF Appended
<1> QED
  BY <1>1, <1>2 DEF MarkerCovers

\* Nothing passes while the marker is there.
LEMMA OutlivesStep ==
    ASSUME Typed, MarkerCovers, BlockOutlivesCounter, NEW k \in Key, NEW e, Runs(k, e)
    PROVE  BlockOutlivesCounter'
<1>0. PICK n : Appended(k, e, n)
  BY EventAppended
<1>1. ASSUME NEW i \in DOMAIN seen'[k], NEW j \in DOMAIN seen'[k], i < j,
             seen'[k][i].era = seen'[k][j].era,
             seen'[k][i].verdict = "refused", seen'[k][j].verdict = "passed"
      PROVE  seen'[k][j].at >= seen'[k][i].until
  <2>1. i \in DOMAIN seen[k] /\ seen'[k][i] = seen[k][i]
    BY <1>1, <1>0 DEF Appended
  <2>2. CASE j \in DOMAIN seen[k]
    BY <1>1, <2>1, <2>2, <1>0 DEF BlockOutlivesCounter, Appended
  <2>3. CASE j = n
    <3>1. seen'[k][j] = e
      BY <2>3, <1>0 DEF Appended
    <3>2. seen[k][i].era = era /\ e.at = now /\ e.until <= now
      BY <1>1, <2>1, <3>1 DEF Runs
    <3>3. seen[k][i].until <= block[k]
      BY <2>1, <3>2 DEF MarkerCovers
    <3>4. /\ block[k] \in Nat /\ e.until \in Nat /\ now \in Nat /\ seen[k][i].until \in Nat
          /\ block[k] <= e.until
      <4>1. seen[k][i].until \in Nat
        BY <2>1, EventType
      <4>2. block[k] \in Nat /\ e.until \in Nat /\ now \in Nat
        BY DEF Typed, Runs, Event
      <4> QED
        BY <4>1, <4>2 DEF Runs
    <3> QED
      BY <2>1, <3>1, <3>2, <3>3, <3>4
  <2> QED
    BY <1>1, <2>2, <2>3, <1>0 DEF Appended
<1>2. \A l \in Key \ {k} : seen'[l] = seen[l]
  BY <1>0 DEF Appended
<1> QED
  BY <1>1, <1>2 DEF BlockOutlivesCounter

\* The script runs once more since any time that is not to come.
LEMMA SinceGrows ==
    ASSUME Typed, NEW k \in Key, NEW e, Runs(k, e), NEW t \in Int
    PROVE  /\ IsFiniteSet(Since(k, t)) /\ Cardinality(Since(k, t)) \in Nat
           /\ IsFiniteSet(Since(k, t)') /\ Cardinality(Since(k, t)') \in Nat
           /\ Cardinality(Since(k, t)) <= Cardinality(Since(k, t)')
           /\ e.at >= t => Cardinality(Since(k, t)') = Cardinality(Since(k, t)) + 1
<1>0. PICK n : Appended(k, e, n)
  BY EventAppended
<1>1. IsFiniteSet(DOMAIN seen[k])
  BY <1>0, FS_Interval DEF Appended
<1>2. IsFiniteSet(Since(k, t)) /\ Cardinality(Since(k, t)) \in Nat
  BY <1>1, FS_Subset, FS_CardinalityType DEF Since
<1>3. Since(k, t)' = IF e.at >= t THEN Since(k, t) \cup {n} ELSE Since(k, t)
  BY <1>0 DEF Since, Appended
<1>4. n \notin Since(k, t)
  BY <1>0 DEF Since, Appended
<1>5. IsFiniteSet(Since(k, t) \cup {n}) /\ Cardinality(Since(k, t) \cup {n}) = Cardinality(Since(k, t)) + 1
  BY <1>2, <1>4, FS_AddElement
<1> QED
  BY <1>2, <1>3, <1>5

\* What fitted fits still, and the counter and the marker of the script do.
LEMMA CounterStillFits ==
    ASSUME Typed, NEW k \in Key, NEW e, Runs(k, e), NEW c \in Counter, CounterFits(k, c)
    PROVE  CounterFits(k, c)'
<1>0. PICK n : Appended(k, e, n)
  BY EventAppended
<1>1. c.until \in Nat /\ c.hits \in Nat /\ c.until - Ttl \in Int
  BY DEF Counter
<1>2. PICK t : t = c.until - Ttl
  OBVIOUS
<1>3. /\ Cardinality(Since(k, t)) \in Nat /\ Cardinality(Since(k, t)') \in Nat
      /\ Cardinality(Since(k, t)) <= Cardinality(Since(k, t)')
  BY <1>1, <1>2, SinceGrows
<1> QED
  BY <1>1, <1>2, <1>3 DEF CounterFits, Runs

LEMMA BlockStillFits ==
    ASSUME Typed, NEW k \in Key, NEW e, Runs(k, e), NEW b \in Nat, BlockFits(k, b)
    PROVE  BlockFits(k, b)'
<1>0. PICK n : Appended(k, e, n)
  BY EventAppended
<1>1. PICK t : t = b - 2 * Ttl + 1
  OBVIOUS
<1>2. /\ Cardinality(Since(k, t)) \in Nat /\ Cardinality(Since(k, t)') \in Nat
      /\ Cardinality(Since(k, t)) <= Cardinality(Since(k, t)')
  BY <1>1, SinceGrows
<1>3. Limit(k)' = Limit(k) /\ Limit(k) \in Nat
  BY LimitType DEF Limit
<1>4. \A i \in DOMAIN seen[k] : i \in DOMAIN seen'[k] /\ seen'[k][i] = seen[k][i]
  BY <1>0 DEF Appended
<1> QED
  BY <1>1, <1>2, <1>3, <1>4 DEF BlockFits

LEMMA CounterAfterFits ==
    ASSUME Typed, StoreFits, NEW k \in Key, NEW e, Runs(k, e)
    PROVE  /\ CounterFits(k, [hits |-> e.hits, until |-> e.window])'
           /\ e.hits <= Cardinality(Since(k, e.window - Ttl)')
<1>0. PICK n : Appended(k, e, n)
  BY EventAppended
<1>1. PICK t : t = e.window - Ttl
  OBVIOUS
<1>2. /\ e.window \in Nat /\ e.hits \in Nat /\ e.hits > 0 /\ e.at = now /\ now \in Nat
      /\ e.window <= now + Ttl /\ t \in Int /\ e.at >= t
      /\ counter[k].until \in Nat /\ counter[k].hits \in Nat
  <2>1. e.window \in Nat /\ e.hits \in Nat /\ now \in Nat
    BY DEF Runs, Event, Typed
  <2>2. counter[k].until \in Nat /\ counter[k].hits \in Nat
    BY DEF Typed, Counter
  <2>3. e.hits > 0 /\ e.at = now /\ e.window <= now + Ttl
    BY DEF Runs, EventFits
  <2> QED
    BY <1>1, <2>1, <2>2, <2>3
<1>3. /\ Cardinality(Since(k, t)) \in Nat
      /\ Cardinality(Since(k, t)') = Cardinality(Since(k, t)) + 1
  BY <1>2, SinceGrows
<1>4. e.hits <= Cardinality(Since(k, t)')
  <2>1. CASE e.window = counter[k].until /\ e.hits = counter[k].hits + 1
    <3>1. counter[k].hits <= Cardinality(Since(k, t))
      BY <1>1, <2>1 DEF StoreFits, CounterFits
    <3> QED
      BY <1>2, <1>3, <2>1, <3>1
  <2>2. CASE e.hits = 1
    BY <1>3, <2>2
  <2> QED
    BY <2>1, <2>2 DEF Runs
<1>5. now' = now
  BY DEF Runs
<1> QED
  BY <1>1, <1>2, <1>4, <1>5 DEF CounterFits

LEMMA BlockAfterFits ==
    ASSUME Typed, StoreFits, NEW k \in Key, NEW e, Runs(k, e)
    PROVE  BlockFits(k, e.until)'
<1>0. PICK n : Appended(k, e, n)
  BY EventAppended
<1>1. CASE e.until = block[k]
  BY <1>1, BlockStillFits DEF Typed, StoreFits
<1>2. CASE e.until = now + Ttl /\ e.hits > Limit(k)
  <2>1. PICK t : t = e.until - 2 * Ttl + 1
    OBVIOUS
  <2>2. PICK w : w = e.window - Ttl
    OBVIOUS
  <2>3. /\ e.window \in Nat /\ e.hits \in Nat /\ now \in Nat /\ e.at = now /\ e.at < e.window
        /\ Limit(k) \in Nat
    BY LimitType DEF Runs, EventFits, Event, Typed
  <2>4. w \in Int /\ t \in Int /\ t <= w
    BY <1>2, <2>1, <2>2, <2>3
  <2>5. Since(k, w)' \subseteq Since(k, t)'
    <3>1. ASSUME NEW i \in DOMAIN seen'[k], seen'[k][i].at >= w PROVE seen'[k][i].at >= t
      <4>1. seen'[k][i].at \in Nat
        BY <1>0 DEF Event, Runs, Appended
      <4> QED
        BY <2>4, <3>1, <4>1
    <3> QED
      BY <3>1 DEF Since
  <2>6. /\ IsFiniteSet(Since(k, t)') /\ Cardinality(Since(k, t)') \in Nat /\ Cardinality(Since(k, w)') \in Nat
    BY <2>4, SinceGrows
  <2>7. Cardinality(Since(k, w)') <= Cardinality(Since(k, t)')
    BY <2>5, <2>6, FS_Subset
  <2>8. e.hits <= Cardinality(Since(k, w)')
    BY <2>2, CounterAfterFits
  <2>9. Cardinality(Since(k, t)') > Limit(k)
    BY <1>2, <2>3, <2>6, <2>7, <2>8
  <2>10. n \in DOMAIN seen'[k] /\ seen'[k][n].at + Ttl = e.until
    BY <1>2, <2>3, <1>0 DEF Appended
  <2>11. Limit(k)' = Limit(k)
    BY DEF Limit
  <2> QED
    BY <2>1, <2>9, <2>10, <2>11 DEF BlockFits
<1> QED
  BY <1>1, <1>2 DEF Runs

LEMMA StoreStep ==
    ASSUME Typed, StoreFits, NEW k \in Key, NEW e, Runs(k, e)
    PROVE  StoreFits'
<1>0. PICK n : Appended(k, e, n)
  BY EventAppended
<1> PICK c, s, b : c = counter'[k] /\ s = saved.counter[k] /\ b = saved.block[k]
  OBVIOUS
<1>1. saved' = saved /\ now' = now
  BY DEF Runs
<1>2. CounterFits(k, counter[k])'
  BY <1>0, CounterAfterFits DEF Appended
<1>3. BlockFits(k, block[k])'
  BY <1>0, BlockAfterFits DEF Appended
<1>4. CounterFits(k, s)' /\ BlockFits(k, b)'
  BY CounterStillFits, BlockStillFits DEF Typed, StoreFits
<1>5. CounterFits(k, saved.counter[k])' /\ BlockFits(k, saved.block[k])'
  BY <1>1, <1>4
<1>6. ASSUME NEW l \in Key \ {k}
      PROVE  /\ CounterFits(l, counter[l])' /\ CounterFits(l, saved.counter[l])'
             /\ BlockFits(l, block[l])' /\ BlockFits(l, saved.block[l])'
  <2>1. seen'[l] = seen[l] /\ counter'[l] = counter[l] /\ block'[l] = block[l]
    BY <1>0 DEF Appended
  <2>2. /\ CounterFits(l, counter[l]) /\ CounterFits(l, saved.counter[l])
        /\ BlockFits(l, block[l]) /\ BlockFits(l, saved.block[l])
    BY DEF StoreFits
  <2> QED
    BY <1>1, <2>1, <2>2 DEF CounterFits, BlockFits, Since, Limit
<1> QED
  BY <1>2, <1>3, <1>5, <1>6 DEF StoreFits

-----------------------------------------------------------------------------
(* Windows.                                                                *)

LEMMA WindowsStep ==
    ASSUME Typed, WindowsInv, NEW k \in Key, NEW e, Runs(k, e)
    PROVE  WindowsInv'
<1>0. PICK n : Appended(k, e, n)
  BY EventAppended
<1>1. /\ e.window \in Nat /\ e.hits \in Nat /\ counter[k].until \in Nat /\ counter[k].hits \in Nat
      /\ counter'[k].until = e.window /\ counter'[k].hits = e.hits
      /\ e.era = era /\ era' = era
  BY <1>0 DEF Typed, Runs, Event, Counter, Appended
<1>2. ASSUME NEW i \in DOMAIN seen[k], seen[k][i].era = era
      PROVE  CountsOn(seen[k][i], e) /\ CounterCountsOn(k, seen[k][i])'
  <2>1. seen[k][i].window \in Nat /\ seen[k][i].hits \in Nat
    BY EventType
  <2>2. CounterCountsOn(k, seen[k][i])
    BY <1>2 DEF WindowsInv
  <2>3. PICK f : f = seen[k][i]
    OBVIOUS
  <2>4. CountsOn(f, e)
    <3>1. \/ e.window = counter[k].until /\ e.hits = counter[k].hits + 1
          \/ e.hits = 1 /\ counter[k].until + Ttl <= e.window
      BY DEF Runs
    <3>2. \/ f.window = counter[k].until /\ f.hits <= counter[k].hits
          \/ f.window + Ttl <= counter[k].until
      BY <2>2, <2>3 DEF CounterCountsOn
    <3> QED
      BY <1>1, <2>1, <2>3, <3>1, <3>2 DEF CountsOn
  <2>5. seen'[k][i] = f
    BY <2>3, <1>0 DEF Appended
  <2> QED
    BY <1>1, <2>1, <2>3, <2>4, <2>5 DEF CountsOn, CounterCountsOn
<1>3. ASSUME NEW i \in DOMAIN seen'[k]
      PROVE  EventFits(k, seen'[k][i]) /\ (seen'[k][i].era = era => CounterCountsOn(k, seen[k][i])')
  <2>1. CASE i = n
    <3>1. seen'[k][n] = e
      BY <1>0 DEF Appended
    <3>2. EventFits(k, e)
      BY DEF Runs
    <3> QED
      BY <1>1, <2>1, <3>1, <3>2 DEF CounterCountsOn
  <2>2. CASE i \in DOMAIN seen[k]
    BY <1>2, <2>2, <1>0 DEF WindowsInv, Appended
  <2> QED
    BY <1>3, <2>1, <2>2, <1>0 DEF Appended
<1>4. ASSUME NEW i \in DOMAIN seen'[k], NEW j \in DOMAIN seen'[k], i < j,
             seen'[k][i].era = seen'[k][j].era
      PROVE  CountsOn(seen'[k][i], seen'[k][j])
  <2>1. i \in DOMAIN seen[k] /\ seen'[k][i] = seen[k][i]
    BY <1>4, <1>0 DEF Appended
  <2>2. CASE j = n
    BY <1>1, <1>2, <1>4, <2>1, <2>2, <1>0 DEF Appended
  <2>3. CASE j \in DOMAIN seen[k]
    BY <1>4, <2>1, <2>3, <1>0 DEF WindowsInv, Appended
  <2> QED
    BY <1>4, <2>2, <2>3, <1>0 DEF Appended
<1>5. ASSUME NEW l \in Key \ {k}
      PROVE  /\ \A i \in DOMAIN seen'[l] : /\ EventFits(l, seen[l][i])'
                                           /\ seen'[l][i].era = era' => CounterCountsOn(l, seen[l][i])'
             /\ \A i, j \in DOMAIN seen'[l] :
                    i < j /\ seen'[l][i].era = seen'[l][j].era => CountsOn(seen[l][i], seen[l][j])'
  <2>1. seen'[l] = seen[l] /\ counter'[l] = counter[l] /\ Limit(l)' = Limit(l)
    BY <1>0 DEF Appended, Limit
  <2>2. /\ \A i \in DOMAIN seen[l] : /\ EventFits(l, seen[l][i])
                                     /\ seen[l][i].era = era => CounterCountsOn(l, seen[l][i])
        /\ \A i, j \in DOMAIN seen[l] :
               i < j /\ seen[l][i].era = seen[l][j].era => CountsOn(seen[l][i], seen[l][j])
    BY DEF WindowsInv
  <2> QED
    BY <1>1, <2>1, <2>2 DEF EventFits, CountsOn, CounterCountsOn
<1>6. /\ \A i \in DOMAIN seen'[k] : /\ EventFits(k, seen[k][i])'
                                    /\ seen'[k][i].era = era' => CounterCountsOn(k, seen[k][i])'
      /\ \A i, j \in DOMAIN seen'[k] :
             i < j /\ seen'[k][i].era = seen'[k][j].era => CountsOn(seen[k][i], seen[k][j])'
  <2>1. Limit(k)' = Limit(k)
    BY DEF Limit
  <2> QED
    BY <1>1, <1>3, <1>4, <2>1 DEF EventFits, CountsOn
<1> QED
  BY <1>5, <1>6 DEF WindowsInv

\* Within one window of time the script lets a request pass less than two
\* limits often: the runs before the last belong to its own window or to one
\* other, and those of the other are not the first of it.
LEMMA WindowsBound == Typed /\ WindowsInv => BurstBounded
<1> SUFFICES ASSUME Typed, WindowsInv, NEW k \in Key, NEW i \in DOMAIN seen[k]
             PROVE  Cardinality({j \in Lately(k, i, Ttl) :
                        seen[k][j].verdict = "passed" /\ seen[k][j].era = seen[k][i].era}) < 2 * Limit(k)
  BY DEF BurstBounded
<1> PICK L, S, last : /\ L = Limit(k) /\ last = seen[k][i].window
                      /\ S = {j \in Lately(k, i, Ttl) :
                                  seen[k][j].verdict = "passed" /\ seen[k][j].era = seen[k][i].era}
  OBVIOUS
<1>1. L \in Nat /\ L > 0
  BY LimitType
<1>2. i \in Nat /\ last \in Nat /\ EventFits(k, seen[k][i]) /\ \A j \in 1..i : j \in DOMAIN seen[k]
  <2>1. seen[k] \in Seq(Event)
    BY DEF Typed
  <2>2. \A j \in 1..i : j \in DOMAIN seen[k]
    BY <2>1
  <2> QED
    BY <2>2, EventType DEF WindowsInv
<1>3. ASSUME NEW j \in S
      PROVE  /\ j \in DOMAIN seen[k] /\ j \in Nat /\ seen[k][j].era = seen[k][i].era
             /\ seen[k][j].at \in Nat /\ seen[k][j].hits \in Nat /\ seen[k][j].window \in Nat
             /\ seen[k][j].hits > 0 /\ seen[k][j].hits <= L
             /\ seen[k][j].at < seen[k][j].window
             /\ seen[k][j].hits = 1 => seen[k][j].window = seen[k][j].at + Ttl
             /\ \/ seen[k][j].window = last
                \/ seen[k][j].window + Ttl <= last /\ seen[k][j].hits > 1
             /\ last <= seen[k][j].window + 2 * Ttl /\ last < seen[k][j].window + 2 * Ttl
  <2>1. /\ j \in DOMAIN seen[k] /\ j <= i /\ seen[k][j].at + Ttl > seen[k][i].at
        /\ seen[k][j].era = seen[k][i].era /\ seen[k][j].verdict = "passed"
    BY <1>2 DEF Lately
  <2>2. /\ j \in Nat /\ seen[k][j].at \in Nat /\ seen[k][j].hits \in Nat /\ seen[k][j].window \in Nat
        /\ seen[k][i].at \in Nat
    BY <2>1, EventType
  <2>3. /\ EventFits(k, seen[k][j])
        /\ j = i \/ CountsOn(seen[k][j], seen[k][i])
    BY <1>2, <2>1, <2>2 DEF WindowsInv
  <2>4. /\ seen[k][j].hits > 0 /\ seen[k][j].hits <= L
        /\ seen[k][j].at < seen[k][j].window
        /\ seen[k][j].hits = 1 => seen[k][j].window = seen[k][j].at + Ttl
    BY <2>1, <2>3 DEF EventFits
  <2>5. last <= seen[k][i].at + Ttl
    BY <1>2 DEF EventFits
  <2>6. seen[k][j].window = last \/ seen[k][j].window + Ttl <= last
    BY <2>3 DEF CountsOn
  <2>7. seen[k][j].window + Ttl <= last => seen[k][j].hits > 1
    BY <1>2, <2>1, <2>2, <2>4, <2>5
  <2> QED
    BY <1>2, <2>1, <2>2, <2>4, <2>5, <2>6, <2>7
<1>4. ASSUME NEW j \in S, NEW m \in S, j < m
      PROVE  \/ seen[k][j].window = seen[k][m].window /\ seen[k][j].hits < seen[k][m].hits
             \/ seen[k][j].window # last /\ seen[k][m].window = last
  <2>1. CountsOn(seen[k][j], seen[k][m])
    BY <1>3, <1>4 DEF WindowsInv
  <2> QED
    BY <1>2, <1>3, <2>1 DEF CountsOn
<1> DEFINE place(j) == IF seen[k][j].window = last THEN seen[k][j].hits ELSE L + seen[k][j].hits - 1
           f == [j \in S |-> place(j)]
           T == 1..(2 * L - 1)
<1>5. \A j \in S : place(j) \in T
  BY <1>1, <1>3
<1>6. \A j, m \in S : j < m => place(j) # place(m)
  <2>1. ASSUME NEW j \in S, NEW m \in S, j < m PROVE place(j) # place(m)
    <3>1. seen[k][j].hits \in Nat /\ seen[k][m].hits \in Nat
      BY <1>3
    <3>2. /\ seen[k][m].hits <= L
          /\ seen[k][j].window # last => seen[k][j].hits > 1
      BY <1>3
    <3>3. CASE seen[k][j].window = seen[k][m].window /\ seen[k][j].hits < seen[k][m].hits
      BY <1>1, <3>1, <3>3
    <3>4. CASE seen[k][j].window # last /\ seen[k][m].window = last
      BY <1>1, <3>1, <3>2, <3>4
    <3> QED
      BY <1>4, <2>1, <3>3, <3>4
  <2> QED
    BY <2>1
<1>7. \A j, m \in S : place(j) = place(m) => j = m
  <2>1. \A j \in S : j \in Nat
    BY <1>3
  <2> HIDE DEF place
  <2>2. ASSUME NEW j \in S, NEW m \in S, place(j) = place(m) PROVE j = m
    <3>1. j \in Nat /\ m \in Nat
      BY <2>1
    <3>2. ~(j < m) /\ ~(m < j)
      BY <1>6, <2>2
    <3> QED
      BY <3>1, <3>2
  <2> QED
    BY <2>2
<1>8. f \in Injection(S, T)
  <2> HIDE DEF place, T
  <2>1. f \in [S -> T]
    BY <1>5
  <2>2. IsInjective(f)
    BY <1>7 DEF IsInjective
  <2> QED
    BY <2>1, <2>2 DEF Injection
<1>9. IsFiniteSet(T) /\ Cardinality(T) = 2 * L - 1
  <2> PICK m : m = 2 * L - 1
    OBVIOUS
  <2>1. m \in Int /\ m >= 1
    BY <1>1
  <2>2. IsFiniteSet(1..m) /\ Cardinality(1..m) = m
    BY <2>1, FS_Interval
  <2> QED
    BY <2>2
<1>10. Cardinality(S) <= Cardinality(T) /\ IsFiniteSet(S)
  <2> HIDE DEF T, f
  <2> QED
    BY <1>8, <1>9, FS_Injection
<1>11. Cardinality(S) \in Nat
  BY <1>10, FS_CardinalityType
<1> QED
  BY <1>1, <1>9, <1>10, <1>11

-----------------------------------------------------------------------------
(* Refusals.                                                               *)

\* A refusal is deserved when it is answered, and what came before it stays.
LEMMA DeservedStep ==
    ASSUME Typed, StoreFits, RefusalsDeserved, NEW k \in Key, NEW e, Runs(k, e)
    PROVE  RefusalsDeserved'
<1>0. PICK n : Appended(k, e, n)
  BY EventAppended
<1> DEFINE Deserved(l, i) == /\ Cardinality(Lately(l, i, 2 * Ttl)) > Limit(l)
                             /\ Lately(l, i, Ttl) # {i}
<1>1. ASSUME NEW i \in DOMAIN seen[k], NEW span PROVE Lately(k, i, span)' = Lately(k, i, span)
  <2>1. i \in Nat /\ \A j \in 1..i : j \in DOMAIN seen[k]
    BY <1>0 DEF Appended
  <2>2. \A j \in 1..i : seen'[k][j] = seen[k][j]
    BY <2>1, <1>0 DEF Appended
  <2>3. seen'[k][i] = seen[k][i]
    BY <1>0 DEF Appended
  <2> QED
    BY <2>2, <2>3 DEF Lately
<1>2. ASSUME NEW l \in Key \ {k}, NEW i, NEW span PROVE Lately(l, i, span)' = Lately(l, i, span)
  BY <1>0 DEF Lately, Appended
<1>3. /\ e.at = now /\ now \in Nat /\ e.until \in Nat /\ e.hits \in Nat /\ e.window \in Nat
      /\ e.at < e.window /\ Limit(k) \in Nat /\ Limit(k) > 0 /\ n \in Nat
      /\ DOMAIN seen'[k] = 1..n /\ seen'[k][n] = e /\ block'[k] = e.until
      /\ \A j \in 1..n : seen'[k][j].at \in Nat
  <2>1. e \in Event /\ e.at = now /\ e.at < e.window /\ now \in Nat
    BY DEF Runs, EventFits, Typed
  <2>2. Limit(k) \in Nat /\ Limit(k) > 0
    BY LimitType
  <2>3. \A j \in 1..n : seen'[k][j] \in Event
    BY <1>0, <2>1 DEF Appended
  <2> QED
    BY <1>0, <2>1, <2>2, <2>3 DEF Appended, Event
<1>4. ASSUME e.verdict = "refused" PROVE Deserved(k, n)'
  <2>1. e.until > now
    BY <1>4 DEF Runs
  <2>2. Cardinality(Lately(k, n, 2 * Ttl)') > Limit(k)
    <3>1. PICK t : t = e.until - 2 * Ttl + 1
      OBVIOUS
    <3>2. Cardinality(Since(k, t)') > Limit(k)
      BY <1>3, <2>1, <3>1, BlockAfterFits DEF BlockFits, Limit
    <3>3. Since(k, t)' \subseteq Lately(k, n, 2 * Ttl)'
      <4>1. ASSUME NEW j \in 1..n, seen'[k][j].at >= t PROVE seen'[k][j].at + 2 * Ttl > now
        <5>1. seen'[k][j].at \in Nat /\ now \in Nat /\ e.until \in Nat
          BY <1>3
        <5>2. e.until - 2 * Ttl + 1 <= seen'[k][j].at
          BY <3>1, <4>1, <5>1
        <5> QED
          BY <2>1, <5>1, <5>2
      <4>2. DOMAIN seen'[k] = 1..n /\ seen'[k][n].at = now
        BY <1>3
      <4> QED
        BY <4>1, <4>2 DEF Since, Lately
    <3>4. IsFiniteSet(Lately(k, n, 2 * Ttl)')
      <4>1. IsFiniteSet(1..n)
        <5>1. n \in Int
          BY <1>3
        <5> QED
          BY <5>1, FS_Interval
      <4>2. Lately(k, n, 2 * Ttl)' \subseteq 1..n
        BY DEF Lately
      <4> QED
        BY <4>1, <4>2, FS_Subset
    <3>5. Cardinality(Since(k, t)') <= Cardinality(Lately(k, n, 2 * Ttl)')
      BY <3>3, <3>4, FS_Subset
    <3>6. /\ Cardinality(Since(k, t)') \in Nat /\ Cardinality(Lately(k, n, 2 * Ttl)') \in Nat
      BY <3>1, <3>3, <3>4, FS_Subset, FS_CardinalityType
    <3> QED
      BY <1>3, <3>2, <3>5, <3>6
  <2>3. \E j \in 1..(n - 1) : seen'[k][j].at + Ttl > now
    <3>1. CASE e.until = block[k]
      <4>1. PICK j \in DOMAIN seen[k] : seen[k][j].at + Ttl = e.until
        BY <2>1, <1>3, <3>1 DEF StoreFits, BlockFits
      <4>2. j \in 1..(n - 1) /\ seen'[k][j] = seen[k][j]
        BY <4>1, <1>0 DEF Appended
      <4> QED
        BY <2>1, <4>1, <4>2
    <3>2. CASE e.hits > Limit(k)
      <4>1. PICK t : t = e.window - Ttl
        OBVIOUS
      <4>2. e.hits <= Cardinality(Since(k, t)')
        BY <4>1, CounterAfterFits
      <4>3. /\ Cardinality(Since(k, t)) \in Nat /\ Cardinality(Since(k, t)') \in Nat
            /\ e.at >= t => Cardinality(Since(k, t)') = Cardinality(Since(k, t)) + 1
            /\ e.at >= t
        <5>1. t \in Int /\ e.at >= t
          <6>1. e.window <= e.at + Ttl /\ e.at \in Nat /\ e.window \in Nat
            BY <1>3 DEF Runs, EventFits
          <6> QED
            BY <4>1, <6>1
        <5> QED
          BY <5>1, SinceGrows
      <4>4. Cardinality(Since(k, t)) > 0
        BY <1>3, <3>2, <4>2, <4>3
      <4>5. Since(k, t) # {}
        BY <4>4, FS_EmptySet
      <4>6. PICK j \in DOMAIN seen[k] : seen[k][j].at >= t
        BY <4>5 DEF Since
      <4>7. j \in 1..(n - 1) /\ seen'[k][j] = seen[k][j] /\ seen[k][j].at \in Nat
        BY <4>6, <1>0, EventType DEF Appended
      <4>8. now < e.window /\ now \in Nat /\ e.window \in Nat
        BY <1>3
      <4>9. seen[k][j].at + Ttl > now
        BY <4>1, <4>6, <4>7, <4>8
      <4> QED
        BY <4>7, <4>9
    <3> QED
      BY <3>1, <3>2 DEF Runs
  <2>4. Lately(k, n, Ttl)' # {n}
    <3>1. PICK j \in 1..(n - 1) : seen'[k][j].at + Ttl > now
      BY <2>3
    <3>2. j \in 1..n /\ j # n /\ seen'[k][n].at = now
      BY <1>3
    <3>3. j \in Lately(k, n, Ttl)'
      BY <3>1, <3>2 DEF Lately
    <3> QED
      BY <3>2, <3>3
  <2>5. Limit(k)' = Limit(k)
    BY DEF Limit
  <2> QED
    BY <2>2, <2>4, <2>5
<1>5. ASSUME NEW i \in DOMAIN seen'[k], seen'[k][i].verdict = "refused" PROVE Deserved(k, i)'
  <2>1. CASE i = n
    BY <1>3, <1>4, <1>5, <2>1
  <2>2. CASE i \in DOMAIN seen[k]
    <3>1. Deserved(k, i)
      BY <1>5, <2>2, <1>0 DEF RefusalsDeserved, Appended
    <3> QED
      BY <1>1, <2>2, <3>1 DEF Limit
  <2> QED
    BY <1>5, <2>1, <2>2, <1>0 DEF Appended
<1>6. ASSUME NEW l \in Key \ {k}, NEW i \in DOMAIN seen'[l], seen'[l][i].verdict = "refused"
      PROVE  Deserved(l, i)'
  <2>1. Deserved(l, i)
    BY <1>6, <1>0 DEF RefusalsDeserved, Appended
  <2> QED
    BY <1>2, <2>1 DEF Limit
<1> QED
  BY <1>5, <1>6 DEF RefusalsDeserved

-----------------------------------------------------------------------------

\* What is taken from the store or from the snapshot fits while nothing is
\* counted and no time passes.
LEMMA StoreKept ==
    ASSUME StoreFits, UNCHANGED <<now, seen>>,
           \A k \in Key : /\ counter'[k] \in {counter[k], saved.counter[k]}
                          /\ saved'.counter[k] \in {counter[k], saved.counter[k]}
                          /\ block'[k] \in {block[k], saved.block[k]}
                          /\ saved'.block[k] \in {block[k], saved.block[k]}
    PROVE  StoreFits'
<1>1. ASSUME NEW k \in Key, NEW c \in {counter[k], saved.counter[k]}
      PROVE  CounterFits(k, c)'
  <2>1. CounterFits(k, c)
    BY DEF StoreFits
  <2> QED
    BY <2>1 DEF CounterFits, Since
<1>2. ASSUME NEW k \in Key, NEW b \in {block[k], saved.block[k]}
      PROVE  BlockFits(k, b)'
  <2>1. BlockFits(k, b)
    BY DEF StoreFits
  <2> QED
    BY <2>1 DEF BlockFits, Since, Limit
<1>3. ASSUME NEW k \in Key
      PROVE  /\ CounterFits(k, counter[k])' /\ CounterFits(k, saved.counter[k])'
             /\ BlockFits(k, block[k])' /\ BlockFits(k, saved.block[k])'
  <2> PICK c, d, a, b : c = counter'[k] /\ d = saved'.counter[k] /\ a = block'[k] /\ b = saved'.block[k]
    OBVIOUS
  <2>1. /\ c \in {counter[k], saved.counter[k]} /\ d \in {counter[k], saved.counter[k]}
        /\ a \in {block[k], saved.block[k]} /\ b \in {block[k], saved.block[k]}
    OBVIOUS
  <2>2. CounterFits(k, c)' /\ CounterFits(k, d)' /\ BlockFits(k, a)' /\ BlockFits(k, b)'
    BY <1>1, <1>2, <2>1
  <2> QED
    BY <2>2 DEF CounterFits, BlockFits
<1> QED
  BY <1>3 DEF StoreFits

LEMMA Unchanged ==
    ASSUME IInv, UNCHANGED <<now, era, counter, block, saved, seen>>
    PROVE  IInv'
<1>1. Typed' /\ MarkerCovers' /\ BlockOutlivesCounter'
  BY DEF IInv, Typed, MarkerCovers, BlockOutlivesCounter
<1>2. StoreFits'
  BY StoreKept DEF IInv
<1>3. WindowsInv'
  BY DEF IInv, WindowsInv, EventFits, CountsOn, CounterCountsOn, Limit
<1>4. RefusalsDeserved'
  BY DEF IInv, RefusalsDeserved, Lately, Limit
<1> QED
  BY <1>1, <1>2, <1>3, <1>4 DEF IInv

LEMMA ScriptStep ==
    ASSUME IInv, NEW k, NEW verdict \in Verdict, INCREMENT_LUA(k, verdict),
           verdict = "passed" => ~Refused(k),
           verdict = "refused" => Refused(k)
    PROVE  IInv'
<1>1. CASE k \notin Key
  <2>1. UNCHANGED <<now, era, counter, block, saved, seen>>
    BY <1>1 DEF INCREMENT_LUA, IInv, Typed
  <2> QED
    BY <2>1, Unchanged
<1>2. CASE k \in Key
  <2>1. PICK e : Runs(k, e)
    BY <1>2, ScriptRuns DEF IInv
  <2> QED
    BY <1>2, <2>1, TypedStep, MarkerStep, OutlivesStep, StoreStep, WindowsStep, DeservedStep DEF IInv
<1> QED
  BY <1>1, <1>2

\* Time passes: nothing that fits ceases to.
LEMMA TickStep ==
    ASSUME IInv, Tick
    PROVE  IInv'
<1>1. now' = now + 1 /\ UNCHANGED <<era, counter, block, saved, seen>>
  BY DEF Tick, store
<1>2. Typed' /\ MarkerCovers' /\ BlockOutlivesCounter'
  BY <1>1 DEF IInv, Typed, MarkerCovers, BlockOutlivesCounter
<1>3. ASSUME NEW l \in Key, NEW c \in Counter, CounterFits(l, c) PROVE CounterFits(l, c)'
  BY <1>1, <1>3 DEF IInv, Typed, CounterFits, Counter, Since
<1>4. \A l \in Key : CounterFits(l, counter[l])' /\ CounterFits(l, saved.counter[l])'
  <2> SUFFICES ASSUME NEW l \in Key PROVE CounterFits(l, counter[l])' /\ CounterFits(l, saved.counter[l])'
    OBVIOUS
  <2> PICK c, s : c = counter[l] /\ s = saved.counter[l]
    OBVIOUS
  <2>1. CounterFits(l, c)' /\ CounterFits(l, s)'
    BY <1>3 DEF IInv, Typed, StoreFits
  <2> QED
    BY <1>1, <2>1
<1>5. StoreFits'
  BY <1>1, <1>4 DEF IInv, StoreFits, BlockFits, Since, Limit
<1>6. WindowsInv'
  BY <1>1 DEF IInv, WindowsInv, EventFits, CountsOn, CounterCountsOn, Limit
<1>7. RefusalsDeserved'
  BY <1>1 DEF IInv, RefusalsDeserved, Lately, Limit
<1> QED
  BY <1>2, <1>5, <1>6, <1>7 DEF IInv

\* A snapshot is of what fits.
LEMMA SnapshotStep ==
    ASSUME IInv, Snapshot
    PROVE  IInv'
<1>1. /\ saved' = [counter |-> counter, block |-> block]
      /\ UNCHANGED <<now, era, counter, block, seen>>
  BY DEF Snapshot, store
<1>2. Typed' /\ MarkerCovers' /\ BlockOutlivesCounter'
  BY <1>1 DEF IInv, Typed, MarkerCovers, BlockOutlivesCounter
<1>3. StoreFits'
  BY <1>1, StoreKept DEF IInv
<1>4. WindowsInv'
  BY <1>1 DEF IInv, WindowsInv, EventFits, CountsOn, CounterCountsOn, Limit
<1>5. RefusalsDeserved'
  BY <1>1 DEF IInv, RefusalsDeserved, Lately, Limit
<1> QED
  BY <1>2, <1>3, <1>4, <1>5 DEF IInv

\* A restart takes counters and markers back, and begins an era in which
\* nothing has been answered.
LEMMA RestartStep ==
    ASSUME IInv, ValkeyRestart
    PROVE  IInv'
<1>1. /\ era' = era + 1 /\ counter' = saved.counter /\ block' = saved.block
      /\ UNCHANGED <<now, saved, seen>>
  BY DEF ValkeyRestart
<1>2. \A k \in Key : \A i \in DOMAIN seen[k] : seen[k][i].era \in Nat /\ seen[k][i].era <= era
  BY EventType DEF IInv, MarkerCovers
<1>3. era \in Nat /\ era' \in Nat
  BY <1>1 DEF IInv, Typed
<1>4. Typed' /\ BlockOutlivesCounter'
  BY <1>1 DEF IInv, Typed, BlockOutlivesCounter
<1>5. \A k \in Key : \A i \in DOMAIN seen'[k] : seen'[k][i].era < era'
  BY <1>1, <1>2, <1>3
<1>6. MarkerCovers'
  BY <1>1, <1>2, <1>3, <1>5 DEF MarkerCovers
<1>7. StoreFits'
  BY <1>1, StoreKept DEF IInv
<1>8. WindowsInv'
  <2>1. \A k \in Key : \A i \in DOMAIN seen'[k] : seen'[k][i].era # era'
    BY <1>1, <1>2, <1>3
  <2>2. \A k \in Key : \A i \in DOMAIN seen'[k] : EventFits(k, seen[k][i])'
    BY <1>1 DEF IInv, WindowsInv, EventFits, Limit
  <2>3. \A k \in Key : \A i, j \in DOMAIN seen'[k] :
            i < j /\ seen'[k][i].era = seen'[k][j].era => CountsOn(seen[k][i], seen[k][j])'
    BY <1>1 DEF IInv, WindowsInv, CountsOn
  <2> QED
    BY <2>1, <2>2, <2>3 DEF WindowsInv
<1>9. RefusalsDeserved'
  BY <1>1 DEF IInv, RefusalsDeserved, Lately, Limit
<1> QED
  BY <1>4, <1>6, <1>7, <1>8, <1>9 DEF IInv

LEMMA IInvStep == IInv /\ [ThrottlerNext]_throttlerVars => IInv'
<1> SUFFICES ASSUME IInv, [ThrottlerNext]_throttlerVars PROVE IInv'
  OBVIOUS
<1> DEFINE Same == UNCHANGED <<now, era, counter, block, saved, seen>>
<1>1. ASSUME NEW s \in Slot, NEW q \in Request, Arrive(s, q) PROVE Same
  BY <1>1 DEF Arrive, store
<1>2. ASSUME NEW s \in Slot, Pass(s) PROVE IInv'
  BY <1>2, ScriptStep DEF Pass, Verdict
<1>3. ASSUME NEW s \in Slot, Refuse(s) PROVE IInv'
  BY <1>3, ScriptStep DEF Refuse, Verdict
<1>4. ASSUME NEW s \in Slot, FailOpen(s) PROVE Same
  BY <1>4 DEF FailOpen, store
<1>5. ASSUME NEW s \in Slot, AnswerLost(s) PROVE IInv'
  BY <1>5, ScriptStep DEF AnswerLost, Verdict
<1>6. CASE UNCHANGED throttlerVars
  <2>1. Same
    BY <1>6 DEF throttlerVars, store
  <2> QED
    BY <2>1, Unchanged
<1> QED
  BY <1>1, <1>2, <1>3, <1>4, <1>5, <1>6, Unchanged, TickStep, SnapshotStep, RestartStep DEF ThrottlerNext

LEMMA IInvHolds == ThrottlerSpec => []IInv
<1>1. ThrottlerInit => IInv
  BY InitIInv
<1>2. IInv /\ [ThrottlerNext]_throttlerVars => IInv'
  BY IInvStep
<1> QED
  BY <1>1, <1>2, PTL DEF ThrottlerSpec

-----------------------------------------------------------------------------

\* The first and the second guarantee in the script's comment: until Valkey
\* restarts, less than two limits of requests pass in any span of a window.
THEOREM BurstsAreBounded == ThrottlerSpec => []BurstBounded
<1>1. IInv => BurstBounded
  BY WindowsBound DEF IInv
<1> QED
  BY <1>1, IInvHolds, PTL

\* Whatever is restored or lost, nobody is refused whose key was not counted
\* beyond its limit within two windows, nor after a quiet one.
THEOREM RefusalsAreDeserved == ThrottlerSpec => []RefusalsDeserved
<1>1. IInv => RefusalsDeserved
  BY DEF IInv
<1> QED
  BY <1>1, IInvHolds, PTL

\* The third guarantee in the script's comment: until Valkey restarts, a key
\* that was refused is let in again only when the block it was told has passed.
THEOREM RefusedStayOut == ThrottlerSpec => []BlockOutlivesCounter
<1>1. IInv => BlockOutlivesCounter
  BY DEF IInv
<1> QED
  BY <1>1, IInvHolds, PTL

=============================================================================
