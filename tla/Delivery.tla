------------------------------ MODULE Delivery ------------------------------
(***************************************************************************)
(* Notification delivery: FanoutService, the BullMQ queues and workers of  *)
(* the push and email channels, and NotificationDeliveriesSweeper.         *)
(*                                                                         *)
(* A fan-out commits one notification_deliveries row per recipient, then,  *)
(* outside the transaction, adds one job per row.  A crash or a broker     *)
(* error leaves rows without a job, and the sweepers, one per API replica  *)
(* and run every five minutes, add the jobs again.  BullMQ ignores an add  *)
(* whose job id it knows, in whatever state that job is: jobs are kept     *)
(* when they complete or fail.  No one writes the status 'delivered'.      *)
(*                                                                         *)
(* Valkey, which holds the queues, writes snapshots and no append-only     *)
(* file: a restart takes every job back to the last snapshot, and a job    *)
(* that was added, tried or finished since then is forgotten.              *)
(*                                                                         *)
(* The fan-out is modelled as its unit test runs it, with a database that  *)
(* accepts its statements.  On the migrated schema its transaction fails:  *)
(* the INSERT into notifications leaves out the city_id that 0008 declares *)
(* NOT NULL, and push_subscriptions has no status before 0031.             *)
(***************************************************************************)
EXTENDS Naturals, Sequences, FiniteSets

CONSTANTS
    Delivery,             \* the rows a fan-out may create
    Subscription,         \* push_subscriptions rows
    Target,               \* Target[d]: a subscription, or Email
    Email,                \* the target of an email delivery
    Batches,              \* what fan-outs insert: sequences of deliveries
    Sweeper,              \* the sweeping replicas
    BATCH_CAP,
    MAX_SWEEP_ATTEMPTS,
    PUSH_ATTEMPTS,        \* PUSH_RETRY.attempts; email jobs have one attempt
    MaxStalled,           \* BullMQ's maxStalledCount
    MaxForgotten          \* bound: restarts that forget what became of a job

ASSUME TargetAssumption ==
    /\ Target \in [Delivery -> Subscription \cup {Email}]
    /\ Email \notin Subscription
ASSUME BatchesAssumption == Batches \subseteq Seq(Delivery)
ASSUME BoundsAssumption ==
    /\ BATCH_CAP \in Nat \ {0}
    /\ MAX_SWEEP_ATTEMPTS \in Nat \ {0}
    /\ PUSH_ATTEMPTS \in Nat \ {0}
    /\ MaxStalled \in Nat
    /\ MaxForgotten \in Nat

VARIABLES
    row,       \* row[d]: the status of d's row, "none" before the fan-out
    sweeps,    \* sweeps[d]: sweep_attempts
    created,   \* the rows in the order of created_at
    stale,     \* rows older than STALE_AFTER_MINUTES
    pending,   \* pending[b]: what fan-out b has still to enqueue, in memory
    active,    \* subscriptions with status 'active'
    job,       \* job[d]: the state of d's BullMQ job
    attempts,  \* attempts[d]: failed attempts of the job
    stalls,    \* stalls[d]: times the job was found stalled
    accepted,  \* accepted[d]: times the provider accepted the message
    stored,    \* stored[d]: d's job in Valkey's last snapshot
    forgotten, \* forgotten[d]: restarts that took d's job back (history)
    batch,     \* batch[s]: the rows sweeper s has fetched and not finished
    phase      \* phase[s]: where it stands with the first of them

rowVars == <<row, sweeps, created, stale>>
jobVars == <<job, attempts, stalls, accepted, active>>
sweepVars == <<batch, phase>>
snapshotVars == <<stored, forgotten>>
vars == <<rowVars, pending, jobVars, sweepVars, snapshotVars>>

\* No code writes "delivered"; "none" is a row that is not there.
Status == {"none", "pending", "failed"}

JobState == {"none", "waiting", "active", "delayed", "completed", "failed"}

TypeOK ==
    /\ row \in [Delivery -> Status]
    /\ sweeps \in [Delivery -> 0..MAX_SWEEP_ATTEMPTS]
    /\ created \in Seq(Delivery)
    /\ stale \in SUBSET Delivery
    /\ pending \in [Batches -> Seq(Delivery)]
    /\ active \in SUBSET Subscription
    /\ job \in [Delivery -> JobState]
    /\ attempts \in [Delivery -> Nat]
    /\ stalls \in [Delivery -> 0..MaxStalled]
    /\ accepted \in [Delivery -> Nat]
    /\ stored \in [Delivery -> [job : JobState, attempts : Nat, stalls : 0..MaxStalled]]
    /\ forgotten \in [Delivery -> 0..MaxForgotten]
    /\ batch \in [Sweeper -> Seq(Delivery)]
    /\ phase \in [Sweeper -> {"enqueue", "enqueued", "skipped"}]

Init ==
    /\ row = [d \in Delivery |-> "none"]
    /\ sweeps = [d \in Delivery |-> 0]
    /\ created = <<>>
    /\ stale = {}
    /\ pending = [b \in Batches |-> <<>>]
    /\ active = Subscription
    /\ job = [d \in Delivery |-> "none"]
    /\ attempts = [d \in Delivery |-> 0]
    /\ stalls = [d \in Delivery |-> 0]
    /\ accepted = [d \in Delivery |-> 0]
    /\ stored = [d \in Delivery |-> [job |-> "none", attempts |-> 0, stalls |-> 0]]
    /\ forgotten = [d \in Delivery |-> 0]
    /\ batch = [s \in Sweeper |-> <<>>]
    /\ phase = [s \in Sweeper |-> "enqueue"]

Channel(d) == IF Target[d] = Email THEN "email" ELSE "push"

MaxAttempts(d) == IF Channel(d) = "email" THEN 1 ELSE PUSH_ATTEMPTS

\* How often a worker may have the job: every attempt, and every stall.
Tries(d) == MaxAttempts(d) + MaxStalled

-----------------------------------------------------------------------------
(* Queue.add and the fan-out.                                              *)

\* Variant: completed jobs are removed (removeOnComplete), and with them what
\* a later add is compared with.
EnqueueForgetting(d) ==
    /\ job' = [job EXCEPT ![d] = IF @ \in {"none", "completed"} THEN "waiting" ELSE @]
    /\ attempts' = [attempts EXCEPT ![d] = IF job[d] = "completed" THEN 0 ELSE @]
    /\ UNCHANGED <<stalls, accepted, active>>

enqueue(d) ==
    /\ job' = [job EXCEPT ![d] = IF @ = "none" THEN "waiting" ELSE @]
    /\ UNCHANGED <<attempts, stalls, accepted, active>>

\* The add throws, and the job was added or not.
EnqueueThrows(d) == enqueue(d) \/ UNCHANGED jobVars

\* One transaction, taken to be accepted as in the unit test: the notification
\* and a row for each active subscription of the recipient and for the email
\* address.
fanout(b) ==
    LET Reachable(d) == Target[d] \in active \cup {Email}
        rows == SelectSeq(b, Reachable)
    IN
    /\ \A i \in DOMAIN b : row[b[i]] = "none"
    /\ row' = [d \in Delivery |->
           IF Reachable(d) /\ \E i \in DOMAIN b : b[i] = d THEN "pending" ELSE row[d]]
    /\ created' = created \o rows
    /\ pending' = [pending EXCEPT ![b] = rows]
    /\ UNCHANGED <<sweeps, stale, jobVars, sweepVars, snapshotVars>>

\* The error of one add is logged and the loop goes on.
EnqueueNext(b) ==
    /\ pending[b] # <<>>
    /\ enqueue(Head(pending[b])) \/ EnqueueThrows(Head(pending[b]))
    /\ pending' = [pending EXCEPT ![b] = Tail(@)]
    /\ UNCHANGED <<rowVars, sweepVars, snapshotVars>>

ApiCrash(b) ==
    /\ pending[b] # <<>>
    /\ pending' = [pending EXCEPT ![b] = <<>>]
    /\ UNCHANGED <<rowVars, jobVars, sweepVars, snapshotVars>>

-----------------------------------------------------------------------------
(* The push and email workers.                                             *)

TakeJob(d) ==
    /\ job[d] \in {"waiting", "delayed"}
    /\ job' = [job EXCEPT ![d] = "active"]
    /\ UNCHANGED <<rowVars, pending, attempts, stalls, accepted, active, sweepVars, snapshotVars>>

\* A 2xx answer without an error receipt.
SendAccepted(d) ==
    /\ job[d] = "active"
    /\ job' = [job EXCEPT ![d] = "completed"]
    /\ accepted' = [accepted EXCEPT ![d] = @ + 1]
    /\ UNCHANGED <<rowVars, pending, attempts, stalls, active, sweepVars, snapshotVars>>

\* A receipt that says the token is dead: the subscription becomes invalid and
\* the job is dropped.
SendTerminalError(d) ==
    /\ job[d] = "active"
    /\ job' = [job EXCEPT ![d] = "completed"]
    /\ active' = active \ {Target[d]}
    /\ UNCHANGED <<rowVars, pending, attempts, stalls, accepted, sweepVars, snapshotVars>>

\* What an attempt that does not complete has done: the provider took the
\* message, or a receipt invalidated the subscription, or neither.
SendBegun(d) ==
    \/ accepted' = [accepted EXCEPT ![d] = @ + 1] /\ UNCHANGED active
    \/ UNCHANGED accepted /\ active' \in {active, active \ {Target[d]}}

\* Any other receipt, a bad status, a time-out, a failed update: the handler
\* throws, whether or not the provider took the message.
SendThrows(d) ==
    /\ job[d] = "active"
    /\ attempts' = [attempts EXCEPT ![d] = @ + 1]
    /\ job' = [job EXCEPT ![d] = IF attempts[d] + 1 < MaxAttempts(d) THEN "delayed" ELSE "failed"]
    /\ SendBegun(d)
    /\ UNCHANGED <<rowVars, pending, stalls, sweepVars, snapshotVars>>

pushSend(d) == Channel(d) = "push" /\ (SendAccepted(d) \/ SendTerminalError(d) \/ SendThrows(d))

\* SES answers or throws; there are no receipts.
emailSend(d) == Channel(d) = "email" /\ (SendAccepted(d) \/ SendThrows(d))

\* The worker died with the job, before or after the provider took it: BullMQ
\* hands the job out again, MaxStalled times.
WorkerCrash(d) ==
    /\ job[d] = "active"
    /\ SendBegun(d)
    /\ IF stalls[d] < MaxStalled
       THEN /\ stalls' = [stalls EXCEPT ![d] = @ + 1]
            /\ job' = [job EXCEPT ![d] = "waiting"]
       ELSE /\ job' = [job EXCEPT ![d] = "failed"]
            /\ UNCHANGED stalls
    /\ UNCHANGED <<rowVars, pending, attempts, sweepVars, snapshotVars>>

-----------------------------------------------------------------------------
(* The sweepers.                                                           *)

GrowsStale(d) ==
    /\ row[d] # "none"
    /\ d \notin stale
    /\ stale' = stale \cup {d}
    /\ UNCHANGED <<row, sweeps, created, pending, jobVars, sweepVars, snapshotVars>>

\* The pending stale rows, oldest first, at most BATCH_CAP of them.
StalePending ==
    LET rows == SelectSeq(created, LAMBDA d : row[d] = "pending" /\ d \in stale)
    IN  SubSeq(rows, 1, IF Len(rows) < BATCH_CAP THEN Len(rows) ELSE BATCH_CAP)

fetchStalePending(s) ==
    /\ batch[s] = <<>>
    /\ StalePending # <<>>
    /\ batch' = [batch EXCEPT ![s] = StalePending]
    /\ UNCHANGED <<rowVars, pending, jobVars, phase, snapshotVars>>

\* requeue adds the job; an add that throws is counted as a skip.
requeue(s) ==
    /\ batch[s] # <<>>
    /\ phase[s] = "enqueue"
    /\ \/ enqueue(Head(batch[s])) /\ phase' = [phase EXCEPT ![s] = "enqueued"]
       \/ EnqueueThrows(Head(batch[s])) /\ phase' = [phase EXCEPT ![s] = "skipped"]
    /\ UNCHANGED <<rowVars, pending, batch, snapshotVars>>

NextRow(s) ==
    /\ batch' = [batch EXCEPT ![s] = Tail(@)]
    /\ phase' = [phase EXCEPT ![s] = "enqueue"]

\* Variant: an UPDATE without WHERE status = 'pending'.
RecordEnqueuedAnyStatus(s) ==
    /\ phase[s] = "enqueued"
    /\ sweeps' = [sweeps EXCEPT ![Head(batch[s])] = 0]
    /\ NextRow(s)
    /\ UNCHANGED <<row, created, stale, pending, jobVars, snapshotVars>>

recordEnqueued(s) ==
    LET d == Head(batch[s]) IN
    /\ phase[s] = "enqueued"
    /\ sweeps' = IF row[d] = "pending" THEN [sweeps EXCEPT ![d] = 0] ELSE sweeps
    /\ NextRow(s)
    /\ UNCHANGED <<row, created, stale, pending, jobVars, snapshotVars>>

\* Variant: a row with no recipient stays pending without counting.
RecordSkipUncounted(s) ==
    /\ phase[s] = "skipped"
    /\ NextRow(s)
    /\ UNCHANGED <<rowVars, pending, jobVars, snapshotVars>>

recordSkip(s) ==
    LET d == Head(batch[s]) IN
    /\ phase[s] = "skipped"
    /\ IF row[d] = "pending"
       THEN /\ sweeps' = [sweeps EXCEPT ![d] = @ + 1]
            /\ row' = [row EXCEPT ![d] = IF sweeps[d] + 1 >= MAX_SWEEP_ATTEMPTS THEN "failed" ELSE "pending"]
       ELSE UNCHANGED <<row, sweeps>>
    /\ NextRow(s)
    /\ UNCHANGED <<created, stale, pending, jobVars, snapshotVars>>

\* recordEnqueued threw: it is inside the try, so the skip is recorded.
RecordEnqueuedThrows(s) ==
    /\ phase[s] = "enqueued"
    /\ phase' = [phase EXCEPT ![s] = "skipped"]
    /\ UNCHANGED <<rowVars, pending, jobVars, batch, snapshotVars>>

\* recordSkip threw out of the loop, or the replica died.
SweepAborts(s) ==
    /\ batch[s] # <<>>
    /\ batch' = [batch EXCEPT ![s] = <<>>]
    /\ phase' = [phase EXCEPT ![s] = "enqueue"]
    /\ UNCHANGED <<rowVars, pending, jobVars, snapshotVars>>

-----------------------------------------------------------------------------
(* The snapshots of Valkey, and its restarts.                              *)

Job(d) == [job |-> job[d], attempts |-> attempts[d], stalls |-> stalls[d]]

\* The job of d is not as the last snapshot has it.
Forgets(d) == stored[d] # Job(d)

QueueSnapshot ==
    /\ \E d \in Delivery : Forgets(d)
    /\ \A d \in Delivery : forgotten[d] < MaxForgotten
    /\ stored' = [d \in Delivery |-> Job(d)]
    /\ UNCHANGED <<rowVars, pending, jobVars, sweepVars, forgotten>>

\* The jobs are as in the snapshot.  A worker that had a job the snapshot has
\* in another state may still send; what it answers BullMQ finds no lock.
QueueRestart ==
    LET sending == {d \in Delivery : job[d] = "active" /\ Forgets(d)} IN
    /\ \E d \in Delivery : Forgets(d)
    /\ \A d \in Delivery : forgotten[d] < MaxForgotten
    /\ job' = [d \in Delivery |-> stored[d].job]
    /\ attempts' = [d \in Delivery |-> stored[d].attempts]
    /\ stalls' = [d \in Delivery |-> stored[d].stalls]
    /\ forgotten' = [d \in Delivery |-> IF Forgets(d) THEN forgotten[d] + 1 ELSE forgotten[d]]
    /\ \E took \in SUBSET sending :
        /\ accepted' = [d \in Delivery |-> IF d \in took THEN accepted[d] + 1 ELSE accepted[d]]
        /\ \E dead \in SUBSET {Target[d] : d \in sending \ took} : active' = active \ dead
    /\ UNCHANGED <<rowVars, pending, sweepVars, stored>>

-----------------------------------------------------------------------------

Next ==
    \/ \E b \in Batches : fanout(b) \/ EnqueueNext(b) \/ ApiCrash(b)
    \/ \E d \in Delivery :
        \/ TakeJob(d)
        \/ pushSend(d)
        \/ emailSend(d)
        \/ WorkerCrash(d)
        \/ GrowsStale(d)
    \/ \E s \in Sweeper :
        \/ fetchStalePending(s)
        \/ requeue(s)
        \/ recordEnqueued(s)
        \/ recordSkip(s)
        \/ RecordEnqueuedThrows(s)
        \/ SweepAborts(s)
    \/ QueueSnapshot
    \/ QueueRestart

Spec == Init /\ [][Next]_vars

\* The cron fires every five minutes; of its ticks, which any worker of the
\* cleanup queue may take, a sweeper gets one again and again; and a sweep that
\* meets a row again and again is not aborted at the same row every time.
\* Nothing is assumed of the broker, of the other workers or of the fan-out
\* that has the rows in memory, nor of when Valkey saves.
Fairness ==
    /\ \A d \in Delivery : WF_vars(GrowsStale(d))
    /\ \A s \in Sweeper :
        /\ WF_vars(fetchStalePending(s))
        /\ \A d \in Delivery :
            /\ SF_vars(requeue(s) /\ Head(batch[s]) = d)
            /\ SF_vars(recordEnqueued(s) /\ Head(batch[s]) = d)
            /\ SF_vars(recordSkip(s) /\ Head(batch[s]) = d)

FairSpec == Spec /\ Fairness

-----------------------------------------------------------------------------
(* Properties.                                                             *)

\* FanoutService: "retrying a fan-out is a no-op once the deliveries exist".
\* However often sweepers add a job, and however their adds interleave with
\* the fan-out's and with the worker, the provider gets a message no more
\* often than one job may try, plus the times its worker died; and a restart
\* of Valkey that forgets what became of the job costs at most what a whole
\* job may, whatever of it the snapshot still had.
SweepNeverResends ==
    \A d \in Delivery : accepted[d] <= forgotten[d] * Tries(d) + MaxAttempts(d) + stalls[d]

\* The count and the status are updated together or not at all, whichever
\* sweepers race on the row: it is dead-lettered exactly when the count is at
\* the cap, and no late reset undoes that.
DeadLetterAtCap ==
    \A d \in Delivery : row[d] = "failed" <=> sweeps[d] = MAX_SWEEP_ATTEMPTS

\* FanoutService: "If the broker is down, the rows still land and the sweeper
\* picks them up".  Every row gets a job or is dead-lettered, and gets one
\* again when a restart of Valkey has forgotten it.
QueuedOrDeadLettered ==
    \A d \in Delivery : row[d] = "pending" ~> job[d] # "none" \/ row[d] = "failed"

=============================================================================
