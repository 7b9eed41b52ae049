---------------------------- MODULE PiiRotation ----------------------------
(***************************************************************************)
(* Rotation of the per-city data keys: rotate_pii_keys jobs on the shared  *)
(* BullMQ queue "cleanup", rotatePiiKeys, and the SQL functions that       *)
(* encrypt and decrypt under the keys it leaves in pii_key_versions.       *)
(*                                                                         *)
(* Every API replica attaches two workers to the queue, one that handles   *)
(* rotate_pii_keys and one that handles the delivery sweep.  A worker      *)
(* takes whatever job comes and completes without a word one that is not   *)
(* its own.  rotatePiiKeys runs a transaction per city, and a unique       *)
(* violation in one of them ends the whole job as a success.               *)
(***************************************************************************)
EXTENDS Naturals, FiniteSets

CONSTANTS
    City,          \* the active cities
    Version,       \* key versions
    NoVersion,
    NoCity,
    Job,           \* the rotate_pii_keys jobs an operator enqueues
    NoJob,
    JobVersion,    \* JobVersion[j]: args.version
    Rotator,       \* workers of startPiiRotationWorker
    Sweeper,       \* workers of NotificationDeliveriesSweeperCron
    MaxStalled     \* BullMQ's maxStalledCount

ASSUME VersionAssumption == Version \subseteq Nat /\ NoVersion \notin Version
ASSUME JobAssumption == JobVersion \in [Job -> Version] /\ NoJob \notin Job
ASSUME CityAssumption == NoCity \notin City
ASSUME WorkerAssumption == Rotator \cap Sweeper = {}
ASSUME MaxStalledAssumption == MaxStalled \in Nat

VARIABLES
    status,   \* status[c][v]: the committed status of key version v of city c
    wrap,     \* wrap[c][v]: how dek_encrypted was wrapped with the KEK
    values,   \* <<c, v>>: a value was encrypted under version v of city c
    job,      \* job[j]: the state of the BullMQ job
    stalls,   \* stalls[j]: times its worker died
    met,      \* met[j]: what happened to it (history, for ShortfallExplained)
    running,  \* running[w]: the job rotator w has in hand
    todo,     \* todo[w]: the cities it has still to rotate
    city,     \* city[w]: the city of its open transaction
    step,     \* step[w]: the next statement of that transaction
    target    \* target[w]: the active version its UPDATE found, or set retiring

keyVars == <<status, wrap, values>>
jobVars == <<job, stalls, met>>
txVars == <<city, step, target>>
vars == <<keyVars, jobVars, running, todo, txVars>>

\* No code sets a version to "retired"; "none" is a version that is not there.
KeyStatus == {"none", "active", "retiring"}

TypeOK ==
    /\ status \in [City -> [Version -> KeyStatus]]
    /\ wrap \in [City -> [Version -> {"none", "pgp", "gcm"}]]
    /\ values \in SUBSET (City \X Version)
    /\ job \in [Job -> {"none", "waiting", "active", "completed", "failed"}]
    /\ stalls \in [Job -> 0..MaxStalled]
    /\ met \in [Job -> SUBSET {"ignored", "used", "overlapped"}]
    /\ running \in [Rotator -> Job \cup {NoJob}]
    /\ todo \in [Rotator -> SUBSET City]
    /\ city \in [Rotator -> City \cup {NoCity}]
    /\ step \in [Rotator -> {"idle", "update", "insert", "commit"}]
    /\ target \in [Rotator -> Version \cup {NoVersion}]

\* The seed gives some cities a key, wrapped by pgp_sym_encrypt_bytea.
Init ==
    /\ \E seeded \in SUBSET City, first \in Version :
          LET has(c, v) == c \in seeded /\ v = first IN
             /\ status = [c \in City |-> [v \in Version |-> IF has(c, v) THEN "active" ELSE "none"]]
             /\ wrap = [c \in City |-> [v \in Version |-> IF has(c, v) THEN "pgp" ELSE "none"]]
    /\ values = {}
    /\ job = [j \in Job |-> "none"]
    /\ stalls = [j \in Job |-> 0]
    /\ met = [j \in Job |-> {}]
    /\ running = [w \in Rotator |-> NoJob]
    /\ todo = [w \in Rotator |-> {}]
    /\ city = [w \in Rotator |-> NoCity]
    /\ step = [w \in Rotator |-> "idle"]
    /\ target = [w \in Rotator |-> NoVersion]

-----------------------------------------------------------------------------
(* pii_key_versions.                                                       *)

ActiveVersions(c) == {v \in Version : status[c][v] = "active"}

\* The version w inserts.
NewVersion(w) == JobVersion[running[w]]

\* w has written c in a transaction that is still open: the row it set
\* retiring is locked, the row it inserted holds its index entries.
HoldsRows(w, c) ==
    /\ city[w] = c
    /\ \/ step[w] = "insert" /\ target[w] # NoVersion
       \/ step[w] = "commit"

\* No other open transaction holds a row of w's city, so w need not wait.
Free(w) == \A x \in Rotator \ {w} : ~HoldsRows(x, city[w])

\* Variant: a migration that never created the partial unique index.
UniqueViolationOfKeyOnly(w) == status[city[w]][NewVersion(w)] # "none"

\* A unique violation: the primary key (city_id, version) or the partial
\* unique index on the active row, w's own retired row aside.
UniqueViolation(w) ==
    \/ status[city[w]][NewVersion(w)] # "none"
    \/ ActiveVersions(city[w]) \ {target[w]} # {}

-----------------------------------------------------------------------------
(* The queue "cleanup".                                                    *)

VersionUsed(j) == \E c \in City : status[c][JobVersion[j]] # "none"

InHand == {running[x] : x \in Rotator} \ {NoJob}

Enqueue(j) ==
    /\ job[j] = "none"
    /\ job' = [job EXCEPT ![j] = "waiting"]
    /\ UNCHANGED <<keyVars, stalls, met, running, todo, txVars>>

\* The handler of the sweep returns at once: the job is done.
IgnoreJob(j) ==
    /\ Sweeper # {}
    /\ job[j] = "waiting"
    /\ job' = [job EXCEPT ![j] = "completed"]
    /\ met' = [met EXCEPT ![j] = @ \cup {"ignored"}]
    /\ UNCHANGED <<keyVars, stalls, running, todo, txVars>>

\* rotatePiiKeys reads the active cities once, or throws before that: no DEK,
\* no KEK, no active KEK version, or the database does not answer.  (The table
\* of KEK versions is named without its schema: unless the connection's
\* search_path has quart_security every job throws here.  The model allows both.)
StartRotation(w, j) ==
    /\ running[w] = NoJob
    /\ job[j] = "waiting"
    /\ met' = [k \in Job |-> met[k]
                  \cup (IF k = j /\ VersionUsed(j) THEN {"used"} ELSE {})
                  \cup (IF InHand # {} /\ k \in InHand \cup {j} THEN {"overlapped"} ELSE {})]
    /\ \/ /\ job' = [job EXCEPT ![j] = "active"]
          /\ running' = [running EXCEPT ![w] = j]
          /\ todo' = [todo EXCEPT ![w] = City]
       \/ /\ job' = [job EXCEPT ![j] = "failed"]
          /\ UNCHANGED <<running, todo>>
    /\ UNCHANGED <<keyVars, stalls, txVars>>

\* w lets go of its job, which becomes s; an open transaction is rolled back.
Release(w, s) ==
    /\ job' = [job EXCEPT ![running[w]] = s]
    /\ running' = [running EXCEPT ![w] = NoJob]
    /\ todo' = [todo EXCEPT ![w] = {}]
    /\ city' = [city EXCEPT ![w] = NoCity]
    /\ step' = [step EXCEPT ![w] = "idle"]
    /\ target' = [target EXCEPT ![w] = NoVersion]
    /\ UNCHANGED met

-----------------------------------------------------------------------------
(* rotatePiiKeys and rotateOneCity.                                        *)

BeginCity(w, c) ==
    /\ running[w] # NoJob
    /\ city[w] = NoCity
    /\ c \in todo[w]
    /\ city' = [city EXCEPT ![w] = c]
    /\ step' = [step EXCEPT ![w] = "update"]
    /\ target' = [target EXCEPT ![w] = IF ActiveVersions(c) = {} THEN NoVersion
                                       ELSE CHOOSE v \in ActiveVersions(c) : TRUE]
    /\ UNCHANGED <<keyVars, jobVars, running, todo>>

\* Variant: rotateOneCity given the pool instead of the transaction.
RetireOutsideTransaction(w) ==
    /\ step[w] = "update"
    /\ target[w] # NoVersion => Free(w)
    /\ step' = [step EXCEPT ![w] = "insert"]
    /\ status' = IF target[w] = NoVersion THEN status
                 ELSE [status EXCEPT ![city[w]][target[w]] = "retiring"]
    /\ UNCHANGED <<wrap, values, jobVars, running, todo, city, target>>

\* READ COMMITTED: the UPDATE waits for the lock of the row its snapshot found
\* active and skips the row when it is no longer so.
Retire(w) ==
    /\ step[w] = "update"
    /\ target[w] # NoVersion => Free(w)
    /\ step' = [step EXCEPT ![w] = "insert"]
    /\ target' = [target EXCEPT ![w] = IF @ \in ActiveVersions(city[w]) THEN @ ELSE NoVersion]
    /\ UNCHANGED <<keyVars, jobVars, running, todo, city>>

Insert(w) ==
    /\ step[w] = "insert"
    /\ Free(w)
    /\ ~UniqueViolation(w)
    /\ step' = [step EXCEPT ![w] = "commit"]
    /\ UNCHANGED <<keyVars, jobVars, running, todo, city, target>>

\* The error 23505 rolls the city back and returns from rotatePiiKeys.
InsertCollides(w) ==
    /\ step[w] = "insert"
    /\ Free(w)
    /\ UniqueViolation(w)
    /\ Release(w, "completed")
    /\ UNCHANGED <<keyVars, stalls>>

\* The writes of the open transaction; encryptDek wraps with AES-256-GCM.
CommitKeys(w) ==
    LET c == city[w] IN
    /\ status' = [status EXCEPT ![c] = [v \in Version |->
                     IF v = NewVersion(w) THEN "active"
                     ELSE IF v = target[w] THEN "retiring" ELSE @[v]]]
    /\ wrap' = [wrap EXCEPT ![c][NewVersion(w)] = "gcm"]
    /\ UNCHANGED values

Commit(w) ==
    /\ step[w] = "commit"
    /\ CommitKeys(w)
    /\ todo' = [todo EXCEPT ![w] = @ \ {city[w]}]
    /\ city' = [city EXCEPT ![w] = NoCity]
    /\ step' = [step EXCEPT ![w] = "idle"]
    /\ target' = [target EXCEPT ![w] = NoVersion]
    /\ UNCHANGED <<jobVars, running>>

FinishRotation(w) ==
    /\ running[w] # NoJob
    /\ city[w] = NoCity
    /\ todo[w] = {}
    /\ Release(w, "completed")
    /\ UNCHANGED <<keyVars, stalls>>

\* Variant: the catch returns on every error.
RotationThrowsSwallowed(w) ==
    /\ city[w] # NoCity
    /\ UNCHANGED keyVars \/ (step[w] = "commit" /\ CommitKeys(w))
    /\ Release(w, "completed")
    /\ UNCHANGED stalls

\* Any other error of the transaction fails the job, which has one attempt.
\* The commit may have reached the database.
RotationThrows(w) ==
    /\ city[w] # NoCity
    /\ UNCHANGED keyVars \/ (step[w] = "commit" /\ CommitKeys(w))
    /\ Release(w, "failed")
    /\ UNCHANGED stalls

\* The process dies and BullMQ hands the job out again, MaxStalled times.
WorkerCrash(w) ==
    /\ running[w] # NoJob
    /\ UNCHANGED keyVars \/ (step[w] = "commit" /\ CommitKeys(w))
    /\ LET j == running[w] IN
       IF stalls[j] < MaxStalled
       THEN Release(w, "waiting") /\ stalls' = [stalls EXCEPT ![j] = @ + 1]
       ELSE Release(w, "failed") /\ UNCHANGED stalls

-----------------------------------------------------------------------------
(* The SQL helpers.                                                        *)

\* pii_dek unwraps with pgp_sym_decrypt_bytea, which rejects any other wrap.
Unwraps(c, v) == wrap[c][v] = "pgp"

\* pgp_sym_encrypt_for_column raises unless the active version unwraps.
EncryptForColumn(c) ==
    /\ \E v \in ActiveVersions(c) :
          /\ Unwraps(c, v)
          /\ values' = values \cup {<<c, v>>}
    /\ UNCHANGED <<status, wrap, jobVars, running, todo, txVars>>

\* Variant: the loop without its exception block: the first version it tries,
\* the active one, has to be the value's.
DecryptsWithFirstKey(c, v) == status[c][v] = "active" /\ Unwraps(c, v)

\* pgp_sym_decrypt_for_column tries the versions that are not retired, the
\* active one first; a version that does not unwrap, or whose key is not the
\* value's, is passed over.
DecryptsForColumn(c, v) == status[c][v] # "none" /\ Unwraps(c, v)

-----------------------------------------------------------------------------
RotatorStep(w) ==
    \/ \E j \in Job : StartRotation(w, j)
    \/ \E c \in City : BeginCity(w, c)
    \/ Retire(w)
    \/ Insert(w)
    \/ InsertCollides(w)
    \/ Commit(w)
    \/ FinishRotation(w)
    \/ RotationThrows(w)
    \/ WorkerCrash(w)

Next ==
    \/ \E j \in Job : Enqueue(j)
    \/ \E j \in Job : IgnoreJob(j)
    \/ \E w \in Rotator : RotatorStep(w)
    \/ \E c \in City : EncryptForColumn(c)

Spec == Init /\ [][Next]_vars

-----------------------------------------------------------------------------
(* Properties.                                                             *)

\* A city never has two active keys, whatever rotations run side by side:
\* pii_dek reads the active version with a SELECT INTO that takes any of them.
OneActiveKey == \A c \in City : \A u, v \in ActiveVersions(c) : u = v

\* A city that has an active key always has one: no crash, error or collision
\* of rotateOneCity leaves the old version retired without its successor.
NeverKeyless == [][\A c \in City : ActiveVersions(c) # {} => ActiveVersions(c)' # {}]_vars

\* Whatever was encrypted before or between rotations can be decrypted, during
\* and after them.
ValuesStayReadable == \A p \in values : DecryptsForColumn(p[1], p[2])

Rotated(j) == \A c \in City : status[c][JobVersion[j]] # "none"

\* The ways a job can complete and leave a city without its version, and no
\* other: a sweep worker took it; some city had the version already when it
\* started, because of an earlier job or an earlier delivery of this one; or
\* another rotation ran beside it.
ShortfallExplained ==
    \A j \in Job : job[j] = "completed" /\ ~Rotated(j) => met[j] # {}

=============================================================================
