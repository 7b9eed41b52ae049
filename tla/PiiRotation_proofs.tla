-------------------------- MODULE PiiRotation_proofs --------------------------
(***************************************************************************)
(* Proofs about PiiRotation for any cities, versions, jobs and workers,    *)
(* any number of redeliveries, and any key that the seed leaves.           *)
(***************************************************************************)
EXTENDS PiiRotation, TLAPS

USE VersionAssumption, JobAssumption, CityAssumption

-----------------------------------------------------------------------------
(* The inductive invariant of the keys.                                    *)

\* The part of the type invariant that the proofs need.
Typed ==
    /\ status \in [City -> [Version -> KeyStatus]]
    /\ wrap \in [City -> [Version -> {"none", "pgp", "gcm"}]]
    /\ values \in SUBSET (City \X Version)
    /\ running \in [Rotator -> Job \cup {NoJob}]
    /\ city \in [Rotator -> City \cup {NoCity}]
    /\ step \in [Rotator -> {"idle", "update", "insert", "commit"}]
    /\ target \in [Rotator -> Version \cup {NoVersion}]

\* What an open transaction has found is still there: its old key is active,
\* and when its new key is in, no other key is active or has that version.
TxOk(w) ==
    /\ step[w] = "idle" <=> city[w] = NoCity
    /\ city[w] # NoCity => running[w] # NoJob
    /\ step[w] \in {"insert", "commit"} /\ target[w] # NoVersion =>
            status[city[w]][target[w]] = "active"
    /\ step[w] = "commit" =>
            /\ status[city[w]][NewVersion(w)] = "none"
            /\ ActiveVersions(city[w]) \subseteq {target[w]}

\* The rows of a city are locked by one transaction at a time.
Exclusive ==
    \A w, x \in Rotator : \A c \in City : HoldsRows(w, c) /\ HoldsRows(x, c) => w = x

\* A key that a value was encrypted under stays, and unwraps.
ValuesKept == \A p \in values : status[p[1]][p[2]] # "none" /\ wrap[p[1]][p[2]] = "pgp"

KeysInv ==
    /\ Typed
    /\ \A w \in Rotator : TxOk(w)
    /\ Exclusive
    /\ OneActiveKey
    /\ ValuesKept

-----------------------------------------------------------------------------

LEMMA InitKeys == Init => KeysInv
<1> SUFFICES ASSUME Init PROVE KeysInv
  OBVIOUS
<1>1. PICK seeded \in SUBSET City, first \in Version :
        /\ status = [c \in City |-> [v \in Version |-> IF c \in seeded /\ v = first THEN "active" ELSE "none"]]
        /\ wrap = [c \in City |-> [v \in Version |-> IF c \in seeded /\ v = first THEN "pgp" ELSE "none"]]
  BY DEF Init
<1>2. Typed
  BY <1>1 DEF Init, Typed, KeyStatus
<1>3. OneActiveKey
  BY <1>1 DEF OneActiveKey, ActiveVersions
<1>4. (\A w \in Rotator : TxOk(w)) /\ Exclusive /\ ValuesKept
  BY DEF Init, TxOk, Exclusive, HoldsRows, ValuesKept
<1> QED
  BY <1>2, <1>3, <1>4 DEF KeysInv

\* The other rotators do nothing in a step of w.
Others(w) ==
    \A x \in Rotator \ {w} :
        /\ running'[x] = running[x] /\ city'[x] = city[x]
        /\ step'[x] = step[x] /\ target'[x] = target[x]

\* w has no transaction after the step.
Ended(w) == city'[w] = NoCity /\ step'[w] = "idle"

\* The commit of w: its new key is the only active one of its city, no key
\* goes away, and none but the new one is wrapped anew.
LEMMA CommitEffect ==
    ASSUME KeysInv, NEW w \in Rotator, step[w] = "commit", CommitKeys(w)
    PROVE  /\ city[w] \in City /\ NewVersion(w) \in Version
           /\ status' \in [City -> [Version -> KeyStatus]]
           /\ wrap' \in [City -> [Version -> {"none", "pgp", "gcm"}]]
           /\ UNCHANGED values
           /\ \A d \in City \ {city[w]} : status'[d] = status[d]
           /\ \A v \in Version : status'[city[w]][v] = "active" <=> v = NewVersion(w)
           /\ \A d \in City, v \in Version : status[d][v] # "none" =>
                  status'[d][v] # "none" /\ wrap'[d][v] = wrap[d][v]
           /\ status[city[w]][NewVersion(w)] = "none"
           /\ status'[city[w]][NewVersion(w)] # "none"
<1> DEFINE c == city[w]
           n == NewVersion(w)
<1>1. c \in City /\ n \in Version
  BY DEF KeysInv, Typed, TxOk, NewVersion
<1>2. status[c][n] = "none" /\ ActiveVersions(c) \subseteq {target[w]}
  BY DEF KeysInv, TxOk
<1>3. /\ status' = [status EXCEPT ![c] = [v \in Version |->
                        IF v = n THEN "active" ELSE IF v = target[w] THEN "retiring" ELSE @[v]]]
      /\ wrap' = [wrap EXCEPT ![c][n] = "gcm"]
      /\ UNCHANGED values
  BY DEF CommitKeys
<1>4. status \in [City -> [Version -> KeyStatus]] /\ wrap \in [City -> [Version -> {"none", "pgp", "gcm"}]]
  BY DEF KeysInv, Typed
<1>5. target[w] # NoVersion => status[c][target[w]] = "active"
  BY DEF KeysInv, TxOk
<1> HIDE DEF c, n
<1>6. \A v \in Version : status'[c][v] =
          IF v = n THEN "active" ELSE IF v = target[w] THEN "retiring" ELSE status[c][v]
  BY <1>1, <1>3, <1>4
<1>7. status' \in [City -> [Version -> KeyStatus]]
  BY <1>1, <1>3, <1>4 DEF KeyStatus
<1>8. /\ wrap' \in [City -> [Version -> {"none", "pgp", "gcm"}]]
      /\ \A d \in City, v \in Version : d # c \/ v # n => wrap'[d][v] = wrap[d][v]
  BY <1>1, <1>3, <1>4
<1>9. \A d \in City \ {c} : status'[d] = status[d]
  BY <1>1, <1>3, <1>4
<1>10. \A v \in Version : status'[c][v] = "active" <=> v = n
  BY <1>1, <1>2, <1>6 DEF ActiveVersions, c
<1>11. \A d \in City, v \in Version : status[d][v] # "none" =>
          status'[d][v] # "none" /\ wrap'[d][v] = wrap[d][v]
  BY <1>2, <1>6, <1>8, <1>9
<1> QED
  BY <1>1, <1>2, <1>3, <1>6, <1>7, <1>8, <1>9, <1>10, <1>11 DEF c, n

\* What the keys keep in any step that commits.
LEMMA CommitKeepsKeys ==
    ASSUME KeysInv, NEW w \in Rotator, step[w] = "commit", CommitKeys(w)
    PROVE  OneActiveKey' /\ ValuesKept'
<1> DEFINE c == city[w]
           n == NewVersion(w)
<1>1. /\ UNCHANGED values
      /\ \A d \in City \ {c} : status'[d] = status[d]
      /\ \A v \in Version : status'[c][v] = "active" <=> v = n
      /\ \A d \in City, v \in Version : status[d][v] # "none" =>
             status'[d][v] # "none" /\ wrap'[d][v] = wrap[d][v]
  BY CommitEffect
<1> HIDE DEF c, n
<1>2. OneActiveKey'
  <2>1. SUFFICES ASSUME NEW d \in City, NEW u \in Version, NEW v \in Version,
                        status'[d][u] = "active", status'[d][v] = "active"
                 PROVE  u = v
    BY DEF OneActiveKey, ActiveVersions
  <2>2. CASE d = c
    BY <1>1, <2>1, <2>2
  <2>3. CASE d # c
    <3>1. status[d][u] = "active" /\ status[d][v] = "active"
      BY <1>1, <2>1, <2>3
    <3> QED
      BY <2>1, <3>1 DEF KeysInv, OneActiveKey, ActiveVersions
  <2> QED
    BY <2>2, <2>3
<1>3. ASSUME NEW p \in values
      PROVE  status'[p[1]][p[2]] # "none" /\ wrap'[p[1]][p[2]] = "pgp"
  <2>1. p[1] \in City /\ p[2] \in Version
    BY DEF KeysInv, Typed
  <2>2. status[p[1]][p[2]] # "none" /\ wrap[p[1]][p[2]] = "pgp"
    BY DEF KeysInv, ValuesKept
  <2> QED
    BY <1>1, <2>1, <2>2
<1>4. ValuesKept'
  BY <1>1, <1>3 DEF ValuesKept
<1> QED
  BY <1>2, <1>4

\* Only the city of a transaction that holds its rows changes in a commit.
LEMMA OthersKeep ==
    ASSUME KeysInv, NEW w \in Rotator, Others(w),
           \/ UNCHANGED status
           \/ step[w] = "commit" /\ CommitKeys(w)
    PROVE  \A x \in Rotator \ {w} : TxOk(x)'
<1> SUFFICES ASSUME NEW x \in Rotator \ {w} PROVE TxOk(x)'
  OBVIOUS
<1>1. /\ running'[x] = running[x] /\ city'[x] = city[x] /\ step'[x] = step[x] /\ target'[x] = target[x]
      /\ TxOk(x)
  BY DEF Others, KeysInv
<1>2. CASE UNCHANGED status
  BY <1>1, <1>2 DEF TxOk, NewVersion, ActiveVersions
<1>3. CASE step[w] = "commit" /\ CommitKeys(w)
  <2>1. city[w] \in City /\ \A d \in City \ {city[w]} : status'[d] = status[d]
    BY <1>3, CommitEffect
  <2>2. CASE city[x] = city[w]
    <3>1. HoldsRows(w, city[w])
      BY <1>3 DEF HoldsRows
    <3>2. ~HoldsRows(x, city[w])
      BY <2>1, <3>1 DEF KeysInv, Exclusive
    <3>3. step[x] # "commit" /\ ~(step[x] = "insert" /\ target[x] # NoVersion)
      BY <2>2, <3>2 DEF HoldsRows
    <3> QED
      BY <1>1, <3>3 DEF TxOk
  <2>3. CASE city[x] # city[w] /\ city[x] # NoCity
    <3>1. city[x] \in City \ {city[w]}
      BY <2>3 DEF KeysInv, Typed
    <3>2. status'[city[x]] = status[city[x]]
      BY <2>1, <3>1
    <3> QED
      BY <1>1, <3>2 DEF TxOk, NewVersion, ActiveVersions
  <2>4. CASE city[x] = NoCity
    BY <1>1, <2>4 DEF TxOk
  <2> QED
    BY <2>2, <2>3, <2>4
<1> QED
  BY <1>2, <1>3

\* A transaction that ends, with its commit or without.
LEMMA EndStep ==
    ASSUME KeysInv, NEW w \in Rotator, Typed', Others(w), Ended(w),
           \/ UNCHANGED keyVars
           \/ step[w] = "commit" /\ CommitKeys(w)
    PROVE  KeysInv'
<1>1. TxOk(w)'
  BY DEF Ended, TxOk
<1>2. \A x \in Rotator \ {w} : TxOk(x)'
  BY OthersKeep DEF keyVars
<1>3. Exclusive'
  BY DEF KeysInv, Exclusive, HoldsRows, Others, Ended
<1>4. OneActiveKey' /\ ValuesKept'
  <2>1. CASE UNCHANGED keyVars
    BY <2>1 DEF keyVars, KeysInv, OneActiveKey, ActiveVersions, ValuesKept
  <2>2. CASE step[w] = "commit" /\ CommitKeys(w)
    BY <2>2, CommitKeepsKeys
  <2> QED
    BY <2>1, <2>2
<1> QED
  BY <1>1, <1>2, <1>3, <1>4 DEF KeysInv

\* A statement of a transaction that leaves the committed keys alone.
LEMMA StatementStep ==
    ASSUME KeysInv, NEW w \in Rotator, Typed', Others(w), UNCHANGED keyVars, TxOk(w)',
           \A c \in City : HoldsRows(w, c)' => \A x \in Rotator \ {w} : ~HoldsRows(x, c)
    PROVE  KeysInv'
<1>1. \A x \in Rotator \ {w} : TxOk(x)'
  BY OthersKeep DEF keyVars
<1>2. \A x \in Rotator \ {w}, c \in City : HoldsRows(x, c)' <=> HoldsRows(x, c)
  BY DEF Others, HoldsRows
<1>3. Exclusive'
  BY <1>2 DEF KeysInv, Exclusive
<1>4. OneActiveKey' /\ ValuesKept'
  BY DEF keyVars, KeysInv, OneActiveKey, ActiveVersions, ValuesKept
<1> QED
  BY <1>1, <1>3, <1>4 DEF KeysInv

-----------------------------------------------------------------------------
(* The steps, for the keys.                                                *)

LEMMA ReleaseEffect ==
    ASSUME KeysInv, NEW w \in Rotator, NEW s, Release(w, s)
    PROVE  /\ Others(w) /\ Ended(w) /\ running'[w] = NoJob
           /\ running' \in [Rotator -> Job \cup {NoJob}]
           /\ city' \in [Rotator -> City \cup {NoCity}]
           /\ step' \in [Rotator -> {"idle", "update", "insert", "commit"}]
           /\ target' \in [Rotator -> Version \cup {NoVersion}]
BY DEF Release, KeysInv, Typed, Others, Ended

LEMMA KeysTyped ==
    ASSUME KeysInv, NEW w \in Rotator,
           \/ UNCHANGED keyVars
           \/ step[w] = "commit" /\ CommitKeys(w)
    PROVE  /\ status' \in [City -> [Version -> KeyStatus]]
           /\ wrap' \in [City -> [Version -> {"none", "pgp", "gcm"}]]
           /\ values' \in SUBSET (City \X Version)
<1>1. CASE UNCHANGED keyVars
  BY <1>1 DEF keyVars, KeysInv, Typed
<1>2. CASE step[w] = "commit" /\ CommitKeys(w)
  BY <1>2, CommitEffect DEF KeysInv, Typed
<1> QED
  BY <1>1, <1>2

LEMMA ReleaseStep ==
    ASSUME KeysInv, NEW w \in Rotator, NEW s, Release(w, s),
           \/ UNCHANGED keyVars
           \/ step[w] = "commit" /\ CommitKeys(w)
    PROVE  KeysInv'
<1>1. Typed'
  BY ReleaseEffect, KeysTyped DEF Typed
<1> QED
  BY <1>1, ReleaseEffect, EndStep

LEMMA RotatorKeys ==
    ASSUME KeysInv, NEW w \in Rotator, RotatorStep(w)
    PROVE  KeysInv'
<1>1. ASSUME NEW j \in Job, StartRotation(w, j) PROVE KeysInv'
  <2>1. /\ UNCHANGED <<keyVars, txVars>> /\ Typed' /\ Others(w)
        /\ running'[w] = running[w] \/ (running[w] = NoJob /\ running'[w] = j)
    BY <1>1 DEF StartRotation, keyVars, txVars, KeysInv, Typed, Others
  <2>2. city[w] = city'[w] /\ step[w] = step'[w] /\ target[w] = target'[w] /\ UNCHANGED status
    BY <2>1 DEF txVars, keyVars
  <2>3. TxOk(w)'
    BY <2>1, <2>2 DEF KeysInv, TxOk, NewVersion, ActiveVersions
  <2>4. \A c \in City : HoldsRows(w, c)' => HoldsRows(w, c)
    BY <2>2 DEF HoldsRows
  <2> QED
    BY <2>1, <2>3, <2>4, StatementStep DEF KeysInv, Exclusive
<1>2. ASSUME NEW c \in City, BeginCity(w, c) PROVE KeysInv'
  <2>1. /\ UNCHANGED keyVars /\ Others(w) /\ running'[w] = running[w] /\ running[w] # NoJob
        /\ city'[w] = c /\ step'[w] = "update"
    BY <1>2 DEF BeginCity, KeysInv, Typed, Others
  <2>2. Typed'
    <3>1. ActiveVersions(c) # {} => (CHOOSE v \in ActiveVersions(c) : TRUE) \in Version
      BY DEF ActiveVersions
    <3> QED
      BY <1>2, <3>1 DEF BeginCity, keyVars, KeysInv, Typed
  <2>3. TxOk(w)' /\ \A d \in City : ~HoldsRows(w, d)'
    BY <2>1 DEF TxOk, HoldsRows
  <2> QED
    BY <2>1, <2>2, <2>3, StatementStep
<1>3. ASSUME Retire(w) PROVE KeysInv'
  <2>1. /\ UNCHANGED keyVars /\ Others(w) /\ Typed' /\ running'[w] = running[w]
        /\ city'[w] = city[w] /\ step[w] = "update" /\ step'[w] = "insert"
        /\ target'[w] = IF target[w] \in ActiveVersions(city[w]) THEN target[w] ELSE NoVersion
        /\ target[w] # NoVersion => Free(w)
    BY <1>3 DEF Retire, keyVars, KeysInv, Typed, Others
  <2>2. target'[w] # NoVersion => status[city[w]][target'[w]] = "active" /\ Free(w)
    BY <2>1 DEF ActiveVersions
  <2>3. TxOk(w)'
    BY <2>1, <2>2 DEF keyVars, KeysInv, TxOk
  <2>4. \A c \in City : HoldsRows(w, c)' => \A x \in Rotator \ {w} : ~HoldsRows(x, c)
    BY <2>1, <2>2 DEF HoldsRows, Free
  <2> QED
    BY <2>1, <2>3, <2>4, StatementStep
<1>4. ASSUME Insert(w) PROVE KeysInv'
  <2>1. /\ UNCHANGED keyVars /\ Others(w) /\ Typed' /\ running'[w] = running[w]
        /\ city'[w] = city[w] /\ step[w] = "insert" /\ step'[w] = "commit" /\ target'[w] = target[w]
        /\ Free(w) /\ ~UniqueViolation(w)
    BY <1>4 DEF Insert, keyVars, KeysInv, Typed, Others
  <2>2. TxOk(w)'
    BY <2>1 DEF keyVars, KeysInv, TxOk, UniqueViolation, NewVersion, ActiveVersions
  <2>3. \A c \in City : HoldsRows(w, c)' => \A x \in Rotator \ {w} : ~HoldsRows(x, c)
    BY <2>1 DEF HoldsRows, Free
  <2> QED
    BY <2>1, <2>2, <2>3, StatementStep
<1>5. ASSUME InsertCollides(w) PROVE KeysInv'
  BY <1>5, ReleaseStep DEF InsertCollides
<1>6. ASSUME Commit(w) PROVE KeysInv'
  <2>1. /\ step[w] = "commit" /\ CommitKeys(w) /\ Others(w) /\ Ended(w)
        /\ UNCHANGED running /\ city' = [city EXCEPT ![w] = NoCity]
        /\ step' = [step EXCEPT ![w] = "idle"] /\ target' = [target EXCEPT ![w] = NoVersion]
    BY <1>6 DEF Commit, KeysInv, Typed, Others, Ended
  <2>2. Typed'
    BY <2>1, KeysTyped DEF KeysInv, Typed
  <2> QED
    BY <2>1, <2>2, EndStep
<1>7. ASSUME FinishRotation(w) PROVE KeysInv'
  BY <1>7, ReleaseStep DEF FinishRotation
<1>8. ASSUME RotationThrows(w) PROVE KeysInv'
  BY <1>8, ReleaseStep DEF RotationThrows
<1>9. ASSUME WorkerCrash(w) PROVE KeysInv'
  BY <1>9, ReleaseStep DEF WorkerCrash
<1> QED
  BY <1>1, <1>2, <1>3, <1>4, <1>5, <1>6, <1>7, <1>8, <1>9 DEF RotatorStep

LEMMA KeysStep == KeysInv /\ [Next]_vars => KeysInv'
<1> SUFFICES ASSUME KeysInv, [Next]_vars PROVE KeysInv'
  OBVIOUS
<1>1. CASE UNCHANGED <<keyVars, running, txVars>>
  BY <1>1 DEF keyVars, txVars, KeysInv, Typed, TxOk, Exclusive, HoldsRows, OneActiveKey, ValuesKept,
              NewVersion, ActiveVersions
<1>2. ASSUME NEW j \in Job, Enqueue(j) \/ IgnoreJob(j) PROVE UNCHANGED <<keyVars, running, txVars>>
  BY <1>2 DEF Enqueue, IgnoreJob
<1>3. ASSUME NEW w \in Rotator, RotatorStep(w) PROVE KeysInv'
  BY <1>3, RotatorKeys
<1>4. ASSUME NEW c \in City, EncryptForColumn(c) PROVE KeysInv'
  <2>1. UNCHANGED <<status, wrap, running, txVars>>
    BY <1>4 DEF EncryptForColumn
  <2>2. PICK v \in Version : status[c][v] = "active" /\ wrap[c][v] = "pgp" /\ values' = values \cup {<<c, v>>}
    BY <1>4 DEF EncryptForColumn, ActiveVersions, Unwraps
  <2>3. Typed' /\ ValuesKept'
    BY <2>1, <2>2 DEF txVars, KeysInv, Typed, ValuesKept
  <2> QED
    BY <2>1, <2>3 DEF txVars, KeysInv, TxOk, Exclusive, HoldsRows, OneActiveKey, NewVersion, ActiveVersions
<1>5. CASE UNCHANGED vars
  BY <1>1, <1>5 DEF vars
<1> QED
  BY <1>1, <1>2, <1>3, <1>4, <1>5 DEF Next

LEMMA KeysInvHolds == Spec => []KeysInv
BY InitKeys, KeysStep, PTL DEF Spec

-----------------------------------------------------------------------------

\* Whatever rotations run side by side, crash or are redelivered, a city never
\* has two active keys.
THEOREM OneKey == Spec => []OneActiveKey
<1>1. KeysInv => OneActiveKey
  BY DEF KeysInv
<1> QED
  BY <1>1, KeysInvHolds, PTL

\* What was encrypted stays readable through every later rotation.
THEOREM ValuesReadable == Spec => []ValuesStayReadable
<1>1. KeysInv => ValuesStayReadable
  BY DEF KeysInv, ValuesKept, ValuesStayReadable, DecryptsForColumn, Unwraps
<1> QED
  BY <1>1, KeysInvHolds, PTL

\* No step takes the last active key of a city away.
THEOREM NeverWithoutKey == Spec => NeverKeyless
<1> DEFINE Keyed == \A c \in City : ActiveVersions(c) # {} => ActiveVersions(c)' # {}
<1>1. ASSUME KeysInv, [Next]_vars PROVE [Keyed]_vars
  <2>1. CASE UNCHANGED status
    BY <2>1 DEF ActiveVersions
  <2>2. ASSUME NEW w \in Rotator, step[w] = "commit", CommitKeys(w) PROVE Keyed
    <3>1. /\ NewVersion(w) \in Version
          /\ \A d \in City \ {city[w]} : status'[d] = status[d]
          /\ status'[city[w]][NewVersion(w)] = "active"
      BY <1>1, <2>2, CommitEffect
    <3> QED
      BY <3>1 DEF ActiveVersions
  <2>3. UNCHANGED status \/ \E w \in Rotator : step[w] = "commit" /\ CommitKeys(w)
    BY <1>1 DEF Next, vars, keyVars, Enqueue, IgnoreJob, RotatorStep, StartRotation, BeginCity, Retire,
                Insert, InsertCollides, Commit, FinishRotation, RotationThrows, WorkerCrash,
                EncryptForColumn
  <2> QED
    BY <2>1, <2>2, <2>3
<1> QED
  BY <1>1, KeysInvHolds, PTL DEF Spec, NeverKeyless

-----------------------------------------------------------------------------
(* The jobs that complete too early.                                       *)

JobsTyped ==
    /\ job \in [Job -> {"none", "waiting", "active", "completed", "failed"}]
    /\ met \in [Job -> SUBSET {"ignored", "used", "overlapped"}]
    /\ todo \in [Rotator -> SUBSET City]

\* A rotation that nothing happened to: nobody else is at work, its version is
\* missing exactly where it has yet to go, and no key but the one it means to
\* retire can collide with its own.
Alone(w) ==
    /\ \A x \in Rotator \ {w} : running[x] = NoJob
    /\ \A c \in City : c \in todo[w] <=> status[c][NewVersion(w)] = "none"
    /\ city[w] # NoCity => city[w] \in todo[w] /\ ActiveVersions(city[w]) \subseteq {target[w]}

InHandOk(w) ==
    running[w] # NoJob =>
        /\ job[running[w]] = "active"
        /\ met[running[w]] = {} => Alone(w)

\* A job is with one worker.
OneWorker == \A w, x \in Rotator : running[w] # NoJob /\ running[w] = running[x] => w = x

JobsInv ==
    /\ JobsTyped
    /\ \A w \in Rotator : InHandOk(w)
    /\ OneWorker
    /\ ShortfallExplained

LEMMA InitJobs == Init => JobsInv
BY DEF Init, JobsInv, JobsTyped, InHandOk, OneWorker, ShortfallExplained

\* No key goes away.
Kept == \A c \in City, v \in Version : status[c][v] # "none" => status'[c][v] # "none"

LEMMA KeysKept ==
    ASSUME KeysInv, NEW w \in Rotator,
           \/ UNCHANGED keyVars
           \/ step[w] = "commit" /\ CommitKeys(w)
    PROVE  Kept
BY CommitEffect DEF Kept, keyVars

\* A job is let go of: what it leaves undone was explained, unless all is done.
LEMMA ReleaseJobs ==
    ASSUME KeysInv, JobsInv, NEW w \in Rotator, NEW s \in {"waiting", "completed", "failed"},
           Release(w, s), running[w] # NoJob,
           \/ UNCHANGED keyVars
           \/ step[w] = "commit" /\ CommitKeys(w),
           s = "completed" => UNCHANGED keyVars /\ (met[running[w]] = {} => Rotated(running[w]))
    PROVE  JobsInv'
<1> DEFINE j == running[w]
<1>1. /\ Others(w) /\ running'[w] = NoJob /\ UNCHANGED met
      /\ job' = [job EXCEPT ![j] = s] /\ todo' = [todo EXCEPT ![w] = {}]
  BY ReleaseEffect DEF Release
<1>2. j \in Job /\ Kept
  BY KeysKept DEF KeysInv, Typed
<1> HIDE DEF j
<1>3. JobsTyped'
  BY <1>1, <1>2 DEF JobsInv, JobsTyped
<1>4. /\ job'[j] = s /\ \A k \in Job \ {j} : job'[k] = job[k]
  BY <1>1, <1>2 DEF JobsInv, JobsTyped
<1>5. ASSUME NEW x \in Rotator \ {w}, running'[x] # NoJob PROVE InHandOk(x)'
  <2>1. running'[x] = running[x] /\ running[x] \in Job \ {j}
    BY <1>1, <1>5 DEF Others, JobsInv, OneWorker, KeysInv, Typed, j
  <2>2. job[running[x]] = "active" /\ met[running[x]] # {}
    BY <2>1 DEF JobsInv, InHandOk, Alone
  <2> QED
    BY <1>1, <1>4, <2>1, <2>2 DEF InHandOk
<1>6. \A x \in Rotator : InHandOk(x)'
  BY <1>1, <1>5 DEF InHandOk
<1>7. OneWorker'
  BY <1>1 DEF Others, JobsInv, OneWorker
<1>8. ShortfallExplained'
  <2>1. ASSUME NEW k \in Job, job'[k] = "completed", met'[k] = {} PROVE Rotated(k)'
    <3>1. Rotated(k)
      BY <1>1, <1>4, <2>1 DEF JobsInv, ShortfallExplained, j
    <3> QED
      BY <1>2, <3>1 DEF Rotated, Kept
  <2> QED
    BY <2>1 DEF ShortfallExplained
<1> QED
  BY <1>3, <1>6, <1>7, <1>8 DEF JobsInv

\* A step of w that keeps the jobs as they are.
LEMMA QuietStep ==
    ASSUME KeysInv, JobsInv, NEW w \in Rotator, Others(w), UNCHANGED <<job, met>>, JobsTyped',
           running'[w] = running[w], running[w] # NoJob, Kept,
           \A x \in Rotator \ {w} : todo'[x] = todo[x],
           UNCHANGED status \/ (step[w] = "commit" /\ CommitKeys(w)),
           Alone(w) => Alone(w)'
    PROVE  JobsInv'
<1>1. ASSUME NEW x \in Rotator \ {w}, running'[x] # NoJob PROVE InHandOk(x)'
  <2>1. running'[x] = running[x] /\ job[running[x]] = "active" /\ met[running[x]] # {}
    BY <1>1 DEF Others, JobsInv, InHandOk, Alone
  <2> QED
    BY <2>1 DEF InHandOk
<1>2. InHandOk(w)'
  BY DEF InHandOk, JobsInv
<1>3. \A x \in Rotator : InHandOk(x)'
  BY <1>1, <1>2 DEF InHandOk
<1>4. OneWorker'
  BY DEF Others, JobsInv, OneWorker
<1>5. ShortfallExplained'
  BY DEF JobsInv, ShortfallExplained, Rotated, Kept
<1> QED
  BY <1>3, <1>4, <1>5 DEF JobsInv

LEMMA StartJobs ==
    ASSUME KeysInv, JobsInv, NEW w \in Rotator, NEW j \in Job, StartRotation(w, j)
    PROVE  JobsInv'
<1>1. /\ running[w] = NoJob /\ job[j] = "waiting" /\ UNCHANGED <<status, city, target>>
      /\ met' = [k \in Job |-> met[k]
                  \cup (IF k = j /\ VersionUsed(j) THEN {"used"} ELSE {})
                  \cup (IF InHand # {} /\ k \in InHand \cup {j} THEN {"overlapped"} ELSE {})]
  BY DEF StartRotation, keyVars, txVars
<1>2. \A k \in Job : /\ met[k] \subseteq met'[k]
                     /\ k \in InHand => met'[k] # {}
                     /\ k = j /\ (VersionUsed(j) \/ InHand # {}) => met'[k] # {}
  BY <1>1
<1>3. /\ \A k \in Job \ {j} : job'[k] = job[k]
      /\ job'[j] \in {"active", "failed"}
      /\ \/ running'[w] = j /\ job'[j] = "active" /\ todo'[w] = City
         \/ running'[w] = NoJob
      /\ \A x \in Rotator \ {w} : running'[x] = running[x] /\ todo'[x] = todo[x]
  BY <1>1 DEF StartRotation, JobsInv, JobsTyped, KeysInv, Typed
<1>4. JobsTyped'
  BY <1>1 DEF StartRotation, JobsInv, JobsTyped
<1>5. ASSUME NEW x \in Rotator \ {w}, running'[x] # NoJob PROVE InHandOk(x)' /\ running[x] # j
  <2>1. running[x] \in Job /\ running[x] \in InHand /\ running'[x] = running[x]
    BY <1>3, <1>5 DEF KeysInv, Typed, InHand
  <2>2. job[running[x]] = "active"
    BY <2>1 DEF JobsInv, InHandOk
  <2> QED
    BY <1>1, <1>2, <1>3, <2>1, <2>2 DEF InHandOk
<1>6. InHandOk(w)'
  <2>1. CASE running'[w] = NoJob
    BY <2>1 DEF InHandOk
  <2>2. ASSUME running'[w] = j, job'[j] = "active", todo'[w] = City, met'[j] = {} PROVE Alone(w)'
    <3>1. ~VersionUsed(j) /\ InHand = {}
      BY <1>2, <2>2
    <3>2. \A x \in Rotator \ {w} : running'[x] = NoJob
      BY <1>3, <3>1 DEF InHand
    <3>3. \A c \in City : status[c][JobVersion[j]] = "none"
      BY <3>1 DEF VersionUsed
    <3>4. city[w] = NoCity
      BY <1>1 DEF KeysInv, TxOk
    <3> QED
      BY <1>1, <2>2, <3>2, <3>3, <3>4 DEF Alone, NewVersion
  <2> QED
    BY <1>3, <2>1, <2>2, JobAssumption DEF InHandOk
<1>7. OneWorker'
  <2>1. \A x \in Rotator \ {w} : running'[x] # NoJob => running'[x] # running'[w]
    BY <1>3, <1>5
  <2> QED
    BY <1>3, <2>1 DEF JobsInv, OneWorker
<1>8. ShortfallExplained'
  BY <1>1, <1>2, <1>3 DEF JobsInv, ShortfallExplained, Rotated
<1> QED
  BY <1>4, <1>5, <1>6, <1>7, <1>8 DEF JobsInv, InHandOk

LEMMA RotatorJobs ==
    ASSUME KeysInv, JobsInv, NEW w \in Rotator, RotatorStep(w)
    PROVE  JobsInv'
<1>1. ASSUME NEW j \in Job, StartRotation(w, j) PROVE JobsInv'
  BY <1>1, StartJobs
<1>2. ASSUME NEW c \in City, BeginCity(w, c) PROVE JobsInv'
  <2>1. /\ Others(w) /\ UNCHANGED <<job, met, status, todo, running>> /\ running[w] # NoJob
        /\ c \in todo[w] /\ city'[w] = c
        /\ target'[w] = IF ActiveVersions(c) = {} THEN NoVersion ELSE CHOOSE v \in ActiveVersions(c) : TRUE
    BY <1>2 DEF BeginCity, keyVars, jobVars, KeysInv, Typed, Others
  <2>2. ActiveVersions(c) \subseteq {target'[w]}
    <3>1. ActiveVersions(c) # {} => target'[w] \in ActiveVersions(c)
      BY <2>1
    <3> QED
      BY <3>1 DEF KeysInv, OneActiveKey
  <2>3. Alone(w) => Alone(w)'
    BY <2>1, <2>2 DEF Alone, NewVersion, ActiveVersions
  <2> QED
    BY <2>1, <2>3, QuietStep DEF JobsInv, JobsTyped, Kept
<1>3. ASSUME Retire(w) PROVE JobsInv'
  <2>1. /\ Others(w) /\ UNCHANGED <<job, met, status, todo, running, city>> /\ step[w] = "update"
        /\ target'[w] = IF target[w] \in ActiveVersions(city[w]) THEN target[w] ELSE NoVersion
    BY <1>3 DEF Retire, keyVars, jobVars, KeysInv, Typed, Others
  <2>2. running[w] # NoJob
    BY <2>1 DEF KeysInv, TxOk
  <2>3. Alone(w) => Alone(w)'
    BY <2>1 DEF Alone, NewVersion, ActiveVersions
  <2> QED
    BY <2>1, <2>2, <2>3, QuietStep DEF JobsInv, JobsTyped, Kept
<1>4. ASSUME Insert(w) PROVE JobsInv'
  <2>1. /\ Others(w) /\ UNCHANGED <<job, met, status, todo, running, city, target>> /\ step[w] = "insert"
    BY <1>4 DEF Insert, keyVars, jobVars, KeysInv, Typed, Others
  <2>2. running[w] # NoJob
    BY <2>1 DEF KeysInv, TxOk
  <2>3. Alone(w) => Alone(w)'
    BY <2>1 DEF Alone, NewVersion, ActiveVersions
  <2> QED
    BY <2>1, <2>2, <2>3, QuietStep DEF JobsInv, JobsTyped, Kept
<1>5. ASSUME InsertCollides(w) PROVE JobsInv'
  <2>1. /\ Release(w, "completed") /\ UNCHANGED keyVars /\ step[w] = "insert" /\ UniqueViolation(w)
    BY <1>5 DEF InsertCollides
  <2>2. running[w] # NoJob /\ city[w] # NoCity /\ city[w] \in City
    BY <2>1 DEF KeysInv, TxOk, Typed
  <2>3. met[running[w]] # {}
    BY <2>1, <2>2 DEF JobsInv, InHandOk, Alone, UniqueViolation
  <2> QED
    BY <2>1, <2>2, <2>3, ReleaseJobs
<1>6. ASSUME Commit(w) PROVE JobsInv'
  <2> DEFINE c == city[w]
             n == NewVersion(w)
  <2>1. /\ Others(w) /\ UNCHANGED <<job, met, running>> /\ step[w] = "commit" /\ CommitKeys(w)
        /\ todo' = [todo EXCEPT ![w] = @ \ {c}] /\ city'[w] = NoCity
    BY <1>6 DEF Commit, jobVars, KeysInv, Typed, Others
  <2>2. running[w] # NoJob /\ Kept
    BY <2>1, KeysKept DEF KeysInv, TxOk
  <2>3. /\ c \in City /\ n \in Version
        /\ \A d \in City \ {c} : status'[d] = status[d]
        /\ status'[c][n] # "none"
    BY <2>1, CommitEffect
  <2>4. NewVersion(w)' = n
    BY <2>1 DEF NewVersion
  <2>5. todo'[w] = todo[w] \ {c} /\ JobsTyped' /\ \A x \in Rotator \ {w} : todo'[x] = todo[x]
    BY <2>1 DEF JobsInv, JobsTyped
  <2> HIDE DEF c, n
  <2>6. ASSUME Alone(w) PROVE Alone(w)'
    <3>1. \A d \in City : d \in todo'[w] <=> status'[d][n] = "none"
      BY <2>3, <2>5, <2>6 DEF Alone, n
    <3>2. \A x \in Rotator \ {w} : running'[x] = NoJob
      BY <2>1, <2>6 DEF Alone
    <3> QED
      BY <2>1, <2>4, <3>1, <3>2 DEF Alone
  <2> QED
    BY <2>1, <2>2, <2>5, <2>6, QuietStep
<1>7. ASSUME FinishRotation(w) PROVE JobsInv'
  <2>1. /\ Release(w, "completed") /\ UNCHANGED keyVars /\ running[w] # NoJob /\ todo[w] = {}
    BY <1>7 DEF FinishRotation
  <2>2. met[running[w]] = {} => Rotated(running[w])
    BY <2>1 DEF JobsInv, InHandOk, Alone, NewVersion, Rotated
  <2> QED
    BY <2>1, <2>2, ReleaseJobs
<1>8. ASSUME RotationThrows(w) PROVE JobsInv'
  <2>1. running[w] # NoJob
    BY <1>8 DEF RotationThrows, KeysInv, TxOk
  <2> QED
    BY <1>8, <2>1, ReleaseJobs DEF RotationThrows
<1>9. ASSUME WorkerCrash(w) PROVE JobsInv'
  BY <1>9, ReleaseJobs DEF WorkerCrash
<1> QED
  BY <1>1, <1>2, <1>3, <1>4, <1>5, <1>6, <1>7, <1>8, <1>9 DEF RotatorStep

LEMMA JobsStep == KeysInv /\ JobsInv /\ [Next]_vars => JobsInv'
<1> SUFFICES ASSUME KeysInv, JobsInv, [Next]_vars PROVE JobsInv'
  OBVIOUS
<1>1. ASSUME NEW j \in Job, Enqueue(j) \/ IgnoreJob(j) PROVE JobsInv'
  <2>1. /\ UNCHANGED <<status, running, todo, city, target>>
        /\ job[j] \in {"none", "waiting"}
        /\ \A k \in Job \ {j} : job'[k] = job[k] /\ met'[k] = met[k]
        /\ job'[j] = "waiting" \/ met'[j] # {}
        /\ JobsTyped'
    BY <1>1 DEF Enqueue, IgnoreJob, keyVars, txVars, JobsInv, JobsTyped
  <2>2. \A w \in Rotator : InHandOk(w)'
    <3>1. ASSUME NEW w \in Rotator, running[w] # NoJob PROVE InHandOk(w)'
      <4>1. running[w] \in Job /\ running[w] # j
        BY <2>1, <3>1 DEF JobsInv, InHandOk, KeysInv, Typed
      <4> QED
        BY <2>1, <4>1 DEF JobsInv, InHandOk, Alone, NewVersion, ActiveVersions
    <3> QED
      BY <2>1, <3>1 DEF InHandOk
  <2>3. OneWorker' /\ ShortfallExplained'
    BY <2>1 DEF JobsInv, OneWorker, ShortfallExplained, Rotated
  <2> QED
    BY <2>1, <2>2, <2>3 DEF JobsInv
<1>2. ASSUME NEW w \in Rotator, RotatorStep(w) PROVE JobsInv'
  BY <1>2, RotatorJobs
<1>3. CASE UNCHANGED <<status, jobVars, running, todo, txVars>>
  BY <1>3 DEF jobVars, txVars, JobsInv, JobsTyped, InHandOk, Alone, OneWorker, ShortfallExplained,
              Rotated, NewVersion, ActiveVersions
<1>4. ASSUME NEW c \in City, EncryptForColumn(c) PROVE JobsInv'
  BY <1>3, <1>4 DEF EncryptForColumn
<1>5. CASE UNCHANGED vars
  BY <1>3, <1>5 DEF vars, keyVars
<1> QED
  BY <1>1, <1>2, <1>4, <1>5 DEF Next

\* A job that completed and left a city out was taken by a sweep worker, found
\* its version in use, or ran beside another: nothing else cuts a rotation short.
THEOREM ShortfallIsExplained == Spec => []ShortfallExplained
<1>1. KeysInv /\ JobsInv => ShortfallExplained
  BY DEF JobsInv
<1> QED
  BY <1>1, InitKeys, KeysStep, InitJobs, JobsStep, PTL DEF Spec

=============================================================================
