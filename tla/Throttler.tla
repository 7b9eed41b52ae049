------------------------------ MODULE Throttler ------------------------------
(***************************************************************************)
(* The rate limits: five named throttlers in front of every route, each    *)
(* with a counter per key in Valkey, incremented by one Lua script.        *)
(*                                                                         *)
(* The API is the one whose environment parses, with THROTTLE_ENABLED and  *)
(* THROTTLE_VALKEY_URL set, so the counters are shared by all replicas;    *)
(* a request in a slot is any replica's.  JwtAuthGuard has run before:     *)
(* the request carries a user or None.  The script is atomic; requests     *)
(* interleave between the scripts of their throttlers.  Time is a clock    *)
(* that ticks, a key is there until the clock reaches its expiry.          *)
(*                                                                         *)
(* Valkey saves snapshots and no append-only file: a restart brings back   *)
(* the last one.  era counts the restarts.                                 *)
(***************************************************************************)
EXTENDS Naturals, Sequences, FiniteSets

CONSTANTS
    Request,    \* the requests clients make
    Clients,    \* the sets of requests that are made together: the cases considered
    Slot,       \* places for requests in flight
    EnvLimit,   \* EnvLimit[n]: the limit that the environment gives throttler n
    Pinned,     \* Pinned[<<n, r>>]: the limit that @Throttle gives n on route r
    Ttl,        \* the window, and the length of a block: blockDuration is the ttl
    MaxClock, MaxSeen, MaxFaults, \* bounds
    None

Name == {"auth", "phone", "magiclink", "passwordreset", "global"}
Route == {"login", "phone", "magic", "forgot", "api", "probe"}

ASSUME TtlAssumption == Ttl \in Nat \ {0}
ASSUME LimitAssumption ==
    /\ EnvLimit \in [Name -> Nat \ {0}]
    /\ DOMAIN Pinned \subseteq Name \X Route
    /\ \A d \in DOMAIN Pinned : Pinned[d] \in Nat \ {0}
ASSUME RequestAssumption == \A q \in Request : q.route \in Route
ASSUME ClientsAssumption == Clients \subseteq SUBSET Request
ASSUME NoneAssumption == None \notin Request
ASSUME BoundAssumption == MaxClock \in Nat /\ MaxSeen \in Nat /\ MaxFaults \in Nat

-----------------------------------------------------------------------------
(* Which throttlers look at a request, and under which key.                *)

\* The order of the list: the first that refuses ends the request.
throttlers == <<"auth", "phone", "magiclink", "passwordreset", "global">>

isAuthRoute(r) == r \in {"login", "phone", "magic", "forgot"}
isPhoneOtpRoute(r) == r = "phone"
isMagicLinkRoute(r) == r = "magic"
isPasswordResetRoute(r) == r = "forgot"
isProbeRoute(r) == r = "probe"

\* skipIf, negated.
Watches(n, r) ==
    \/ n = "auth" /\ isAuthRoute(r)
    \/ n = "phone" /\ isPhoneOtpRoute(r)
    \/ n = "magiclink" /\ isMagicLinkRoute(r)
    \/ n = "passwordreset" /\ isPasswordResetRoute(r)
    \/ n = "global" /\ ~isProbeRoute(r)

Watching(q) == SelectSeq(throttlers, LAMBDA n : Watches(n, q.route))

\* A request's ip, user, phone number and email are members of small sets, or
\* None where it has none.
ByAddress(q) == <<"ip", q.ip>>

getThrottlerTracker(q) == IF q.user # None THEN <<"user", q.user>> ELSE ByAddress(q)
getPhoneTracker(q) == IF q.subject # None THEN <<"phone", q.subject>> ELSE ByAddress(q)

\* getMagicLinkTracker and getPasswordResetTracker; subject is the address in
\* lower case.
getEmailTracker(q) == IF q.subject # None THEN <<"email", q.subject>> ELSE ByAddress(q)

Tracker(n, q) ==
    CASE n = "phone" -> getPhoneTracker(q)
      [] n \in {"magiclink", "passwordreset"} -> getEmailTracker(q)
      [] OTHER -> getThrottlerTracker(q)

getThrottlerKey(n, q) == [name |-> n, route |-> q.route, tracker |-> Tracker(n, q)]

Key == {getThrottlerKey(n, q) : n \in Name, q \in Request}

Limit(k) ==
    IF <<k.name, k.route>> \in DOMAIN Pinned THEN Pinned[<<k.name, k.route>>] ELSE EnvLimit[k.name]

-----------------------------------------------------------------------------

VARIABLES
    clients, \* the requests that are made, again and again
    now,
    counter, \* counter[k]: its value and expiry
    block,   \* block[k]: the expiry of the block marker
    saved,   \* the snapshot: counters and blocks
    era,
    faults,  \* how often Valkey was out of reach or restarted
    asked,   \* asked[s]: the request in the slot, or None
    todo,    \* todo[s]: the throttlers it has yet to pass
    seen     \* seen[k]: what the script did under k, in order (history)

store == <<counter, block>>
throttlerVars == <<clients, now, counter, block, saved, era, faults, asked, todo, seen>>

Counter == [hits : Nat, until : Nat]
Verdict == {"passed", "refused", "lost"}
\* until is the expiry of the block, window that of the counter: the script
\* returns hits, and what is left of both.
Event == [at : Nat, era : Nat, verdict : Verdict, until : Nat, hits : Nat, window : Nat]

ThrottlerTypeOK ==
    /\ clients \in Clients
    /\ now \in Nat /\ era \in Nat /\ faults \in Nat
    /\ counter \in [Key -> Counter]
    /\ block \in [Key -> Nat]
    /\ saved \in [counter : [Key -> Counter], block : [Key -> Nat]]
    /\ asked \in [Slot -> Request \cup {None}]
    /\ todo \in [Slot -> Seq(Name)]
    /\ seen \in [Key -> Seq(Event)]

Absent == [hits |-> 0, until |-> 0]

ThrottlerInit ==
    /\ clients \in Clients
    /\ now = 0 /\ era = 0 /\ faults = 0
    /\ counter = [k \in Key |-> Absent]
    /\ block = [k \in Key |-> 0]
    /\ saved = [counter |-> counter, block |-> block]
    /\ asked = [s \in Slot |-> None]
    /\ todo = [s \in Slot |-> <<>>]
    /\ seen = [k \in Key |-> <<>>]

Arrive(s, q) ==
    /\ asked[s] = None
    /\ q \in clients
    /\ Watching(q) # <<>>
    /\ asked' = [asked EXCEPT ![s] = q]
    /\ todo' = [todo EXCEPT ![s] = Watching(q)]
    /\ UNCHANGED <<clients, now, store, saved, era, faults, seen>>

-----------------------------------------------------------------------------
(* The Lua script.                                                         *)

\* Variant: PEXPIRE is left out.
IncrementedForGood(k) == [hits |-> counter[k].hits + 1, until |-> MaxClock + 1]

\* INCR, and PEXPIRE when the key is new.
Incremented(k) ==
    IF counter[k].until > now
    THEN [hits |-> counter[k].hits + 1, until |-> counter[k].until]
    ELSE [hits |-> 1, until |-> now + Ttl]

Blocked(k) == block[k] > now

\* Variant: one more than the limit.
BlockAfterLate(k) ==
    IF ~Blocked(k) /\ Incremented(k).hits > Limit(k) + 1 THEN now + Ttl ELSE block[k]

\* The block marker after the script: set when there is none and the limit is
\* passed, else as it was.
BlockAfter(k) ==
    IF ~Blocked(k) /\ Incremented(k).hits > Limit(k) THEN now + Ttl ELSE block[k]

\* Variant: the counter alone decides.
RefusedByCounter(k) == Incremented(k).hits > Limit(k)

Refused(k) == BlockAfter(k) > now

INCREMENT_LUA(k, verdict) ==
    /\ Cardinality(UNION {{l} \X DOMAIN seen[l] : l \in Key}) < MaxSeen
    /\ counter' = [counter EXCEPT ![k] = Incremented(k)]
    /\ block' = [block EXCEPT ![k] = BlockAfter(k)]
    /\ seen' = [seen EXCEPT ![k] = Append(@, [at |-> now, era |-> era, verdict |-> verdict,
                                               until |-> BlockAfter(k), hits |-> Incremented(k).hits,
                                               window |-> Incremented(k).until])]
    /\ UNCHANGED <<clients, now, saved, era>>

-----------------------------------------------------------------------------
(* The guard, throttler by throttler.                                      *)

Current(s) == getThrottlerKey(Head(todo[s]), asked[s])

Fault == faults < MaxFaults /\ faults' = faults + 1

Ends(s) == asked' = [asked EXCEPT ![s] = None] /\ todo' = [todo EXCEPT ![s] = <<>>]

\* The next throttler, or the handler if that was the last.
Continues(s) ==
    IF Len(todo[s]) = 1 THEN Ends(s)
    ELSE todo' = [todo EXCEPT ![s] = Tail(@)] /\ UNCHANGED asked

\* increment answers isBlocked = false.
Pass(s) ==
    /\ asked[s] # None
    /\ ~Refused(Current(s))
    /\ INCREMENT_LUA(Current(s), "passed")
    /\ UNCHANGED faults
    /\ Continues(s)

\* It answers true: 429, with the time that is left in Retry-After.
Refuse(s) ==
    /\ asked[s] # None
    /\ Refused(Current(s))
    /\ INCREMENT_LUA(Current(s), "refused")
    /\ UNCHANGED faults
    /\ Ends(s)

\* Valkey is not ready, or the command fails before it is run:
\* FAIL_OPEN_RECORD.
FailOpen(s) ==
    /\ asked[s] # None
    /\ Continues(s)
    /\ Fault
    /\ UNCHANGED <<clients, now, store, saved, era, seen>>

\* The script runs and the connection drops: FAIL_OPEN_RECORD, or the client
\* sends the command again.
AnswerLost(s) ==
    /\ asked[s] # None
    /\ INCREMENT_LUA(Current(s), "lost")
    /\ Fault
    /\ Continues(s) \/ UNCHANGED <<asked, todo>>

-----------------------------------------------------------------------------

Tick ==
    /\ now < MaxClock
    /\ now' = now + 1
    /\ UNCHANGED <<clients, store, saved, era, faults, asked, todo, seen>>

Snapshot ==
    /\ faults < MaxFaults
    /\ saved' = [counter |-> counter, block |-> block]
    /\ UNCHANGED <<clients, now, store, era, faults, asked, todo, seen>>

ValkeyRestart ==
    /\ Fault
    /\ counter' = saved.counter /\ block' = saved.block
    /\ era' = era + 1
    /\ UNCHANGED <<clients, now, saved, asked, todo, seen>>

ThrottlerNext ==
    \/ \E s \in Slot :
        \/ \E q \in Request : Arrive(s, q)
        \/ Pass(s) \/ Refuse(s) \/ FailOpen(s) \/ AnswerLost(s)
    \/ Tick \/ Snapshot \/ ValkeyRestart

ThrottlerSpec == ThrottlerInit /\ [][ThrottlerNext]_throttlerVars

-----------------------------------------------------------------------------
(* Properties.                                                             *)

\* The events under k, up to the i-th, less than span before it.
Lately(k, i, span) == {j \in 1..i : seen[k][j].at + span > seen[k][i].at}

\* The first and the second guarantee of the script's comment: concurrent
\* requests cannot slip past the limit.  The window is fixed, not sliding, so
\* a span as long as a window can lie across two and is allowed one request
\* less than two limits: never more, whatever the order of requests, blocks
\* and expiries, while Valkey does not restart and answers.
BurstBounded ==
    \A k \in Key : \A i \in DOMAIN seen[k] :
        Cardinality({j \in Lately(k, i, Ttl) :
            seen[k][j].verdict = "passed" /\ seen[k][j].era = seen[k][i].era}) < 2 * Limit(k)

\* Nobody is refused without cause, nor for long: the key was counted more
\* often than its limit within two windows, and at least once before within
\* one, so that a client that stays quiet for a window is let in, even if
\* its block outlived its counter or was restored from a snapshot.
RefusalsDeserved ==
    \A k \in Key : \A i \in DOMAIN seen[k] : seen[k][i].verdict = "refused" =>
        /\ Cardinality(Lately(k, i, 2 * Ttl)) > Limit(k)
        /\ Lately(k, i, Ttl) # {i}

\* The third guarantee: who was told to come back later is not let in before,
\* although the counter expires before the block.
BlockOutlivesCounter ==
    \A k \in Key : \A i, j \in DOMAIN seen[k] :
        /\ i < j /\ seen[k][i].era = seen[k][j].era
        /\ seen[k][i].verdict = "refused" /\ seen[k][j].verdict = "passed"
        => seen[k][j].at >= seen[k][i].until

=============================================================================
