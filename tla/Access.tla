-------------------------------- MODULE Access --------------------------------
(***************************************************************************)
(* What stands between a request that JwtAuthGuard lets in and its         *)
(* handler: MfaGuard, RbacGuard; and MfaController, whose endpoints need   *)
(* JwtAuthGuard only and sign tokens.                                      *)
(*                                                                         *)
(* Roles and the time of the last verification are claims of the token.    *)
(* Tokens of sessions are signed outside this repository; MFA signs        *)
(* tokens with a new jti and the claims of the one it was shown.           *)
(***************************************************************************)
EXTENDS SessionCache

CONSTANTS
    Role, Permission,
    MFA_ENFORCED_ROLES,
    RolePermissions, \* role_permissions: pairs of a role and a permission
    Routes,          \* what @RequirePermission lists on the guarded routes
    SignIn,          \* claims that sign-in may put in the token of a session
    Window,          \* MFA_VERIFICATION_WINDOW_MS
    Unsigned         \* the claims of a jti that no token has yet

JwtClaims == [role_snapshot : SUBSET Role, mfaSecret : BOOLEAN, mfaEnrolledAt : BOOLEAN,
              mfaVerifiedAt : SUBSET Nat]   \* {} when the claim is missing

ASSUME RoleAssumption ==
    /\ MFA_ENFORCED_ROLES \subseteq Role
    /\ RolePermissions \subseteq Role \X Permission
    /\ Routes \subseteq SUBSET Permission
ASSUME SignInAssumption ==
    \A c \in SignIn :
        /\ DOMAIN c = {"role_snapshot", "mfaSecret", "mfaEnrolledAt", "mfaVerifiedAt"}
        /\ c.role_snapshot \subseteq Role
        /\ c.mfaVerifiedAt \subseteq Nat
ASSUME WindowAssumption == Window \in Nat

VARIABLES
    token,  \* token[j]: the claims signed with jti j
    gate    \* gate[r]: the next guard of request r, the permissions its route
            \* asks for, and when MfaGuard let it pass

accessVars == <<vars, token, gate>>

\* A request before its next guard.
Before(next, codes, passed) == [next |-> next, codes |-> codes, passed |-> passed]
Closed == Before("none", {}, 0)
Forbidden == Before("forbidden", {}, 0)

AccessInit ==
    /\ Init
    /\ \E claims \in [Session -> SignIn] :
        token = [j \in Jti |-> IF j \in Session THEN claims[j] ELSE Unsigned]
    /\ gate = [r \in Request |-> Closed]

user(r) == token[jti[r]]

Passes(r, entry) == gate' = [gate EXCEPT ![r] = entry] /\ UNCHANGED <<vars, token>>

-----------------------------------------------------------------------------
(* The guards after JwtAuthGuard.                                          *)

\* A request that is let in goes to an endpoint with no other guard, or to
\* MfaGuard.
Enter(r) ==
    /\ getSession(r) \/ checkSession(r) \/ cachePositive(r) \/ cacheNegative(r)
    /\ IF at'[r] # "granted" THEN UNCHANGED gate
       ELSE \E entry \in {Before("auth", {}, 0)} \cup {Before("mfa", codes, 0) : codes \in Routes} :
                gate' = [gate EXCEPT ![r] = entry]
    /\ UNCHANGED token

\* An enforced role needs an enrolled factor, verified not long ago.
requiresMfa(claims) == claims.role_snapshot \cap MFA_ENFORCED_ROLES # {}

MfaGuard(r) ==
    /\ gate[r].next = "mfa"
    /\ LET fresh == \E t \in user(r).mfaVerifiedAt : now <= t + Window
           let_in == ~requiresMfa(user(r)) \/ (user(r).mfaSecret /\ user(r).mfaEnrolledAt /\ fresh)
       IN  Passes(r, IF let_in THEN Before("rbac", gate[r].codes, now) ELSE Forbidden)

\* isSuperAdmin is never set by JwtAuthGuard.  The query may fail.
RbacGuard(r) ==
    /\ gate[r].next = "rbac"
    /\ LET granted == {p \in gate[r].codes : \E role \in user(r).role_snapshot : <<role, p>> \in RolePermissions}
       IN  \/ /\ gate[r].codes = {} \/ granted # {}
              /\ Passes(r, Before("handler", {}, gate[r].passed))
           \/ /\ gate[r].codes # {}
              /\ Passes(r, Forbidden)

-----------------------------------------------------------------------------
(* MfaController and the sign-out.                                         *)

Closes(r) == gate' = [gate EXCEPT ![r] = Closed]

Endpoint(r) == at[r] = "granted" /\ gate[r].next = "auth"

\* ON CONFLICT (user_id) infers no unique index of mfa_credentials: the INSERT
\* is refused every time, so there is never a row and no secret is handed out.
enroll(r) ==
    /\ Endpoint(r)
    /\ FinishRequest(r)
    /\ Closes(r)
    /\ UNCHANGED token

\* With no row of mfa_credentials to mark, a code that is right is accepted.
verifyTotp(claims) == IF claims.mfaSecret THEN {TRUE, FALSE} ELSE {FALSE}

\* The claims of the bearer and the time, under a new jti, for a day.
sign(m, claims) ==
    /\ token[m] = Unsigned
    /\ token' = [token EXCEPT ![m] = [claims EXCEPT !.mfaVerifiedAt = {now}]]

verify(r) ==
    /\ Endpoint(r)
    /\ \E ok \in verifyTotp(user(r)) :
        IF ok THEN \E m \in Minted : sign(m, user(r)) ELSE UNCHANGED token
    /\ FinishRequest(r)
    /\ Closes(r)

\* No row, no backup codes: verified is always false, and no token is signed.
consumeBackupCode(r) ==
    /\ Endpoint(r)
    /\ FinishRequest(r)
    /\ Closes(r)
    /\ UNCHANGED token

MfaController(r) == enroll(r) \/ verify(r) \/ consumeBackupCode(r)

SignOut(r) ==
    /\ Endpoint(r)
    /\ signOut(r)
    /\ Closes(r)
    /\ UNCHANGED token

\* An answer without more ado: a denied request, a guard that threw, a handler
\* or an endpoint that is done.
Answer(r) ==
    /\ gate[r].next \notin {"mfa", "rbac"}
    /\ FinishRequest(r)
    /\ Closes(r)
    /\ UNCHANGED token

-----------------------------------------------------------------------------

\* Only signed tokens are verified.
Present(r) ==
    /\ \E j \in Jti : token[j] # Unsigned /\ Arrive(r, j)
    /\ UNCHANGED <<token, gate>>

Poison(r) == poisonCache(r) /\ UNCHANGED <<token, gate>>

\* MfaGuard awaits nothing.
AccessTick ==
    /\ \A r \in Request : gate[r].next # "mfa"
    /\ Tick
    /\ UNCHANGED <<token, gate>>

AccessNext ==
    \/ AccessTick
    \/ \E r \in Request :
        \/ Present(r) \/ Enter(r) \/ MfaGuard(r) \/ RbacGuard(r)
        \/ MfaController(r)
        \/ SignOut(r) \/ Poison(r) \/ Answer(r)

AccessSpec == AccessInit /\ [][AccessNext]_accessVars

-----------------------------------------------------------------------------
(* Properties.                                                             *)

\* A request of an officer reaches its handler only with the token of a
\* session, not with one that an MFA endpoint signed for it; and if the
\* session has ended, MfaGuard let it pass less than TTL + 2 * Pause after
\* the end, however the verification, a sign-out and slow guards interleave.
OfficersAdmitted ==
    \A r \in Request :
        gate[r].next = "handler" /\ requiresMfa(user(r)) =>
            /\ jti[r] \in Session
            /\ gate[r].passed < lastValid[jti[r]] + TTL + 2 * Pause
            /\ \E t \in user(r).mfaVerifiedAt : gate[r].passed <= t + Window

=============================================================================
