--------------------------- MODULE MCSessionCache ---------------------------
(***************************************************************************)
(* Access and SessionCache for TLC: a slow guard and a sign-out race on    *)
(* one session, and either caller comes back later; MFA signs one token;   *)
(* the session is a citizen's, or an officer's who is verified or not.     *)
(***************************************************************************)
EXTENDS Access, TLC

CONSTANTS r1, r2, s1, m1, citizen, officer, manage

MCRequest == {r1, r2}
MCSession == {s1}
MCMinted == {m1}
\* Late enough for a revocation to end the session first, early enough for
\* the clock to pass it.
MCExpires == s1 :> 2
MCRole == {citizen, officer}
MCEnforced == {officer}
MCPermission == {manage}
MCRolePermissions == {<<officer, manage>>}
MCRoutes == {{}, {manage}}
Claims(role, at_times) ==
    [role_snapshot |-> {role}, mfaSecret |-> TRUE, mfaEnrolledAt |-> TRUE, mfaVerifiedAt |-> at_times]
MCSignIn == {Claims(citizen, {}), Claims(officer, {}), Claims(officer, {0})}
RequestSymmetry == Permutations(MCRequest)

=============================================================================
