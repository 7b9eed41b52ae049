------------------------------ MODULE SingleUse ------------------------------
(***************************************************************************)
(* What a one-time token promises: it is issued once, and the first request *)
(* that spends it is the only one to have its effect.  A token may be spent *)
(* without an effect; it then has none for ever.                            *)
(***************************************************************************)
CONSTANTS Token, Request

VARIABLES
    live,   \* issued and not spent
    spent,
    effect  \* the pairs of a token and the request it worked for

SInit == live = {} /\ spent = {} /\ effect = {}

Issue(t) ==
    /\ t \notin live \cup spent
    /\ live' = live \cup {t}
    /\ UNCHANGED <<spent, effect>>

Spend(t) ==
    /\ t \in live
    /\ live' = live \ {t}
    /\ spent' = spent \cup {t}

Redeem(t, r) == Spend(t) /\ effect' = effect \cup {<<t, r>>}

Waste(t) == Spend(t) /\ UNCHANGED effect

SNext == \E t \in Token : Issue(t) \/ Waste(t) \/ \E r \in Request : Redeem(t, r)

SSpec == SInit /\ [][SNext]_<<live, spent, effect>>

=============================================================================
