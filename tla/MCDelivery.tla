----------------------------- MODULE MCDelivery -----------------------------
(***************************************************************************)
(* Delivery for TLC, swept by two replicas: one notification with a push   *)
(* to one subscription and an email, or with the push alone where Valkey   *)
(* restarts.                                                               *)
(***************************************************************************)
EXTENDS Delivery, TLC

CONSTANTS push1, mail1, phone, s1, s2

MCDelivery == {push1, mail1}
MCSubscription == {phone}
MCTarget == (push1 :> phone) @@ (mail1 :> Email)
MCSweeper == {s1, s2}
SweeperSymmetry == Permutations(MCSweeper)
MCBatches == {<<push1, mail1>>}

MCPush == {push1}
MCPushTarget == push1 :> phone
MCPushBatches == {<<push1>>}

=============================================================================
