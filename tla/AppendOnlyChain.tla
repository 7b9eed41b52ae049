--------------------------- MODULE AppendOnlyChain ---------------------------
(***************************************************************************)
(* What the audit chain promises, without ids, locks or a table: there is  *)
(* one chain of payloads, a transaction adds the payloads of its changes   *)
(* to the end of it, in order and all at once, and nothing that was on the *)
(* chain ever leaves it.                                                   *)
(***************************************************************************)
EXTENDS Naturals, Sequences

CONSTANTS Tx, Plan

VARIABLES
    chain,     \* the payloads the newest hash commits to
    committed  \* the transactions that have committed

\* The payloads of n changes of the plan, in the plan's order.
Kept(plan, n) ==
    LET picks == {f \in [1..n -> DOMAIN plan] : \A i, j \in 1..n : i < j => f[i] < f[j]}
    IN  {[i \in 1..n |-> plan[f[i]]] : f \in picks}

Init ==
    /\ chain = <<>>
    /\ committed = {}

\* Changes that matched no row are not kept.
Commit(t) ==
    /\ t \notin committed
    /\ committed' = committed \cup {t}
    /\ \E n \in 0..Len(Plan[t]) : \E kept \in Kept(Plan[t], n) : chain' = chain \o kept

Next == \E t \in Tx : Commit(t)

Spec == Init /\ [][Next]_<<chain, committed>>

=============================================================================
