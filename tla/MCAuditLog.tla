----------------------------- MODULE MCAuditLog -----------------------------
(***************************************************************************)
(* AuditLog and AuditAnchor for TLC: a bulk change of two issues and two   *)
(* single changes of the second.  The four inserts are enough for an       *)
(* inversion, for two, and for rows that commit into an anchored range; a  *)
(* cycle of waits can form between the bulk change and a single one, and   *)
(* could between the single ones if they took their locks in another order.*)
(***************************************************************************)
EXTENDS AuditAnchor, TLC

CONSTANTS bulk, one, two, i1, i2

MCTx == {bulk, one, two}
MCEntity == {i1, i2}
MCPlan == (bulk :> <<i1, i2>>) @@ (one :> <<i2>>) @@ (two :> <<i2>>)

=============================================================================
