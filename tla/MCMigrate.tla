------------------------------ MODULE MCMigrate ------------------------------
(***************************************************************************)
(* Migrate for TLC, with migrations of the repository that fail on an      *)
(* empty database, that make others succeed, and that copy:                *)
(*   21  seeds roles, whose codes violate the check of 0003;               *)
(*   24  widens the check;                                                 *)
(*   27  makes a table: of these the only one that fails a second time;    *)
(*   35  seeds the dashboard's permission and grants it to the roles that  *)
(*       it finds, as 28 does with a code that no check lets in;           *)
(*   50  stands for an index built CONCURRENTLY in one statement.          *)
(***************************************************************************)
EXTENDS Migrate, TLC

CONSTANTS r1, r2

MCRunner == {r1, r2}
RunnerSymmetry == Permutations(MCRunner)

MCMigration == {21, 24, 27, 35, 50}
MCFact == {"wide", "roles", "saved", "dashboard grant", "index"}
MCNeeds == 21 :> {"wide"} @@ [m \in MCMigration |-> {}]
MCAdds == 21 :> {"roles"} @@ 24 :> {"wide"} @@ 27 :> {"saved"} @@ 50 :> {"index"} @@ [m \in MCMigration |-> {}]
MCCopies == 35 :> {<<"roles", "dashboard grant">>} @@ [m \in MCMigration |-> {}]
MCReleases == {{21, 24}, {21, 24, 27, 35, 50}}

=============================================================================
