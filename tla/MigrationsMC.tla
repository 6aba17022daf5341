---------------------------- MODULE MigrationsMC ----------------------------
(* Migrations of the repository, with the two containers of               *)
(* docker-compose.yml and one shell.                                       *)
EXTENDS Migrations, AlembicVersions

CONSTANTS backend, worker, shell

Backends == {backend, worker}
Shells == {shell}
\* The head, the schema without the alert history, and nothing.
SomeGoals == {head, 6, 0}
=============================================================================
