----------------------------- MODULE MCMigration -----------------------------
(* All kinds, a cluster with two secrets. *)
EXTENDS Migration
=============================================================================
