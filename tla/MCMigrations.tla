---------------------------- MODULE MCMigrations ----------------------------
(* Small instances of Migrations for TLC.                                    *)
EXTENDS Migrations, TLC

CONSTANTS r1, r2, r3
=============================================================================
