----------------------------- MODULE MCStartup ------------------------------
(* A small instance of Startup for TLC.                                    *)
EXTENDS Startup

CONSTANT alice

MCEmail == {alice}

(* DATABASE_MIGRATION_ON_START_UP=true, in the environment.                *)
MCOnStartUp == [type |-> "string", of |-> "true"]

=============================================================================
