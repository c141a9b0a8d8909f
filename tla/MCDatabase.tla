----------------------------- MODULE MCDatabase -----------------------------
(***************************************************************************)
(* A small instance of DDAbstractDatabaseLogger for TLC.                   *)
(***************************************************************************)
EXTENDS DDDatabaseInvariant

Off13 == {0, 1, 3}
Off23 == {0, 2, 3}
=============================================================================
