---------------------------- MODULE MCFormatters ----------------------------
(***************************************************************************)
(* A small instance of DDMultiFormatter for TLC.                           *)
(***************************************************************************)
EXTENDS DDMultiFormatterProperties
=============================================================================
