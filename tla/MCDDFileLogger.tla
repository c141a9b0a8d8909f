--------------------------- MODULE MCDDFileLogger ---------------------------
(***************************************************************************)
(* Small instances of DDFileLogger for TLC.                                *)
(***************************************************************************)
EXTENDS DDFileLoggerInvariant

Off == {0}
OneOrTwo == {1, 2}
TwoOrOff == {0, 2}
OneOrOff == {0, 1}
OneOrThree == {1, 3}
One == {1}
Two == {2}
=============================================================================
