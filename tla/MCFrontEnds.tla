----------------------------- MODULE MCFrontEnds -----------------------------
(***************************************************************************)
(* Small instances of DDLogFrontEnds for TLC.                              *)
(***************************************************************************)
EXTENDS DDLogFrontEndsInvariant

CONSTANTS file, error, info

Everything == {error, info}
OnlyErrors == {error}
MCFlags == Everything
TwoLevels == {Everything, OnlyErrors}
ErrorLevel == {OnlyErrors}
FileInstalled == << [logger |-> file, level |-> Everything, queue |-> OwnQueueOf(file)] >>

\* error and critical are 5 and 6.
MCFlagOfLevel == [v \in SwiftLogLevels |-> IF v >= 5 THEN error ELSE info]

WholeApi == Operations
=============================================================================
