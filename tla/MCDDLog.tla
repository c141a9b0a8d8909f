------------------------------ MODULE MCDDLog ------------------------------
(***************************************************************************)
(* Small instances of DDLog for TLC: which loggers exist and are installed, *)
(* and which API calls the clients of a run use.                            *)
(***************************************************************************)
EXTENDS DDLogInvariant

CONSTANTS file, tty, error, info

Everything == {error, info}
OnlyErrors == {error}
Node(l, level) == [logger |-> l, level |-> level, queue |-> OwnQueueOf(l)]

MCFlags == Everything
OneLevel == {Everything}
TwoLevels == {Everything, OnlyErrors}
NothingInstalled == <<>>
BothInstalled == << Node(file, Everything), Node(tty, OnlyErrors) >>

DispatchApi == Operations
AddRemoveApi == {"log", "add", "remove"}

\* No property of a run tells one thread from another.
ThreadSymmetry == Permutations(Threads)
=============================================================================
