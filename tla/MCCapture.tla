------------------------------ MODULE MCCapture ------------------------------
(***************************************************************************)
(* Small instances of DDASLLogCapture for TLC.                             *)
(***************************************************************************)
EXTENDS DDASLLogCaptureInvariant

\* A critical message is logged synchronously, and a warning is what NSLog saves.
Critical == [severity |-> 2, text |-> TRUE]
Usual    == [severity |-> 4, text |-> TRUE]
NoText   == [severity |-> 5, text |-> FALSE]

\* A capture that is stopped and started again, and one with overlapping handlers.
Restarted ==
    [overlap |-> FALSE, kinds |-> {Usual}, callers |-> 2, starts |-> 2, events |-> 2, time |-> 0]
Overlapping ==
    [overlap |-> TRUE, kinds |-> {Critical, NoText}, callers |-> 1, starts |-> 1, events |-> 2, time |-> 1]

RestartedOrOverlapping == {Restarted, Overlapping}
\* One thread stops and starts the capture.
StoppedAndStarted == {[Restarted EXCEPT !.callers = 1]}
OnlyErrors == {{"error"}}
Infos == {"info"}
=============================================================================
