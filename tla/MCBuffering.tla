---------------------------- MODULE MCBuffering ----------------------------
(***************************************************************************)
(* A small instance of DDBufferedProxy for TLC.                            *)
(***************************************************************************)
EXTENDS DDBufferedProxyProperties

OneOrTwo == {1, 2}
NoneTwoOrFive == {0, 2, 5}
=============================================================================
