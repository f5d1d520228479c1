---------------------------- MODULE MCEventLoop -----------------------------
(* An instance of EventLoop for TLC.                                       *)
EXTENDS EventLoop

\* 3 is the listening socket; accepted connections start at 4.
ThreeFds == {4, 5, 6}
=============================================================================
