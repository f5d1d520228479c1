----------------------------- MODULE MCSockets -----------------------------
(* Instances of Sockets for TLC.                                           *)
EXTENDS Sockets

\* The descriptors behind the three standard streams.
ThreeFds == {3, 4, 5}
=============================================================================
