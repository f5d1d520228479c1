---------------------------- MODULE MCChatServer ----------------------------
(* Instances of ChatServer for TLC.                                        *)
EXTENDS ChatServer

\* The server owns descriptors 0 to 3; accepted connections start at 4.
TwoFds == {4, 5}

\* Every action sets sent and none reads it, and a property of a run with this
\* view reads it only in the state after a step: states that differ in sent
\* alone have the same steps.
Unsent == <<status, conns, lists, res, history>>
=============================================================================
