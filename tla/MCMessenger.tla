---------------------------- MODULE MCMessenger ----------------------------
(* Instances of Messenger for TLC.                                         *)
EXTENDS Messenger

CONSTANTS short, long, title

TwoMessages == {short, long}
Lengths == [m \in {short, long, title} |-> IF m = short THEN 1 ELSE IF m = long THEN 3 ELSE 2]
=============================================================================
