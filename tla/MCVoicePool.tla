---------------------------- MODULE MCVoicePool ----------------------------
(* Instances of VoicePool for TLC.                                         *)
EXTENDS VoicePool

CONSTANTS t1, t2, t3, u1, u2, c1, c2

ThreeTasks == {t1, t2, t3}
TwoUids == {u1, u2}
TwoChannels == {c1, c2}

\* Two users talk on one channel; one of them is alone on a second one.
Speaker == [t \in ThreeTasks |-> IF t = t2 THEN u2 ELSE u1]
SharedChannel == [t \in ThreeTasks |-> IF t = t3 THEN c2 ELSE c1]
=============================================================================
