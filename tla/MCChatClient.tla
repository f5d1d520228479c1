---------------------------- MODULE MCChatClient ----------------------------
(* Instances of ChatClient for TLC.                                        *)
EXTENDS ChatClient

\* 258 arrives as 2, 256 as an empty string.
WideIds == {256, 258}
Bytes == {7}
=============================================================================
