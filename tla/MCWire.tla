------------------------------- MODULE MCWire -------------------------------
(* Instances of Wire for TLC.                                              *)
EXTENDS Wire

\* A digit, a space and a letter.
ThreeChars == {49, 32, 97}

OneLetter == <<97>>

\* 258 is cut to the byte 2.
Ids == {0, 1, 255, 258}

\* Texts of 5, 6, 8, 9 and 13 bytes: all that one recv of 8 brings, more,
\* the limit of the parser, more than that, and what two receives bring.
Users == {<<1>>, <<2, 2>>, <<1, 2>>, <<2, 2, 2>>, <<1, 1, 2>>}
Lines == <<<<97, 49, 49, 32, 97>>, <<49, 97, 49>>>>
=============================================================================
