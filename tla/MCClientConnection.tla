------------------------- MODULE MCClientConnection -------------------------
(***************************************************************************)
(* Instance of ClientConnection for TLC.  With IntMax = 3 a length of 9    *)
(* asks for one byte.                                                      *)
(***************************************************************************)
EXTENDS ClientConnection

CONSTANTS a, b

MCByte == {a, b}
MCMessages == {<<a>>, <<b, a>>}
OneOrTwoBytes == {2, 9}
BothBuilds == {FALSE, TRUE}
QueueBuild == {FALSE}
MCTimeouts == {-1}
=============================================================================
