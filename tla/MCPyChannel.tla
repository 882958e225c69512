---------------------------- MODULE MCPyChannel ----------------------------
(***************************************************************************)
(* Instance of PyChannel for TLC: a program with a thread that receives    *)
(* and one that does both, its peer with one that does both and once in a  *)
(* while names a node it is not connected to.                              *)
(***************************************************************************)
EXTENDS PyChannel, TLC

CONSTANTS p0, p1, a1, a2, b1

MCNodes == {p0, p1}
MCThreads == {a1, a2, b1}
MCHome == [t \in MCThreads |-> IF t \in {a1, a2} THEN p0 ELSE p1]
SendTo(n) == [op |-> "send", peer |-> n]
RecvFrom(n) == [op |-> "recv", peer |-> n]
MCProgram == [t \in MCThreads |->
                IF t = a1 THEN {RecvFrom(p1)}
                ELSE IF t = a2 THEN {RecvFrom(p1), SendTo(p1)}
                ELSE {RecvFrom(p0), SendTo(p0), SendTo(p1)}]
MCLinks == {<<p0, p1>>, <<p1, p0>>}
=============================================================================
