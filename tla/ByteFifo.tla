------------------------------ MODULE ByteFifo ------------------------------
(***************************************************************************)
(* What a cycle_buffer promises to ClientConnection: an unbounded byte     *)
(* stream.  write appends its bytes at once, read takes exactly the        *)
(* requested number of bytes from the front at once, and nothing else      *)
(* touches the stream.  `out' is the caller's receive area between the     *)
(* copy and the return of the call.                                        *)
(***************************************************************************)
EXTENDS Integers, Sequences

CONSTANTS Threads,   \* callers
          Byte,      \* byte values
          Chunks,    \* the byte strings a write may carry
          Lengths    \* the lengths a read may ask for

VARIABLES fifo,      \* unread bytes, oldest first
          out        \* bytes handed to each caller

Init == /\ fifo = <<>>
        /\ out = [t \in Threads |-> <<>>]

Put == \E d \in Chunks : /\ fifo' = fifo \o d
                         /\ UNCHANGED out

Get(t) == \E k \in Lengths :
            /\ k <= Len(fifo)
            /\ out' = [out EXCEPT ![t] = SubSeq(fifo, 1, k)]
            /\ fifo' = SubSeq(fifo, k + 1, Len(fifo))

Return(t) == /\ out' = [out EXCEPT ![t] = <<>>]
             /\ UNCHANGED fifo

Next == Put \/ \E t \in Threads : Get(t) \/ Return(t)

Spec == Init /\ [][Next]_<<fifo, out>>
=============================================================================
