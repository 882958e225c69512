---------------------------- MODULE AtLeastOnce ----------------------------
(***************************************************************************)
(* What send promises: at-least-once delivery into the receiver's store.   *)
(* A thread makes one send at a time.  Its message may be stored any       *)
(* number of times and, once the send has begun, at any time, also after   *)
(* it has ended.  But a send returns only when its message is stored; one  *)
(* that throws leaves it open whether it is, or ever will be.  A receiver  *)
(* that does not know the senders keeps nothing, and their sends return    *)
(* all the same.                                                           *)
(***************************************************************************)
EXTENDS Naturals, Sequences

CONSTANTS Senders, Returned, Threw

VARIABLES known,   \* the receiver keeps messages of these senders
          begun,   \* number of sends each thread has begun
          result,  \* outcome of each finished send, in order
          store    \* the messages stored, oldest first

vars == <<known, begun, result, store>>

Sending(t) == Len(result[t]) < begun[t]
Message(t) == [from |-> t, seq |-> begun[t]]
IsStored(m) == \E i \in 1 .. Len(store) : store[i] = m

Init == /\ known \in BOOLEAN
        /\ begun = [t \in Senders |-> 0]
        /\ result = [t \in Senders |-> <<>>]
        /\ store = <<>>

Begin(t) == /\ ~Sending(t)
            /\ begun' = [begun EXCEPT ![t] = @ + 1]
            /\ UNCHANGED <<known, result, store>>

Store(t, k) == /\ known
               /\ k \in 1 .. begun[t]
               /\ store' = Append(store, [from |-> t, seq |-> k])
               /\ UNCHANGED <<known, begun, result>>

Return(t) == /\ Sending(t)
             /\ known => IsStored(Message(t))
             /\ result' = [result EXCEPT ![t] = Append(@, Returned)]
             /\ UNCHANGED <<known, begun, store>>

Throw(t) == /\ Sending(t)
            /\ result' = [result EXCEPT ![t] = Append(@, Threw)]
            /\ UNCHANGED <<known, begun, store>>

Next == \E t \in Senders : \/ Begin(t) \/ Return(t) \/ Throw(t)
                           \/ \E k \in 1 .. begun[t] : Store(t, k)

Spec == Init /\ [][Next]_vars
=============================================================================
