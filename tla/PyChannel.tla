----------------------------- MODULE PyChannel -----------------------------
(***************************************************************************)
(* Python programs over the channel: threads of the nodes' processes call  *)
(* Send and Recv of the pyio module (core/pybind11), which reach ViaNetIO  *)
(* through the process's one IoChannelImpl.  The bindings do not release   *)
(* the interpreter lock (GIL): a call keeps it from the moment it enters   *)
(* C++ until it returns, however long it waits in there.                   *)
(*                                                                         *)
(* Send is what module AtLeastOnce promises (and SyncChannel implements),  *)
(* Recv what module ClientConnection does in the queue build, with the     *)
(* time left out: a wait may expire at any moment.  A process has called   *)
(* create_channel (modules ChannelConfig and NetInit) or has no channel.   *)
(* Server threads are C++ threads and store messages without the GIL.      *)
(*                                                                         *)
(* A message stands for its bytes, padded with zeros to Recv's recv_len,   *)
(* which is at least its length.  Python has nothing else to tell it by:   *)
(* Recv drops the number of bytes received, so a Recv that timed out gives *)
(* recv_len zero bytes (Blank), as would a message that was all zeros.     *)
(***************************************************************************)
EXTENDS Integers, Sequences, Functions

CONSTANTS Nodes,
          Threads,   \* Python threads
          Home,      \* the process each belongs to
          Program,   \* the calls each makes, again and again in any order
          Links,     \* pairs <<client, server>> of the policy
          NoThread, NoCall,
          Nothing,   \* no string yet
          Blank,     \* recv_len zero bytes
          MaxSends,  \* bound: sends of all threads
          MaxQueue   \* bound: messages waiting from one client

Calls == [op : {"send", "recv"}, peer : Nodes]

ASSUME PyAssumption == /\ Home \in [Threads -> Nodes]
                       /\ Program \in [Threads -> SUBSET Calls]
                       /\ Links \subseteq Nodes \X Nodes
                       /\ MaxSends \in Nat /\ MaxQueue \in Nat

(* No node is its own server: it has no ClientConnection for itself, and   *)
(* what it sends to itself is acknowledged and dropped.                    *)
ASSUME NoSelfLinkAssumption == \A n \in Nodes : <<n, n>> \notin Links

VARIABLES open,       \* processes whose io_channel_ is set
          gil,        \* the thread of each process that has the GIL
          last,       \* the one that had it last
          pc,         \* where each thread is
          call,       \* its current call
          result,     \* the string Recv has for Python
          sent,       \* the link of each send a thread has begun, in order
          queue,      \* link -> messages in the server's ClientConnection
          stored,     \* history: messages a server has stored
          acked,      \* history: messages whose Send returned their length
          delivered   \* history: link -> messages given to Python, copies left out

vars == <<open, gil, last, pc, call, result, sent, queue, stored, acked, delivered>>

Self(t) == Home[t]
Out(t) == <<Self(t), call[t].peer>>
In(t) == <<call[t].peer, Self(t)>>

(* The k-th message of thread t went, or goes, over link sent[t][k]. *)
Message(t, k) == [from |-> t, seq |-> k]
Messages == {Message(t, k) : t \in Threads, k \in 1 .. MaxSends}

ASSUME DistinctAssumption == NoThread \notin Threads /\ Blank \notin Messages

LinkOf(m) == sent[m.from][m.seq]
Sends == FoldFunction(LAMBDA s, n : Len(s) + n, 0, sent)

(* Copies are left out of the history of deliveries. *)
First(q, m) == IF m \in Range(q) THEN q ELSE Append(q, m)

Init == /\ open \in SUBSET Nodes
        /\ gil = [n \in Nodes |-> NoThread]
        /\ last = [n \in Nodes |-> NoThread]
        /\ pc = [t \in Threads |-> "idle"]
        /\ call = [t \in Threads |-> NoCall]
        /\ result = [t \in Threads |-> Nothing]
        /\ sent = [t \in Threads |-> <<>>]
        /\ queue = [l \in Links |-> <<>>]
        /\ stored = {}
        /\ acked = {}
        /\ delivered = [l \in Links |-> <<>>]

-----------------------------------------------------------------------------
(* Python calls the binding. *)
Call(t, c) ==
  /\ pc[t] = "idle"
  /\ c.op = "send" => Sends < MaxSends
  /\ call' = [call EXCEPT ![t] = c]
  /\ pc' = [pc EXCEPT ![t] = "called"]
  /\ UNCHANGED <<open, gil, last, result, sent, queue, stored, acked, delivered>>

(* The call needs the GIL to run (a thread that has just given it back     *)
(* lets one go first that waits for it) ...                                *)
Turn(t) == last[Self(t)] = t =>
             \A u \in Threads \ {t} : Self(u) = Self(t) => pc[u] # "called"

Acquire_Released(t) ==
  /\ pc[t] = "called"
  /\ pc' = [pc EXCEPT ![t] = call[t].op]
  /\ UNCHANGED <<open, gil, last, call, result, sent, queue, stored, acked, delivered>>

Acquire(t) ==
  /\ pc[t] = "called"
  /\ gil[Self(t)] = NoThread
  /\ Turn(t)
  /\ gil' = [gil EXCEPT ![Self(t)] = t]
  /\ last' = [last EXCEPT ![Self(t)] = t]
  /\ pc' = [pc EXCEPT ![t] = call[t].op]
  /\ UNCHANGED <<open, call, result, sent, queue, stored, acked, delivered>>

(* ... and keeps it until it returns or throws. *)
Return(t) ==
  /\ pc' = [pc EXCEPT ![t] = "idle"]
  /\ call' = [call EXCEPT ![t] = NoCall]
  /\ gil' = [gil EXCEPT ![Self(t)] = NoThread]

-----------------------------------------------------------------------------
(* IoChannelImpl has no channel (0 or "" is returned), or ViaNetIO no such *)
(* server or client (NO_FIND_NID is thrown).                               *)
Refused(t) ==
  /\ pc[t] \in {"send", "recv"}
  /\ \/ Self(t) \notin open
     \/ (IF pc[t] = "send" THEN Out(t) ELSE In(t)) \notin Links
  /\ Return(t)
  /\ UNCHANGED <<open, last, result, sent, queue, stored, acked, delivered>>

(* Send begins; the peer's server stores the message, once or more often,  *)
(* also after Send has thrown.                                             *)
Send(t) ==
  /\ pc[t] = "send"
  /\ Self(t) \in open /\ Out(t) \in Links
  /\ sent' = [sent EXCEPT ![t] = Append(@, Out(t))]
  /\ pc' = [pc EXCEPT ![t] = "sending"]
  /\ UNCHANGED <<open, last, gil, call, result, queue, stored, acked, delivered>>

Store(m) ==
  /\ m.seq <= Len(sent[m.from])
  /\ LinkOf(m)[2] \in open
  /\ Len(queue[LinkOf(m)]) < MaxQueue
  /\ queue' = [queue EXCEPT ![LinkOf(m)] = Append(@, m)]
  /\ stored' = stored \cup {m}
  /\ UNCHANGED <<open, gil, last, pc, call, result, sent, acked, delivered>>

Current(t) == Message(t, Len(sent[t]))

SendReturns(t) ==
  /\ pc[t] = "sending"
  /\ Current(t) \in stored
  /\ acked' = acked \cup {Current(t)}
  /\ Return(t)
  /\ UNCHANGED <<open, last, result, sent, queue, stored, delivered>>

SendThrows(t) ==
  /\ pc[t] = "sending"
  /\ Return(t)
  /\ UNCHANGED <<open, last, result, sent, queue, stored, acked, delivered>>

-----------------------------------------------------------------------------
Receiving(t) == /\ pc[t] \in {"recv", "waiting"}
                /\ Self(t) \in open /\ In(t) \in Links

(* IoChannelImpl::Recv has a string for Python ... *)
Got(t, str) ==
  /\ result' = [result EXCEPT ![t] = str]
  /\ pc' = [pc EXCEPT ![t] = "got"]

(* ... with the first message that waits, at once or after a while ... *)
Take(t) ==
  /\ Receiving(t)
  /\ queue[In(t)] # <<>>
  /\ queue' = [queue EXCEPT ![In(t)] = Tail(@)]
  /\ Got(t, Head(queue[In(t)]))
  /\ UNCHANGED <<open, last, gil, call, sent, stored, acked, delivered>>

Wait(t) ==
  /\ Receiving(t)
  /\ pc[t] = "recv"
  /\ queue[In(t)] = <<>>
  /\ pc' = [pc EXCEPT ![t] = "waiting"]
  /\ UNCHANGED <<open, last, gil, call, result, sent, queue, stored, acked, delivered>>

(* ... or, when the wait expires, with the zeros it was made of; it does   *)
(* not look whether a message has just come in.                            *)
Expire_Never(t) ==
  /\ pc[t] = "waiting"
  /\ pc' = [pc EXCEPT ![t] = "recv"]
  /\ UNCHANGED <<open, last, gil, call, result, sent, queue, stored, acked, delivered>>

Expire_Consumes(t) ==
  /\ pc[t] = "waiting"
  /\ Got(t, Blank)
  /\ queue' = [queue EXCEPT ![In(t)] = IF @ = <<>> THEN @ ELSE Tail(@)]
  /\ UNCHANGED <<open, last, gil, call, sent, stored, acked, delivered>>

Expire(t) ==
  /\ pc[t] = "waiting"
  /\ Got(t, Blank)
  /\ UNCHANGED <<open, last, gil, call, sent, queue, stored, acked, delivered>>

(* Python gets the string. *)
Back(t) ==
  /\ pc[t] = "got"
  /\ delivered' = IF result[t] = Blank THEN delivered
                  ELSE [delivered EXCEPT ![In(t)] = First(@, result[t])]
  /\ result' = [result EXCEPT ![t] = Nothing]
  /\ Return(t)
  /\ UNCHANGED <<open, last, sent, queue, stored, acked>>

-----------------------------------------------------------------------------
Step(t) == \/ Refused(t)
           \/ Send(t) \/ SendReturns(t) \/ SendThrows(t)
           \/ Take(t) \/ Wait(t) \/ Expire(t)
           \/ Back(t)

Next == \/ \E t \in Threads : \/ \E c \in Program[t] : Call(t, c)
                              \/ Acquire(t) \/ Step(t)
        \/ \E m \in Messages : Store(m)

(* A call in C++ goes on and its timeouts expire; the interpreter makes    *)
(* the threads take turns at the GIL.  No message has to arrive.           *)
Fairness == \A t \in Threads : WF_vars(Acquire(t) \/ Step(t))

Spec == Init /\ [][Next]_vars /\ Fairness

-----------------------------------------------------------------------------
(* Recv has taken m and Python does not have it yet. *)
InHand(m) == \E t \in Threads : pc[t] = "got" /\ result[t] = m

(* A message whose Send returned its length is not lost on the way to      *)
(* Python: it waits for a Recv, is in the hands of one, or was delivered.  *)
(* A Recv that times out just when it arrives does not consume it.         *)
AckedIsKept ==
  \A m \in acked :
    \/ m \in Range(queue[LinkOf(m)]) \cup Range(delivered[LinkOf(m)])
    \/ InHand(m)

(* Several threads of one program may Recv from the same peer: Python sees *)
(* a thread's acknowledged messages in the order in which they were sent,  *)
(* because the call that takes a message keeps the GIL until it returns.   *)
DeliveredInOrder ==
  \A l \in Links : \A i \in 1 .. Len(delivered[l]) :
    \A k \in 1 .. delivered[l][i].seq - 1 :
      LET earlier == Message(delivered[l][i].from, k)
      IN earlier \in acked /\ LinkOf(earlier) = l
           => \E j \in 1 .. i - 1 : delivered[l][j] = earlier

(* Every call returns.  While one waits, no other thread of its process    *)
(* can send, so two programs may wait for each other's messages; the       *)
(* timeouts of the calls resolve that.                                     *)
CallsReturn == \A t \in Threads : pc[t] # "idle" ~> pc[t] = "idle"
=============================================================================
