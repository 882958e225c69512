----------------------------- MODULE TcpChannel -----------------------------
(***************************************************************************)
(* The channel objects of one process: IoChannelImpl, the singleton that   *)
(* makes them (core/src/io_channel_impl.cc), and the lists TcpChannel      *)
(* hands out as C structures (core/src/tcp_channel.cc).  A list is encoded *)
(* when it is first asked for, kept in a global map under the channel's    *)
(* address, and freed with the channel; there is a map and a mutex for     *)
(* each kind of list.                                                      *)
(*                                                                         *)
(* An encoded list is a block, known by a serial number, with what it was  *)
(* made from.  Send and Recv only forward (modules SyncChannel and         *)
(* ClientConnection).  A creation that fails changes nothing here.         *)
(***************************************************************************)
EXTENDS Integers, FiniteSets

CONSTANTS Threads,   \* application threads
          Channels,  \* TcpChannel objects that may be made
          Kinds,     \* kinds of list: data nodes, current node, ...
          NoThread,
          NoChannel, \* nullptr
          NoBlock

(* An encoded list, and what it was made from. *)
Blocks == [id : Nat, from : Channels \X Kinds]

ASSUME NobodyAssumption == /\ NoThread \notin Threads
                           /\ NoChannel \notin Channels
                           /\ NoBlock \notin Blocks

VARIABLES phase,       \* "run", "exit" (in ~IoChannelImpl) or "over"
          io_channel,  \* IoChannelImpl::io_channel_
          made,        \* channels that exist
          maps,        \* kind -> the g_..._node_map: channel -> block or NoBlock
          mutexes,     \* kind -> holder of the g_..._node_mutex
          heap,        \* encoded lists that are allocated
          serial,      \* blocks allocated so far
          pc,          \* thread -> where it is in a Get... call
          call,        \* thread -> <<channel, kind>> of its last call
          block,       \* thread -> the block its call is about to return
          handed       \* history: <<channel, kind, block>> returned to callers

vars == <<phase, io_channel, made, maps, mutexes, heap, serial, pc, call, block, handed>>
calls == <<pc, call, block, handed>>
lists == <<maps, heap, serial>>

Init == /\ phase = "run"
        /\ io_channel = NoChannel
        /\ made = {}
        /\ maps = [k \in Kinds |-> [c \in Channels |-> NoBlock]]
        /\ mutexes = [k \in Kinds |-> NoThread]
        /\ heap = {}
        /\ serial = 0
        /\ pc = [t \in Threads |-> "idle"]
        /\ call = [t \in Threads |-> <<>>]
        /\ block = [t \in Threads |-> NoBlock]
        /\ handed = {}

-----------------------------------------------------------------------------
(* IoChannelImpl::CreateViaChannel, after init: the channel gets all its   *)
(* lists, then the singleton points to it, and no longer to an earlier one.*)
Create(c) ==
  /\ phase = "run"
  /\ c \notin made
  /\ made' = made \cup {c}
  /\ io_channel' = c
  /\ UNCHANGED <<phase, lists, mutexes, calls>>

(* One of the Get... functions is called. *)
Call(t, c, k) ==
  /\ phase = "run"
  /\ pc[t] = "idle"
  /\ c \in made
  /\ call' = [call EXCEPT ![t] = <<c, k>>]
  /\ pc' = [pc EXCEPT ![t] = "find"]
  /\ UNCHANGED <<phase, io_channel, made, mutexes, lists, block, handed>>

Found(t) == maps[call[t][2]][call[t][1]]

(* It locks the mutex and looks for the channel in the map. *)
Find_NoLock(t) ==
  /\ pc[t] = "find"
  /\ block' = [block EXCEPT ![t] = Found(t)]
  /\ pc' = [pc EXCEPT ![t] = IF Found(t) = NoBlock THEN "encode" ELSE "return"]
  /\ UNCHANGED <<phase, io_channel, made, mutexes, lists, call, handed>>

Find(t) ==
  /\ pc[t] = "find"
  /\ mutexes[call[t][2]] = NoThread
  /\ mutexes' = [mutexes EXCEPT ![call[t][2]] = t]
  /\ block' = [block EXCEPT ![t] = Found(t)]
  /\ pc' = [pc EXCEPT ![t] = IF Found(t) = NoBlock THEN "encode" ELSE "return"]
  /\ UNCHANGED <<phase, io_channel, made, lists, call, handed>>

(* encode_string, encode_vector, encode_map: a new block made from the     *)
(* channel's own list.                                                     *)
Encode(t) ==
  LET new == [id |-> serial, from |-> call[t]]
  IN /\ pc[t] = "encode"
     /\ serial' = serial + 1
     /\ heap' = heap \cup {new}
     /\ block' = [block EXCEPT ![t] = new]
     /\ pc' = [pc EXCEPT ![t] = "insert"]
     /\ UNCHANGED <<phase, io_channel, made, maps, mutexes, call, handed>>

(* insert leaves an entry that is there already alone. *)
Insert(t) ==
  /\ pc[t] = "insert"
  /\ maps' = [maps EXCEPT ![call[t][2]][call[t][1]] = IF @ = NoBlock THEN block[t] ELSE @]
  /\ pc' = [pc EXCEPT ![t] = "return"]
  /\ UNCHANGED <<phase, io_channel, made, mutexes, heap, serial, call, block, handed>>

Return(t) ==
  /\ pc[t] = "return"
  /\ handed' = handed \cup {<<call[t][1], call[t][2], block[t]>>}
  /\ mutexes' = [mutexes EXCEPT ![call[t][2]] = NoThread]
  /\ block' = [block EXCEPT ![t] = NoBlock]
  /\ pc' = [pc EXCEPT ![t] = "idle"]
  /\ UNCHANGED <<phase, io_channel, made, lists, call>>

-----------------------------------------------------------------------------
(* The application's threads have ended and main returns: ~IoChannelImpl   *)
(* deletes the channel it points to, if any.                               *)
Exit ==
  /\ phase = "run"
  /\ \A t \in Threads : pc[t] = "idle"
  /\ phase' = IF io_channel = NoChannel THEN "over" ELSE "exit"
  /\ UNCHANGED <<io_channel, made, mutexes, lists, calls>>

(* ~TcpChannel: one Destroy... function for each kind. *)
Destroy_KeepEntry(k) ==
  /\ phase = "exit"
  /\ maps[k][io_channel] # NoBlock
  /\ heap' = heap \ {maps[k][io_channel]}
  /\ UNCHANGED <<phase, io_channel, made, maps, mutexes, serial, calls>>

Destroy(k) ==
  /\ phase = "exit"
  /\ maps[k][io_channel] # NoBlock
  /\ heap' = heap \ {maps[k][io_channel]}
  /\ maps' = [maps EXCEPT ![k][io_channel] = NoBlock]
  /\ UNCHANGED <<phase, io_channel, made, mutexes, serial, calls>>

Deleted_ForgetsLists ==
  /\ phase = "exit"
  /\ made' = made \ {io_channel}
  /\ io_channel' = NoChannel
  /\ phase' = "over"
  /\ UNCHANGED <<mutexes, lists, calls>>

Deleted ==
  /\ phase = "exit"
  /\ \A k \in Kinds : maps[k][io_channel] = NoBlock
  /\ made' = made \ {io_channel}
  /\ io_channel' = NoChannel
  /\ phase' = "over"
  /\ UNCHANGED <<mutexes, lists, calls>>

Next == \/ \E c \in Channels : Create(c)
        \/ \E t \in Threads, c \in Channels, k \in Kinds : Call(t, c, k)
        \/ \E t \in Threads : Find(t) \/ Encode(t) \/ Insert(t) \/ Return(t)
        \/ Exit
        \/ \E k \in Kinds : Destroy(k)
        \/ Deleted

Spec == Init /\ [][Next]_vars

-----------------------------------------------------------------------------
(* Types; no map refers to a block that has been freed. *)
TypeOK ==
  /\ phase \in {"run", "exit", "over"}
  /\ io_channel \in made \cup {NoChannel}
  /\ made \subseteq Channels
  /\ \A k \in Kinds, c \in Channels : maps[k][c] \in heap \cup {NoBlock}
  /\ mutexes \in [Kinds -> Threads \cup {NoThread}]
  /\ pc \in [Threads -> {"idle", "find", "encode", "insert", "return"}]
  /\ serial \in Nat
  /\ \A b \in heap : b.id \in 0 .. serial - 1

Live(c) == c \in made /\ ~(phase = "exit" /\ c = io_channel)

(* What a Get... function has returned stays valid and the same for the    *)
(* life of the channel, whichever threads ask for it at the same time, and *)
(* is a list of that channel and no other's: callers keep the pointers.    *)
HandedOutStays ==
  \A h \in handed : Live(h[1]) => /\ h[3] = maps[h[2]][h[1]]
                                  /\ h[3] \in heap
                                  /\ h[3].from = <<h[1], h[2]>>

(* Every allocated list is in a map, where its channel's destructor finds  *)
(* it, or on its way there; the only ones left at the end belong to        *)
(* channels that a later one has replaced in io_channel_.                  *)
NothingLeaks ==
  \A b \in heap :
    /\ b.from[1] \in made
    /\ \/ maps[b.from[2]][b.from[1]] = b
       \/ \E t \in Threads : pc[t] = "insert" /\ block[t] = b
=============================================================================
