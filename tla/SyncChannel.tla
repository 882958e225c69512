---------------------------- MODULE SyncChannel ----------------------------
(***************************************************************************)
(* One direction of a channel in the default build: threads of one node    *)
(* call ViaNetIO::send on the one SyncClient object for a remote node, the *)
(* Ice runtime carries the call, and IoChannelI::ice_invoke of the remote  *)
(* SyncServer stores the message in the sender's ClientConnection.         *)
(* (core/src/net_io.cc, sync_client.cc, IoChannelI.cc, sync_server.cc)     *)
(*                                                                         *)
(* Ice is external and modelled by what send relies on: a two-way call     *)
(* ends with a reply or with an Ice::Exception; an exception says nothing  *)
(* about the request, which may be lost, may have been executed, or may be *)
(* executed later.  A tick is one second, the length of send's sleep.      *)
(***************************************************************************)
EXTENDS Integers, Sequences, FiniteSets

CONSTANTS Senders,      \* threads that use the SyncClient
          SendTimeout,  \* send_timeout_, in ticks
          MaxSends,     \* bound: sends of all threads
          MaxTries,     \* bound: requests on the wire per send
          MaxClock      \* bound: ticks after which clocks stand still

ASSUME SendAssumption == /\ IsFiniteSet(Senders)
                         /\ SendTimeout \in Nat
                         /\ MaxSends \in Nat
                         /\ MaxTries \in Nat \ {0}
                         /\ MaxClock \in Nat
                         /\ MaxClock >= SendTimeout

VARIABLES known,    \* the remote node has a ClientConnection for this one
          up,       \* the remote SyncServer's adapter is active
          pc,       \* where each thread is in SyncClient::send
          seq,      \* number of sends each thread has begun
          tries,    \* requests of the current send so far
          result,   \* outcome of each finished send, in order
          timer,    \* ticks since timer_.start(); timer_ belongs to the object
          clock,    \* history: ticks since the thread's own send began
          wire,     \* requests on their way
          replies,  \* replies on their way
          inbox     \* messages stored in the ClientConnection, oldest first

vars == <<known, up, pc, seq, tries, result, timer, clock, wire, replies, inbox>>

(* How many sends have begun. *)
Sends == Cardinality({s \in Senders \X (1 .. MaxSends) : s[2] <= seq[s[1]]})

Message_Stale(t) == [from |-> t, seq |-> seq[t] - 1]

Message(t) == [from |-> t, seq |-> seq[t]]
Request(t) == [msg |-> Message(t), try |-> tries[t]]

Returned == "returned"
Threw == "threw"

Init == /\ known \in BOOLEAN
        /\ up = FALSE
        /\ pc = [t \in Senders |-> "idle"]
        /\ seq = [t \in Senders |-> 0]
        /\ tries = [t \in Senders |-> 0]
        /\ result = [t \in Senders |-> <<>>]
        /\ timer = 0
        /\ clock = [t \in Senders |-> 0]
        /\ wire = {}
        /\ replies = {}
        /\ inbox = <<>>

-----------------------------------------------------------------------------
(* SyncServer::SyncServer adds the servant and activates the adapter. *)
StartServer ==
  /\ ~up
  /\ up' = TRUE
  /\ UNCHANGED <<known, pc, seq, tries, result, timer, clock, wire, replies, inbox>>

(* ViaNetIO::send finds the client and SyncClient::send starts timer_. *)
Send_NoRestart(t) ==
  /\ pc[t] = "idle"
  /\ Sends < MaxSends
  /\ seq' = [seq EXCEPT ![t] = @ + 1]
  /\ tries' = [tries EXCEPT ![t] = 0]
  /\ clock' = [clock EXCEPT ![t] = 0]
  /\ pc' = [pc EXCEPT ![t] = "invoke"]
  /\ UNCHANGED <<known, up, result, timer, wire, replies, inbox>>

Send(t) ==
  /\ pc[t] = "idle"
  /\ Sends < MaxSends
  /\ timer' = 0
  /\ seq' = [seq EXCEPT ![t] = @ + 1]
  /\ tries' = [tries EXCEPT ![t] = 0]
  /\ clock' = [clock EXCEPT ![t] = 0]
  /\ pc' = [pc EXCEPT ![t] = "invoke"]
  /\ UNCHANGED <<known, up, result, wire, replies, inbox>>

(* So does a send by a thread that is not followed here: timer_ is all it  *)
(* shares with the sends of Senders, and no bound is put on such sends.    *)
OtherSend ==
  /\ timer' = 0
  /\ UNCHANGED <<known, up, pc, seq, tries, result, clock, wire, replies, inbox>>

(* stub_->ice_invoke puts the request on the wire ... *)
Invoke(t) ==
  /\ pc[t] = "invoke"
  /\ up
  /\ tries[t] < MaxTries
  /\ tries' = [tries EXCEPT ![t] = @ + 1]
  /\ wire' = wire \cup {[msg |-> Message(t), try |-> tries[t] + 1]}
  /\ pc' = [pc EXCEPT ![t] = "waiting"]
  /\ UNCHANGED <<known, up, seq, result, timer, clock, replies, inbox>>

(* ... or cannot connect, for lack of a server or of a network. *)
Refused(t) ==
  /\ pc[t] = "invoke"
  /\ pc' = [pc EXCEPT ![t] = "caught"]
  /\ UNCHANGED <<known, up, seq, tries, result, timer, clock, wire, replies, inbox>>

(* The caller of q still waits for it. *)
Awaited(q) == LET t == q.msg.from IN pc[t] = "waiting" /\ q = Request(t)

(* IoChannelI::ice_invoke: store the message if the map of connections has *)
(* its sender, and reply in any case.                                      *)
Dispatch_ReplyFirst(q) ==
  /\ q \in wire
  /\ wire' = wire \ {q}
  /\ replies' = IF Awaited(q) THEN replies \cup {q} ELSE replies
  /\ \/ inbox' = inbox
     \/ known /\ inbox' = Append(inbox, q.msg)
  /\ UNCHANGED <<known, up, pc, seq, tries, result, timer, clock>>

Dispatch(q) ==
  /\ q \in wire
  /\ wire' = wire \ {q}
  /\ inbox' = IF known THEN Append(inbox, q.msg) ELSE inbox
  /\ replies' = IF Awaited(q) THEN replies \cup {q} ELSE replies
  /\ UNCHANGED <<known, up, pc, seq, tries, result, timer, clock>>

(* A request dies with its connection. *)
Lose(q) ==
  /\ q \in wire
  /\ wire' = wire \ {q}
  /\ UNCHANGED <<known, up, pc, seq, tries, result, timer, clock, replies, inbox>>

(* The reply arrives: send returns nLen. *)
Reply(t) ==
  /\ pc[t] = "waiting"
  /\ Request(t) \in replies
  /\ replies' = replies \ {Request(t)}
  /\ result' = [result EXCEPT ![t] = Append(@, Returned)]
  /\ pc' = [pc EXCEPT ![t] = "idle"]
  /\ UNCHANGED <<known, up, seq, tries, timer, clock, wire, inbox>>

(* The call ends with an exception; a reply under way is lost. *)
Break(t) ==
  /\ pc[t] = "waiting"
  /\ replies' = replies \ {Request(t)}
  /\ pc' = [pc EXCEPT ![t] = "caught"]
  /\ UNCHANGED <<known, up, seq, tries, result, timer, clock, wire, inbox>>

(* The handler: give up once timer_ has reached send_timeout_, else sleep. *)
Catch_NoTimeout(t) ==
  /\ pc[t] = "caught"
  /\ pc' = [pc EXCEPT ![t] = "sleeping"]
  /\ UNCHANGED <<known, up, seq, tries, result, timer, clock, wire, replies, inbox>>

Catch(t) ==
  /\ pc[t] = "caught"
  /\ \/ /\ timer >= SendTimeout
        /\ result' = [result EXCEPT ![t] = Append(@, Threw)]
        /\ pc' = [pc EXCEPT ![t] = "idle"]
     \/ /\ timer < SendTimeout
        /\ pc' = [pc EXCEPT ![t] = "sleeping"]
        /\ UNCHANGED result
  /\ UNCHANGED <<known, up, seq, tries, timer, clock, wire, replies, inbox>>

(* A second passes: sleep(1) is over for those who slept through it. *)
Tick ==
  /\ timer' = IF timer < MaxClock THEN timer + 1 ELSE timer
  /\ clock' = [t \in Senders |->
                 IF pc[t] # "idle" /\ clock[t] < MaxClock
                 THEN clock[t] + 1 ELSE clock[t]]
  /\ pc' = [t \in Senders |-> IF pc[t] = "sleeping" THEN "invoke" ELSE pc[t]]
  /\ \E t \in Senders : pc[t] # "idle"
  /\ UNCHANGED <<known, up, seq, tries, result, wire, replies, inbox>>

-----------------------------------------------------------------------------
Step(t) == Invoke(t) \/ Refused(t) \/ Reply(t) \/ Break(t) \/ Catch(t)

Next == \/ StartServer
        \/ \E t \in Senders : Send(t) \/ Step(t)
        \/ OtherSend
        \/ \E q \in wire : Dispatch(q) \/ Lose(q)
        \/ Tick

(* A thread's next step is taken (a call ends one way or the other) and    *)
(* time passes; nothing obliges the server to come up or the network to    *)
(* deliver.                                                                *)
Fairness == WF_vars(Tick) /\ \A t \in Senders : WF_vars(Step(t))

Spec == Init /\ [][Next]_vars /\ Fairness

-----------------------------------------------------------------------------
Msgs == [from : Senders, seq : 1 .. MaxSends]
Reqs == [msg : Msgs, try : 1 .. MaxTries]

(* Types. *)
TypeOK ==
  /\ known \in BOOLEAN
  /\ up \in BOOLEAN
  /\ pc \in [Senders -> {"idle", "invoke", "waiting", "caught", "sleeping"}]
  /\ seq \in [Senders -> 0 .. MaxSends]
  /\ tries \in [Senders -> 0 .. MaxTries]
  /\ result \in [Senders -> Seq({Returned, Threw})]
  /\ timer \in 0 .. MaxClock
  /\ clock \in [Senders -> 0 .. MaxClock]
  /\ wire \subseteq Reqs
  /\ replies \subseteq Reqs
  /\ inbox \in Seq(Msgs)

Succeeded(m) == /\ m.seq <= Len(result[m.from])
                /\ result[m.from][m.seq] = Returned

(* A thread's successful sends are first received in the order they were   *)
(* made: no later message of the thread, not even a late duplicate's       *)
(* neighbour, overtakes one whose send has returned.                       *)
SuccessesInOrder ==
  \A i \in 1 .. Len(inbox) :
    \A k \in 1 .. inbox[i].seq - 1 :
      LET earlier == [from |-> inbox[i].from, seq |-> k]
      IN Succeeded(earlier) => \E j \in 1 .. i - 1 : inbox[j] = earlier

Promise == INSTANCE AtLeastOnce WITH begun <- seq, store <- inbox

(* The channel keeps send's promise, whatever is lost, broken off and      *)
(* tried again on the way: at-least-once delivery to a node that has a     *)
(* ClientConnection for the sender, and no send to it returns before its   *)
(* message is in that buffer.  A node that has none takes every message    *)
(* for an answered call and stores nothing (IoChannelI.cc:44-48).          *)
ImplementsAtLeastOnce == Promise!Spec

ThrowsNow(t) == /\ Len(result'[t]) > Len(result[t])
                /\ result'[t][Len(result'[t])] = Threw

ThrowsInTime == \A t \in Senders : ThrowsNow(t) => clock[t] >= SendTimeout

(* A send that throws SEND_DATA_TIMEOUT has been trying for send_timeout_, *)
(* even though other threads of the object share its timer_.               *)
NeverThrowsEarly == [][ThrowsInTime]_vars

Restart == timer' < timer

(* Only threads that keep restarting timer_ can keep a send from ending:   *)
(* a send that never returns or throws, be it that the server never comes  *)
(* up or that every connection breaks, is one during which other sends of  *)
(* the object go on starting for ever (sync_client.cc:13).  With no end to *)
(* those it may indeed never end, however small send_timeout_ is.          *)
SendEnds ==
  \A t \in Senders : <>[](pc[t] # "idle") => []<><<Restart>>_vars

(* io_channel_ice.ice:17, "idempotent int send": executing a request more  *)
(* than once is to change nothing.  The loop does have it executed again:  *)
(* a call that breaks says nothing about its request, which may have been  *)
(* dispatched, or may be later, and the next round sends another one.      *)
SendIsIdempotent ==
  \A i, j \in 1 .. Len(inbox) : inbox[i] = inbox[j] => i = j
=============================================================================
