----------------------------- MODULE AsyncServer -----------------------------
(***************************************************************************)
(* The ASYNC_SERVER build: AsyncServer with one WorkQueue thread per       *)
(* client node, and IoChannelI::send_async feeding them                    *)
(* (core/src/async_server.cc, WorkQueue.cc, IoChannelI.cc).                *)
(*                                                                         *)
(* A request is answered when it is queued, not when it is stored.  The    *)
(* worker holds _monitor from the moment it has work until it has none, so *)
(* the calls that need _monitor (add, destroy) run only while the worker   *)
(* is not "running"; each of them is one action.  `stored' is what the     *)
(* worker has written to the node's ClientConnection, oldest first.        *)
(***************************************************************************)
EXTENDS Integers, Sequences

CONSTANTS Nodes,     \* client node ids that have a work queue
          Requests,  \* send requests that may arrive, each once
          Stranger,  \* a node id that has no work queue
          NoNode     \* the request has not been dispatched

ASSUME NodeAssumption == Stranger \notin Nodes /\ NoNode \notin Nodes \cup {Stranger}

VARIABLES adapter,    \* object adapter: "held", "active", "destroyed" or "failed"
          worker,     \* node -> where WorkQueue::run is
          signalled,  \* node -> _monitor has been notified since the worker waits
          done,       \* node -> _done
          callbacks,  \* node -> _callbacks
          stored,     \* node -> requests written to its ClientConnection
          accepted,   \* history: node -> requests answered OK, in that order
          target,     \* request -> the node id it carries
          answers     \* request -> answers given to its callback object

vars == <<adapter, worker, signalled, done, callbacks, stored, accepted, target, answers>>

OK == "response"
Failed == "exception"

Init == /\ adapter = "held"
        /\ worker = [n \in Nodes |-> "new"]
        /\ signalled = [n \in Nodes |-> FALSE]
        /\ done = [n \in Nodes |-> FALSE]
        /\ callbacks = [n \in Nodes |-> <<>>]
        /\ stored = [n \in Nodes |-> <<>>]
        /\ accepted = [n \in Nodes |-> <<>>]
        /\ target = [q \in Requests |-> NoNode]
        /\ answers = [q \in Requests |-> <<>>]

-----------------------------------------------------------------------------
(* AsyncServer::AsyncServer: start every worker, then activate. *)
Start(n) ==
  /\ adapter = "held"
  /\ worker[n] = "new"
  /\ worker' = [worker EXCEPT ![n] = "started"]
  /\ UNCHANGED <<adapter, signalled, done, callbacks, stored, accepted, target, answers>>

Activate ==
  /\ adapter = "held"
  /\ \A n \in Nodes : worker[n] # "new"
  /\ adapter' = "active"
  /\ UNCHANGED <<worker, signalled, done, callbacks, stored, accepted, target, answers>>

(* Adding the servant, starting a thread or activating the adapter fails   *)
(* and the constructor throws.  The destructor then does not run: nobody   *)
(* destroys the queues, and the workers already started wait for ever.     *)
ConstructorThrows ==
  /\ adapter = "held"
  /\ adapter' = "failed"
  /\ UNCHANGED <<worker, signalled, done, callbacks, stored, accepted, target, answers>>

-----------------------------------------------------------------------------
MonitorFree(n) == worker[n] # "running"

Answer(q, a) == answers' = [answers EXCEPT ![q] = Append(@, a)]

(* WorkQueue::add: answer, wake the worker if the list was empty, append. *)
Add_NoNotify(n, q) ==
  /\ MonitorFree(n)
  /\ \/ /\ ~done[n]
        /\ Answer(q, OK)
        /\ callbacks' = [callbacks EXCEPT ![n] = Append(@, q)]
        /\ accepted' = [accepted EXCEPT ![n] = Append(@, q)]
        /\ UNCHANGED signalled
     \/ /\ done[n]
        /\ Answer(q, Failed)
        /\ UNCHANGED <<signalled, callbacks, accepted>>

Add(n, q) ==
  /\ MonitorFree(n)
  /\ \/ /\ ~done[n]
        /\ Answer(q, OK)
        /\ signalled' = [signalled EXCEPT ![n] =
                           @ \/ (callbacks[n] = <<>> /\ worker[n] = "waiting")]
        /\ callbacks' = [callbacks EXCEPT ![n] = Append(@, q)]
        /\ accepted' = [accepted EXCEPT ![n] = Append(@, q)]
     \/ /\ done[n]
        /\ Answer(q, Failed)
        /\ UNCHANGED <<signalled, callbacks, accepted>>

(* IoChannelI::send_async: a node id without a queue gets no answer. *)
SendAsync_Insert(q) ==
  /\ adapter = "active"
  /\ target[q] = NoNode
  /\ \/ \E n \in Nodes : /\ target' = [target EXCEPT ![q] = n]
                         /\ Add(n, q)
     \/ /\ target' = [target EXCEPT ![q] = Stranger]
        /\ callbacks' = [n \in Nodes \cup {Stranger} |->
                           IF n = Stranger THEN <<q>> ELSE callbacks[n]]
        /\ UNCHANGED <<signalled, accepted, answers>>
  /\ UNCHANGED <<adapter, worker, done, stored>>

SendAsync(q) ==
  /\ adapter = "active"
  /\ target[q] = NoNode
  /\ \/ \E n \in Nodes : /\ target' = [target EXCEPT ![q] = n]
                         /\ Add(n, q)
     \/ /\ target' = [target EXCEPT ![q] = Stranger]
        /\ UNCHANGED <<signalled, callbacks, accepted, answers>>
  /\ UNCHANGED <<adapter, worker, done, stored>>

-----------------------------------------------------------------------------
(* WorkQueue::run takes _monitor, at its start or back from wait. *)
Enter(n) ==
  /\ \/ worker[n] = "started"
     \/ worker[n] = "waiting" /\ signalled[n]
  /\ worker' = [worker EXCEPT ![n] = "running"]
  /\ signalled' = [signalled EXCEPT ![n] = FALSE]
  /\ UNCHANGED <<adapter, done, callbacks, stored, accepted, target, answers>>

(* wait may return without a signal; run then finds what it finds. *)
SpuriousEnter(n) ==
  /\ worker[n] = "waiting"
  /\ ~signalled[n]
  /\ worker' = [worker EXCEPT ![n] = "running"]
  /\ UNCHANGED <<adapter, signalled, done, callbacks, stored, accepted, target, answers>>

(* Nothing to do: wait, giving _monitor up. *)
Wait(n) ==
  /\ worker[n] = "running"
  /\ ~done[n]
  /\ callbacks[n] = <<>>
  /\ worker' = [worker EXCEPT ![n] = "waiting"]
  /\ UNCHANGED <<adapter, signalled, done, callbacks, stored, accepted, target, answers>>

(* The first entry goes to the ClientConnection and off the list. *)
WriteFront_KeepEntry(n) ==
  /\ worker[n] = "running"
  /\ ~done[n]
  /\ callbacks[n] # <<>>
  /\ stored' = [stored EXCEPT ![n] = Append(@, Head(callbacks[n]))]
  /\ UNCHANGED <<adapter, worker, signalled, done, callbacks, accepted, target, answers>>

WriteFront(n) ==
  /\ worker[n] = "running"
  /\ ~done[n]
  /\ callbacks[n] # <<>>
  /\ stored' = [stored EXCEPT ![n] = Append(@, Head(callbacks[n]))]
  /\ callbacks' = [callbacks EXCEPT ![n] = Tail(@)]
  /\ UNCHANGED <<adapter, worker, signalled, done, accepted, target, answers>>

(* _done: every entry still on the list is answered with an exception. *)
Exit(n) ==
  /\ worker[n] = "running"
  /\ done[n]
  /\ answers' = [q \in Requests |->
                   IF \E i \in 1 .. Len(callbacks[n]) : callbacks[n][i] = q
                   THEN Append(answers[q], Failed) ELSE answers[q]]
  /\ worker' = [worker EXCEPT ![n] = "exited"]
  /\ UNCHANGED <<adapter, signalled, done, callbacks, stored, accepted, target>>

-----------------------------------------------------------------------------
(* AsyncServer::~AsyncServer calls WorkQueue::destroy on each queue ...    *)
Destroy_NoClear(n) ==
  /\ adapter = "active"
  /\ ~done[n]
  /\ MonitorFree(n)
  /\ done' = [done EXCEPT ![n] = TRUE]
  /\ signalled' = [signalled EXCEPT ![n] = @ \/ worker[n] = "waiting"]
  /\ UNCHANGED <<adapter, worker, callbacks, stored, accepted, target, answers>>

Destroy_NoNotify(n) ==
  /\ adapter = "active"
  /\ ~done[n]
  /\ MonitorFree(n)
  /\ done' = [done EXCEPT ![n] = TRUE]
  /\ callbacks' = [callbacks EXCEPT ![n] = <<>>]
  /\ UNCHANGED <<adapter, worker, signalled, stored, accepted, target, answers>>

Destroy(n) ==
  /\ adapter = "active"
  /\ ~done[n]
  /\ MonitorFree(n)
  /\ done' = [done EXCEPT ![n] = TRUE]
  /\ callbacks' = [callbacks EXCEPT ![n] = <<>>]
  /\ signalled' = [signalled EXCEPT ![n] = @ \/ worker[n] = "waiting"]
  /\ UNCHANGED <<adapter, worker, stored, accepted, target, answers>>

(* ... and then destroys the communicator; no worker is joined. *)
Close ==
  /\ adapter = "active"
  /\ \A n \in Nodes : done[n]
  /\ adapter' = "destroyed"
  /\ UNCHANGED <<worker, signalled, done, callbacks, stored, accepted, target, answers>>

-----------------------------------------------------------------------------
Run(n) == Enter(n) \/ Wait(n) \/ WriteFront(n) \/ Exit(n)

Next == \/ \E n \in Nodes : Start(n) \/ Run(n) \/ SpuriousEnter(n) \/ Destroy(n)
        \/ Activate \/ ConstructorThrows \/ Close
        \/ \E q \in Requests : SendAsync(q)

(* A worker thread that can run does. *)
Fairness == \A n \in Nodes : WF_vars(Run(n))

Spec == Init /\ [][Next]_vars /\ Fairness

-----------------------------------------------------------------------------
Entries(s) == {s[i] : i \in 1 .. Len(s)}

(* Types. *)
TypeOK ==
  /\ adapter \in {"held", "active", "destroyed", "failed"}
  /\ worker \in [Nodes -> {"new", "started", "running", "waiting", "exited"}]
  /\ signalled \in [Nodes -> BOOLEAN]
  /\ done \in [Nodes -> BOOLEAN]
  /\ callbacks \in [Nodes -> Seq(Requests)]
  /\ stored \in [Nodes -> Seq(Requests)]
  /\ accepted \in [Nodes -> Seq(Requests)]
  /\ target \in [Requests -> Nodes \cup {Stranger, NoNode}]
  /\ answers \in [Requests -> Seq({OK, Failed})]

(* No missed notify: add signals only when the list was empty and destroy  *)
(* only once, yet a worker that waits unsignalled has nothing to do and    *)
(* has not been told to stop.                                              *)
NoMissedNotify ==
  \A n \in Nodes : worker[n] = "waiting" /\ ~signalled[n]
                     => callbacks[n] = <<>> /\ ~done[n]

(* Each callback object is answered at most once, although add answers a   *)
(* request that run may find on the list again when it stops; a second     *)
(* answer would be an error of the AMD interface.                          *)
AnsweredOnce == \A q \in Requests : Len(answers[q]) <= 1

(* Until its queue is destroyed, every request that was answered OK is     *)
(* stored or on the list, once, in the order of the answers.               *)
NothingAcceptedIsLost ==
  \A n \in Nodes : ~done[n] => accepted[n] = stored[n] \o callbacks[n]

(* What is stored is always a prefix of what was accepted: destroying the  *)
(* queue may cut the stream but leaves no gap in it.                       *)
StoredIsPrefix ==
  \A n \in Nodes : /\ Len(stored[n]) <= Len(accepted[n])
                    /\ stored[n] = SubSeq(accepted[n], 1, Len(stored[n]))

(* An accepted request reaches the ClientConnection unless the server is   *)
(* destroyed first.                                                        *)
AcceptedIsStored ==
  \A n \in Nodes, q \in Requests :
    q \in Entries(accepted[n]) ~> q \in Entries(stored[n]) \/ done[n]

(* A worker told to stop stops, although the destructor does not join it.  *)
(* (Those of a server whose constructor threw are never told.)             *)
WorkerStops == \A n \in Nodes : done[n] ~> worker[n] = "exited"

(* WorkQueue.cc:39, "Throw exception for any outstanding requests": when   *)
(* the worker has stopped, each request it took and did not store has been *)
(* answered with an exception.                                             *)
OutstandingGetException ==
  \A n \in Nodes : worker[n] = "exited" =>
    \A q \in Entries(accepted[n]) \ Entries(stored[n]) :
      Failed \in Entries(answers[q])
=============================================================================
