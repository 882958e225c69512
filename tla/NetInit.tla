------------------------------ MODULE NetInit ------------------------------
(***************************************************************************)
(* Bringing a task's nodes up: ViaNetIO::init (core/src/net_io.cc) running *)
(* on every node at its own pace.  A node makes a ClientConnection for     *)
(* each of its clients, starts its server, makes a SyncClient for each of  *)
(* its servers and then either (CONNECT_SYNC) exchanges "sync_conn" flags  *)
(* with all its peers or pings its servers.                                *)
(*                                                                         *)
(* `servers' is what ChannelConfig::GetNodeInfos gives every node; the     *)
(* clients of a node are the other nodes that name it as a server          *)
(* (property Mirror of module ChannelConfig).  A node may name itself: it  *)
(* dials itself, but has no ClientConnection for itself, and no server if  *)
(* nobody else is its client.  A flag sent is one successful or      *)
(* broken-off SyncClient::send (module SyncChannel), a flag received one   *)
(* ClientConnection::recv (module ClientConnection).  The loops visit      *)
(* unordered_maps, so in any order.  A flag a retry leaves behind is never *)
(* looked at again: the receiver asks each client for one.                 *)
(***************************************************************************)
EXTENDS Integers, FiniteSets

CONSTANTS Nodes,
          SelfNaming,  \* nodes that the policy may let name themselves
          MayFail,     \* nodes whose steps may end in an exception
          Lossy,       \* replies may be lost
          MaxRestarts  \* bound: times a failed node is started again

ASSUME FailAssumption == /\ SelfNaming \subseteq Nodes
                         /\ MayFail \subseteq Nodes
                         /\ Lossy \in BOOLEAN
                         /\ MaxRestarts \in Nat

VARIABLES servers,    \* node -> ids of remote_server_infos_
          conn_sync,  \* config->conn_sync_, the same everywhere
          pc,         \* where each node's process is
          todo,       \* peers the loop it is in has not dealt with
          conns,      \* client_conn_map_ has been filled
          up,         \* its server's adapter is active
          inbox,      \* clients whose flag waits in their ClientConnection
          restarts,   \* times the node has been started again
          begun       \* history: nodes that have got past StartServer

vars == <<servers, conn_sync, pc, todo, conns, up, inbox, restarts, begun>>
policy == <<servers, conn_sync>>

Clients(n) == {c \in Nodes \ {n} : n \in servers[c]}

(* Every policy in which no node is left out (a node that is gets          *)
(* C_EVENT_CODE_NEITHER_CLIENT_SERVER).                                    *)
Policies == {s \in [Nodes -> SUBSET Nodes] :
               \A n \in Nodes : /\ n \in s[n] => n \in SelfNaming
                                /\ s[n] # {} \/ \E c \in Nodes : n \in s[c]}

Init == /\ servers \in Policies
        /\ conn_sync \in BOOLEAN
        /\ pc = [n \in Nodes |-> "new"]
        /\ todo = [n \in Nodes |-> {}]
        /\ conns = [n \in Nodes |-> FALSE]
        /\ up = [n \in Nodes |-> FALSE]
        /\ inbox = [n \in Nodes |-> {}]
        /\ restarts = [n \in Nodes |-> 0]
        /\ begun = {}

-----------------------------------------------------------------------------
(* A ClientConnection for every client, before the server is started. *)
MakeConns_None(n) ==
  /\ pc[n] = "new"
  /\ pc' = [pc EXCEPT ![n] = "conns"]
  /\ UNCHANGED <<policy, conns, todo, up, inbox, restarts, begun>>

MakeConns(n) ==
  /\ pc[n] = "new"
  /\ conns' = [conns EXCEPT ![n] = TRUE]
  /\ pc' = [pc EXCEPT ![n] = "conns"]
  /\ UNCHANGED <<policy, todo, up, inbox, restarts, begun>>

(* The server, if there is a client to serve. *)
StartServer(n) ==
  /\ pc[n] = "conns"
  /\ up' = [up EXCEPT ![n] = Clients(n) # {}]
  /\ begun' = begun \cup {n}
  /\ pc' = [pc EXCEPT ![n] = "started"]
  /\ UNCHANGED <<policy, todo, conns, inbox, restarts>>

(* A SyncClient for every server; then the flags or the pings. *)
CreateClients_RecvFirst(n) ==
  /\ pc[n] = "started"
  /\ todo' = [todo EXCEPT ![n] = IF conn_sync THEN Clients(n) ELSE servers[n]]
  /\ pc' = [pc EXCEPT ![n] = IF conn_sync THEN "recv" ELSE "ping"]
  /\ UNCHANGED <<policy, conns, up, inbox, restarts, begun>>

CreateClients(n) ==
  /\ pc[n] = "started"
  /\ todo' = [todo EXCEPT ![n] = servers[n]]
  /\ pc' = [pc EXCEPT ![n] = IF conn_sync THEN "send" ELSE "ping"]
  /\ UNCHANGED <<policy, conns, up, inbox, restarts, begun>>

-----------------------------------------------------------------------------
(* IoChannelI stores what comes from a client it has a ClientConnection    *)
(* for; from anyone else it acknowledges and drops it.                     *)
Stored(s, n) == IF conns[s] /\ n \in Clients(s)
                THEN [inbox EXCEPT ![s] = @ \cup {n}] ELSE inbox

(* The flag to s: send tries until it gets through ... *)
SendFlag(n, s) ==
  /\ pc[n] = "send"
  /\ s \in todo[n]
  /\ up[s]
  /\ inbox' = Stored(s, n)
  /\ todo' = [todo EXCEPT ![n] = @ \ {s}]
  /\ UNCHANGED <<policy, pc, conns, up, restarts, begun>>

(* ... which its peer may know before the sender does. *)
LostReply(n, s) ==
  /\ Lossy
  /\ pc[n] = "send"
  /\ s \in todo[n]
  /\ up[s]
  /\ inbox' = Stored(s, n)
  /\ UNCHANGED <<policy, pc, todo, conns, up, restarts, begun>>

AllSent_Servers(n) ==
  /\ pc[n] = "send"
  /\ todo[n] = {}
  /\ todo' = [todo EXCEPT ![n] = servers[n]]
  /\ pc' = [pc EXCEPT ![n] = "recv"]
  /\ UNCHANGED <<policy, conns, up, inbox, restarts, begun>>

AllSent(n) ==
  /\ pc[n] = "send"
  /\ todo[n] = {}
  /\ todo' = [todo EXCEPT ![n] = Clients(n)]
  /\ pc' = [pc EXCEPT ![n] = "recv"]
  /\ UNCHANGED <<policy, conns, up, inbox, restarts, begun>>

(* The flag of client c: recv waits until it is there.  (When recv returns *)
(* 0 instead, init throws RECV_DATA_TIMEOUT: Fail.)                        *)
RecvFlag_IgnoreTimeout(n, c) ==
  /\ pc[n] = "recv"
  /\ c \in todo[n]
  /\ inbox' = [inbox EXCEPT ![n] = @ \ {c}]
  /\ todo' = [todo EXCEPT ![n] = @ \ {c}]
  /\ UNCHANGED <<policy, pc, conns, up, restarts, begun>>

RecvFlag(n, c) ==
  /\ pc[n] = "recv"
  /\ c \in todo[n]
  /\ c \in inbox[n]
  /\ inbox' = [inbox EXCEPT ![n] = @ \ {c}]
  /\ todo' = [todo EXCEPT ![n] = @ \ {c}]
  /\ UNCHANGED <<policy, pc, conns, up, restarts, begun>>

(* CheckConnStatus pings s until it answers. *)
Ping(n, s) ==
  /\ pc[n] = "ping"
  /\ s \in todo[n]
  /\ up[s]
  /\ todo' = [todo EXCEPT ![n] = @ \ {s}]
  /\ UNCHANGED <<policy, pc, conns, up, inbox, restarts, begun>>

(* init returns true. *)
Ready(n) ==
  /\ pc[n] \in {"recv", "ping"}
  /\ todo[n] = {}
  /\ pc' = [pc EXCEPT ![n] = "ready"]
  /\ UNCHANGED <<policy, todo, conns, up, inbox, restarts, begun>>

-----------------------------------------------------------------------------
(* The ViaNetIO is destroyed, its server and connections with it. *)
Destroyed(n) ==
  /\ todo' = [todo EXCEPT ![n] = {}]
  /\ conns' = [conns EXCEPT ![n] = FALSE]
  /\ up' = [up EXCEPT ![n] = FALSE]
  /\ inbox' = [inbox EXCEPT ![n] = {}]
  /\ UNCHANGED <<policy, begun>>

(* An exception leaves init: the server or a client could not be made, or  *)
(* a send, a recv or a ping timed out.                                     *)
Fail(n) ==
  /\ n \in MayFail
  /\ \/ pc[n] \in {"conns", "started"}
     \/ pc[n] \in {"send", "recv", "ping"} /\ todo[n] # {}
  /\ pc' = [pc EXCEPT ![n] = "failed"]
  /\ Destroyed(n)
  /\ UNCHANGED restarts

(* The node has done its part of the task and its process ends. *)
Leave(n) ==
  /\ pc[n] = "ready"
  /\ pc' = [pc EXCEPT ![n] = "left"]
  /\ Destroyed(n)
  /\ UNCHANGED restarts

(* A failed node is started again. *)
Restart(n) ==
  /\ pc[n] = "failed"
  /\ restarts[n] < MaxRestarts
  /\ restarts' = [restarts EXCEPT ![n] = @ + 1]
  /\ pc' = [pc EXCEPT ![n] = "new"]
  /\ UNCHANGED <<policy, todo, conns, up, inbox, begun>>

Step(n) == \/ MakeConns(n) \/ StartServer(n) \/ CreateClients(n)
           \/ \E s \in Nodes : SendFlag(n, s) \/ Ping(n, s) \/ RecvFlag(n, s)
           \/ AllSent(n) \/ Ready(n)
           \/ Fail(n)

Next == \E n \in Nodes : \/ Step(n) \/ Leave(n) \/ Restart(n)
                         \/ \E s \in Nodes : LostReply(n, s)

(* Every node is started, and a step that can be taken is taken; a call    *)
(* that cannot succeed times out (Fail, where it is allowed).  Nobody has  *)
(* to leave, to be started again or to lose a reply.                       *)
Fairness == \A n \in Nodes : WF_vars(Step(n))

Spec == Init /\ [][Next]_vars /\ Fairness

-----------------------------------------------------------------------------
Stages == {"new", "conns", "started", "send", "recv", "ping", "ready", "failed", "left"}

(* Types; the loop over client_obj_map_ deals with servers, the one over   *)
(* client_conn_map_ with clients, only clients leave a flag, and no server *)
(* is up without the ClientConnections it writes to.                       *)
TypeOK == /\ servers \in [Nodes -> SUBSET Nodes]
          /\ conn_sync \in BOOLEAN
          /\ pc \in [Nodes -> Stages]
          /\ todo \in [Nodes -> SUBSET Nodes]
          /\ conns \in [Nodes -> BOOLEAN]
          /\ up \in [Nodes -> BOOLEAN]
          /\ inbox \in [Nodes -> SUBSET Nodes]
          /\ restarts \in [Nodes -> 0 .. MaxRestarts]
          /\ begun \subseteq Nodes
          /\ \A n \in Nodes :
               /\ pc[n] \in {"send", "ping"} => todo[n] \subseteq servers[n]
               /\ pc[n] = "recv" => todo[n] \subseteq Clients(n)
               /\ inbox[n] \subseteq Clients(n)
               /\ up[n] => conns[n]

Done(n) == pc[n] \in {"ready", "left"}

(* What init's return tells the application.  With CONNECT_SYNC: every     *)
(* peer, client or server, has started its own server; without it, every   *)
(* server has, and nothing is known about the clients.                     *)
Barrier ==
  \A n \in Nodes : Done(n) =>
    /\ servers[n] \subseteq begun
    /\ conn_sync => Clients(n) \subseteq begun

(* s has had n's flag: it waits in the ClientConnection or was received. *)
Has(s, n) == \/ n \in inbox[s]
             \/ pc[s] = "recv" /\ n \notin todo[s]
             \/ pc[s] = "ready"

(* A flag that was acknowledged is not dropped: as long as the server that *)
(* took it lives, it has it.  (IoChannelI acknowledges and drops a message *)
(* when the ClientConnection is missing, so init has to make those before  *)
(* it starts the server.  A node's flag to itself is dropped, and it does  *)
(* not wait for it.)                                                       *)
NoFlagDropped ==
  \A n \in Nodes : \A s \in servers[n] \ {n} :
    /\ conn_sync
    /\ \/ pc[n] = "send" /\ s \notin todo[n]
       \/ pc[n] \in {"recv", "ready", "left"}
    /\ pc[s] \notin {"failed", "left"}
    /\ restarts[s] = 0
    => Has(s, n)
=============================================================================
