--------------------------- MODULE ChannelConfig ---------------------------
(***************************************************************************)
(* From the configuration document to who connects to whom and how:        *)
(* ChannelConfig::parse, GetNode and GetNodeInfos (core/src/config.cc),    *)
(* IoChannelImpl::GetPolicy and CreateIoChannel (io_channel_impl.cc), and  *)
(* the choice of route in BaseServer and BaseClient.  Every node of a task *)
(* is given the same document and works out its own peers from it; nothing *)
(* is negotiated afterwards, so the results have to fit together.          *)
(*                                                                         *)
(* A document says whether it is JSON at all, which nodes NODE_INFO        *)
(* describes, which are data, computation and result nodes, the POLICY (an *)
(* empty function when it is missing, empty or a string), and of each node *)
(* whether its ADDRESS has a port ("direct"), whether its Glacier2 and     *)
(* IceGrid entries are complete, whether its PUBLIC_IP is empty ("hidden") *)
(* and whether it has a SERVER_CERT ("scert") and a CLIENT_CERT ("ccert"). *)
(* ROOT_CERT ("ssl") makes every node use SSL.  Of a path only whether it  *)
(* is empty is kept: that is all the code asks.  VIA names, which nothing  *)
(* dials, and the numeric settings are left out.  Task and node ids are    *)
(* strings: servants are named after them.                                 *)
(***************************************************************************)
EXTENDS Integers, Sequences, FiniteSets

CONSTANTS Char,        \* characters of ids
          Illegal,     \* C_Illegal_Strings
          Underscore,
          Ids,         \* node ids
          Docs,        \* configuration documents
          SslTypes,    \* values of SSL_TYPE the SDK is built with
          NoAnswer,    \* GetPolicy has not returned
          NoChannel    \* the node has no channel yet

ASSUME IdAssumption == /\ Ids \subseteq Seq(Char)
                       /\ Underscore \in Char
                       /\ Illegal \subseteq Char

ASSUME DocAssumption ==
  \A d \in Docs :
    /\ d.task \in Seq(Char)
    /\ d.ssl \in BOOLEAN /\ d.json \in BOOLEAN
    /\ {d.info, d.data, d.compute, d.result, d.direct, d.glacier2, d.icegrid,
        d.hidden, d.scert, d.ccert} \subseteq SUBSET Ids
    /\ DOMAIN d.policy \subseteq Ids
    /\ \A n \in DOMAIN d.policy : d.policy[n] \subseteq Ids

VARIABLES doc,         \* the document all nodes are given
          ssl_type,    \* SSL_TYPE of the nodes' build
          stage,       \* how far parse is
          root_cert,   \* root_cert_ is not empty
          infos,       \* node_info_config_ and the maps from nodes to routers
          task_nodes,  \* task_nodes_
          map_policy,  \* map_policy_
          answer,      \* what GetPolicy has returned
          channel      \* node -> outcome of CreateIoChannel

vars == <<doc, ssl_type, stage, root_cert, infos, task_nodes, map_policy, answer, channel>>

Empty == [n \in {} |-> {}]

(* What is kept of a Node, with CA_CERT_PATH ("ca"), and its routers. *)
Info(d, n) == [direct |-> n \in d.direct, glacier2 |-> n \in d.glacier2,
               icegrid |-> n \in d.icegrid, hidden |-> n \in d.hidden,
               ca |-> d.ssl, scert |-> n \in d.scert, ccert |-> n \in d.ccert]

Known == DOMAIN infos

Init == /\ doc \in Docs
        /\ ssl_type \in SslTypes
        /\ stage = "load"
        /\ root_cert = FALSE
        /\ infos = Empty
        /\ task_nodes = {}
        /\ map_policy = Empty
        /\ answer = NoAnswer
        /\ channel = [n \in Ids |-> NoChannel]

-----------------------------------------------------------------------------
(* load reads the file or the string, which has to be JSON. *)
Load ==
  /\ stage = "load"
  /\ stage' = IF doc.json THEN "info" ELSE "threw"
  /\ UNCHANGED <<doc, ssl_type, root_cert, infos, task_nodes, map_policy, answer, channel>>

(* parse notes ROOT_CERT; parse_node_info reads it once more, as the       *)
(* CA_CERT_PATH of the entry it keeps for each node of NODE_INFO.          *)
ParseNodeInfo ==
  /\ stage = "info"
  /\ root_cert' = doc.ssl
  /\ infos' = [n \in doc.info |-> Info(doc, n)]
  /\ stage' = "data"
  /\ UNCHANGED <<doc, ssl_type, task_nodes, map_policy, answer, channel>>

(* parse_data, parse_compute, parse_result: every id of the list must have *)
(* node info.                                                              *)
ParseList_Unchecked(list, next) ==
  /\ task_nodes' = task_nodes \cup list
  /\ stage' = next
  /\ UNCHANGED <<doc, ssl_type, root_cert, infos, map_policy, answer, channel>>

ParseList(list, next) ==
  /\ \/ /\ list \subseteq Known
        /\ task_nodes' = task_nodes \cup list
        /\ stage' = next
     \/ /\ ~(list \subseteq Known)
        /\ stage' = "threw"
        /\ UNCHANGED task_nodes
  /\ UNCHANGED <<doc, ssl_type, root_cert, infos, map_policy, answer, channel>>

ParseData == stage = "data" /\ ParseList(doc.data, "compute")
ParseCompute == stage = "compute" /\ ParseList(doc.compute, "result")
ParseResult == stage = "result" /\ ParseList(doc.result, "policy")

ParsePolicy ==
  /\ stage = "policy"
  /\ map_policy' = doc.policy
  /\ stage' = "parsed"
  /\ UNCHANGED <<doc, ssl_type, root_cert, infos, task_nodes, answer, channel>>

-----------------------------------------------------------------------------
(* GetNodeInfos under policy p; an empty one means everybody to everybody. *)
Everybody(n) == task_nodes \ {n}

ServersUnder(p, n) ==
  IF DOMAIN p = {} THEN Everybody(n)
  ELSE IF n \in DOMAIN p THEN p[n] ELSE {}

ClientsUnder_AndServers(p, n) ==
  IF DOMAIN p = {} THEN Everybody(n)
  ELSE {k \in DOMAIN p : k # n /\ n \in p[k]} \cup ServersUnder(p, n)

ClientsUnder(p, n) ==
  IF DOMAIN p = {} THEN Everybody(n)
  ELSE {k \in DOMAIN p : k # n /\ n \in p[k]}

Unknown(n) == ~(ServersUnder(map_policy, n) \subseteq Known)

Neither_NoClients(n) == /\ DOMAIN map_policy # {}
                        /\ ClientsUnder(map_policy, n) = {}

Neither(n) == /\ DOMAIN map_policy # {}
              /\ ServersUnder(map_policy, n) = {}
              /\ ClientsUnder(map_policy, n) = {}

(* IoChannelImpl::GetPolicy: the servers of every task node, as a policy. *)
PolicyText_Clients(n) == ClientsUnder(map_policy, n)

PolicyText(n) == ServersUnder(map_policy, n)

GetPolicy ==
  /\ stage = "parsed"
  /\ answer = NoAnswer
  /\ ~ \E n \in task_nodes : Unknown(n) \/ Neither(n)
  /\ answer' = [n \in task_nodes |-> PolicyText(n)]
  /\ UNCHANGED <<doc, ssl_type, stage, root_cert, infos, task_nodes, map_policy, channel>>

-----------------------------------------------------------------------------
(* GetNode looks for the node itself among the lists of the task. *)
GetNode(n) == n \in task_nodes

(* The name under which task t's server on node n is found, apart from its *)
(* prefix: characters that mean something in an Ice proxy are replaced.    *)
FilterIllChar(str) ==
  [i \in 1 .. Len(str) |-> IF str[i] \in Illegal THEN Underscore ELSE str[i]]

ServantId(t, n) == FilterIllChar(t \o <<Underscore>> \o n)

Threw(why) == [outcome |-> why]

Proxy(route, info, name) ==
  [outcome |-> route, protocol |-> IF info.ca THEN "ssl" ELSE "tcp", servant |-> name]

IsError(p) == p.outcome \notin {"direct", "routed"}

(* A node's own NodeInfo. *)
CopyNodeInfo(n) ==
  LET node == infos[n]
  IN [direct |-> node.direct, icegrid |-> node.icegrid, hidden |-> node.hidden,
      ca |-> root_cert]

(* BaseServer and SyncServer, given that: listen at the address, or        *)
(* register with IceGrid.                                                  *)
Listen_RawName(n) ==
  LET info == CopyNodeInfo(n)
      name == doc.task \o <<Underscore>> \o n
  IN IF info.direct THEN Proxy("direct", info, name)
     ELSE IF ~info.icegrid THEN Threw("no_icegrid")
     ELSE IF info.hidden THEN Threw("no_public_ip")
     ELSE Proxy("routed", info, name)

Listen(n) ==
  LET info == CopyNodeInfo(n)
      name == ServantId(doc.task, n)
  IN IF info.direct THEN Proxy("direct", info, name)
     ELSE IF ~info.icegrid THEN Threw("no_icegrid")
     ELSE IF info.hidden THEN Threw("no_public_ip")
     ELSE Proxy("routed", info, name)

(* Whether a client has the certificates SSL needs; with SSL_TYPE 2 the CA *)
(* stands in for the server's.                                             *)
GetCertInfosFromNode(node) ==
  [ca |-> node.ca,
   both |-> (IF ssl_type = 2 THEN node.ca ELSE node.scert) /\ node.ccert]

(* The ViaInfo of a server. *)
GetInfoByNodeId(s) ==
  LET node == infos[s]
      certs == GetCertInfosFromNode(node)
  IN [direct |-> node.direct, glacier2 |-> node.glacier2, ca |-> certs.ca, certs |-> certs.both]

(* BaseClient, given that: dial the server, or go through its Glacier2     *)
(* router.  (The text of the proxy is never empty, so stringToProxy and    *)
(* propertyToProxy return one or throw, and INVALID_PROXY is not reached.) *)
Dial(s) ==
  LET info == GetInfoByNodeId(s)
      name == ServantId(doc.task, s)
  IN IF ~info.direct /\ ~info.glacier2 THEN Threw("no_glacier2")
     ELSE IF info.ca /\ ~info.certs THEN Threw("invalid_cert")
     ELSE Proxy(IF info.direct THEN "direct" ELSE "routed", info, name)

Opened(s, c) == [outcome |-> "open", servers |-> s, clients |-> c]

(* Ice may refuse to start the server (START_SERVICE: the port is taken),  *)
(* or to make a client (CREATE_CLIENT: its router cannot be reached).      *)
IceErrors(s, c) ==
  {Threw("start_service") : k \in c}
    \cup {Threw("create_client") : r \in {x \in s : ~IsError(Dial(x))}}

(* How CreateIoChannel ends: GetNode, GetNodeInfos, and in ViaNetIO::init  *)
(* the server (if there are clients), then a client for every server.      *)
Created(n) ==
  LET s == ServersUnder(map_policy, n)
      c == ClientsUnder(map_policy, n)
      failures == {Dial(r) : r \in {x \in s : IsError(Dial(x))}}
  IN IF ~GetNode(n) \/ Unknown(n) THEN {Threw("no_find_nid")}
     ELSE IF Neither(n) THEN {Threw("neither")}
     ELSE IF c # {} /\ IsError(Listen(n)) THEN {Listen(n)}
     ELSE IceErrors(s, c) \cup (IF failures # {} THEN failures ELSE {Opened(s, c)})

CreateIoChannel(n) ==
  /\ stage = "parsed"
  /\ channel[n] = NoChannel
  /\ \E o \in Created(n) : channel' = [channel EXCEPT ![n] = o]
  /\ UNCHANGED <<doc, ssl_type, stage, root_cert, infos, task_nodes, map_policy, answer>>

Next == \/ Load \/ ParseNodeInfo \/ ParseData \/ ParseCompute \/ ParseResult \/ ParsePolicy
        \/ GetPolicy
        \/ \E n \in Ids : CreateIoChannel(n)

Spec == Init /\ [][Next]_vars

-----------------------------------------------------------------------------
Errors == {"no_find_nid", "neither", "no_icegrid", "no_public_ip", "no_glacier2",
           "invalid_cert", "start_service", "create_client"}
Outcomes == {Threw(w) : w \in Errors}
              \cup {Opened(s, c) : s, c \in SUBSET Ids}

(* Types; a node that takes part in the task, or that a channel connects   *)
(* to, is one NODE_INFO describes.                                         *)
TypeOK ==
  /\ ssl_type \in SslTypes
  /\ root_cert \in BOOLEAN
  /\ Known \in {{}, doc.info}
  /\ stage \in {"load", "info", "data", "compute", "result", "policy", "parsed", "threw"}
  /\ task_nodes \subseteq Known
  /\ map_policy \in {Empty, doc.policy}
  /\ answer = NoAnswer \/ answer \in [task_nodes -> SUBSET Known]
  /\ channel \in [Ids -> Outcomes \cup {NoChannel}]

Open(n) == channel[n] # NoChannel /\ channel[n].outcome = "open"

(* Two nodes that work out their peers separately agree: a dials b exactly *)
(* when b expects a (and so has a ClientConnection for it; a message from  *)
(* anybody else is dropped).  A node that names itself is the exception.   *)
Mirror ==
  \A a, b \in Ids :
    a # b /\ Open(a) /\ Open(b)
      => (b \in channel[a].servers <=> a \in channel[b].clients)

(* A client dials its server the way that server listens: directly or by   *)
(* way of the proxies, with or without SSL, and under the same servant     *)
(* name.  The two sides decide on their own, each from its own copy: the   *)
(* server from root_cert_ and its NodeInfo, the client from CA_CERT_PATH   *)
(* and the routers in the server's ViaInfo.                                *)
RoutesMeet ==
  \A a, b \in Ids :
    a # b /\ Open(a) /\ Open(b) /\ b \in channel[a].servers
      => Dial(b) = Listen(b)

(* Nobody is a peer of a node that refuses to start because it has none.   *)
PeersNotIsolated ==
  \A a, b \in Ids :
    /\ a # b
    /\ Open(a)
    /\ b \in channel[a].servers \cup channel[a].clients
    /\ channel[b] # NoChannel
    => channel[b].outcome # "neither"

(* GetPolicy's answer can stand in for the POLICY it was computed from:    *)
(* every task node finds the same servers and the same clients among the   *)
(* task's nodes.                                                           *)
AnswerIsPolicy ==
  answer # NoAnswer /\ answer # Empty =>
    \A n \in task_nodes :
      /\ ServersUnder(answer, n) = ServersUnder(map_policy, n)
      /\ ClientsUnder(answer, n) = ClientsUnder(map_policy, n) \cap task_nodes
=============================================================================
