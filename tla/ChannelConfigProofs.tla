------------------------ MODULE ChannelConfigProofs ------------------------
(***************************************************************************)
(* That the nodes of a task fit together, for every set of node ids and    *)
(* every document.                                                         *)
(***************************************************************************)
EXTENDS ChannelConfig, SequenceTheorems, TLAPS

(* What the maps of ChannelConfig and the outcomes of CreateIoChannel have *)
(* to do with one another once a channel exists.                           *)
OpenedFits(n) ==
  /\ n \in task_nodes
  /\ channel[n].servers = ServersUnder(map_policy, n)
  /\ channel[n].clients = ClientsUnder(map_policy, n)
  /\ channel[n].clients # {} => ~IsError(Listen(n))
  /\ \A r \in channel[n].servers : ~IsError(Dial(r))

(* The inductive invariant. *)
CInv ==
  /\ channel \in [Ids -> {channel[n] : n \in Ids}]
  /\ \A n \in Ids :
       /\ channel[n] # NoChannel => stage = "parsed"
       /\ Open(n) => OpenedFits(n)
       /\ channel[n] # NoChannel /\ channel[n].outcome = "neither" => Neither(n)
  /\ answer # NoAnswer => /\ stage = "parsed"
                          /\ answer = [n \in task_nodes |-> ServersUnder(map_policy, n)]

-----------------------------------------------------------------------------
(* BaseServer and BaseClient end in a proxy or in one of their errors. *)
LEMMA ListenEnds ==
  ASSUME NEW n
  PROVE  Listen(n).outcome \in {"direct", "routed", "no_icegrid", "no_public_ip"}
  BY Zenon DEF Listen, Proxy, Threw

LEMMA DialEnds ==
  ASSUME NEW s
  PROVE  Dial(s).outcome \in {"direct", "routed", "no_glacier2", "invalid_cert"}
  BY Zenon DEF Dial, Proxy, Threw

(* How CreateIoChannel may end. *)
LEMMA CreatedEnds ==
  ASSUME NEW n, NEW o \in Created(n)
  PROVE  /\ o.outcome = "open" =>
              /\ o.servers = ServersUnder(map_policy, n)
              /\ o.clients = ClientsUnder(map_policy, n)
              /\ n \in task_nodes
              /\ o.clients # {} => ~IsError(Listen(n))
              /\ \A r \in o.servers : ~IsError(Dial(r))
         /\ o.outcome = "neither" => Neither(n)
<1> DEFINE s == ServersUnder(map_policy, n)
           c == ClientsUnder(map_policy, n)
           failures == {Dial(r) : r \in {x \in s : IsError(Dial(x))}}
<1>1. CASE ~GetNode(n) \/ Unknown(n)
  <2>1. o = Threw("no_find_nid")
    BY <1>1, Zenon DEF Created
  <2>2. QED
    BY <2>1, Zenon DEF Threw
<1>2. CASE GetNode(n) /\ ~Unknown(n) /\ Neither(n)
  <2>1. o = Threw("neither")
    BY <1>2, Zenon DEF Created
  <2>2. QED
    BY <1>2, <2>1, Zenon DEF Threw
<1>3. CASE GetNode(n) /\ ~Unknown(n) /\ ~Neither(n) /\ c # {} /\ IsError(Listen(n))
  <2>1. o = Listen(n)
    BY <1>3, Zenon DEF Created
  <2>2. QED
    BY <2>1, ListenEnds, Zenon
<1>4. CASE o \in IceErrors(s, c)
  <2>1. o \in {Threw("start_service"), Threw("create_client")}
    BY <1>4, Zenon DEF IceErrors
  <2>2. QED
    BY <2>1 DEF Threw
<1>5. CASE /\ GetNode(n) /\ ~Unknown(n) /\ ~Neither(n) /\ o \notin IceErrors(s, c)
           /\ ~(c # {} /\ IsError(Listen(n))) /\ failures # {}
  <2>1. o \in failures
    BY <1>5, Zenon DEF Created
  <2>2. PICK r : o = Dial(r)
    BY <2>1, Zenon
  <2>3. QED
    BY <2>2, DialEnds, Zenon
<1>6. CASE /\ GetNode(n) /\ ~Unknown(n) /\ ~Neither(n) /\ o \notin IceErrors(s, c)
           /\ ~(c # {} /\ IsError(Listen(n))) /\ failures = {}
  <2>1. o = Opened(s, c)
    BY <1>6, Zenon DEF Created
  <2>2. o.outcome = "open" /\ o.servers = s /\ o.clients = c
    BY <2>1, Zenon DEF Opened
  <2>3. \A r \in s : ~IsError(Dial(r))
    BY <1>6, Zenon
  <2>4. QED
    BY <1>6, <2>2, <2>3, Zenon DEF GetNode
<1>7. QED
  BY <1>1, <1>2, <1>3, <1>4, <1>5, <1>6, Zenon

-----------------------------------------------------------------------------
LEMMA InitInv == Init => CInv
  BY Zenon DEF Init, CInv, Open

(* What only depends on the parsed document stays when that does. *)
LEMMA ParsedKept ==
  ASSUME UNCHANGED <<doc, ssl_type, stage, root_cert, infos, task_nodes, map_policy>>
  PROVE  /\ \A n : ServersUnder(map_policy, n)' = ServersUnder(map_policy, n)
         /\ \A n : ClientsUnder(map_policy, n)' = ClientsUnder(map_policy, n)
         /\ \A n : Neither(n)' = Neither(n)
         /\ \A n : Listen(n)' = Listen(n)
         /\ \A n : Dial(n)' = Dial(n)
<1>1. \A n : ServersUnder(map_policy, n)' = ServersUnder(map_policy, n)
  BY Zenon DEF ServersUnder, Everybody
<1>2. \A n : ClientsUnder(map_policy, n)' = ClientsUnder(map_policy, n)
  BY Zenon DEF ClientsUnder, Everybody
<1>3. \A n : Neither(n)' = Neither(n)
  BY <1>1, <1>2, Zenon DEF Neither
<1>4. \A n : Listen(n)' = Listen(n)
  BY SMTT(30) DEF Listen, CopyNodeInfo, Proxy, Threw
<1>5. \A n : Dial(n)' = Dial(n)
  BY DEF Dial, GetInfoByNodeId, GetCertInfosFromNode, Proxy, Threw
<1>6. QED
  BY <1>1, <1>2, <1>3, <1>4, <1>5, Zenon

(* While the document is being parsed there is no channel and no answer. *)
LEMMA ParseInv ==
  ASSUME CInv, stage # "parsed", UNCHANGED <<channel, answer>>
  PROVE  CInv'
<1>1. (\A n \in Ids : channel[n] = NoChannel) /\ answer = NoAnswer
  BY Zenon DEF CInv
<1>2. QED
  BY <1>1, Zenon DEF CInv, Open

(* CreateIoChannel gives one node its outcome. *)
LEMMA CreateInv ==
  ASSUME CInv, NEW n \in Ids, CreateIoChannel(n)
  PROVE  CInv'
<1>1. UNCHANGED <<doc, ssl_type, stage, root_cert, infos, task_nodes, map_policy, answer>> /\ stage = "parsed"
  BY Zenon DEF CreateIoChannel
<1>2. PICK o \in Created(n) : channel' = [channel EXCEPT ![n] = o]
  BY Zenon DEF CreateIoChannel
<1>3. channel'[n] = o /\ \A m \in Ids \ {n} : channel'[m] = channel[m]
  BY <1>2, Zenon DEF CInv
<1>4. channel' \in [Ids -> {channel'[m] : m \in Ids}]
  BY <1>2, Zenon DEF CInv
<1>5. answer' # NoAnswer =>
        /\ stage' = "parsed"
        /\ answer' = [m \in task_nodes' |-> ServersUnder(map_policy, m)']
  BY <1>1, ParsedKept, Zenon DEF CInv
<1>6. ASSUME NEW m \in Ids
      PROVE  /\ channel'[m] # NoChannel => stage' = "parsed"
             /\ Open(m)' => OpenedFits(m)'
             /\ channel'[m] # NoChannel /\ channel'[m].outcome = "neither" => Neither(m)'
  <2>1. CASE m = n
    BY <1>1, <1>3, <2>1, ParsedKept, CreatedEnds DEF Open, OpenedFits, IsError
  <2>2. CASE m # n
    BY <1>1, <1>3, <2>2, ParsedKept DEF CInv, Open, OpenedFits, IsError
  <2>3. QED
    BY <2>1, <2>2, Zenon
<1>7. QED
  BY <1>4, <1>5, <1>6, Zenon DEF CInv

(* GetPolicy computes an answer. *)
LEMMA AnswerInv ==
  ASSUME CInv, GetPolicy
  PROVE  CInv'
<1>1. UNCHANGED <<doc, ssl_type, stage, root_cert, infos, task_nodes, map_policy, channel>> /\ stage = "parsed"
  BY Zenon DEF GetPolicy
<1>2. answer' = [n \in task_nodes' |-> ServersUnder(map_policy, n)']
  BY <1>1, ParsedKept, Zenon DEF GetPolicy, PolicyText
<1>3. ASSUME NEW n \in Ids
      PROVE  /\ channel'[n] # NoChannel => stage' = "parsed"
             /\ Open(n)' => OpenedFits(n)'
             /\ channel'[n] # NoChannel /\ channel'[n].outcome = "neither" => Neither(n)'
  BY <1>1, ParsedKept, Zenon DEF CInv, Open, OpenedFits, IsError
<1>4. QED
  BY <1>1, <1>2, <1>3, Zenon DEF CInv

(* The invariant holds throughout. *)
THEOREM Invariance == Spec => []CInv
<1>1. CInv /\ [Next]_vars => CInv'
  <2> SUFFICES ASSUME CInv, [Next]_vars PROVE CInv'
    BY Zenon
  <2>1. CASE UNCHANGED vars
    <3>1. UNCHANGED <<doc, ssl_type, stage, root_cert, infos, task_nodes, map_policy, answer, channel>>
      BY <2>1, Zenon DEF vars
    <3>2. ASSUME NEW n \in Ids
          PROVE  /\ channel'[n] # NoChannel => stage' = "parsed"
                 /\ Open(n)' => OpenedFits(n)'
                 /\ channel'[n] # NoChannel /\ channel'[n].outcome = "neither" => Neither(n)'
      BY <3>1, ParsedKept, Zenon DEF CInv, Open, OpenedFits, IsError
    <3>3. QED
      BY <3>1, <3>2, ParsedKept, Zenon DEF CInv
  <2>2. CASE Load \/ ParseNodeInfo \/ ParseData \/ ParseCompute \/ ParseResult \/ ParsePolicy
    BY <2>2, ParseInv, Zenon DEF Load, ParseNodeInfo, ParseData, ParseCompute, ParseResult,
                          ParsePolicy, ParseList
  <2>3. CASE GetPolicy
    BY <2>3, AnswerInv, Zenon
  <2>4. ASSUME NEW n \in Ids, CreateIoChannel(n) PROVE CInv'
    BY <2>4, CreateInv, Zenon
  <2>5. QED
    BY <2>1, <2>2, <2>3, <2>4, Zenon DEF Next
<1>2. QED
  BY <1>1, InitInv, PTL DEF Spec

-----------------------------------------------------------------------------
(* How far the maps of ChannelConfig are filled at each stage of parse. *)
Parsing ==
  /\ doc \in Docs
  /\ stage \in {"load", "info"} => Known = {} /\ task_nodes = {}
  /\ stage \notin {"load", "info", "threw"} => Known = doc.info

TInv == CInv /\ Parsing /\ TypeOK

(* Peers are node ids of the document. *)
LEMMA PeersAreIds ==
  ASSUME Parsing, TypeOK, NEW n
  PROVE  ServersUnder(map_policy, n) \subseteq Ids /\ ClientsUnder(map_policy, n) \subseteq Ids
<1>1. doc.info \subseteq Ids /\ task_nodes \subseteq Ids
  BY DocAssumption, Zenon DEF Parsing, TypeOK
<1>2. CASE DOMAIN map_policy = {}
  BY <1>1, <1>2, Zenon DEF ServersUnder, ClientsUnder, Everybody
<1>3. CASE DOMAIN map_policy # {}
  <2>1. map_policy = doc.policy
    BY <1>3, Zenon DEF TypeOK, Empty
  <2>2. DOMAIN map_policy \subseteq Ids /\ \A m \in DOMAIN map_policy : map_policy[m] \subseteq Ids
    BY <2>1, DocAssumption, Zenon DEF Parsing
  <2>3. QED
    BY <1>3, <2>2, Zenon DEF ServersUnder, ClientsUnder
<1>4. QED
  BY <1>2, <1>3, Zenon

(* CreateIoChannel opens a channel or throws one of its errors. *)
LEMMA CreatedTypes ==
  ASSUME Parsing, TypeOK, NEW n, NEW o \in Created(n)
  PROVE  o \in Outcomes
<1> DEFINE s == ServersUnder(map_policy, n)
           c == ClientsUnder(map_policy, n)
<1>1. ASSUME NEW w \in Errors PROVE Threw(w) \in Outcomes
  BY DEF Outcomes
<1>2. Opened(s, c) \in Outcomes
  BY PeersAreIds DEF Outcomes
<1>3. ASSUME IsError(Listen(n)) PROVE Listen(n) \in {Threw("no_icegrid"), Threw("no_public_ip")}
  BY <1>3, Zenon DEF Listen, IsError, Proxy
<1>4. ASSUME NEW r, IsError(Dial(r))
      PROVE  Dial(r) \in {Threw("no_glacier2"), Threw("invalid_cert")}
  BY <1>4, Zenon DEF Dial, IsError, Proxy
<1>5. /\ "no_icegrid" \in Errors /\ "no_public_ip" \in Errors /\ "no_glacier2" \in Errors
      /\ "invalid_cert" \in Errors /\ "no_find_nid" \in Errors /\ "neither" \in Errors
      /\ "start_service" \in Errors /\ "create_client" \in Errors
  BY Zenon DEF Errors
<1>6. \/ o \in {Threw("no_find_nid"), Threw("neither"), Threw("start_service"),
                Threw("create_client"), Opened(s, c)}
      \/ IsError(Listen(n)) /\ o = Listen(n)
      \/ \E r : IsError(Dial(r)) /\ o = Dial(r)
  BY Zenon DEF Created, IceErrors
<1>7. QED
  BY <1>1, <1>2, <1>3, <1>4, <1>5, <1>6, Zenon

(* The parts of parse fill one map each. *)
LEMMA ParseTypes ==
  ASSUME TInv,
         Load \/ ParseNodeInfo \/ ParseData \/ ParseCompute \/ ParseResult \/ ParsePolicy
  PROVE  Parsing' /\ TypeOK'
<1>1. answer = NoAnswer /\ UNCHANGED <<answer, channel, doc, ssl_type>>
  BY Zenon DEF TInv, CInv, Load, ParseNodeInfo, ParseData, ParseCompute, ParseResult, ParsePolicy,
         ParseList
<1>2. CASE Load
  BY <1>1, <1>2, Zenon DEF TInv, Parsing, TypeOK, Load, Known
<1>3. CASE ParseNodeInfo
  <2>1. root_cert' \in BOOLEAN
    BY <1>3, DocAssumption, Zenon DEF ParseNodeInfo, TInv, Parsing
  <2>2. QED
    BY <1>1, <1>3, <2>1, Zenon DEF TInv, Parsing, TypeOK, ParseNodeInfo, Known
<1>4. ASSUME NEW list, NEW next \in {"compute", "result", "policy"},
             stage \in {"data", "compute", "result"}, ParseList(list, next)
      PROVE  Parsing' /\ TypeOK'
  BY <1>1, <1>4, Zenon DEF TInv, Parsing, TypeOK, ParseList, Known
<1>5. CASE ParsePolicy
  BY <1>1, <1>5, Zenon DEF TInv, Parsing, TypeOK, ParsePolicy, Known
<1>6. QED
  BY <1>2, <1>3, <1>4, <1>5, Zenon DEF ParseData, ParseCompute, ParseResult

(* For any document: what parse has kept so far fits the document, only    *)
(* nodes with node info take part, and CreateIoChannel ends in a channel   *)
(* between node ids or in one of its errors.                               *)
THEOREM DocumentTypes == Spec => []TypeOK
<1>1. Init => Parsing /\ TypeOK
  BY Zenon DEF Init, Parsing, TypeOK, Known, Empty
<1>2. TInv /\ Next => Parsing' /\ TypeOK'
  <2> SUFFICES ASSUME TInv, Next PROVE Parsing' /\ TypeOK'
    BY Zenon
  <2>1. CASE GetPolicy
    <3>1. UNCHANGED <<doc, ssl_type, stage, root_cert, infos, task_nodes, map_policy, channel>>
      BY <2>1, Zenon DEF GetPolicy
    <3>2. answer' \in [task_nodes -> SUBSET Known]
      BY <2>1, Zenon DEF GetPolicy, PolicyText, Unknown
    <3>3. QED
      BY <3>1, <3>2, Zenon DEF TInv, Parsing, TypeOK, Known
  <2>2. ASSUME NEW n \in Ids, CreateIoChannel(n) PROVE Parsing' /\ TypeOK'
    <3>1. UNCHANGED <<doc, ssl_type, stage, root_cert, infos, task_nodes, map_policy, answer>>
      BY <2>2, Zenon DEF CreateIoChannel
    <3>2. channel' \in [Ids -> Outcomes \cup {NoChannel}]
      <4>1. PICK o \in Created(n) : channel' = [channel EXCEPT ![n] = o]
        BY <2>2, Zenon DEF CreateIoChannel
      <4>2. o \in Outcomes
        BY CreatedTypes, Zenon DEF TInv
      <4>3. QED
        BY <4>1, <4>2, Zenon DEF TInv, TypeOK
    <3>3. QED
      BY <3>1, <3>2, Zenon DEF TInv, Parsing, TypeOK, Known
  <2>3. QED
    BY <2>1, <2>2, ParseTypes, Zenon DEF Next
<1>3. TInv /\ UNCHANGED vars => Parsing' /\ TypeOK'
  BY Zenon DEF TInv, Parsing, TypeOK, vars, Known
<1>4. TypeOK /\ Parsing /\ CInv => TInv
  BY Zenon DEF TInv
<1>5. QED
  BY <1>1, <1>2, <1>3, <1>4, Invariance, PTL DEF Spec

-----------------------------------------------------------------------------
(* Under one policy a counts b among its servers exactly when b counts a   *)
(* among its clients.                                                      *)
LEMMA PolicyMirrors ==
  ASSUME NEW a, NEW b, a # b, a \in task_nodes, b \in task_nodes
  PROVE  b \in ServersUnder(map_policy, a) <=> a \in ClientsUnder(map_policy, b)
  BY Zenon DEF ServersUnder, ClientsUnder, Everybody

(* For any number of nodes and any document, nodes that have a channel     *)
(* agree on who dials whom (GetNodeInfos, evaluated on each of them).      *)
THEOREM NodesAgree == Spec => []Mirror
<1>1. CInv => Mirror
  <2> SUFFICES ASSUME CInv, NEW a \in Ids, NEW b \in Ids, a # b, Open(a), Open(b)
               PROVE  b \in channel[a].servers <=> a \in channel[b].clients
    BY Zenon DEF Mirror
  <2>1. OpenedFits(a) /\ OpenedFits(b)
    BY Zenon DEF CInv
  <2>2. QED
    BY <2>1, PolicyMirrors, Zenon DEF OpenedFits
<1>2. QED
  BY <1>1, Invariance, PTL

(* Server and client side read ROOT_CERT from different places, but of one *)
(* document.                                                               *)
SameRoot == \A n \in Known : infos[n].ca = root_cert

LEMMA RootKept == Spec => []SameRoot
<1>1. Init => SameRoot
  BY Zenon DEF Init, SameRoot, Known, Empty
<1>2. SameRoot /\ [Next]_vars => SameRoot'
  <2> SUFFICES ASSUME SameRoot, [Next]_vars PROVE SameRoot'
    BY Zenon
  <2>1. CASE ParseNodeInfo
    BY <2>1, Zenon DEF ParseNodeInfo, SameRoot, Known, Info
  <2>2. CASE UNCHANGED <<root_cert, infos>>
    BY <2>2, Zenon DEF SameRoot, Known
  <2>3. [Next]_vars => ParseNodeInfo \/ UNCHANGED <<root_cert, infos>>
    BY Zenon DEF Next, vars, Load, ParseData, ParseCompute, ParseResult, ParseList, ParsePolicy,
           GetPolicy, CreateIoChannel
  <2>4. QED
    BY <2>1, <2>2, <2>3, Zenon
<1>3. QED
  BY <1>1, <1>2, PTL DEF Spec

(* For any document a node dials its server the way that server listens:   *)
(* same route, protocol and servant name (BaseClient and BaseServer).      *)
THEOREM RoutesAlwaysMeet == Spec => []RoutesMeet
<1>1. CInv /\ TypeOK /\ SameRoot => RoutesMeet
  <2> SUFFICES ASSUME CInv, TypeOK, SameRoot, NEW a \in Ids, NEW b \in Ids, a # b,
                      Open(a), Open(b), b \in channel[a].servers
               PROVE  Dial(b) = Listen(b)
    BY Zenon DEF RoutesMeet
  <2>1. OpenedFits(a) /\ OpenedFits(b)
    BY Zenon DEF CInv
  <2>2. channel[b].clients # {}
    BY <2>1, PolicyMirrors DEF OpenedFits
  <2>3. ~IsError(Dial(b)) /\ ~IsError(Listen(b))
    BY <2>1, <2>2, Zenon DEF OpenedFits
  <2>4. infos[b].ca = root_cert
    BY <2>1, Zenon DEF OpenedFits, SameRoot, TypeOK
  <2> DEFINE route == IF infos[b].direct THEN "direct" ELSE "routed"
             proxy == [outcome |-> route, protocol |-> IF root_cert THEN "ssl" ELSE "tcp",
                       servant |-> ServantId(doc.task, b)]
  <2>5. Dial(b) = proxy
    BY <2>3, <2>4, Zenon DEF Dial, GetInfoByNodeId, GetCertInfosFromNode, IsError, Threw, Proxy
  <2>6. Listen(b) = proxy
    BY <2>3, Zenon DEF Listen, CopyNodeInfo, IsError, Threw, Proxy
  <2>7. QED
    BY <2>5, <2>6
<1>2. QED
  BY <1>1, Invariance, DocumentTypes, RootKept, PTL

(* No node is a peer of one that GetNodeInfos refuses for having none.     *)
THEOREM PeersAreNotIsolated == Spec => []PeersNotIsolated
<1>1. CInv => PeersNotIsolated
  <2> SUFFICES ASSUME CInv, NEW a \in Ids, NEW b \in Ids, a # b, Open(a),
                      b \in channel[a].servers \cup channel[a].clients,
                      channel[b] # NoChannel, channel[b].outcome = "neither"
               PROVE  FALSE
    BY Zenon DEF PeersNotIsolated
  <2>1. OpenedFits(a) /\ Neither(b)
    BY Zenon DEF CInv
  <2>2. QED
    BY <2>1, Zenon DEF OpenedFits, Neither, ServersUnder, ClientsUnder
<1>2. QED
  BY <1>1, Invariance, PTL

(* What GetPolicy answers can replace the policy it was computed from.     *)
THEOREM AnswerStandsIn == Spec => []AnswerIsPolicy
<1>1. CInv => AnswerIsPolicy
  <2> SUFFICES ASSUME CInv, answer # NoAnswer, answer # Empty, NEW n \in task_nodes
               PROVE  /\ ServersUnder(answer, n) = ServersUnder(map_policy, n)
                      /\ ClientsUnder(answer, n) = ClientsUnder(map_policy, n) \cap task_nodes
    BY Zenon DEF AnswerIsPolicy
  <2>1. answer = [m \in task_nodes |-> ServersUnder(map_policy, m)]
    BY Zenon DEF CInv
  <2>2. DOMAIN answer = task_nodes /\ task_nodes # {}
    BY <2>1, Zenon
  <2>3. ServersUnder(answer, n) = ServersUnder(map_policy, n)
    BY <2>1, <2>2, Zenon DEF ServersUnder
  <2>4. \A k : k \in ClientsUnder(answer, n)
                <=> k \in task_nodes /\ k # n /\ n \in ServersUnder(map_policy, k)
    BY <2>1, <2>2, Zenon DEF ClientsUnder
  <2>5. \A k : k \in ClientsUnder(map_policy, n) \cap task_nodes
                <=> k \in task_nodes /\ k # n /\ n \in ServersUnder(map_policy, k)
    BY Zenon DEF ClientsUnder, ServersUnder, Everybody
  <2>6. QED
    BY <2>3, <2>4, <2>5, Zenon
<1>2. QED
  BY <1>1, Invariance, PTL

-----------------------------------------------------------------------------
(* Replacing characters keeps the length and works place by place. *)
LEMMA FilterIsSeq ==
  ASSUME NEW s \in Seq(Char)
  PROVE  /\ FilterIllChar(s) \in Seq(Char)
         /\ Len(FilterIllChar(s)) = Len(s)
  BY IdAssumption DEF FilterIllChar

(* A servant's name, place by place. *)
LEMMA ServantIdParts ==
  ASSUME NEW t \in Seq(Char), NEW n \in Seq(Char)
  PROVE  /\ Len(ServantId(t, n)) = Len(t) + 1 + Len(n)
         /\ \A i \in 1 .. Len(t) : ServantId(t, n)[i] = FilterIllChar(t)[i]
         /\ \A i \in 1 .. Len(n) :
              ServantId(t, n)[Len(t) + 1 + i] = FilterIllChar(n)[i]
<1> DEFINE s == t \o <<Underscore>> \o n
<1>1. /\ s \in Seq(Char) /\ Len(s) = Len(t) + 1 + Len(n)
      /\ Len(t) \in Nat /\ Len(n) \in Nat
  BY IdAssumption
<1>2. \A i \in 1 .. Len(t) : s[i] = t[i]
  BY IdAssumption
<1>3. \A i \in 1 .. Len(n) : s[Len(t) + 1 + i] = n[i]
  BY IdAssumption
<1> HIDE DEF s
<1>4. /\ Len(FilterIllChar(s)) = Len(t) + 1 + Len(n)
      /\ \A i \in 1 .. Len(t) : FilterIllChar(s)[i] = FilterIllChar(t)[i]
      /\ \A i \in 1 .. Len(n) : FilterIllChar(s)[Len(t) + 1 + i] = FilterIllChar(n)[i]
  <2>1. Len(FilterIllChar(s)) = Len(s)
    BY <1>1, FilterIsSeq, Zenon
  <2>2. QED
    BY <1>1, <1>2, <1>3, <2>1, SMTT(30) DEF FilterIllChar
<1>5. QED
  BY <1>4, Zenon DEF s, ServantId

(* On one node, tasks whose filtered ids differ have servants of different *)
(* names, and so have the nodes of one task: a client finds the server of  *)
(* its own task (base_client.cc, where the task id was added to the name). *)
THEOREM NamesTellApart ==
  ASSUME NEW t \in Seq(Char), NEW u \in Seq(Char), NEW m \in Seq(Char), NEW n \in Seq(Char)
  PROVE  /\ ServantId(t, n) = ServantId(u, n) => FilterIllChar(t) = FilterIllChar(u)
         /\ ServantId(t, m) = ServantId(t, n) => FilterIllChar(m) = FilterIllChar(n)
<1>1. Len(t) \in Nat /\ Len(u) \in Nat /\ Len(m) \in Nat /\ Len(n) \in Nat
  OBVIOUS
<1>2. ASSUME NEW x \in Seq(Char), NEW y \in Seq(Char), Len(x) = Len(y),
             \A i \in 1 .. Len(x) : FilterIllChar(x)[i] = FilterIllChar(y)[i]
      PROVE  FilterIllChar(x) = FilterIllChar(y)
  BY <1>2, FilterIsSeq, SeqEqual
<1>3. ASSUME ServantId(t, n) = ServantId(u, n)
      PROVE  FilterIllChar(t) = FilterIllChar(u)
  <2>1. /\ Len(ServantId(t, n)) = Len(t) + 1 + Len(n)
        /\ \A i \in 1 .. Len(t) : ServantId(t, n)[i] = FilterIllChar(t)[i]
    BY ServantIdParts, Zenon
  <2>2. /\ Len(ServantId(u, n)) = Len(u) + 1 + Len(n)
        /\ \A i \in 1 .. Len(u) : ServantId(u, n)[i] = FilterIllChar(u)[i]
    BY ServantIdParts, Zenon
  <2>3. Len(t) = Len(u)
    BY <1>1, <1>3, <2>1, <2>2
  <2>4. \A i \in 1 .. Len(t) : FilterIllChar(t)[i] = FilterIllChar(u)[i]
    BY <1>3, <2>1, <2>2, <2>3, Zenon
  <2>5. QED
    BY <1>2, <2>3, <2>4, Zenon
<1>4. ASSUME ServantId(t, m) = ServantId(t, n)
      PROVE  FilterIllChar(m) = FilterIllChar(n)
  <2>1. /\ Len(ServantId(t, m)) = Len(t) + 1 + Len(m)
        /\ \A i \in 1 .. Len(m) : ServantId(t, m)[Len(t) + 1 + i] = FilterIllChar(m)[i]
    BY ServantIdParts, Zenon
  <2>2. /\ Len(ServantId(t, n)) = Len(t) + 1 + Len(n)
        /\ \A i \in 1 .. Len(n) : ServantId(t, n)[Len(t) + 1 + i] = FilterIllChar(n)[i]
    BY ServantIdParts, Zenon
  <2>3. Len(m) = Len(n)
    BY <1>1, <1>4, <2>1, <2>2
  <2>4. \A i \in 1 .. Len(m) : FilterIllChar(m)[i] = FilterIllChar(n)[i]
    <3> TAKE i \in 1 .. Len(m)
    <3>1. /\ ServantId(t, m)[Len(t) + 1 + i] = FilterIllChar(m)[i]
          /\ ServantId(t, n)[Len(t) + 1 + i] = FilterIllChar(n)[i]
      BY <2>1, <2>2, <2>3, Zenon
    <3>2. QED
      BY <1>4, <3>1, Zenon
  <2>5. QED
    BY <1>2, <2>3, <2>4, Zenon
<1>5. QED
  BY <1>3, <1>4, Zenon
=============================================================================
