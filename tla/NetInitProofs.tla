--------------------------- MODULE NetInitProofs ---------------------------
(***************************************************************************)
(* Proofs about modules NetInit and TimedInit: what init's return tells a  *)
(* node (Barrier) and that no acknowledged flag is dropped (NoFlagDropped) *)
(* for any number of nodes, any policy, failures, restarts and lost        *)
(* replies; and that with the clocks nobody gives up (NobodyGivesUp), for  *)
(* any skew, timeouts and sleeps that fit together (TimeAssumption).       *)
(***************************************************************************)
EXTENDS TimedInit, TLAPS

(* Past StartServer, and in a loop over its servers. *)
Begun(n) == pc[n] \in {"started", "send", "recv", "ping", "ready", "left"}
Calling(n) == pc[n] \in {"send", "ping"}

(* Who is known to have begun, at every stage of init: whoever listens or  *)
(* whose flag waits, and each peer the loop of init is done with.          *)
Knowledge ==
  \A n \in Nodes :
    /\ pc[n] = "conns" => conns[n]
    /\ pc[n] = "ping" => ~conn_sync
    /\ up[n] \/ Begun(n) => n \in begun
    /\ inbox[n] \subseteq begun
    /\ Calling(n) => servers[n] \ todo[n] \subseteq begun
    /\ pc[n] = "recv" => /\ servers[n] \subseteq begun
                         /\ Clients(n) \ todo[n] \subseteq begun

IInv == TypeOK /\ Knowledge /\ Barrier /\ NoFlagDropped

-----------------------------------------------------------------------------
(* Nothing has happened yet. *)
LEMMA InitInv == Init => IInv
<1> SUFFICES ASSUME Init PROVE IInv
  BY Zenon
<1>1. TypeOK
  BY FailAssumption DEF Init, TypeOK, Policies, Stages, Clients
<1>2. Knowledge
  BY Zenon DEF Init, Knowledge, Begun, Calling
<1>3. Barrier
  BY Zenon DEF Init, Barrier, Done
<1>4. NoFlagDropped
  BY Zenon DEF Init, NoFlagDropped
<1>5. QED
  BY <1>1, <1>2, <1>3, <1>4, Zenon DEF IInv

(* A node begins: its connections, then its server. *)
LEMMA MakeConnsInv ==
  ASSUME IInv, NEW n \in Nodes, MakeConns(n)
  PROVE  IInv'
<1>1. TypeOK'
  BY Zenon DEF IInv, TypeOK, MakeConns, Stages, Clients, policy
<1>2. Knowledge'
  BY DEF IInv, TypeOK, Knowledge, MakeConns, Begun, Calling, Clients, policy
<1>3. Barrier'
  BY DEF IInv, TypeOK, Barrier, MakeConns, Done, Clients, policy
<1>4. NoFlagDropped'
  BY DEF IInv, TypeOK, NoFlagDropped, MakeConns, Has, policy
<1>5. QED
  BY <1>1, <1>2, <1>3, <1>4, Zenon DEF IInv

(* Its server, if any, has the connections it writes to. *)
LEMMA StartServerInv ==
  ASSUME IInv, NEW n \in Nodes, StartServer(n)
  PROVE  IInv'
<1>1. TypeOK'
  BY Zenon DEF IInv, TypeOK, Knowledge, StartServer, Stages, Clients, policy
<1>2. Knowledge'
  BY DEF IInv, TypeOK, Knowledge, StartServer, Begun, Calling, Clients, policy
<1>3. Barrier'
  BY DEF IInv, TypeOK, Barrier, StartServer, Done, Clients, policy
<1>4. NoFlagDropped'
  BY DEF IInv, TypeOK, NoFlagDropped, StartServer, Has, policy
<1>5. QED
  BY <1>1, <1>2, <1>3, <1>4, Zenon DEF IInv

(* Nothing has been sent yet. *)
LEMMA CreateClientsInv ==
  ASSUME IInv, NEW n \in Nodes, CreateClients(n)
  PROVE  IInv'
<1>1. TypeOK'
  BY Zenon DEF IInv, TypeOK, CreateClients, Stages, Clients, policy
<1>2. Knowledge'
  BY ZenonT(30) DEF IInv, TypeOK, Knowledge, CreateClients, Begun, Calling, Clients, policy
<1>3. Barrier'
  BY DEF IInv, TypeOK, Barrier, CreateClients, Done, Clients, policy
<1>4. NoFlagDropped'
  BY DEF IInv, TypeOK, NoFlagDropped, CreateClients, Has, Clients, policy
<1>5. QED
  BY <1>1, <1>2, <1>3, <1>4, Zenon DEF IInv

(* s is up, so it has begun and has the ClientConnection for the flag. *)
LEMMA SendFlagInv ==
  ASSUME IInv, NEW n \in Nodes, NEW s \in Nodes, SendFlag(n, s)
  PROVE  IInv'
<1>1. TypeOK'
  BY DEF IInv, TypeOK, SendFlag, Stages, Clients, policy, Stored
<1>2. Knowledge'
  BY DEF IInv, TypeOK, Knowledge, SendFlag, Begun, Calling, Clients, policy, Stored
<1>3. Barrier'
  BY Zenon DEF IInv, TypeOK, Barrier, SendFlag, Done, Clients, policy
<1>4. NoFlagDropped'
  BY DEF IInv, TypeOK, NoFlagDropped, SendFlag, Has, Clients, policy, Stored
<1>5. QED
  BY <1>1, <1>2, <1>3, <1>4, Zenon DEF IInv

(* A flag more is stored, or the same again. *)
LEMMA LostReplyInv ==
  ASSUME IInv, NEW n \in Nodes, NEW s \in Nodes, LostReply(n, s)
  PROVE  IInv'
<1>1. TypeOK'
  BY DEF IInv, TypeOK, LostReply, Stages, Clients, policy, Stored
<1>2. Knowledge'
  BY DEF IInv, TypeOK, Knowledge, LostReply, Begun, Calling, Clients, policy, Stored
<1>3. Barrier'
  BY Zenon DEF IInv, TypeOK, Barrier, LostReply, Done, Clients, policy
<1>4. NoFlagDropped'
  BY DEF IInv, TypeOK, NoFlagDropped, LostReply, Has, Clients, policy, Stored
<1>5. QED
  BY <1>1, <1>2, <1>3, <1>4, Zenon DEF IInv

(* The flags that arrived before n began to receive are in its inbox. *)
LEMMA AllSentInv ==
  ASSUME IInv, NEW n \in Nodes, AllSent(n)
  PROVE  IInv'
<1>1. TypeOK'
  BY Zenon DEF IInv, TypeOK, AllSent, Stages, Clients, policy
<1>2. Knowledge'
  BY DEF IInv, TypeOK, Knowledge, AllSent, Begun, Calling, Clients, policy
<1>3. Barrier'
  BY DEF IInv, TypeOK, Barrier, AllSent, Done, Clients, policy
<1>4. NoFlagDropped'
  BY DEF IInv, TypeOK, NoFlagDropped, AllSent, Has, Clients, policy
<1>5. QED
  BY <1>1, <1>2, <1>3, <1>4, Zenon DEF IInv

(* Who has sent a flag has begun. *)
LEMMA RecvFlagInv ==
  ASSUME IInv, NEW n \in Nodes, NEW s \in Nodes, RecvFlag(n, s)
  PROVE  IInv'
<1>1. TypeOK'
  BY Zenon DEF IInv, TypeOK, RecvFlag, Stages, Clients, policy
<1>2. Knowledge'
  BY DEF IInv, TypeOK, Knowledge, RecvFlag, Begun, Calling, Clients, policy
<1>3. Barrier'
  BY Zenon DEF IInv, TypeOK, Barrier, RecvFlag, Done, Clients, policy
<1>4. NoFlagDropped'
  BY DEF IInv, TypeOK, NoFlagDropped, RecvFlag, Has, Clients, policy
<1>5. QED
  BY <1>1, <1>2, <1>3, <1>4, Zenon DEF IInv

(* Who answers has begun. *)
LEMMA PingInv ==
  ASSUME IInv, NEW n \in Nodes, NEW s \in Nodes, Ping(n, s)
  PROVE  IInv'
<1>1. TypeOK'
  BY Zenon DEF IInv, TypeOK, Ping, Stages, Clients, policy
<1>2. Knowledge'
  BY DEF IInv, TypeOK, Knowledge, Ping, Begun, Calling, Clients, policy
<1>3. Barrier'
  BY Zenon DEF IInv, TypeOK, Barrier, Ping, Done, Clients, policy
<1>4. NoFlagDropped'
  BY DEF IInv, TypeOK, NoFlagDropped, Ping, Has, Clients, policy
<1>5. QED
  BY <1>1, <1>2, <1>3, <1>4, Zenon DEF IInv

(* The loops are over: what init knew peer by peer holds for all of them. *)
LEMMA ReadyInv ==
  ASSUME IInv, NEW n \in Nodes, Ready(n)
  PROVE  IInv'
<1>1. TypeOK'
  BY DEF IInv, TypeOK, Ready, Stages, Clients, policy
<1>2. Knowledge'
  BY DEF IInv, TypeOK, Knowledge, Ready, Begun, Calling, Clients, policy
<1>3. Barrier'
  BY DEF IInv, TypeOK, Knowledge, Calling, Barrier, Ready, Done, Clients, policy
<1>4. NoFlagDropped'
  BY DEF IInv, TypeOK, Knowledge, NoFlagDropped, Ready, Has, Clients, policy
<1>5. QED
  BY <1>1, <1>2, <1>3, <1>4, Zenon DEF IInv

(* What a node loses when it is destroyed nobody counts on. *)
LEMMA FailInv ==
  ASSUME IInv, NEW n \in Nodes, Fail(n)
  PROVE  IInv'
<1>1. TypeOK'
  BY Zenon DEF IInv, TypeOK, Fail, Stages, Clients, policy, Destroyed
<1>2. Knowledge'
  BY DEF IInv, TypeOK, Knowledge, Fail, Begun, Calling, Clients, policy, Destroyed
<1>3. Barrier'
  BY DEF IInv, TypeOK, Barrier, Fail, Done, Clients, policy, Destroyed
<1>4. NoFlagDropped'
  BY DEF IInv, TypeOK, NoFlagDropped, Fail, Has, Clients, policy, Destroyed
<1>5. QED
  BY <1>1, <1>2, <1>3, <1>4, Zenon DEF IInv

(* The same when it leaves ... *)
LEMMA LeaveInv ==
  ASSUME IInv, NEW n \in Nodes, Leave(n)
  PROVE  IInv'
<1>1. TypeOK'
  BY DEF IInv, TypeOK, Leave, Stages, Clients, policy, Destroyed
<1>2. Knowledge'
  BY DEF IInv, TypeOK, Knowledge, Leave, Begun, Calling, Clients, policy, Destroyed
<1>3. Barrier'
  BY DEF IInv, TypeOK, Barrier, Leave, Done, Clients, policy, Destroyed
<1>4. NoFlagDropped'
  BY DEF IInv, TypeOK, NoFlagDropped, Leave, Has, Clients, policy, Destroyed
<1>5. QED
  BY <1>1, <1>2, <1>3, <1>4, Zenon DEF IInv

(* ... and when it comes back. *)
LEMMA RestartInv ==
  ASSUME IInv, NEW n \in Nodes, Restart(n)
  PROVE  IInv'
<1>1. TypeOK'
  BY FailAssumption DEF IInv, TypeOK, Restart, Stages, Clients, policy
<1>2. Knowledge'
  BY DEF IInv, TypeOK, Knowledge, Restart, Begun, Calling, Clients, policy
<1>3. Barrier'
  BY DEF IInv, TypeOK, Barrier, Restart, Done, Clients, policy
<1>4. NoFlagDropped'
  BY DEF IInv, TypeOK, NoFlagDropped, Restart, Has, Clients, policy
<1>5. QED
  BY <1>1, <1>2, <1>3, <1>4, Zenon DEF IInv

-----------------------------------------------------------------------------
(* Every step of every node keeps the invariant. *)
LEMMA NextInv ==
  ASSUME IInv, [Next]_vars
  PROVE  IInv'
<1>1. ASSUME NEW n \in Nodes, Step(n) PROVE IInv'
  BY Zenon, <1>1, MakeConnsInv, StartServerInv, CreateClientsInv, SendFlagInv, PingInv,
     RecvFlagInv, AllSentInv, ReadyInv, FailInv DEF Step
<1>2. ASSUME UNCHANGED vars PROVE IInv'
  BY <1>2 DEF vars, IInv, TypeOK, Knowledge, Barrier, NoFlagDropped, Begun, Calling,
              Clients, Done, Has
<1>3. QED
  BY <1>1, <1>2, LeaveInv, RestartInv, LostReplyInv, Zenon DEF Next

(* The invariant holds while every node runs init at its own pace, fails,  *)
(* is started again and leaves.                                            *)
THEOREM Invariance == Spec => []IInv
  BY InitInv, NextInv, PTL DEF Spec

(* When init returns, every server of the node has started its own and,    *)
(* with CONNECT_SYNC, so has every client (net_io.cc: the flags, or the    *)
(* pings), however many nodes there are and whatever the policy is.        *)
THEOREM InitIsBarrier == Spec => []Barrier
<1>1. IInv => Barrier
  BY Zenon DEF IInv
<1>2. QED
  BY <1>1, Invariance, PTL

(* Each loop deals with the peers it is for, and no server is up without   *)
(* the ClientConnections it writes to.                                     *)
THEOREM InitTypes == Spec => []TypeOK
<1>1. IInv => TypeOK
  BY Zenon DEF IInv
<1>2. QED
  BY <1>1, Invariance, PTL

(* A "sync_conn" flag whose send returned is waiting at its server or has  *)
(* been received there: IoChannelI never meets a client it has no          *)
(* ClientConnection for, because init makes those first.                   *)
THEOREM FlagsAreKept == Spec => []NoFlagDropped
<1>1. IInv => NoFlagDropped
  BY Zenon DEF IInv
<1>2. QED
  BY <1>1, Invariance, PTL

-----------------------------------------------------------------------------
(***************************************************************************)
(* The clocks of TimedInit.  The argument: as long as nobody has left too  *)
(* early, time passes only while some node is late or sleeps after a       *)
(* failed attempt.  What is not started yet ends within MaxSkew; a sleep   *)
(* begins either before that or because a call broke, and of those there   *)
(* are MaxBroken; so the wait of any node is short of its timeout.         *)
(***************************************************************************)

(* Not in its first loop yet. *)
Waiting(n) == pc[n] \in {"new", "conns", "started"}

(* c's flag to s got through in a call that ended well. *)
Sent(c, s) == \/ pc[c] = "send" /\ s \notin todo[c]
              \/ pc[c] \in {"recv", "ready", "left"}

(* Types of the clocks; nobody is started again. *)
ClocksOK ==
  /\ late \in [Nodes -> 0 .. MaxSkew]
  /\ peer \in [Nodes -> Nodes \cup {NoPeer}]
  /\ timer \in [Nodes -> Nat]
  /\ nap \in [Nodes -> Nat]
  /\ broken \in 0 .. MaxBroken
  /\ restarts = [n \in Nodes |-> 0]

(* A clock runs only while its call does, only a caller sleeps, and a node *)
(* that has a client listens until it leaves.                              *)
CallsOK ==
  \A n \in Nodes :
    /\ peer[n] # NoPeer => Looping(n) /\ peer[n] \in todo[n]
    /\ peer[n] = NoPeer => timer[n] = 0
    /\ nap[n] > 0 => Calling(n) /\ peer[n] # NoPeer
    /\ pc[n] \in {"send", "recv"} => conn_sync
    /\ pc[n] \in {"started", "send", "recv", "ping", "ready"} => (up[n] <=> Clients(n) # {})

(* How late it can be while a node is not started, or sleeps, or waits for *)
(* a flag: the bound on one clock speaks of every other.                   *)
Within ==
  /\ \A n, r \in Nodes :
       /\ Waiting(n) => timer[r] + late[n] <= MaxSkew
       /\ Calling(n) => timer[r] + nap[n] <= MaxSkew + (broken + 1) * Nap(n)
  /\ \A n \in Nodes : pc[n] = "recv" => timer[n] <= MaxSkew + (MaxBroken + 1) * SendSleep

(* The converse of NoFlagDropped while no call has broken: who has a flag  *)
(* has it from a client that will not call again, so that it may leave.    *)
FlagsAreEarned ==
  conn_sync /\ broken = 0 =>
    \A s \in Nodes : \A c \in Clients(s) :
      Has(s, c) \/ pc[s] = "left" => Sent(c, s)

NoneFailed == \A n \in Nodes : pc[n] # "failed"

(* No server has left too early, and no node dials only itself. *)
Undisturbed == ~LeftTooEarly /\ \A n \in Nodes : ~DialsItselfOnly(n)

(* What holds then. *)
Fine == NoneFailed /\ Within /\ FlagsAreEarned

(* The inductive invariant of the timed system. *)
TInv == /\ IInv /\ ClocksOK /\ CallsOK
        /\ Undisturbed => Fine

-----------------------------------------------------------------------------
(* Every timed step is a step of NetInit, or changes only clocks. *)
LEMMA TimedIsUntimed ==
  ASSUME TNext
  PROVE  [Next]_vars
<1>1. ASSUME NEW n \in Nodes, Fail(n) PROVE Next
  BY <1>1, Zenon DEF Next, Step
<1>2. ASSUME NEW n \in Nodes, NEW s \in Nodes,
             Succeed(n, s) \/ Refused(n, s) \/ Break(n, s) \/ Wait(n, s)
      PROVE  [Next]_vars
  BY <1>1, <1>2, Zenon DEF Next, Step, Succeed, Refused, GiveUp, Break, Wait
<1>3. ASSUME NEW n \in Nodes, SetUp(n) \/ Expire(n) \/ Finish(n) \/ TLeave(n)
      PROVE  [Next]_vars
  BY <1>1, <1>3, Zenon DEF Next, Step, SetUp, Expire, GiveUp, Finish, TLeave
<1>4. ASSUME Tick PROVE UNCHANGED vars
  BY <1>4, Zenon DEF Tick
<1>5. QED
  BY <1>2, <1>3, <1>4, Zenon DEF TNext, Progress, TStep

(* The processes are started within MaxSkew. *)
LEMMA TInitInv ==
  ASSUME TInit
  PROVE  TInv
<1>1. IInv
  BY InitInv, Zenon DEF TInit
<1>2. ClocksOK
  BY TimeAssumption DEF TInit, Init, ClocksOK
<1>3. CallsOK
  BY DEF TInit, Init, CallsOK
<1>4. NoneFailed /\ FlagsAreEarned
  BY Zenon DEF TInit, Init, NoneFailed, FlagsAreEarned, Has
<1>5. Within
  BY TimeAssumption DEF TInit, Init, Within, Calling
<1>6. QED
  BY <1>1, <1>2, <1>3, <1>4, <1>5, Zenon DEF TInv, Fine

(* Once a server has left too early this stays so; the policy stays, too. *)
LEMMA LeftStays ==
  ASSUME IInv, ClocksOK, TNext, Undisturbed'
  PROVE  Undisturbed
<1>1. ASSUME NEW n \in Nodes, pc[n] = "left" PROVE pc'[n] = "left"
  <2>1. [Next]_vars
    BY TimedIsUntimed, Zenon
  <2>2. ASSUME NEW m \in Nodes, Step(m) \/ Leave(m) PROVE pc'[n] = "left"
    BY <1>1, <2>2, ZenonT(30) DEF Step, Leave, IInv, TypeOK, MakeConns, StartServer, CreateClients,
          SendFlag, Ping, RecvFlag, AllSent, Ready, Fail
  <2>3. ASSUME NEW m \in Nodes, NEW s \in Nodes, Restart(m) \/ LostReply(m, s)
        PROVE  pc'[n] = "left"
    BY <1>1, <2>3, Zenon DEF IInv, TypeOK, Restart, LostReply
  <2>4. QED
    BY <1>1, <2>1, <2>2, <2>3, Zenon DEF Next, vars
<1>2. conn_sync' = conn_sync /\ servers' = servers
  <2>1. [Next]_vars
    BY TimedIsUntimed, ZenonT(30)
  <2>2. QED
    BY <2>1 DEF Next, vars, Step, Leave, MakeConns, StartServer, CreateClients,
          SendFlag, Ping, RecvFlag, AllSent, Ready, Fail, Restart, LostReply, Destroyed, policy
<1>3. broken > 0 => broken' > 0
  BY SMTT(30) DEF ClocksOK, TNext, Progress, TStep, Tick, TLeave, SetUp, Expire, GiveUp, CallOver,
         Finish, Succeed, Refused, Break, SleepAt, Wait, clocks
<1>4. LeftTooEarly => LeftTooEarly'
  BY <1>1, <1>2, <1>3, Zenon DEF LeftTooEarly
<1>5. \A n \in Nodes : DialsItselfOnly(n) => DialsItselfOnly(n)'
  BY <1>2, Zenon DEF DialsItselfOnly, Clients
<1>6. QED
  BY <1>4, <1>5, Zenon DEF Undisturbed

(* Time in multiples of a sleep. *)
LEMMA OneMore ==
  ASSUME NEW a \in Nat, NEW s \in Nat
  PROVE  (a + 1) * s = a * s + s /\ a * s \in Nat
  OBVIOUS

LEMMA NoMore ==
  ASSUME NEW a \in Nat, NEW b \in Nat, NEW s \in Nat, a <= b
  PROVE  a * s <= b * s
<1>1. b * s = a * s + (b - a) * s
  OBVIOUS
<1>2. (b - a) * s \in Nat
  OBVIOUS
<1>3. a * s \in Nat
  OBVIOUS
<1>4. QED
  BY <1>1, <1>2, <1>3

(* What a failed attempt may cost, in the loop n is in. *)
LEMMA NapTypes ==
  ASSUME NEW n \in Nodes
  PROVE  Nap(n) \in Nat \ {0} /\ Timeout(n) \in Nat /\ MaxSkew < Timeout(n)
<1>1. MaxBroken * PingSleep \in Nat /\ (MaxBroken + 1) * SendSleep \in Nat
  BY TimeAssumption
<1>2. QED
  BY <1>1, TimeAssumption DEF Nap, Timeout

-----------------------------------------------------------------------------
(* The process runs up to its first loop: it is not late any more. *)
LEMMA SetUpClocks ==
  ASSUME IInv, ClocksOK, CallsOK, NEW n \in Nodes, SetUp(n)
  PROVE  ClocksOK' /\ CallsOK'
<1>1. UNCHANGED <<late, peer, timer, nap, broken, restarts>>
  BY Zenon DEF SetUp, clocks, MakeConns, StartServer, CreateClients
<1>2. ClocksOK'
  BY <1>1, Zenon DEF ClocksOK
<1>3. CallsOK'
  <2>1. CASE MakeConns(n)
    BY <1>1, <2>1 DEF CallsOK, Calling, IInv, TypeOK, MakeConns, Looping, Clients, policy
  <2>2. CASE StartServer(n)
    <3>1. UNCHANGED <<todo, servers, conn_sync>> /\ pc[n] = "conns" /\ pc'[n] = "started"
      BY <2>2, Zenon DEF IInv, TypeOK, StartServer, policy
    <3>2. \A m \in Nodes : m # n => up'[m] = up[m] /\ pc'[m] = pc[m]
      BY <2>2, Zenon DEF IInv, TypeOK, StartServer
    <3>3. up'[n] = (Clients(n) # {})
      BY <2>2, Zenon DEF IInv, TypeOK, StartServer
    <3>4. \A m \in Nodes : Clients(m)' = Clients(m)
      BY <3>1, Zenon DEF Clients
    <3>5. QED
      BY <1>1, <3>1, <3>2, <3>3, <3>4, Zenon DEF CallsOK, Calling, Looping
  <2>3. CASE CreateClients(n)
    <3>1. peer[n] = NoPeer /\ \A m \in Nodes : m # n => todo'[m] = todo[m] /\ pc'[m] = pc[m]
      BY <2>3 DEF CallsOK, Looping, IInv, TypeOK, CreateClients
    <3>2. /\ pc'[n] \in {"send", "ping"} /\ (pc'[n] = "send" => conn_sync) /\ pc[n] = "started"
          /\ UNCHANGED <<up, servers, conn_sync>>
      BY <2>3, Zenon DEF IInv, TypeOK, CreateClients, policy
    <3>3. QED
      BY <1>1, <3>1, <3>2, ZenonT(30) DEF CallsOK, Calling, Looping, Clients
  <2>4. QED
    BY <2>1, <2>2, <2>3, Zenon DEF SetUp
<1>4. QED
  BY <1>2, <1>3, Zenon

LEMMA SetUpFine ==
  ASSUME IInv, ClocksOK, CallsOK, Fine, NEW n \in Nodes, SetUp(n)
  PROVE  Fine'
<1>1. UNCHANGED <<late, peer, timer, nap, broken, inbox, servers, conn_sync>>
      /\ Waiting(n) /\ late[n] = 0
  BY Zenon DEF SetUp, clocks, MakeConns, StartServer, CreateClients, Waiting, policy
<1>2. NoneFailed'
  BY Zenon DEF Fine, NoneFailed, SetUp, MakeConns, StartServer, CreateClients, IInv, TypeOK
<1>3. FlagsAreEarned'
  BY <1>1, SMTT(30) DEF Fine, FlagsAreEarned, SetUp, MakeConns, StartServer, CreateClients, IInv, TypeOK,
              Has, Sent, Clients
<1>4. \A m \in Nodes : m # n => pc'[m] = pc[m]
  BY Zenon DEF IInv, TypeOK, SetUp, MakeConns, StartServer, CreateClients
<1>5. Waiting(n)' \/ Calling(n)'
  BY Zenon DEF IInv, TypeOK, SetUp, MakeConns, StartServer, CreateClients, Waiting, Calling
<1>6. ASSUME NEW m \in Nodes, NEW r \in Nodes
      PROVE  /\ Waiting(m)' => timer'[r] + late'[m] <= MaxSkew
             /\ Calling(m)' => timer'[r] + nap'[m] <= MaxSkew + (broken' + 1) * Nap(m)'
  <2>1. CASE m # n
    BY <1>1, <1>4, <2>1, Zenon DEF Fine, Within, Waiting, Calling, Nap
  <2>2. CASE m = n
    <3>1. /\ timer[r] + late[n] <= MaxSkew /\ timer[r] \in Nat
          /\ late[n] = 0 /\ nap[n] = 0 /\ broken \in Nat
      BY <1>1 DEF Fine, Within, Waiting, CallsOK, Calling, ClocksOK
    <3>2. (broken + 1) * Nap(n)' \in Nat
      BY <3>1, TimeAssumption DEF Nap
    <3>3. QED
      BY <1>1, <2>2, <3>1, <3>2, TimeAssumption, SMTT(30)
  <2>3. QED
    BY <2>1, <2>2, Zenon
<1>7. \A m \in Nodes : pc'[m] = "recv" => timer'[m] <= MaxSkew + (MaxBroken + 1) * SendSleep
  BY <1>1, <1>4, <1>5, Zenon DEF Fine, Within, Waiting, Calling
<1>8. QED
  BY <1>2, <1>3, <1>6, <1>7, Zenon DEF Fine, Within

-----------------------------------------------------------------------------
(* A call that succeeds takes its clock back to 0. *)
LEMMA SucceedClocks ==
  ASSUME IInv, ClocksOK, CallsOK, NEW n \in Nodes, NEW s \in Nodes, Succeed(n, s)
  PROVE  ClocksOK' /\ CallsOK'
<1>1. /\ UNCHANGED <<late, nap, broken, restarts, pc, up, servers, conn_sync>>
      /\ peer' = [peer EXCEPT ![n] = NoPeer] /\ timer' = [timer EXCEPT ![n] = 0]
      /\ todo' = [todo EXCEPT ![n] = @ \ {s}] /\ nap[n] = 0
  BY Zenon DEF Succeed, CallOver, SendFlag, Ping, RecvFlag, policy
<1>2. ClocksOK'
  BY <1>1, Zenon DEF ClocksOK
<1>3. CallsOK'
  BY <1>1 DEF CallsOK, Calling, IInv, TypeOK, ClocksOK, Looping, Clients
<1>4. QED
  BY <1>2, <1>3, Zenon

LEMMA SucceedFine ==
  ASSUME IInv, ClocksOK, CallsOK, Fine, NEW n \in Nodes, NEW s \in Nodes, Succeed(n, s)
  PROVE  Fine'
<1>1. /\ UNCHANGED <<late, nap, broken, pc, servers, conn_sync>>
      /\ timer' = [timer EXCEPT ![n] = 0]
      /\ todo' = [todo EXCEPT ![n] = @ \ {s}] /\ nap[n] = 0 /\ s \in todo[n]
  BY Zenon DEF Succeed, CallOver, SendFlag, Ping, RecvFlag, policy
<1>2. NoneFailed'
  BY <1>1, Zenon DEF Fine, NoneFailed
<1>3. FlagsAreEarned'
  <2>1. CASE SendFlag(n, s)
    BY <1>1, <2>1, SMTT(30) DEF Fine, FlagsAreEarned, IInv, TypeOK, SendFlag, Stored, Has, Sent, Clients
  <2>2. CASE Ping(n, s)
    BY <1>1, <2>2, SMTT(30) DEF Fine, FlagsAreEarned, IInv, TypeOK, Ping, Has, Sent, Clients
  <2>3. CASE RecvFlag(n, s)
    BY <1>1, <2>3 DEF Fine, FlagsAreEarned, IInv, TypeOK, RecvFlag, Has, Sent, Clients
  <2>4. QED
    BY <2>1, <2>2, <2>3, Zenon DEF Succeed
<1>4. \A r \in Nodes : timer'[r] <= timer[r] /\ timer[r] \in Nat /\ timer'[r] \in Nat
  BY <1>1 DEF ClocksOK
<1>5. ASSUME NEW m \in Nodes
      PROVE  /\ Waiting(m)' = Waiting(m) /\ Calling(m)' = Calling(m) /\ Nap(m)' = Nap(m)
             /\ late[m] \in Nat /\ nap[m] \in Nat /\ MaxSkew \in Nat
             /\ (broken + 1) * Nap(m) \in Nat /\ (MaxBroken + 1) * SendSleep \in Nat
  BY <1>1, TimeAssumption, SMTT(30) DEF Waiting, Calling, Nap, ClocksOK
<1>6. Within'
  BY <1>1, <1>4, <1>5 DEF Fine, Within
<1>7. QED
  BY <1>2, <1>3, <1>6, Zenon DEF Fine

-----------------------------------------------------------------------------
(* A server that refuses a call is one that is not started yet. *)
LEMMA RefusedEarly ==
  ASSUME IInv, ClocksOK, CallsOK, Fine, Undisturbed,
         NEW n \in Nodes, NEW s \in Nodes, At(n, s), Calling(n), ~up[s]
  PROVE  Waiting(s)
<1>1. s \in todo[n] /\ s \in servers[n]
  BY Zenon DEF At, IInv, TypeOK, Calling
<1>2. n # s => n \in Clients(s)
  BY <1>1, Zenon DEF Clients
<1>3. Clients(s) # {}
  BY <1>1, <1>2, Zenon DEF Undisturbed, DialsItselfOnly
<1>4. pc[s] \in {"new", "conns", "failed", "left"}
  BY <1>3, SMTT(30) DEF IInv, TypeOK, Stages, CallsOK
<1>5. pc[s] # "failed"
  BY Zenon DEF Fine, NoneFailed
<1>6. ASSUME pc[s] = "left" PROVE FALSE
  <2>1. conn_sync /\ ~(broken > 0)
    BY <1>6, Zenon DEF Undisturbed, LeftTooEarly
  <2>2. conn_sync /\ broken = 0
    BY <2>1, SMTT(30) DEF ClocksOK
  <2>3. n # s => Sent(n, s)
    BY <1>6, <1>2, <2>2, Zenon DEF Fine, FlagsAreEarned
  <2>4. QED
    BY <1>1, <1>6, <2>2, <2>3, Zenon DEF Sent, Calling
<1>7. QED
  BY <1>4, <1>5, <1>6, Zenon DEF Waiting

(* n turns to s, or is at it already, and sleeps. *)
LEMMA SleepClocks ==
  ASSUME IInv, ClocksOK, CallsOK, NEW n \in Nodes, NEW s \in Nodes, At(n, s), Calling(n),
         SleepAt(n, s), UNCHANGED <<pc, todo, up, servers, conn_sync, restarts>>,
         broken' \in 0 .. MaxBroken
  PROVE  ClocksOK' /\ CallsOK'
<1>1. /\ UNCHANGED <<late, timer>>
      /\ peer' = [peer EXCEPT ![n] = s] /\ nap' = [nap EXCEPT ![n] = Nap(n)]
  BY Zenon DEF SleepAt
<1>2. ClocksOK'
  BY <1>1, NapTypes, Zenon DEF ClocksOK
<1>3. s # NoPeer /\ Looping(n) /\ s \in todo[n]
  BY NoPeerAssumption, Zenon DEF At
<1>4. CallsOK'
  BY <1>1, <1>3, NapTypes, ZenonT(30) DEF CallsOK, Calling, ClocksOK, Looping, Clients
<1>5. QED
  BY <1>2, <1>4, Zenon

(* Giving up keeps the clocks in order. *)
LEMMA GiveUpClocks ==
  ASSUME IInv, ClocksOK, CallsOK, NEW n \in Nodes, GiveUp(n), nap[n] = 0
  PROVE  ClocksOK' /\ CallsOK'
<1>1. /\ UNCHANGED <<late, nap, broken, restarts, servers, conn_sync>>
      /\ peer' = [peer EXCEPT ![n] = NoPeer] /\ timer' = [timer EXCEPT ![n] = 0]
      /\ todo' = [todo EXCEPT ![n] = {}] /\ pc' = [pc EXCEPT ![n] = "failed"]
      /\ up' = [up EXCEPT ![n] = FALSE]
  BY Zenon DEF GiveUp, CallOver, Fail, Destroyed, policy
<1>2. ClocksOK'
  BY <1>1, Zenon DEF ClocksOK
<1>3. CallsOK'
  BY <1>1, SMTT(30) DEF CallsOK, Calling, IInv, TypeOK, ClocksOK, Looping, Clients
<1>4. QED
  BY <1>2, <1>3, Zenon

(* A refused call sleeps: by then every clock is within MaxSkew, so there  *)
(* is no giving up and the sleep is the first one past it.                 *)
LEMMA RefusedClocks ==
  ASSUME IInv, ClocksOK, CallsOK, NEW n \in Nodes, NEW s \in Nodes, Refused(n, s)
  PROVE  ClocksOK' /\ CallsOK'
<1>1. At(n, s) /\ Calling(n) /\ nap[n] = 0
  BY Zenon DEF Refused, Calling
<1>2. CASE GiveUp(n)
  BY <1>1, <1>2, GiveUpClocks, Zenon
<1>3. CASE SleepAt(n, s) /\ UNCHANGED <<vars, broken>>
  BY <1>1, <1>3, SleepClocks, Zenon DEF vars, ClocksOK
<1>4. QED
  BY <1>2, <1>3, Zenon DEF Refused

LEMMA RefusedFine ==
  ASSUME IInv, ClocksOK, CallsOK, Fine, Undisturbed,
         NEW n \in Nodes, NEW s \in Nodes, Refused(n, s)
  PROVE  Fine'
<1>1. At(n, s) /\ Calling(n) /\ nap[n] = 0 /\ ~up[s]
  BY Zenon DEF Refused, Calling
<1>2. \A r \in Nodes : timer[r] \in Nat /\ timer[r] <= MaxSkew
  BY <1>1, RefusedEarly, TimeAssumption DEF Fine, Within, ClocksOK
<1>3. timer[n] < Timeout(n)
  BY <1>2, NapTypes, TimeAssumption, SMTT(30)
<1>4. SleepAt(n, s) /\ UNCHANGED <<vars, broken>>
  BY <1>2, <1>3, NapTypes DEF Refused
<1>5. /\ UNCHANGED <<vars, late, timer, broken>>
      /\ nap' = [nap EXCEPT ![n] = Nap(n)]
  BY <1>4, Zenon DEF SleepAt
<1>6. NoneFailed' /\ FlagsAreEarned'
  BY <1>5, Zenon DEF Fine, NoneFailed, FlagsAreEarned, vars, Has, Sent, Clients
<1>7. ASSUME NEW m \in Nodes, NEW r \in Nodes, Calling(m)
      PROVE  timer[r] + nap'[m] <= MaxSkew + (broken + 1) * Nap(m)
  <2>1. CASE m # n
    BY <1>5, <1>7, <2>1, Zenon DEF Fine, Within, ClocksOK
  <2>2. CASE m = n
    <3>1. nap'[m] = Nap(m) /\ Nap(m) \in Nat /\ broken \in Nat /\ MaxSkew \in Nat
      BY <1>5, <2>2, NapTypes, TimeAssumption DEF ClocksOK
    <3>2. (broken + 1) * Nap(m) = broken * Nap(m) + Nap(m) /\ broken * Nap(m) \in Nat
      BY <3>1, OneMore, Zenon
    <3>3. QED
      BY <1>2, <3>1, <3>2, SMTT(30)
  <2>3. QED
    BY <2>1, <2>2, Zenon
<1>8. Within'
  BY <1>5, <1>7, Zenon DEF Fine, Within, vars, Waiting, Calling, Nap
<1>9. QED
  BY <1>6, <1>8, Zenon DEF Fine

-----------------------------------------------------------------------------
(* A call that breaks pays for its sleep with one of MaxBroken. *)
LEMMA BreakClocks ==
  ASSUME IInv, ClocksOK, CallsOK, NEW n \in Nodes, NEW s \in Nodes, Break(n, s)
  PROVE  ClocksOK' /\ CallsOK'
<1>1. /\ At(n, s) /\ Calling(n) /\ SleepAt(n, s)
      /\ UNCHANGED <<pc, todo, up, servers, conn_sync, restarts>>
  BY Zenon DEF Break, LostReply, vars, policy, Calling
<1>2. broken' \in 0 .. MaxBroken
  BY TimeAssumption, SMTT(30) DEF Break, ClocksOK
<1>3. QED
  BY <1>1, <1>2, SleepClocks, Zenon

LEMMA BreakFine ==
  ASSUME IInv, ClocksOK, CallsOK, Fine, NEW n \in Nodes, NEW s \in Nodes, Break(n, s)
  PROVE  Fine'
<1>1. /\ UNCHANGED <<pc, todo, up, servers, conn_sync, late, timer>>
      /\ nap' = [nap EXCEPT ![n] = Nap(n)] /\ nap[n] = 0 /\ Calling(n)
      /\ broken' = broken + 1
  BY Zenon DEF Break, SleepAt, LostReply, vars, policy, Calling
<1>2. NoneFailed'
  BY <1>1, Zenon DEF Fine, NoneFailed
<1>3. FlagsAreEarned'
  BY <1>1, TimeAssumption, SMTT(30) DEF FlagsAreEarned, ClocksOK
<1>4. ASSUME NEW m \in Nodes, NEW r \in Nodes, Calling(m)
      PROVE  timer[r] + nap'[m] <= MaxSkew + (broken' + 1) * Nap(m)
  <2>1. /\ broken \in Nat /\ broken' \in Nat /\ Nap(m) \in Nat /\ MaxSkew \in Nat
        /\ timer[r] \in Nat /\ nap[m] \in Nat
    BY <1>1, NapTypes, TimeAssumption DEF ClocksOK
  <2>2. /\ (broken' + 1) * Nap(m) = (broken + 1) * Nap(m) + Nap(m)
        /\ (broken + 1) * Nap(m) \in Nat
    BY <1>1, <2>1, OneMore, Zenon
  <2>3. timer[r] + nap[m] <= MaxSkew + (broken + 1) * Nap(m)
    BY <1>4, Zenon DEF Fine, Within
  <2>4. (nap'[m] = Nap(m) /\ nap[m] = 0) \/ nap'[m] = nap[m]
    BY <1>1, Zenon DEF ClocksOK
  <2>5. QED
    BY <2>1, <2>2, <2>3, <2>4, SMTT(30)
<1>5. Within'
  BY <1>1, <1>4, Zenon DEF Fine, Within, Waiting, Calling, Nap
<1>6. QED
  BY <1>2, <1>3, <1>5, Zenon DEF Fine

-----------------------------------------------------------------------------
(* recv begins to wait. *)
LEMMA WaitClocks ==
  ASSUME IInv, ClocksOK, CallsOK, NEW n \in Nodes, NEW s \in Nodes, Wait(n, s)
  PROVE  ClocksOK' /\ CallsOK'
<1>1. /\ UNCHANGED <<pc, todo, up, servers, conn_sync, restarts, late, timer, nap, broken>>
      /\ peer' = [peer EXCEPT ![n] = s] /\ s \in todo[n] /\ Looping(n) /\ s # NoPeer
  BY NoPeerAssumption, Zenon DEF Wait, vars, At
<1>2. ClocksOK'
  BY <1>1, Zenon DEF ClocksOK
<1>3. CallsOK'
  BY <1>1, Zenon DEF CallsOK, Calling, ClocksOK, Looping, Clients
<1>4. QED
  BY <1>2, <1>3, Zenon

LEMMA WaitFine ==
  ASSUME Fine, NEW n \in Nodes, NEW s \in Nodes, Wait(n, s)
  PROVE  Fine'
<1>1. UNCHANGED <<vars, late, timer, nap, broken>>
  BY Zenon DEF Wait
<1>2. NoneFailed' /\ FlagsAreEarned'
  BY <1>1, Zenon DEF Fine, NoneFailed, FlagsAreEarned, vars, Has, Sent, Clients
<1>3. Within'
  BY <1>1, Zenon DEF Fine, Within, vars, Waiting, Calling, Nap
<1>4. QED
  BY <1>2, <1>3, Zenon DEF Fine

-----------------------------------------------------------------------------
(* wait_for does not expire while all is fine. *)
LEMMA ExpireClocks ==
  ASSUME IInv, ClocksOK, CallsOK, NEW n \in Nodes, Expire(n)
  PROVE  ClocksOK' /\ CallsOK'
<1>1. GiveUp(n) /\ ~Calling(n)
  BY Zenon DEF Expire, Calling
<1>2. nap[n] = 0
  BY <1>1 DEF CallsOK, ClocksOK
<1>3. QED
  BY <1>1, <1>2, GiveUpClocks, Zenon

LEMMA NoExpire ==
  ASSUME ClocksOK, Fine, NEW n \in Nodes
  PROVE  ~Expire(n)
<1>1. SUFFICES ASSUME Expire(n) PROVE FALSE
  BY Zenon
<1>2. timer[n] >= SendTimeout /\ timer[n] <= MaxSkew + (MaxBroken + 1) * SendSleep
  BY <1>1, Zenon DEF Expire, Fine, Within
<1>3. timer[n] \in Nat /\ (MaxBroken + 1) * SendSleep \in Nat
  BY TimeAssumption, SMTT(30) DEF ClocksOK
<1>4. QED
  BY <1>2, <1>3, TimeAssumption

-----------------------------------------------------------------------------
(* At the end of a loop no call is open. *)
LEMMA FinishClocks ==
  ASSUME IInv, ClocksOK, CallsOK, NEW n \in Nodes, Finish(n)
  PROVE  ClocksOK' /\ CallsOK'
<1>1. /\ UNCHANGED <<late, peer, timer, nap, broken, restarts, up, servers, conn_sync>>
      /\ todo[n] = {} /\ Looping(n)
      /\ \/ pc[n] = "send" /\ pc' = [pc EXCEPT ![n] = "recv"]
         \/ pc' = [pc EXCEPT ![n] = "ready"]
      /\ \A m \in Nodes : m # n => todo'[m] = todo[m]
  BY SMTT(30) DEF Finish, AllSent, Ready, clocks, policy, Looping, IInv, TypeOK
<1>2. ClocksOK'
  BY <1>1, ZenonT(30) DEF ClocksOK
<1>3. peer[n] = NoPeer /\ nap[n] = 0
  BY <1>1, SMTT(30) DEF CallsOK, ClocksOK
<1>4. CallsOK'
  BY <1>1, <1>3, SMTT(30) DEF CallsOK, Calling, Looping, Clients, IInv, TypeOK
<1>5. QED
  BY <1>2, <1>4, Zenon

LEMMA FinishFine ==
  ASSUME IInv, ClocksOK, CallsOK, Fine, NEW n \in Nodes, Finish(n)
  PROVE  Fine'
<1>1. /\ UNCHANGED <<late, peer, timer, nap, broken, inbox, servers, conn_sync>>
      /\ todo[n] = {} /\ Looping(n) /\ pc'[n] \in {"recv", "ready"}
      /\ \A m \in Nodes : m # n => pc'[m] = pc[m]
  BY SMTT(30) DEF Finish, AllSent, Ready, clocks, policy, Looping, IInv, TypeOK
<1>2. NoneFailed'
  BY <1>1, Zenon DEF Fine, NoneFailed
<1>3. FlagsAreEarned'
  <2>1. CASE AllSent(n)
    BY <1>1, <2>1, SMTT(30) DEF Fine, FlagsAreEarned, IInv, TypeOK, AllSent, Has, Sent, Clients
  <2>2. CASE Ready(n)
    BY <1>1, <2>2, SMTT(30) DEF Fine, FlagsAreEarned, IInv, TypeOK, Knowledge, Ready, Has, Sent, Clients
  <2>3. QED
    BY <2>1, <2>2, Zenon DEF Finish
<1>4. timer[n] = 0 /\ MaxSkew \in Nat /\ (MaxBroken + 1) * SendSleep \in Nat
  BY <1>1, TimeAssumption, SMTT(30) DEF CallsOK
<1>5. ASSUME NEW m \in Nodes, NEW r \in Nodes
      PROVE  /\ Waiting(m)' => timer'[r] + late'[m] <= MaxSkew
             /\ Calling(m)' => timer'[r] + nap'[m] <= MaxSkew + (broken' + 1) * Nap(m)'
             /\ pc'[m] = "recv" => timer'[m] <= MaxSkew + (MaxBroken + 1) * SendSleep
  BY <1>1, <1>4, SMTT(30) DEF Fine, Within, Waiting, Calling, Nap
<1>6. QED
  BY <1>2, <1>3, <1>5, Zenon DEF Fine, Within

-----------------------------------------------------------------------------
(* A node that leaves has the flags of all its clients. *)
LEMMA LeaveClocks ==
  ASSUME IInv, ClocksOK, CallsOK, NEW n \in Nodes, TLeave(n)
  PROVE  ClocksOK' /\ CallsOK'
<1>1. /\ UNCHANGED <<late, peer, timer, nap, broken, restarts, servers, conn_sync>>
      /\ pc[n] = "ready" /\ pc'[n] = "left"
      /\ \A m \in Nodes : m # n => pc'[m] = pc[m] /\ todo'[m] = todo[m] /\ up'[m] = up[m]
  BY Zenon DEF TLeave, Leave, Destroyed, clocks, policy, IInv, TypeOK
<1>2. ClocksOK'
  BY <1>1, ZenonT(30) DEF ClocksOK
<1>3. peer[n] = NoPeer /\ nap[n] = 0
  BY <1>1, SMTT(30) DEF CallsOK, ClocksOK, Looping, Calling
<1>4. CallsOK'
  BY <1>1, <1>3 DEF CallsOK, Calling, Looping, Clients
<1>5. QED
  BY <1>2, <1>4, Zenon

LEMMA LeaveFine ==
  ASSUME IInv, ClocksOK, CallsOK, Fine, NEW n \in Nodes, TLeave(n)
  PROVE  Fine'
<1>1. /\ UNCHANGED <<late, timer, nap, broken, servers, conn_sync>>
      /\ pc[n] = "ready" /\ pc'[n] = "left" /\ inbox'[n] = {}
      /\ \A m \in Nodes : m # n => pc'[m] = pc[m] /\ todo'[m] = todo[m] /\ inbox'[m] = inbox[m]
  BY Zenon DEF TLeave, Leave, Destroyed, clocks, policy, IInv, TypeOK
<1>2. NoneFailed'
  BY <1>1, Zenon DEF Fine, NoneFailed
<1>3. FlagsAreEarned'
  BY <1>1, SMTT(30) DEF Fine, FlagsAreEarned, Has, Sent, Clients
<1>4. Within'
  BY <1>1, Zenon DEF Fine, Within, Waiting, Calling, Nap
<1>5. QED
  BY <1>2, <1>3, <1>4, Zenon DEF Fine

-----------------------------------------------------------------------------
(* While time passes whoever has to be waited for sleeps or is late. *)
LEMMA Asleep ==
  ASSUME ClocksOK, Tick, NEW n \in Nodes
  PROVE  /\ Waiting(n) => late[n] > 0 /\ late'[n] = late[n] - 1
         /\ Calling(n) => nap[n] > 0 /\ nap'[n] = nap[n] - 1
         /\ late'[n] \in 0 .. MaxSkew /\ nap'[n] \in Nat /\ nap'[n] <= nap[n]
         /\ timer'[n] \in Nat /\ (timer'[n] = timer[n] \/ timer'[n] = timer[n] + 1)
<1>1. ~Due(n) /\ late[n] \in 0 .. MaxSkew /\ nap[n] \in Nat /\ timer[n] \in Nat
  BY Zenon DEF Tick, ClocksOK
<1>2. /\ late'[n] = Less(late[n]) /\ nap'[n] = Less(nap[n])
      /\ timer'[n] = timer[n] \/ timer'[n] = timer[n] + 1
  BY Zenon DEF Tick
<1>3. (Waiting(n) => late[n] # 0) /\ (Calling(n) => nap[n] # 0)
  BY <1>1, Zenon DEF Due, Waiting, Calling
<1>4. QED
  BY <1>1, <1>2, <1>3, TimeAssumption, SMTT(30) DEF Less

(* Time passes. *)
LEMMA TickClocks ==
  ASSUME IInv, ClocksOK, CallsOK, Tick
  PROVE  ClocksOK' /\ CallsOK'
<1>1. /\ UNCHANGED <<pc, todo, up, servers, conn_sync, restarts, peer, broken>>
      /\ late' = [n \in Nodes |-> late'[n]] /\ nap' = [n \in Nodes |-> nap'[n]]
      /\ timer' = [n \in Nodes |-> timer'[n]]
      /\ \A n \in Nodes : peer[n] = NoPeer => timer'[n] = timer[n]
  BY Zenon DEF Tick, vars
<1>2. ClocksOK'
  BY <1>1, Asleep, Zenon DEF ClocksOK
<1>3. \A n \in Nodes : nap'[n] > 0 => nap[n] > 0
  BY Asleep, SMTT(30) DEF ClocksOK
<1>4. CallsOK'
  BY <1>1, <1>3, Zenon DEF CallsOK, Calling, Looping, Clients
<1>5. QED
  BY <1>2, <1>4, Zenon

(* Whom a waiting node waits for has not sent its flag. *)
LEMMA WaitsForSender ==
  ASSUME IInv, ClocksOK, CallsOK, NoneFailed, Tick, NEW r \in Nodes, pc[r] = "recv"
  PROVE  \E c \in Nodes : Waiting(c) \/ pc[c] = "send"
<1> DEFINE c == peer[r]
<1>1. c # NoPeer /\ c \notin inbox[r]
  BY Zenon DEF Tick, Due, Looping
<1>2. c \in todo[r] /\ conn_sync /\ c \in Nodes
  BY <1>1, Zenon DEF CallsOK, ClocksOK
<1>3. r \in servers[c] \ {c} /\ restarts[r] = 0
  BY <1>2, Zenon DEF IInv, TypeOK, Clients, ClocksOK
<1>4. ~Has(r, c)
  BY <1>1, <1>2, Zenon DEF Has
<1>5. pc[c] \notin {"recv", "ready", "left"}
  BY <1>2, <1>3, <1>4, Zenon DEF IInv, NoFlagDropped
<1>6. pc[c] \notin {"failed", "ping"}
  BY <1>2, Zenon DEF NoneFailed, IInv, Knowledge
<1>7. pc[c] \in Stages
  BY <1>2, Zenon DEF IInv, TypeOK
<1>8. QED
  BY <1>2, <1>5, <1>6, <1>7, Zenon DEF Stages, Waiting

(* One tick more on a clock is one less on a sleep or on a late start. *)
LEMMA TickFine ==
  ASSUME IInv, ClocksOK, CallsOK, Fine, Tick
  PROVE  Fine'
<1>1. UNCHANGED <<vars, broken>> /\ MaxSkew \in Nat /\ broken \in 0 .. MaxBroken
  BY TimeAssumption, Zenon DEF Tick, ClocksOK
<1>2. NoneFailed' /\ FlagsAreEarned'
  BY <1>1, Zenon DEF Fine, NoneFailed, FlagsAreEarned, vars, Has, Sent, Clients
<1>3. ASSUME NEW n \in Nodes, NEW r \in Nodes
      PROVE  /\ Waiting(n) => timer'[r] + late'[n] <= MaxSkew
             /\ Calling(n) => timer'[r] + nap'[n] <= MaxSkew + (broken + 1) * Nap(n)
  <2>1. /\ Waiting(n) => late[n] > 0 /\ late'[n] = late[n] - 1
        /\ Calling(n) => nap[n] > 0 /\ nap'[n] = nap[n] - 1
        /\ late[n] \in Nat /\ nap[n] \in Nat
        /\ timer'[r] \in Nat /\ (timer'[r] = timer[r] \/ timer'[r] = timer[r] + 1)
        /\ timer[r] \in Nat
    BY Asleep, SMTT(30) DEF ClocksOK
  <2>2. /\ Waiting(n) => timer[r] + late[n] <= MaxSkew
        /\ Calling(n) => timer[r] + nap[n] <= MaxSkew + (broken + 1) * Nap(n)
    BY Zenon DEF Fine, Within
  <2>3. (broken + 1) * Nap(n) \in Nat
    BY <1>1, NapTypes, TimeAssumption, SMTT(30)
  <2>4. QED
    BY <1>1, <2>1, <2>2, <2>3, SMTT(30)
<1>4. ASSUME NEW r \in Nodes, pc[r] = "recv"
      PROVE  timer'[r] <= MaxSkew + (MaxBroken + 1) * SendSleep
  <2>1. PICK c \in Nodes : Waiting(c) \/ pc[c] = "send"
    BY <1>4, WaitsForSender, Zenon DEF Fine
  <2>2. /\ timer'[r] \in Nat /\ late'[c] \in Nat /\ nap'[c] \in Nat
        /\ broken + 1 \in Nat /\ MaxBroken + 1 \in Nat /\ broken + 1 <= MaxBroken + 1
        /\ SendSleep \in Nat
    BY <1>1, Asleep, TimeAssumption, SMTT(30)
  <2>3. (broken + 1) * SendSleep <= (MaxBroken + 1) * SendSleep
    BY <2>2, NoMore, Zenon
  <2>4. (broken + 1) * SendSleep \in Nat /\ (MaxBroken + 1) * SendSleep \in Nat
    BY <2>2, SMTT(30)
  <2>5. CASE Waiting(c)
    BY <1>1, <1>3, <2>2, <2>4, <2>5, SMTT(30)
  <2>6. CASE pc[c] = "send"
    <3>1. Calling(c) /\ Nap(c) = SendSleep
      BY <2>6, Zenon DEF Calling, Nap
    <3>2. timer'[r] + nap'[c] <= MaxSkew + (broken + 1) * SendSleep
      BY <1>3, <3>1, Zenon
    <3>3. QED
      BY <1>1, <2>2, <2>3, <2>4, <3>2
  <2>7. QED
    BY <2>1, <2>5, <2>6, Zenon
<1>5. Within'
  BY <1>1, <1>3, <1>4, Zenon DEF Within, vars, Waiting, Calling, Nap
<1>6. QED
  BY <1>2, <1>5, Zenon DEF Fine

-----------------------------------------------------------------------------
(* All steps together. *)
LEMMA TimedStutter ==
  ASSUME TInv, UNCHANGED tvars
  PROVE  TInv'
<1>1. UNCHANGED vars /\ UNCHANGED <<late, peer, timer, nap, broken>>
  BY Zenon DEF tvars, clocks
<1>2. IInv'
  BY <1>1, NextInv, Zenon DEF TInv
<1>3. ClocksOK' /\ CallsOK' /\ Undisturbed' = Undisturbed
  BY <1>1, Zenon DEF TInv, ClocksOK, CallsOK, LeftTooEarly, Calling, Looping, Clients, vars,
                Undisturbed, DialsItselfOnly
<1>4. ASSUME Fine PROVE Fine'
  BY <1>1, <1>4, Zenon DEF Fine, NoneFailed, Within, FlagsAreEarned, Waiting, Calling, Nap, Has,
                    Sent, Clients, vars
<1>5. QED
  BY <1>2, <1>3, <1>4, Zenon DEF TInv

LEMMA TimedStep ==
  ASSUME TInv, TNext
  PROVE  TInv'
<1>1. IInv /\ ClocksOK /\ CallsOK /\ (Undisturbed => Fine)
  BY Zenon DEF TInv
<1>2. IInv'
  BY <1>1, TimedIsUntimed, NextInv, Zenon
<1>3. ClocksOK' /\ CallsOK'
  BY Zenon, <1>1, SetUpClocks, ExpireClocks, FinishClocks, SucceedClocks, RefusedClocks, BreakClocks,
     WaitClocks, LeaveClocks, TickClocks DEF TNext, Progress, TStep
<1>4. ASSUME Undisturbed' PROVE Fine'
  <2>1. Undisturbed /\ Fine
    BY <1>1, <1>4, LeftStays, Zenon
  <2>2. QED
    BY Zenon, <1>1, <2>1, SetUpFine, NoExpire, FinishFine, SucceedFine, RefusedFine, BreakFine,
       WaitFine, LeaveFine, TickFine DEF TNext, Progress, TStep
<1>5. QED
  BY <1>2, <1>3, <1>4, Zenon DEF TInv

(* The invariant holds for every policy, skew, timeout and sleep that      *)
(* TimeAssumption allows.                                                  *)
THEOREM TimedInvariance == TSpec => []TInv
<1>1. TInv /\ [TNext]_tvars => TInv'
  BY TimedStep, TimedStutter, Zenon
<1>2. QED
  BY <1>1, TInitInv, PTL DEF TSpec

(* No node's init ends in a timeout (SyncClient::send, CheckConnStatus,    *)
(* ClientConnection::recv), for any number of nodes and any policy, as     *)
(* long as the processes are started within the skew, at most MaxBroken    *)
(* calls break, no server leaves too early and no node dials only itself.  *)
THEOREM InitNeverTimesOut == TSpec => []NobodyGivesUp
<1>1. TInv => NobodyGivesUp
  BY Zenon DEF TInv, Undisturbed, Fine, NoneFailed, NobodyGivesUp
<1>2. QED
  BY <1>1, TimedInvariance, PTL

(* The timed system implements the untimed one (all but its fairness), so  *)
(* what is proved of NetInit's steps holds of it ...                       *)
THEOREM TimedInitIsInit == TSpec => Init /\ [][Next]_vars
<1>1. TInit => Init
  BY Zenon DEF TInit
<1>2. [TNext]_tvars => [Next]_vars
  BY TimedIsUntimed, Zenon DEF tvars
<1>3. QED
  BY <1>1, <1>2, PTL DEF TSpec

(* ... such as what init's return means and that no flag is dropped.       *)
THEOREM TimedBarrier == TSpec => [](Barrier /\ NoFlagDropped)
<1>1. TInv => Barrier /\ NoFlagDropped
  BY Zenon DEF TInv, IInv
<1>2. QED
  BY <1>1, TimedInvariance, PTL

(* An attempt that may still break is made before the timeout: the retry   *)
(* of send and CheckConnStatus, never their exception, is what follows.    *)
BreaksAreInTime ==
  \A n, s \in Nodes :
    /\ At(n, s) /\ Calling(n) /\ nap[n] = 0
    /\ broken < MaxBroken
    /\ Undisturbed
    => timer[n] < Timeout(n)

(* So the guard on the timeout in action Break leaves nothing out.         *)
THEOREM BrokenCallsAreRetried == TSpec => []BreaksAreInTime
<1>1. ASSUME TInv, NEW n \in Nodes, Calling(n), nap[n] = 0, broken < MaxBroken, Undisturbed
      PROVE  timer[n] < Timeout(n)
  <2>1. timer[n] + nap[n] <= MaxSkew + (broken + 1) * Nap(n)
    BY <1>1, Zenon DEF TInv, Fine, Within
  <2>2. /\ broken + 1 \in Nat /\ broken + 1 <= MaxBroken /\ MaxBroken \in Nat /\ MaxSkew \in Nat
        /\ timer[n] \in Nat /\ Nap(n) \in Nat
    BY <1>1, NapTypes, TimeAssumption DEF TInv, ClocksOK
  <2>3. (broken + 1) * Nap(n) <= MaxBroken * Nap(n)
    BY <2>2, NoMore, Zenon
  <2>4. /\ (broken + 1) * Nap(n) \in Nat /\ MaxBroken * Nap(n) \in Nat
        /\ MaxBroken * SendSleep \in Nat
        /\ (MaxBroken + 1) * SendSleep = MaxBroken * SendSleep + SendSleep
    BY <2>2, OneMore, TimeAssumption, Zenon
  <2>5. timer[n] <= MaxSkew + MaxBroken * Nap(n)
    BY <1>1, <2>1, <2>2, <2>3, <2>4
  <2>6. MaxSkew + MaxBroken * Nap(n) < Timeout(n)
    <3>1. CASE pc[n] = "ping"
      BY <3>1, TimeAssumption, Zenon DEF Nap, Timeout
    <3>2. CASE pc[n] # "ping"
      <4>1. Nap(n) = SendSleep /\ Timeout(n) = SendTimeout
        BY <3>2, Zenon DEF Nap, Timeout
      <4>2. QED
        BY <2>4, <4>1, TimeAssumption
    <3>3. QED
      BY <3>1, <3>2, Zenon
  <2>7. QED
    BY <2>2, <2>4, <2>5, <2>6, NapTypes, SMTT(30)
<1>2. TInv => BreaksAreInTime
  BY <1>1, Zenon DEF BreaksAreInTime
<1>3. QED
  BY <1>2, TimedInvariance, PTL
=============================================================================
