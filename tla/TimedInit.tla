----------------------------- MODULE TimedInit -----------------------------
(***************************************************************************)
(* NetInit with its clocks: the same steps, each at the time the code      *)
(* takes it.  A process is started at some moment of the first MaxSkew     *)
(* ticks.  A loop of ViaNetIO::init deals with one peer at a time, and     *)
(* each call has its own timeout: SyncClient::send and CheckConnStatus try *)
(* again after a sleep and give up at the first failed attempt past the    *)
(* timeout, ClientConnection::recv gives up when its wait_for expires.     *)
(* (core/src/net_io.cc, sync_client.cc, base_client.cc,                    *)
(* client_connection.cc)                                                   *)
(*                                                                         *)
(* Steps take no time next to the sleeps and the timeouts, which are in    *)
(* seconds: time passes only when every process sleeps, waits for a flag   *)
(* or is not started yet.  Several processes may be due at one moment, and *)
(* then go in any order.                                                   *)
(***************************************************************************)
EXTENDS NetInit

CONSTANTS NoPeer,
          MaxSkew,      \* the last process is started this long after the first
          SendTimeout,  \* send_timeout_ and recv_timeout_, both SEND_TIMEOUT
          SendSleep,    \* sleep(1) in SyncClient::send
          ConnTimeout,  \* CONNECT_TIMEOUT
          PingSleep,    \* PING_TIME
          MaxBroken     \* bound: calls that break although the server is up

(* The processes are started close enough to one another, for the timeouts *)
(* of the task and the calls that break.                                   *)
ASSUME TimeAssumption ==
  /\ MaxSkew \in Nat /\ SendTimeout \in Nat /\ ConnTimeout \in Nat
  /\ SendSleep \in Nat \ {0} /\ PingSleep \in Nat \ {0} /\ MaxBroken \in Nat
  /\ MaxSkew + (MaxBroken + 1) * SendSleep < SendTimeout
  /\ MaxSkew + MaxBroken * PingSleep < ConnTimeout

ASSUME NoPeerAssumption == NoPeer \notin Nodes

VARIABLES late,    \* ticks until the process is started
          peer,    \* the peer its loop is at
          timer,   \* ticks since the call to that peer began
          nap,     \* ticks left of the sleep between two attempts
          broken   \* calls that have broken so far

clocks == <<late, peer, timer, nap, broken>>
tvars == <<vars, clocks>>

TInit == /\ Init
         /\ late \in [Nodes -> 0 .. MaxSkew]
         /\ \E n \in Nodes : late[n] = 0
         /\ peer = [n \in Nodes |-> NoPeer]
         /\ timer = [n \in Nodes |-> 0]
         /\ nap = [n \in Nodes |-> 0]
         /\ broken = 0

-----------------------------------------------------------------------------
Looping(n) == pc[n] \in {"send", "recv", "ping"}
Timeout(n) == IF pc[n] = "ping" THEN ConnTimeout ELSE SendTimeout
Nap_Timeout(n) == Timeout(n)
Nap(n) == IF pc[n] = "ping" THEN PingSleep ELSE SendSleep

(* The process is started and runs up to its first loop. *)
SetUp(n) ==
  /\ late[n] = 0
  /\ MakeConns(n) \/ StartServer(n) \/ CreateClients(n)
  /\ UNCHANGED clocks

(* The loop of init is at peer s, or may turn to it next. *)
At(n, s) == Looping(n) /\ s \in todo[n] /\ peer[n] \in {NoPeer, s}

(* The call is over, and its clock with it: the next call has its own. *)
CallOver(n) ==
  /\ peer' = [peer EXCEPT ![n] = NoPeer]
  /\ timer' = [timer EXCEPT ![n] = 0]
  /\ UNCHANGED <<late, nap, broken>>

(* It succeeds, or init throws. *)
Succeed(n, s) ==
  /\ At(n, s)
  /\ nap[n] = 0
  /\ SendFlag(n, s) \/ Ping(n, s) \/ RecvFlag(n, s)
  /\ CallOver(n)

GiveUp(n) == Fail(n) /\ CallOver(n)

(* send and CheckConnStatus sleep after a failed attempt. *)
SleepAt(n, s) ==
  /\ peer' = [peer EXCEPT ![n] = s]
  /\ nap' = [nap EXCEPT ![n] = Nap(n)]
  /\ UNCHANGED <<late, timer>>

(* An attempt ends in an exception because the server is not up ... *)
Refused(n, s) ==
  /\ At(n, s)
  /\ pc[n] \in {"send", "ping"}
  /\ nap[n] = 0
  /\ ~up[s]
  /\ \/ timer[n] >= Timeout(n) /\ GiveUp(n)
     \/ /\ timer[n] < Timeout(n)
        /\ SleepAt(n, s)
        /\ UNCHANGED <<vars, broken>>

(* ... or although it is, with or without having delivered the flag. *)
Break(n, s) ==
  /\ At(n, s)
  /\ pc[n] \in {"send", "ping"}
  /\ nap[n] = 0
  /\ up[s]
  /\ timer[n] < Timeout(n)
  /\ broken < MaxBroken
  /\ broken' = broken + 1
  /\ SleepAt(n, s)
  /\ LostReply(n, s) \/ UNCHANGED vars

(* recv finds no flag from s and waits. *)
Wait(n, s) ==
  /\ At(n, s)
  /\ pc[n] = "recv"
  /\ peer[n] = NoPeer
  /\ s \notin inbox[n]
  /\ peer' = [peer EXCEPT ![n] = s]
  /\ UNCHANGED <<vars, late, timer, nap, broken>>

(* wait_for expires, the flag's arrival at that very moment or not. *)
Expire(n) ==
  /\ pc[n] = "recv"
  /\ peer[n] # NoPeer
  /\ timer[n] >= SendTimeout
  /\ GiveUp(n)

(* The end of a loop. *)
Finish(n) ==
  /\ AllSent(n) \/ Ready(n)
  /\ UNCHANGED clocks

(* The process does its part of the task and ends, at any later time. *)
TLeave(n) ==
  /\ Leave(n)
  /\ UNCHANGED clocks

(* What n could do at once. *)
Due(n) ==
  \/ late[n] = 0 /\ pc[n] \in {"new", "conns", "started"}
  \/ Looping(n) /\ peer[n] = NoPeer
  \/ pc[n] \in {"send", "ping"} /\ nap[n] = 0
  \/ pc[n] = "recv" /\ (peer[n] \in inbox[n] \/ timer[n] >= SendTimeout)

Less(k) == IF k > 0 THEN k - 1 ELSE 0

(* Time passes. *)
Tick ==
  /\ \A n \in Nodes : ~Due(n)
  /\ \E n \in Nodes : Looping(n) \/ late[n] > 0
  /\ late' = [n \in Nodes |-> Less(late[n])]
  /\ nap' = [n \in Nodes |-> Less(nap[n])]
  /\ timer' = [n \in Nodes |-> IF peer[n] = NoPeer THEN timer[n] ELSE timer[n] + 1]
  /\ UNCHANGED <<vars, peer, broken>>

TStep(n) == \/ SetUp(n) \/ Expire(n) \/ Finish(n)
            \/ \E s \in Nodes : Succeed(n, s) \/ Refused(n, s) \/ Break(n, s) \/ Wait(n, s)

Progress == Tick \/ \E n \in Nodes : TStep(n)

TNext == Progress \/ \E n \in Nodes : TLeave(n)

(* The nodes' steps are taken when they are due, and time passes; no node  *)
(* has to leave.                                                           *)
TSpec == TInit /\ [][TNext]_tvars /\ WF_tvars(Progress)

-----------------------------------------------------------------------------
(* A server has left which a client may still need: without CONNECT_SYNC   *)
(* one that has not pinged it, with it one whose flag came through in a    *)
(* call that broke, and who will send it again.                            *)
LeftTooEarly == /\ \E n \in Nodes : pc[n] = "left"
                /\ ~conn_sync \/ broken > 0

(* A node that names itself and is nobody else's server dials a server     *)
(* that is not there: ViaNetIO::init starts one only if there are other    *)
(* clients.  Its call to itself times out.                                 *)
DialsItselfOnly(n) == n \in servers[n] /\ Clients(n) = {}

(* No node gives up in init, whatever the policy (but for a node that      *)
(* dials only itself) and the moments at which the processes are started   *)
(* (within MaxSkew): the time one peer costs a node does not push another  *)
(* node's wait over its limit.                                             *)
NobodyGivesUp ==
  (\E n \in Nodes : pc[n] = "failed")
    => LeftTooEarly \/ \E n \in Nodes : DialsItselfOnly(n)

(* All nodes come up under every such policy, cyclic ones included.        *)
AllComeUp == <>(\/ \A n \in Nodes : Done(n)
                \/ LeftTooEarly
                \/ \E n \in Nodes : DialsItselfOnly(n))
=============================================================================
