-------------------------- MODULE ClientConnection --------------------------
(***************************************************************************)
(* ClientConnection (core/src/client_connection.cc): what one remote       *)
(* client has sent, by msgid, with the threads that wait for it.  Server   *)
(* threads call write; application threads call recv, which sleeps on cv_  *)
(* until its data is there or recv_timeout_ has passed.                    *)
(*                                                                         *)
(* Both builds are here; use_buffer says which one runs.  FALSE: a queue   *)
(* of messages per msgid, recv takes the first message whole and does not  *)
(* look at `length'.  TRUE: a byte stream per msgid (what CycleBuffer      *)
(* implements), recv takes exactly as many bytes as `length', a uint64_t,  *)
(* becomes when it is passed on as an int32_t.  (A length that becomes     *)
(* negative makes memcpy undefined: no call has one.)  A msgid that        *)
(* mapbuffer_ lacks and one with an empty buffer are alike to write and    *)
(* recv, so mapbuffer is total.                                            *)
(*                                                                         *)
(* mutex_ is held from the lookup to the return or the sleep, so each such *)
(* stretch is one action.  Time is counted in ticks, TicksPerMs to the     *)
(* millisecond, because recv truncates the elapsed time to milliseconds.   *)
(* Times are relative to the start (`beg') of each recv call.              *)
(***************************************************************************)
EXTENDS Integers, Sequences

CONSTANTS Receivers,    \* application threads
          MsgIds,
          Byte,
          Messages,     \* messages a peer may send
          Lengths,      \* `length' arguments of recv
          Timeouts,     \* `timeout' arguments of recv
          NoCall,       \* recv has not been called yet
          None,         \* the current call has not returned
          TimedOut,     \* recv returned 0 because wait_for expired
          Builds,       \* values of USE_BUFFER the program is built with
          RecvTimeout,  \* recv_timeout_, in milliseconds
          TicksPerMs,
          IntMax,       \* greatest int32_t
          MaxAge,       \* bound: ticks after which a call's clock stands still
          MaxPending    \* bound: messages (bytes) waiting under one msgid

(* An integer converted to int32_t. *)
Int32(x) == ((x + IntMax + 1) % (2 * IntMax + 2)) - (IntMax + 1)

ASSUME LengthAssumption == /\ IntMax \in Nat
                           /\ Lengths \subseteq Nat
                           /\ \A l \in Lengths : Int32(l) \in Nat
ASSUME DataAssumption == /\ Messages \subseteq Seq(Byte)
                         /\ Builds \subseteq BOOLEAN
ASSUME TimeAssumption == /\ RecvTimeout \in Nat
                         /\ TicksPerMs \in Nat \ {0}
                         /\ MaxAge \in Nat
                         /\ MaxAge >= (RecvTimeout + 1) * TicksPerMs
ASSUME ReturnAssumption == /\ TimedOut \notin Seq(Byte) \cup {None}
                           /\ None \notin Seq(Byte)
ASSUME BoundAssumption == MaxPending \in Nat

VARIABLES use_buffer, \* the build: the value of USE_BUFFER, fixed
          mapbuffer,  \* mapbuffer_: msgid -> waiting messages (bytes)
          pc,         \* "idle", "check" (about to lock mutex_), "asleep" (in wait_for)
          call,       \* arguments of each receiver's current call
          age,        \* ticks since the call began
          deadline,   \* when its wait_for expires, in ticks since the call began
          notified,   \* cv_ has been signalled since it fell asleep
          ret         \* what its last call returned

vars == <<use_buffer, mapbuffer, pc, call, age, deadline, notified, ret>>

(* The arguments of recv that its build looks at (and the timeout, which   *)
(* neither does).                                                          *)
Calls == [msgid : MsgIds, length : IF use_buffer THEN Lengths ELSE {0},
          timeout : Timeouts]

Init == /\ use_buffer \in Builds
        /\ mapbuffer = [m \in MsgIds |-> <<>>]
        /\ pc = [r \in Receivers |-> "idle"]
        /\ call = [r \in Receivers |-> NoCall]
        /\ age = [r \in Receivers |-> 0]
        /\ deadline = [r \in Receivers |-> 0]
        /\ notified = [r \in Receivers |-> FALSE]
        /\ ret = [r \in Receivers |-> None]

-----------------------------------------------------------------------------
(* The data waiting for a call; what it takes of it and what it leaves. *)
Waiting(c) == mapbuffer[c.msgid]

(* can_read and read take `length' as an int32_t. *)
Asked(c) == Int32(c.length)

Ready(c) == /\ Waiting(c) # <<>>
            /\ use_buffer => Len(Waiting(c)) >= Asked(c)

Taken(c) == IF use_buffer THEN SubSeq(Waiting(c), 1, Asked(c))
                         ELSE Head(Waiting(c))

Left_Nothing(c) == <<>>

Left(c) == IF use_buffer
           THEN SubSeq(Waiting(c), Asked(c) + 1, Len(Waiting(c)))
           ELSE Tail(Waiting(c))

Stored(m, d) == IF use_buffer THEN mapbuffer[m] \o d ELSE Append(mapbuffer[m], d)

(* write: store, then notify_all. *)
Write_NotifyOne(m, d) ==
  /\ Len(Stored(m, d)) <= MaxPending
  /\ mapbuffer' = [mapbuffer EXCEPT ![m] = Stored(m, d)]
  /\ LET asleep == {r \in Receivers : pc[r] = "asleep" /\ ~notified[r]}
     IN IF asleep = {} THEN UNCHANGED notified
        ELSE \E r \in asleep : notified' = [notified EXCEPT ![r] = TRUE]
  /\ UNCHANGED <<use_buffer, pc, call, age, deadline, ret>>

Write(m, d) ==
  /\ Len(Stored(m, d)) <= MaxPending
  /\ mapbuffer' = [mapbuffer EXCEPT ![m] = Stored(m, d)]
  /\ notified' = [r \in Receivers |-> notified[r] \/ pc[r] = "asleep"]
  /\ UNCHANGED <<use_buffer, pc, call, age, deadline, ret>>

-----------------------------------------------------------------------------
(* recv is entered: beg = steady_clock::now(). *)
Recv(r, c) ==
  /\ pc[r] = "idle"
  /\ pc' = [pc EXCEPT ![r] = "check"]
  /\ call' = [call EXCEPT ![r] = c]
  /\ ret' = [ret EXCEPT ![r] = None]
  /\ UNCHANGED <<use_buffer, mapbuffer, age, deadline, notified>>

(* recv returns v; its local variables are gone. *)
Return(r, v) ==
  /\ ret' = [ret EXCEPT ![r] = v]
  /\ pc' = [pc EXCEPT ![r] = "idle"]
  /\ age' = [age EXCEPT ![r] = 0]
  /\ deadline' = [deadline EXCEPT ![r] = 0]
  /\ notified' = [notified EXCEPT ![r] = FALSE]
  /\ UNCHANGED <<use_buffer, call>>

(* Under mutex_: the data is there, recv copies it and returns. *)
Take(r) ==
  /\ pc[r] = "check"
  /\ Ready(call[r])
  /\ mapbuffer' = [mapbuffer EXCEPT ![call[r].msgid] = Left(call[r])]
  /\ Return(r, Taken(call[r]))

(* remain_time = recv_timeout_ - elapsed, both in whole milliseconds; the  *)
(* wait_for then ends remain_time after now.  Negative when the thread     *)
(* comes back late.                                                        *)
WaitUntil_FullTimeout(r) == age[r] + RecvTimeout * TicksPerMs

WaitUntil_FromBegin(r) ==
  LET elapsed == age[r] \div TicksPerMs
  IN (RecvTimeout - elapsed) * TicksPerMs

WaitUntil(r) ==
  LET elapsed == age[r] \div TicksPerMs
  IN age[r] + (RecvTimeout - elapsed) * TicksPerMs

(* Under mutex_: it is not there, recv releases mutex_ and sleeps. *)
Sleep(r) ==
  /\ pc[r] = "check"
  /\ ~Ready(call[r])
  /\ deadline' = [deadline EXCEPT ![r] = WaitUntil(r)]
  /\ notified' = [notified EXCEPT ![r] = FALSE]
  /\ pc' = [pc EXCEPT ![r] = "asleep"]
  /\ UNCHANGED <<use_buffer, mapbuffer, call, age, ret>>

(* wait_for has mutex_ again and reports cv_status::timeout exactly when   *)
(* the deadline has passed by then, signalled or not.                      *)
Expired(r) == age[r] >= deadline[r]

(* no_timeout: around the loop. *)
Resume(r) ==
  /\ pc[r] = "asleep"
  /\ ~Expired(r)
  /\ pc' = [pc EXCEPT ![r] = "check"]
  /\ deadline' = [deadline EXCEPT ![r] = 0]
  /\ notified' = [notified EXCEPT ![r] = FALSE]
  /\ UNCHANGED <<use_buffer, mapbuffer, call, age, ret>>

Wake(r) == notified[r] /\ Resume(r)
SpuriousWake(r) == ~notified[r] /\ Resume(r)

(* timeout: recv returns 0. *)
Expire_Loop(r) ==
  /\ pc[r] = "asleep"
  /\ Expired(r)
  /\ pc' = [pc EXCEPT ![r] = "check"]
  /\ UNCHANGED <<use_buffer, mapbuffer, call, age, deadline, notified, ret>>

Expire(r) ==
  /\ pc[r] = "asleep"
  /\ Expired(r)
  /\ Return(r, TimedOut)
  /\ UNCHANGED mapbuffer

(* Time passes for every call in progress. *)
Tick ==
  /\ \E r \in Receivers : pc[r] # "idle" /\ age[r] < MaxAge
  /\ age' = [r \in Receivers |->
               IF pc[r] # "idle" /\ age[r] < MaxAge THEN age[r] + 1 ELSE age[r]]
  /\ UNCHANGED <<use_buffer, mapbuffer, pc, call, deadline, notified, ret>>

Step(r) == Take(r) \/ Sleep(r) \/ Wake(r) \/ Expire(r)

Next == \/ \E m \in MsgIds, d \in Messages : Write(m, d)
        \/ \E r \in Receivers : \/ \E c \in Calls : Recv(r, c)
                                \/ Step(r)
                                \/ SpuriousWake(r)
        \/ Tick

(* A thread that can run runs (mutex_ is never kept), and time passes.     *)
(* Nobody is obliged to send, to receive or to wake for no reason.         *)
Fairness == /\ \A r \in Receivers : WF_vars(Step(r))
            /\ WF_vars(Tick)

Spec == Init /\ [][Next]_vars /\ Fairness

-----------------------------------------------------------------------------
Held == IF use_buffer THEN Seq(Byte) ELSE Seq(Messages)

(* Types; what is waiting is messages in one build and bytes in the other. *)
TypeOK ==
  /\ use_buffer \in Builds
  /\ mapbuffer \in [MsgIds -> Held]
  /\ pc \in [Receivers -> {"idle", "check", "asleep"}]
  /\ call \in [Receivers -> Calls \cup {NoCall}]
  /\ \A r \in Receivers : pc[r] # "idle" => call[r] \in Calls
  /\ age \in [Receivers -> 0 .. MaxAge]
  /\ deadline \in [Receivers -> Nat]
  /\ notified \in [Receivers -> BOOLEAN]
  /\ ret \in [Receivers -> Seq(Byte) \cup {None, TimedOut}]

(* No lost wakeup: a receiver that sleeps with no signal on its way has    *)
(* nothing it could take, whatever the other receivers and the writers of  *)
(* other msgids, who all share cv_, have done in the meantime.             *)
NoLostWakeup ==
  \A r \in Receivers :
    pc[r] = "asleep" /\ ~notified[r] => ~Ready(call[r])

(* However often a receiver is woken and sleeps again, its wait ends no    *)
(* earlier than recv_timeout_ after the call began and less than one       *)
(* millisecond later: the truncation of `elapsed' does not accumulate, and *)
(* a late thread's negative remain_time does not make it give up early.    *)
DeadlineKept ==
  \A r \in Receivers :
    pc[r] = "asleep" =>
      /\ deadline[r] >= RecvTimeout * TicksPerMs
      /\ deadline[r] < (RecvTimeout + 1) * TicksPerMs

GivesUpInTime ==
  \A r \in Receivers :
    ret'[r] = TimedOut /\ ret[r] # TimedOut => age[r] >= RecvTimeout * TicksPerMs

(* A recv never returns 0 before recv_timeout_ has passed. *)
NeverEarly == [][GivesUpInTime]_vars

(* Every recv returns, even if no message ever comes, or if messages for   *)
(* other msgids keep waking it, or if other receivers keep taking its data.*)
RecvReturns == \A r \in Receivers : pc[r] # "idle" ~> pc[r] = "idle"

(* IChannel.h:78, "blocking for timeout microseconds, default waiting      *)
(* forever": a call made with the default timeout does not give up.        *)
DefaultWaitsForever ==
  \A r \in Receivers : ret[r] = TimedOut => call[r].timeout # -1

-----------------------------------------------------------------------------
(* What both builds promise: per msgid, the byte stream of ByteFifo.       *)
Concat[q \in Seq(Seq(Byte))] ==
  IF q = <<>> THEN <<>> ELSE Head(q) \o Concat[Tail(q)]

(* The bytes waiting under m. *)
Bytes(m) == IF use_buffer THEN mapbuffer[m] ELSE Concat[mapbuffer[m]]

(* What r's last call handed over, if it was for m. *)
Got(r, m) == IF ret[r] \notin {None, TimedOut} /\ call[r].msgid = m
             THEN ret[r] ELSE <<>>

Handed(m) == [r \in Receivers |-> Got(r, m)]

Stream(m) == INSTANCE ByteFifo
               WITH Threads <- Receivers, Chunks <- Messages,
                    Lengths <- {Int32(l) : l \in Lengths} \cup {Len(d) : d \in Messages},
                    fifo <- Bytes(m), out <- Handed(m)

(* In either build, what is received under a msgid is what was sent under  *)
(* it, in order, nothing lost, doubled or mixed up with another msgid;     *)
(* a recv that times out consumes nothing.                                 *)
ImplementsStreams ==
  /\ \A m \in MsgIds : Stream(m)!Init
  /\ [][\A m \in MsgIds : [Stream(m)!Next]_<<Bytes(m), Handed(m)>>]_vars
=============================================================================
