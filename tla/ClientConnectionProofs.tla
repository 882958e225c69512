----------------------- MODULE ClientConnectionProofs -----------------------
(***************************************************************************)
(* Proofs about ClientConnection, for any number of receivers, msgids and  *)
(* messages, any timeout and any clock: types, no lost wakeup, the bounds  *)
(* of a wait, that recv does not give up early, and that both builds       *)
(* implement one byte stream per msgid.                                    *)
(*                                                                         *)
(* The conjunction of the three invariants is inductive.  NoLostWakeup     *)
(* needs the types (what Take leaves is a shorter sequence, so it makes no *)
(* other receiver's data complete), NeverEarly needs DeadlineKept.         *)
(*                                                                         *)
(* The stream of a queue of messages is the recursive function Concat.     *)
(* That it exists, and that an Append adds its message's bytes at the end, *)
(* is shown by induction on the length of the queue: a set of naturals     *)
(* that is not all of Nat lacks a least one (LeastNat, CountUp).           *)
(***************************************************************************)
EXTENDS ClientConnection, SequenceTheorems, WellFoundedInduction, TLAPS

IInv == TypeOK /\ NoLostWakeup /\ DeadlineKept

(* A msgid's queue is a sequence in both builds. *)
LEMMA Queues ==
  ASSUME TypeOK, NEW m \in MsgIds
  PROVE  /\ mapbuffer[m] \in Seq(IF use_buffer THEN Byte ELSE Messages)
         /\ Len(mapbuffer[m]) \in Nat
<1>1. mapbuffer[m] \in Seq(IF use_buffer THEN Byte ELSE Messages)
  BY Zenon DEF TypeOK, Held
<1>2. QED
  BY <1>1

(* What recv takes is bytes; what it leaves is of the same kind and shorter. *)
LEMMA TakenAndLeft ==
  ASSUME TypeOK, NEW c \in Calls, Ready(c)
  PROVE  /\ Taken(c) \in Seq(Byte)
         /\ Left(c) \in Held
         /\ Len(Left(c)) \in Nat /\ Len(Left(c)) <= Len(Waiting(c))
<1> DEFINE w == Waiting(c)
<1>1. c.msgid \in MsgIds /\ (use_buffer => Asked(c) \in Nat)
  BY LengthAssumption, Zenon DEF Calls, Asked
<1>2. w \in Seq(IF use_buffer THEN Byte ELSE Messages) /\ Len(w) \in Nat
  BY <1>1, Queues, Zenon DEF Waiting
<1>3. CASE use_buffer
  <2>1. w \in Seq(Byte) /\ Asked(c) \in Nat /\ Asked(c) <= Len(w)
    BY <1>1, <1>2, <1>3, Zenon DEF Ready
  <2> HIDE DEF w
  <2>2. SubSeq(w, 1, Asked(c)) \in Seq(Byte)
    BY <1>2, <2>1
  <2>3. /\ SubSeq(w, Asked(c) + 1, Len(w)) \in Seq(Byte)
        /\ Len(SubSeq(w, Asked(c) + 1, Len(w))) = Len(w) - Asked(c)
    BY <1>2, <2>1, SMTT(30)
  <2>4. Taken(c) = SubSeq(w, 1, Asked(c)) /\ Left(c) = SubSeq(w, Asked(c) + 1, Len(w))
    BY <1>3, Zenon DEF Taken, Left, w
  <2>5. Held = Seq(Byte)
    BY <1>3, Zenon DEF Held
  <2>6. /\ Len(w) - Asked(c) \in Nat
        /\ Len(w) - Asked(c) <= Len(w)
    BY <1>2, <2>1
  <2>7. QED
    BY <2>2, <2>3, <2>4, <2>5, <2>6, Zenon DEF w
<1>4. CASE ~use_buffer
  <2>1. w \in Seq(Messages) /\ w # <<>>
    BY <1>2, <1>4, Zenon DEF Ready
  <2> HIDE DEF w
  <2>2. /\ Head(w) \in Messages
        /\ Tail(w) \in Seq(Messages)
        /\ Len(Tail(w)) = Len(w) - 1
        /\ Len(w) >= 1
    BY <1>2, <2>1
  <2>3. Taken(c) = Head(w) /\ Left(c) = Tail(w)
    BY <1>4, Zenon DEF Taken, Left, w
  <2>4. Held = Seq(Messages)
    BY <1>4, Zenon DEF Held
  <2>5. Len(w) - 1 \in Nat /\ Len(w) - 1 <= Len(w)
    BY <1>2, <2>2
  <2>6. Head(w) \in Seq(Byte)
    BY <2>2, DataAssumption, Zenon
  <2>7. QED
    BY <2>2, <2>3, <2>4, <2>5, <2>6, Zenon DEF w
<1>5. QED
  BY <1>3, <1>4, Zenon

(* The end of a wait: recv_timeout_ plus the part of a millisecond that    *)
(* `elapsed' has lost.                                                     *)
LEMMA WaitEnds ==
  ASSUME TypeOK, NEW r \in Receivers
  PROVE  /\ WaitUntil(r) \in Nat
         /\ WaitUntil(r) >= RecvTimeout * TicksPerMs
         /\ WaitUntil(r) < (RecvTimeout + 1) * TicksPerMs
<1> DEFINE a == age[r]
           T == TicksPerMs
           R == RecvTimeout
           q == a \div T
<1>1. a \in Nat /\ T \in Nat \ {0} /\ R \in Nat
  BY TimeAssumption DEF TypeOK
<1>2. WaitUntil(r) = a + (R - q) * T
  BY Zenon DEF WaitUntil
<1> HIDE DEF a, T, R
<1>3. q \in Int /\ q * T \in Int /\ q * T <= a /\ a < q * T + T
  BY <1>1
<1> HIDE DEF q
<1>4. (R - q) * T = R * T - q * T /\ (R + 1) * T = R * T + T /\ R * T \in Nat
  BY <1>1, <1>3
<1> DEFINE RT == R * T
           qT == q * T
<1>5. RT \in Nat /\ qT \in Int /\ qT <= a /\ a < qT + T
  BY <1>3, <1>4, Zenon
<1>6. WaitUntil(r) = a + (RT - qT) /\ (R + 1) * T = RT + T
  BY <1>2, <1>4, Zenon
<1> HIDE DEF RT, qT
<1>7. WaitUntil(r) \in Nat /\ WaitUntil(r) >= RT /\ WaitUntil(r) < RT + T
  BY <1>1, <1>5, <1>6
<1>8. QED
  BY <1>6, <1>7, Zenon DEF R, T, RT

-----------------------------------------------------------------------------
LEMMA InitIInv == Init => IInv
<1> SUFFICES ASSUME Init PROVE IInv
  BY Zenon
<1>1. TypeOK
  <2>1. mapbuffer \in [MsgIds -> Held]
    BY DEF Init, Held
  <2>2. QED
    BY <2>1, TimeAssumption DEF Init, TypeOK
<1>2. NoLostWakeup /\ DeadlineKept
  BY Zenon DEF Init, NoLostWakeup, DeadlineKept
<1>3. QED
  BY <1>1, <1>2, Zenon DEF IInv

(* write wakes every sleeper. *)
LEMMA WriteKeeps ==
  ASSUME IInv, NEW m \in MsgIds, NEW d \in Messages, Write(m, d)
  PROVE  IInv'
<1>1. TypeOK /\ NoLostWakeup /\ DeadlineKept
  BY Zenon DEF IInv
<1>2. UNCHANGED <<use_buffer, pc, call, age, deadline, ret>>
  BY Zenon DEF Write
<1>3. notified' = [r \in Receivers |-> notified[r] \/ pc[r] = "asleep"]
  BY Zenon DEF Write
<1>4. Stored(m, d) \in Held
  <2>1. CASE use_buffer
    BY <1>1, <2>1, DataAssumption DEF TypeOK, Held, Stored
  <2>2. CASE ~use_buffer
    BY <1>1, <2>2 DEF TypeOK, Held, Stored
  <2>3. QED
    BY <2>1, <2>2, Zenon
<1>5. mapbuffer' \in [MsgIds -> Held]
  BY <1>1, <1>4, Zenon DEF Write, TypeOK
<1>6. notified' \in [Receivers -> BOOLEAN]
  BY <1>1, <1>3, Zenon DEF TypeOK
<1>7. Held' = Held /\ Calls' = Calls
  BY <1>2, Zenon DEF Held, Calls
<1>8. TypeOK'
  BY <1>1, <1>2, <1>5, <1>6, <1>7, Zenon DEF TypeOK
<1>9. NoLostWakeup'
  BY <1>2, <1>3, Zenon DEF NoLostWakeup
<1>10. DeadlineKept'
  BY <1>1, <1>2, Zenon DEF DeadlineKept
<1>11. QED
  BY <1>8, <1>9, <1>10, Zenon DEF IInv

LEMMA RecvKeeps ==
  ASSUME IInv, NEW r \in Receivers, NEW c \in Calls, Recv(r, c)
  PROVE  IInv'
<1>1. TypeOK /\ NoLostWakeup /\ DeadlineKept
  BY Zenon DEF IInv
<1>2. /\ pc' = [pc EXCEPT ![r] = "check"]
      /\ call' = [call EXCEPT ![r] = c]
      /\ ret' = [ret EXCEPT ![r] = None]
      /\ UNCHANGED <<use_buffer, mapbuffer, age, deadline, notified>>
  BY Zenon DEF Recv
<1>3. Held' = Held /\ Calls' = Calls
  BY <1>2, Zenon DEF Held, Calls
<1>4. TypeOK'
  BY <1>1, <1>2, <1>3, Zenon DEF TypeOK
<1>5. \A s \in Receivers : pc'[s] = "asleep" =>
        s # r /\ pc[s] = "asleep" /\ call'[s] = call[s]
  BY <1>1, <1>2, Zenon DEF TypeOK
<1>6. NoLostWakeup'
  BY <1>1, <1>2, <1>5, Zenon DEF NoLostWakeup, Ready, Waiting
<1>7. DeadlineKept'
  BY <1>1, <1>2, <1>5, Zenon DEF DeadlineKept
<1>8. QED
  BY <1>4, <1>6, <1>7, Zenon DEF IInv

(* Return, whatever has become of the data, as long as it is of the right  *)
(* type and no sleeper's data has become complete.                         *)
LEMMA ReturnKeeps ==
  ASSUME IInv, NEW r \in Receivers, NEW v \in Seq(Byte) \cup {TimedOut},
         Return(r, v),
         mapbuffer' \in [MsgIds -> Held],
         \A c \in Calls : Ready(c)' => Ready(c)
  PROVE  IInv'
<1>1. TypeOK /\ NoLostWakeup /\ DeadlineKept
  BY Zenon DEF IInv
<1>2. /\ ret' = [ret EXCEPT ![r] = v]
      /\ pc' = [pc EXCEPT ![r] = "idle"]
      /\ age' = [age EXCEPT ![r] = 0]
      /\ deadline' = [deadline EXCEPT ![r] = 0]
      /\ notified' = [notified EXCEPT ![r] = FALSE]
      /\ UNCHANGED <<use_buffer, call>>
  BY Zenon DEF Return
<1>3. Held' = Held /\ Calls' = Calls
  BY <1>2, Zenon DEF Held, Calls
<1>4. TypeOK'
  BY <1>1, <1>2, <1>3, TimeAssumption DEF TypeOK
<1>5. \A s \in Receivers : pc'[s] = "asleep" =>
        /\ s # r /\ pc[s] = "asleep" /\ call[s] \in Calls
        /\ notified'[s] = notified[s] /\ deadline'[s] = deadline[s]
  BY <1>1, <1>2, Zenon DEF TypeOK
<1>6. ASSUME NEW s \in Receivers, pc'[s] = "asleep", ~notified'[s]
      PROVE  ~Ready(call[s])'
  <2>1. call[s] \in Calls /\ ~Ready(call[s]) /\ call'[s] = call[s]
    BY <1>1, <1>2, <1>5, <1>6, Zenon DEF NoLostWakeup
  <2>2. PICK c \in Calls : c = call[s]
    BY <2>1, Zenon
  <2>3. ~Ready(c)'
    BY <2>1, <2>2, Zenon
  <2>4. QED
    BY <2>1, <2>2, <2>3, Zenon DEF Ready, Waiting
<1>7. NoLostWakeup'
  BY <1>6, Zenon DEF NoLostWakeup
<1>8. DeadlineKept'
  BY <1>1, <1>5, Zenon DEF DeadlineKept
<1>9. QED
  BY <1>4, <1>7, <1>8, Zenon DEF IInv

LEMMA TakeKeeps ==
  ASSUME IInv, NEW r \in Receivers, Take(r)
  PROVE  IInv'
<1>1. TypeOK
  BY Zenon DEF IInv
<1>2. /\ Ready(call[r])
      /\ mapbuffer' = [mapbuffer EXCEPT ![call[r].msgid] = Left(call[r])]
      /\ Return(r, Taken(call[r]))
  BY Zenon DEF Take
<1>3. call[r] \in Calls /\ call[r].msgid \in MsgIds
  BY <1>1, Zenon DEF Take, TypeOK, Calls
<1>4. /\ Taken(call[r]) \in Seq(Byte)
      /\ Left(call[r]) \in Held
      /\ Len(Left(call[r])) \in Nat /\ Len(Left(call[r])) <= Len(Waiting(call[r]))
  BY <1>1, <1>2, <1>3, TakenAndLeft, Zenon
<1>5. mapbuffer' \in [MsgIds -> Held]
  BY <1>1, <1>2, <1>4, Zenon DEF TypeOK
<1>6. ASSUME NEW c \in Calls, Ready(c)' PROVE Ready(c)
  <2>1. c.msgid \in MsgIds /\ (use_buffer => Asked(c) \in Nat)
    BY LengthAssumption, Zenon DEF Calls, Asked
  <2>2. use_buffer' = use_buffer
    BY <1>2, Zenon DEF Return
  <2>3. CASE c.msgid # call[r].msgid
    <3>1. mapbuffer'[c.msgid] = mapbuffer[c.msgid]
      BY <1>1, <1>2, <2>1, <2>3, Zenon DEF TypeOK
    <3>2. QED
      BY <1>6, <2>2, <3>1, Zenon DEF Ready, Waiting
  <2>4. CASE c.msgid = call[r].msgid
    <3>1. mapbuffer'[c.msgid] = Left(call[r]) /\ Waiting(c) = Waiting(call[r])
      BY <1>1, <1>2, <2>1, <2>4, Zenon DEF TypeOK, Waiting
    <3>2. use_buffer => Len(Left(call[r])) >= Asked(c)
      BY <1>6, <2>2, <3>1, Zenon DEF Ready, Waiting
    <3>3. Len(Waiting(c)) \in Nat
      BY <1>1, <2>1, Queues, Zenon DEF Waiting
    <3>4. use_buffer => Len(Waiting(c)) >= Asked(c)
      BY <1>4, <2>1, <3>1, <3>2, <3>3
    <3>5. Waiting(c) # <<>>
      BY <1>2, <3>1, Zenon DEF Ready
    <3>6. QED
      BY <3>4, <3>5, Zenon DEF Ready
  <2>5. QED
    BY <2>3, <2>4, Zenon
<1>7. QED
  BY <1>2, <1>4, <1>5, <1>6, ReturnKeeps, Zenon

LEMMA ExpireKeeps ==
  ASSUME IInv, NEW r \in Receivers, Expire(r)
  PROVE  IInv'
<1>1. Return(r, TimedOut) /\ UNCHANGED <<mapbuffer, use_buffer>>
  BY Zenon DEF Expire, Return
<1>2. mapbuffer' \in [MsgIds -> Held]
  BY <1>1, Zenon DEF IInv, TypeOK
<1>3. \A c \in Calls : Ready(c)' => Ready(c)
  BY <1>1, Zenon DEF Ready, Waiting
<1>4. QED
  BY <1>1, <1>2, <1>3, ReturnKeeps, Zenon

(* A receiver falls asleep with nothing to take. *)
LEMMA SleepKeeps ==
  ASSUME IInv, NEW r \in Receivers, Sleep(r)
  PROVE  IInv'
<1>1. TypeOK /\ NoLostWakeup /\ DeadlineKept
  BY Zenon DEF IInv
<1>2. /\ ~Ready(call[r]) /\ pc[r] = "check"
      /\ deadline' = [deadline EXCEPT ![r] = WaitUntil(r)]
      /\ notified' = [notified EXCEPT ![r] = FALSE]
      /\ pc' = [pc EXCEPT ![r] = "asleep"]
      /\ UNCHANGED <<use_buffer, mapbuffer, call, age, ret>>
  BY Zenon DEF Sleep
<1>3. Held' = Held /\ Calls' = Calls
  BY <1>2, Zenon DEF Held, Calls
<1>4. /\ WaitUntil(r) \in Nat
      /\ WaitUntil(r) >= RecvTimeout * TicksPerMs
      /\ WaitUntil(r) < (RecvTimeout + 1) * TicksPerMs
  BY <1>1, WaitEnds, Zenon
<1>5. TypeOK'
  BY <1>1, <1>2, <1>3, <1>4, Zenon DEF TypeOK
<1>6. \A s \in Receivers \ {r} : /\ pc'[s] = pc[s] /\ notified'[s] = notified[s]
                                 /\ deadline'[s] = deadline[s]
  BY <1>1, <1>2, Zenon DEF TypeOK
<1>7. NoLostWakeup'
  BY <1>1, <1>2, <1>6 DEF NoLostWakeup, Ready, Waiting
<1>8. deadline'[r] = WaitUntil(r)
  BY <1>1, <1>2, Zenon DEF TypeOK
<1>9. DeadlineKept'
  BY <1>1, <1>4, <1>6, <1>8, Zenon DEF DeadlineKept
<1>10. QED
  BY <1>5, <1>7, <1>9, Zenon DEF IInv

LEMMA ResumeKeeps ==
  ASSUME IInv, NEW r \in Receivers, Resume(r)
  PROVE  IInv'
<1>1. TypeOK /\ NoLostWakeup /\ DeadlineKept
  BY Zenon DEF IInv
<1>2. /\ pc[r] = "asleep"
      /\ pc' = [pc EXCEPT ![r] = "check"]
      /\ deadline' = [deadline EXCEPT ![r] = 0]
      /\ notified' = [notified EXCEPT ![r] = FALSE]
      /\ UNCHANGED <<use_buffer, mapbuffer, call, age, ret>>
  BY Zenon DEF Resume
<1>3. Held' = Held /\ Calls' = Calls
  BY <1>2, Zenon DEF Held, Calls
<1>4. TypeOK'
  BY <1>1, <1>2, <1>3, Zenon DEF TypeOK
<1>5. \A s \in Receivers : pc'[s] = "asleep" =>
        /\ pc[s] = "asleep" /\ notified'[s] = notified[s]
        /\ deadline'[s] = deadline[s]
  BY <1>1, <1>2, Zenon DEF TypeOK
<1>6. NoLostWakeup'
  BY <1>1, <1>2, <1>5, Zenon DEF NoLostWakeup, Ready, Waiting
<1>7. DeadlineKept'
  BY <1>1, <1>5, Zenon DEF DeadlineKept
<1>8. QED
  BY <1>4, <1>6, <1>7, Zenon DEF IInv

LEMMA TickKeeps ==
  ASSUME IInv, Tick
  PROVE  IInv'
<1>1. TypeOK /\ NoLostWakeup /\ DeadlineKept
  BY Zenon DEF IInv
<1>2. UNCHANGED <<use_buffer, mapbuffer, pc, call, deadline, notified, ret>>
  BY Zenon DEF Tick
<1>3. Held' = Held /\ Calls' = Calls
  BY <1>2, Zenon DEF Held, Calls
<1>4. age' \in [Receivers -> 0 .. MaxAge]
  BY <1>1, TimeAssumption DEF Tick, TypeOK
<1>5. TypeOK'
  BY <1>1, <1>2, <1>3, <1>4, Zenon DEF TypeOK
<1>6. NoLostWakeup' /\ DeadlineKept'
  BY <1>1, <1>2, Zenon DEF NoLostWakeup, DeadlineKept, Ready, Waiting
<1>7. QED
  BY <1>5, <1>6, Zenon DEF IInv

LEMMA StutterKeeps ==
  ASSUME IInv, UNCHANGED vars
  PROVE  IInv'
<1>1. UNCHANGED <<use_buffer, mapbuffer, pc, call, age, deadline, notified, ret>>
  BY Zenon DEF vars
<1>2. TypeOK'
  BY <1>1, Zenon DEF IInv, TypeOK, Held, Calls
<1>3. NoLostWakeup' /\ DeadlineKept'
  BY <1>1, Zenon DEF IInv, NoLostWakeup, DeadlineKept, Ready, Waiting
<1>4. QED
  BY <1>2, <1>3, Zenon DEF IInv

-----------------------------------------------------------------------------
(* The three invariants together are inductive. *)
THEOREM Invariance == Spec => []IInv
<1>1. IInv /\ [Next]_vars => IInv'
  BY Zenon, WriteKeeps, RecvKeeps, TakeKeeps, SleepKeeps, ResumeKeeps, ExpireKeeps,
     TickKeeps, StutterKeeps
  DEF Next, Step, Wake, SpuriousWake
<1>2. QED
  BY <1>1, InitIInv, PTL DEF Spec

(* What waits under a msgid is whole messages in one build and bytes in    *)
(* the other, whatever recv has taken.                                     *)
THEOREM QueuesKeepTheirKind == Spec => []TypeOK
<1>1. IInv => TypeOK
  BY Zenon DEF IInv
<1>2. QED
  BY <1>1, Invariance, PTL

(* No receiver sleeps unsignalled on data it could take. *)
THEOREM WakeupsAreNotLost == Spec => []NoLostWakeup
<1>1. IInv => NoLostWakeup
  BY Zenon DEF IInv
<1>2. QED
  BY <1>1, Invariance, PTL

(* A wait, however often resumed, ends within the millisecond that follows *)
(* recv_timeout_.                                                          *)
THEOREM WaitsEndInTime == Spec => []DeadlineKept
<1>1. IInv => DeadlineKept
  BY Zenon DEF IInv
<1>2. QED
  BY <1>1, Invariance, PTL

(* recv gives up only when recv_timeout_ has passed. *)
THEOREM NobodyGivesUpEarly == Spec => NeverEarly
<1>1. IInv /\ [Next]_vars => [GivesUpInTime]_vars
  <2> SUFFICES ASSUME IInv, Next,
                      NEW r \in Receivers, ret'[r] = TimedOut, ret[r] # TimedOut
               PROVE  age[r] >= RecvTimeout * TicksPerMs
    BY Zenon DEF GivesUpInTime
  <2>1. ret \in [Receivers -> Seq(Byte) \cup {None, TimedOut}]
    BY Zenon DEF IInv, TypeOK
  <2>2. ASSUME NEW s \in Receivers, NEW c \in Calls, Recv(s, c) PROVE FALSE
    BY <2>1, <2>2, ReturnAssumption, Zenon DEF Recv
  <2>3. ASSUME NEW s \in Receivers, Take(s) PROVE FALSE
    <3>1. Taken(call[s]) \in Seq(Byte)
      BY <2>3, TakenAndLeft, Zenon DEF IInv, TypeOK, Take
    <3>2. ret' = [ret EXCEPT ![s] = Taken(call[s])]
      BY <2>3, Zenon DEF Take, Return
    <3>3. QED
      BY <2>1, <3>1, <3>2, ReturnAssumption, Zenon
  <2>4. ASSUME NEW s \in Receivers, Expire(s)
        PROVE  age[r] >= RecvTimeout * TicksPerMs
    <3>1. s = r
      BY <2>1, <2>4, Zenon DEF Expire, Return
    <3>2. age[r] >= deadline[r] /\ deadline[r] >= RecvTimeout * TicksPerMs
      BY <2>4, <3>1, Zenon DEF Expire, Expired, IInv, DeadlineKept
    <3>3. age[r] \in Int /\ deadline[r] \in Int /\ RecvTimeout * TicksPerMs \in Int
      BY TimeAssumption DEF IInv, TypeOK
    <3>4. QED
      BY <3>2, <3>3
  <2>5. CASE UNCHANGED ret
    BY <2>5, Zenon
  <2>6. QED
    BY <2>2, <2>3, <2>4, <2>5, Zenon
    DEF Next, Step, Write, Sleep, Wake, SpuriousWake, Resume, Tick
<1>2. QED
  BY <1>1, Invariance, PTL DEF Spec, NeverEarly

-----------------------------------------------------------------------------
(* Every set of naturals has a least one, so a set that has 0 and with a   *)
(* number the next one has them all.                                       *)
LEMMA LeastNat ==
  ASSUME NEW T, T \subseteq Nat, T # {}
  PROVE  \E x \in T : \A y \in T : x <= y
<1> DEFINE R == {p \in Nat \X Nat : p[1] < p[2]}
<1>1. R = OpToRel(<, Nat)
  BY Zenon DEF OpToRel
<1>2. IsWellFoundedOn(R, Nat)
  BY <1>1, NatLessThanWellFounded, Zenon
<1>3. PICK x \in T : \A y \in T : ~(<<y, x>> \in R)
  <2> HIDE DEF R
  <2>1. QED
    BY <1>2, WFMin, Zenon
<1>4. \A y \in T : ~(y < x)
  BY <1>3, Zenon
<1>5. QED
  BY <1>4

LEMMA CountUp ==
  ASSUME NEW S, 0 \in S, \A n \in Nat : n \in S => n + 1 \in S
  PROVE  \A n \in Nat : n \in S
<1>1. SUFFICES ASSUME Nat \ S # {} PROVE FALSE
  BY Zenon
<1>2. PICK x \in Nat \ S : \A y \in Nat \ S : x <= y
  BY <1>1, LeastNat, Zenon
<1>3. x # 0 /\ x - 1 \in Nat
  BY <1>2
<1>4. x - 1 \in S
  BY <1>2, <1>3
<1>5. (x - 1) + 1 \in S
  BY <1>3, <1>4, Zenon
<1>6. QED
  BY <1>2, <1>3, <1>5

(* Concat restricted to the queues of at most n messages; there is one     *)
(* such function for every n, and they agree where they are both defined.  *)
Lists == Seq(Seq(Byte))
UpTo(n) == {q \in Lists : Len(q) <= n}
Joins(f, n) == f = [q \in UpTo(n) |-> IF q = <<>> THEN <<>> ELSE Head(q) \o f[Tail(q)]]

LEMMA ShorterTail ==
  ASSUME NEW q \in Lists, q # <<>>
  PROVE  /\ Tail(q) \in Lists /\ Head(q) \in Seq(Byte)
         /\ Len(Tail(q)) = Len(q) - 1 /\ Len(q) \in Nat \ {0} /\ Len(Tail(q)) \in Nat
<1> DEFINE B == Seq(Byte)
<1>1. q \in Seq(B)
  BY Zenon DEF Lists
<1> HIDE DEF B
<1>2. Tail(q) \in Seq(B) /\ Head(q) \in B /\ Len(Tail(q)) = Len(q) - 1
  BY <1>1, HeadTailProperties, Zenon
<1>3. Len(q) \in Nat \ {0}
  BY <1>1, EmptySeq, Zenon
<1>4. Len(Tail(q)) \in Nat
  BY <1>2, <1>3
<1>5. QED
  BY <1>2, <1>3, <1>4, Zenon DEF B, Lists

LEMMA JoinStep ==
  ASSUME NEW n \in Nat, NEW f, Joins(f, n)
  PROVE  \E g : Joins(g, n + 1)
<1> DEFINE g == [q \in UpTo(n + 1) |-> IF q = <<>> THEN <<>> ELSE Head(q) \o f[Tail(q)]]
<1>1. ASSUME NEW q \in UpTo(n) PROVE q \in UpTo(n + 1) /\ f[q] = g[q]
  <2>1. q \in UpTo(n + 1)
    <3>1. q \in Lists /\ Len(q) <= n /\ Len(q) \in Nat
      BY DEF UpTo, Lists
    <3>2. QED
      BY <3>1 DEF UpTo
  <2>2. f[q] = IF q = <<>> THEN <<>> ELSE Head(q) \o f[Tail(q)]
    BY Zenon DEF Joins
  <2>3. QED
    BY <2>1, <2>2, Zenon
<1>2. ASSUME NEW q \in UpTo(n + 1), q # <<>> PROVE f[Tail(q)] = g[Tail(q)]
  <2>1. Tail(q) \in UpTo(n)
    BY <1>2, ShorterTail DEF UpTo
  <2>2. QED
    BY <1>1, <2>1, Zenon
<1>3. g = [q \in UpTo(n + 1) |-> IF q = <<>> THEN <<>> ELSE Head(q) \o g[Tail(q)]]
  <2>1. \A q \in UpTo(n + 1) :
          (IF q = <<>> THEN <<>> ELSE Head(q) \o f[Tail(q)])
            = (IF q = <<>> THEN <<>> ELSE Head(q) \o g[Tail(q)])
    BY <1>2, Zenon
  <2>2. QED
    BY <2>1, Zenon
<1>4. QED
  BY <1>3, Zenon DEF Joins

LEMMA JoinExists == \A n \in Nat : \E f : Joins(f, n)
<1> DEFINE S == {n \in Nat : \E f : Joins(f, n)}
<1>1. 0 \in S
  <2> DEFINE f == [q \in UpTo(0) |-> <<>>]
  <2>1. \A q \in UpTo(0) : q = <<>>
    BY ShorterTail DEF UpTo
  <2>2. f = [q \in UpTo(0) |-> IF q = <<>> THEN <<>> ELSE Head(q) \o f[Tail(q)]]
    BY <2>1, Zenon
  <2>3. Joins(f, 0)
    BY <2>2, Zenon DEF Joins
  <2>4. QED
    BY <2>3, Zenon
<1>2. \A n \in Nat : n \in S => n + 1 \in S
  BY JoinStep
<1> HIDE DEF S
<1>3. \A n \in Nat : n \in S
  BY <1>1, <1>2, CountUp, Zenon
<1>4. QED
  BY <1>3, Zenon DEF S

LEMMA JoinUnique ==
  ASSUME NEW n \in Nat, NEW m \in Nat, NEW f, NEW g, Joins(f, n), Joins(g, m), n <= m
  PROVE  \A q \in UpTo(n) : f[q] = g[q]
<1> DEFINE S == {k \in Nat : \A q \in UpTo(n) : Len(q) = k => f[q] = g[q]}
<1>1. ASSUME NEW q \in UpTo(n)
      PROVE  /\ q \in UpTo(m)
             /\ f[q] = IF q = <<>> THEN <<>> ELSE Head(q) \o f[Tail(q)]
             /\ g[q] = IF q = <<>> THEN <<>> ELSE Head(q) \o g[Tail(q)]
  <2>1. q \in UpTo(m)
    <3>1. q \in Lists /\ Len(q) <= n /\ Len(q) \in Nat
      BY DEF UpTo, Lists
    <3>2. QED
      BY <3>1 DEF UpTo
  <2>2. f[q] = IF q = <<>> THEN <<>> ELSE Head(q) \o f[Tail(q)]
    BY Zenon DEF Joins
  <2>3. g[q] = IF q = <<>> THEN <<>> ELSE Head(q) \o g[Tail(q)]
    BY <2>1, Zenon DEF Joins
  <2>4. QED
    BY <2>1, <2>2, <2>3, Zenon
<1>2. 0 \in S
  <2>1. ASSUME NEW q \in UpTo(n), Len(q) = 0 PROVE f[q] = g[q]
    <3>1. q = <<>>
      BY <2>1, ShorterTail, Zenon DEF UpTo
    <3>2. QED
      BY <1>1, <3>1, Zenon
  <2>2. QED
    BY <2>1, Zenon
<1>3. ASSUME NEW k \in Nat, k \in S PROVE k + 1 \in S
  <2>1. ASSUME NEW q \in UpTo(n), Len(q) = k + 1 PROVE f[q] = g[q]
    <3>1. q # <<>>
      BY <2>1, EmptySeq
    <3>2. Tail(q) \in UpTo(n) /\ Len(Tail(q)) = k
      BY <2>1, <3>1, ShorterTail DEF UpTo
    <3>3. f[Tail(q)] = g[Tail(q)]
      BY <1>3, <3>2, Zenon
    <3>4. QED
      BY <1>1, <3>1, <3>3, Zenon
  <2>2. QED
    BY <2>1
<1> HIDE DEF S
<1>4. \A k \in Nat : k \in S
  BY <1>2, <1>3, CountUp, Zenon
<1>5. \A q \in UpTo(n) : Len(q) \in Nat
  BY DEF UpTo, Lists
<1>6. QED
  BY <1>4, <1>5, Zenon DEF S

(* So Concat is the function its definition describes. *)
LEMMA ConcatDef ==
  Concat = [q \in Lists |-> IF q = <<>> THEN <<>> ELSE Head(q) \o Concat[Tail(q)]]
<1> DEFINE J(n) == CHOOSE f : Joins(f, n)
           F == [q \in Lists |-> J(Len(q))[q]]
           e(q, f) == IF q = <<>> THEN <<>> ELSE Head(q) \o f[Tail(q)]
<1>1. \A n \in Nat : Joins(J(n), n)
  BY JoinExists, Zenon
<1> HIDE DEF J
<1>2. ASSUME NEW q \in Lists PROVE F[q] = e(q, F)
  <2>1. Len(q) \in Nat /\ q \in UpTo(Len(q))
    BY DEF UpTo, Lists
  <2>2. F[q] = J(Len(q))[q]
    BY Zenon
  <2>3. J(Len(q))[q] = e(q, J(Len(q)))
    BY <1>1, <2>1, Zenon DEF Joins
  <2>4. ASSUME q # <<>> PROVE J(Len(q))[Tail(q)] = F[Tail(q)]
    <3> DEFINE t == Tail(q)
    <3>1. t \in Lists /\ Len(t) \in Nat /\ Len(t) <= Len(q)
      BY <2>4, ShorterTail
    <3>2. t \in UpTo(Len(t))
      BY <3>1 DEF UpTo
    <3>3. J(Len(t))[t] = J(Len(q))[t]
      BY <1>1, <2>1, <3>1, <3>2, JoinUnique
    <3>4. F[t] = J(Len(t))[t]
      BY <3>1, Zenon
    <3>5. QED
      BY <3>3, <3>4, Zenon
  <2>5. QED
    BY <2>2, <2>3, <2>4, Zenon
<1>3. F = [q \in Lists |-> e(q, F)]
  <2>1. F = [q \in Lists |-> F[q]]
    BY Zenon
  <2> HIDE DEF F
  <2>2. QED
    BY <1>2, <2>1, Zenon
<1> HIDE DEF F
<1>4. \E f : f = [q \in Lists |-> e(q, f)]
  BY <1>3, Zenon
<1>5. Concat = CHOOSE f : f = [q \in Lists |-> e(q, f)]
  BY Zenon DEF Concat, Lists
<1>6. QED
  BY <1>4, <1>5, Zenon

LEMMA ConcatCases ==
  /\ Concat[<<>>] = <<>>
  /\ \A q \in Lists : q # <<>> => Concat[q] = Head(q) \o Concat[Tail(q)]
<1>1. <<>> \in Lists
  BY EmptySeq, Zenon DEF Lists
<1>2. QED
  BY <1>1, ConcatDef, Zenon

LEMMA ConcatType ==
  ASSUME NEW q \in Lists
  PROVE  Concat[q] \in Seq(Byte)
<1> DEFINE S == {n \in Nat : \A p \in Lists : Len(p) = n => Concat[p] \in Seq(Byte)}
<1>1. 0 \in S
  <2>1. ASSUME NEW p \in Lists, Len(p) = 0 PROVE Concat[p] \in Seq(Byte)
    <3>1. p = <<>>
      BY <2>1, ShorterTail, Zenon
    <3>2. QED
      BY <3>1, ConcatCases, EmptySeq, Zenon
  <2>2. QED
    BY <2>1, Zenon
<1>2. ASSUME NEW n \in Nat, n \in S PROVE n + 1 \in S
  <2>1. ASSUME NEW p \in Lists, Len(p) = n + 1 PROVE Concat[p] \in Seq(Byte)
    <3>1. p # <<>>
      BY <2>1, EmptySeq
    <3>2. Tail(p) \in Lists /\ Head(p) \in Seq(Byte) /\ Len(Tail(p)) = n
      BY <2>1, <3>1, ShorterTail
    <3>3. Concat[Tail(p)] \in Seq(Byte)
      BY <1>2, <3>2, Zenon
    <3>4. Concat[p] = Head(p) \o Concat[Tail(p)]
      BY <3>1, ConcatCases, Zenon
    <3>5. QED
      BY <3>2, <3>3, <3>4, ConcatProperties, Zenon
  <2>2. QED
    BY <2>1
<1> HIDE DEF S
<1>3. \A n \in Nat : n \in S
  BY <1>1, <1>2, CountUp, Zenon
<1>4. Len(q) \in Nat
  BY DEF Lists
<1>5. QED
  BY <1>3, <1>4, Zenon DEF S

LEMMA Associative ==
  ASSUME NEW x \in Seq(Byte), NEW y \in Seq(Byte), NEW z \in Seq(Byte)
  PROVE  x \o (y \o z) = (x \o y) \o z
<1>1. (x \o y) \o z = x \o (y \o z)
  BY ONLY ConcatAssociative, x \in Seq(Byte), y \in Seq(Byte), z \in Seq(Byte), SMTT(30)
<1>2. QED
  BY <1>1, Zenon

(* A message added to the queue is added to the bytes. *)
LEMMA ConcatAppend ==
  ASSUME NEW q \in Lists, NEW d \in Seq(Byte)
  PROVE  Concat[Append(q, d)] = Concat[q] \o d
<1> DEFINE S == {n \in Nat : \A p \in Lists : Len(p) = n => Concat[Append(p, d)] = Concat[p] \o d}
<1>1. ASSUME NEW p \in Lists
      PROVE  /\ Append(p, d) \in Lists /\ Append(p, d) # <<>>
             /\ Head(Append(p, d)) = IF p = <<>> THEN d ELSE Head(p)
             /\ Tail(Append(p, d)) = IF p = <<>> THEN <<>> ELSE Append(Tail(p), d)
  <2> DEFINE B == Seq(Byte)
  <2>1. p \in Seq(B) /\ d \in B
    BY Zenon DEF Lists
  <2> HIDE DEF B
  <2>2. Append(p, d) \in Seq(B) /\ Append(p, d) # <<>>
    BY <2>1, AppendProperties
  <2>3. /\ Head(Append(p, d)) = IF p = <<>> THEN d ELSE Head(p)
        /\ Tail(Append(p, d)) = IF p = <<>> THEN <<>> ELSE Append(Tail(p), d)
    BY <2>1, HeadTailAppend, Zenon
  <2>4. QED
    BY <2>2, <2>3, Zenon DEF B, Lists
<1>2. 0 \in S
  <2>1. ASSUME NEW p \in Lists, Len(p) = 0 PROVE Concat[Append(p, d)] = Concat[p] \o d
    <3>1. p = <<>>
      BY <2>1, ShorterTail, Zenon
    <3>2. Concat[Append(p, d)] = d \o Concat[<<>>]
      BY <1>1, <3>1, ConcatCases, Zenon
    <3>3. d \o <<>> = d /\ <<>> \o d = d
      BY ConcatEmptySeq, Zenon
    <3>4. QED
      BY <3>1, <3>2, <3>3, ConcatCases, Zenon
  <2>2. QED
    BY <2>1, Zenon
<1>3. ASSUME NEW n \in Nat, n \in S PROVE n + 1 \in S
  <2>1. ASSUME NEW p \in Lists, Len(p) = n + 1 PROVE Concat[Append(p, d)] = Concat[p] \o d
    <3>1. p # <<>>
      BY <2>1, EmptySeq
    <3>2. Tail(p) \in Lists /\ Head(p) \in Seq(Byte) /\ Len(Tail(p)) = n
      BY <2>1, <3>1, ShorterTail
    <3>3. Concat[Append(Tail(p), d)] = Concat[Tail(p)] \o d
      BY <1>3, <3>2, Zenon
    <3>4. Concat[Append(p, d)] = Head(p) \o Concat[Append(Tail(p), d)]
      BY <1>1, <3>1, ConcatCases, Zenon
    <3>5. Concat[p] = Head(p) \o Concat[Tail(p)] /\ Concat[Tail(p)] \in Seq(Byte)
      BY <3>1, <3>2, ConcatCases, ConcatType, Zenon
    <3>6. QED
      <4> DEFINE h == Head(p)
                 t == Concat[Tail(p)]
      <4>1. h \o (t \o d) = (h \o t) \o d
        BY <3>2, <3>5, Associative, Zenon
      <4>2. QED
        BY <3>3, <3>4, <3>5, <4>1, Zenon
  <2>2. QED
    BY <2>1
<1> HIDE DEF S
<1>4. \A n \in Nat : n \in S
  BY <1>2, <1>3, CountUp, Zenon
<1>5. Len(q) \in Nat
  BY DEF Lists
<1>6. QED
  BY <1>4, <1>5, Zenon DEF S

(* The first message is the front of the bytes, the others are the rest. *)
LEMMA ConcatSplits ==
  ASSUME NEW q \in Lists, q # <<>>
  PROVE  /\ Len(Head(q)) <= Len(Concat[q])
         /\ SubSeq(Concat[q], 1, Len(Head(q))) = Head(q)
         /\ SubSeq(Concat[q], Len(Head(q)) + 1, Len(Concat[q])) = Concat[Tail(q)]
<1> DEFINE h == Head(q)
           t == Concat[Tail(q)]
           c == Concat[q]
<1>1. h \in Seq(Byte) /\ t \in Seq(Byte) /\ c = h \o t
  BY ShorterTail, ConcatType, ConcatCases, Zenon
<1> HIDE DEF h, t, c
<1>2. /\ c \in Seq(Byte) /\ Len(c) = Len(h) + Len(t) /\ Len(h) \in Nat /\ Len(t) \in Nat
      /\ \A i \in 1 .. Len(h) + Len(t) : c[i] = IF i <= Len(h) THEN h[i] ELSE t[i - Len(h)]
  BY <1>1, ConcatProperties
<1>3. SubSeq(c, 1, Len(h)) = h
  BY <1>1, <1>2
<1>4. SubSeq(c, Len(h) + 1, Len(c)) = t
  BY <1>1, <1>2
<1>5. QED
  <2>1. Len(h) <= Len(c)
    BY <1>2
  <2>2. QED
    BY <1>3, <1>4, <2>1, Zenon DEF h, t, c

-----------------------------------------------------------------------------
(* A queue of messages is a list of byte strings. *)
LEMMA QueueIsList ==
  ASSUME TypeOK, ~use_buffer, NEW m \in MsgIds
  PROVE  mapbuffer[m] \in Lists
<1> DEFINE B == Seq(Byte)
<1>1. mapbuffer[m] \in Seq(Messages)
  BY Queues, Zenon
<1>2. Messages \subseteq B
  BY DataAssumption, Zenon
<1> HIDE DEF B
<1>3. mapbuffer[m] \in Seq(B)
  BY <1>1, <1>2
<1>4. QED
  BY <1>3, Zenon DEF B, Lists

(* write adds its message's bytes at the end of m's stream and leaves the  *)
(* other streams alone.                                                    *)
LEMMA WritePuts ==
  ASSUME TypeOK, NEW m \in MsgIds, NEW d \in Messages, Write(m, d)
  PROVE  /\ Bytes(m)' = Bytes(m) \o d
         /\ \A n \in MsgIds \ {m} : Bytes(n)' = Bytes(n)
         /\ \A n \in MsgIds : Handed(n)' = Handed(n)
<1>1. UNCHANGED <<use_buffer, call, ret>>
  BY Zenon DEF Write
<1>2. mapbuffer' = [mapbuffer EXCEPT ![m] = Stored(m, d)]
  BY Zenon DEF Write
<1>3. mapbuffer'[m] = Stored(m, d) /\ \A n \in MsgIds \ {m} : mapbuffer'[n] = mapbuffer[n]
  BY <1>2, Zenon DEF TypeOK
<1>4. Bytes(m)' = Bytes(m) \o d
  <2>1. CASE use_buffer
    BY <1>1, <1>3, <2>1, Zenon DEF Bytes, Stored
  <2>2. CASE ~use_buffer
    <3>1. d \in Seq(Byte) /\ mapbuffer[m] \in Lists
      BY <2>2, DataAssumption, QueueIsList, Zenon
    <3>2. Concat[Append(mapbuffer[m], d)] = Concat[mapbuffer[m]] \o d
      BY <3>1, ConcatAppend, Zenon
    <3>3. QED
      BY <1>1, <1>3, <2>2, <3>2, Zenon DEF Bytes, Stored
  <2>3. QED
    BY <2>1, <2>2, Zenon
<1>5. \A n \in MsgIds \ {m} : Bytes(n)' = Bytes(n)
  BY <1>1, <1>3, Zenon DEF Bytes
<1>6. \A n \in MsgIds : Handed(n)' = Handed(n)
  BY <1>1, Zenon DEF Handed, Got
<1>7. QED
  BY <1>4, <1>5, <1>6, Zenon

ReadLengths == {Int32(l) : l \in Lengths} \cup {Len(d) : d \in Messages}

(* What recv takes is the front of the stream, and what it leaves the rest. *)
LEMMA TakenFromFront ==
  ASSUME TypeOK, NEW c \in Calls, Ready(c)
  PROVE  \E k \in ReadLengths :
           LET s == Bytes(c.msgid)
           IN /\ k <= Len(s)
              /\ Taken(c) = SubSeq(s, 1, k)
              /\ (IF use_buffer THEN Left(c) ELSE Concat[Left(c)]) = SubSeq(s, k + 1, Len(s))
<1> DEFINE s == Bytes(c.msgid)
<1>1. c.msgid \in MsgIds /\ (use_buffer => c.length \in Lengths)
  BY Zenon DEF Calls
<1>2. CASE use_buffer
  <2>1. s = Waiting(c)
    BY <1>2, Zenon DEF Bytes, Waiting
  <2>2. Asked(c) \in ReadLengths /\ Len(s) >= Asked(c)
    BY <1>1, <1>2, <2>1, Zenon DEF Ready, ReadLengths, Asked
  <2>3. Asked(c) \in Nat /\ Len(s) \in Nat
    <3>1. Asked(c) \in Nat
      BY <1>1, <1>2, LengthAssumption, Zenon DEF Asked
    <3>2. Len(s) \in Nat
      BY <1>1, <2>1, Queues, Zenon DEF Waiting
    <3>3. QED
      BY <3>1, <3>2, Zenon
  <2>4. Asked(c) <= Len(s)
    BY <2>2, <2>3, Zenon
  <2>5. Taken(c) = SubSeq(s, 1, Asked(c)) /\ Left(c) = SubSeq(s, Asked(c) + 1, Len(s))
    BY <1>2, <2>1, Zenon DEF Taken, Left
  <2> HIDE DEF s
  <2>6. QED
    BY <1>2, <2>2, <2>4, <2>5, Zenon DEF s
<1>3. CASE ~use_buffer
  <2> DEFINE q == mapbuffer[c.msgid]
  <2>1. q \in Lists /\ q # <<>> /\ Head(q) \in Messages
    <3>1. q \in Seq(Messages) /\ q # <<>>
      BY <1>1, <1>3, Queues, Zenon DEF Ready, Waiting
    <3>2. q \in Lists
      BY <1>1, <1>3, QueueIsList, Zenon
    <3>3. QED
      BY <3>1, <3>2
  <2>2. s = Concat[q] /\ Taken(c) = Head(q) /\ Left(c) = Tail(q)
    BY <1>3, Zenon DEF Bytes, Taken, Left, Waiting
  <2> HIDE DEF q, s
  <2> DEFINE k == Len(Head(q))
  <2>3. k \in ReadLengths
    BY <2>1, Zenon DEF ReadLengths
  <2>4. k <= Len(s) /\ Taken(c) = SubSeq(s, 1, k) /\ Concat[Left(c)] = SubSeq(s, k + 1, Len(s))
    BY <2>1, <2>2, ConcatSplits, Zenon
  <2> HIDE DEF k
  <2>5. QED
    BY <1>3, <2>3, <2>4, Zenon DEF s
<1>4. QED
  BY <1>2, <1>3, Zenon

(* recv hands the front of its own msgid's stream to its caller and        *)
(* touches no other stream.                                                *)
LEMMA TakeGets ==
  ASSUME TypeOK, NEW r \in Receivers, Take(r), NEW m \in MsgIds, m = call[r].msgid
  PROVE  /\ \E k \in ReadLengths :
              /\ k <= Len(Bytes(m))
              /\ Handed(m)' = [Handed(m) EXCEPT ![r] = SubSeq(Bytes(m), 1, k)]
              /\ Bytes(m)' = SubSeq(Bytes(m), k + 1, Len(Bytes(m)))
         /\ \A n \in MsgIds \ {m} : Bytes(n)' = Bytes(n) /\ Handed(n)' = Handed(n)
<1> DEFINE c == call[r]
<1>1. c \in Calls /\ Ready(c)
  BY Zenon DEF TypeOK, Take
<1>2. /\ UNCHANGED <<use_buffer, call>>
      /\ mapbuffer' = [mapbuffer EXCEPT ![m] = Left(c)]
      /\ ret' = [ret EXCEPT ![r] = Taken(c)]
  BY Zenon DEF Take, Return
<1>3. /\ mapbuffer'[m] = Left(c) /\ \A n \in MsgIds \ {m} : mapbuffer'[n] = mapbuffer[n]
      /\ ret'[r] = Taken(c) /\ \A t \in Receivers \ {r} : ret'[t] = ret[t]
  BY <1>2, Zenon DEF TypeOK
<1>4. Taken(c) \notin {None, TimedOut}
  BY <1>1, TakenAndLeft, ReturnAssumption, Zenon
<1>5. Bytes(m)' = IF use_buffer THEN Left(c) ELSE Concat[Left(c)]
  <2>1. use_buffer' = use_buffer /\ mapbuffer'[m] = Left(c)
    BY <1>2, <1>3, Zenon
  <2> HIDE DEF c
  <2>2. QED
    BY <2>1, Zenon DEF Bytes
<1>6. Handed(m)' = [Handed(m) EXCEPT ![r] = Taken(c)]
  <2>1. Got(r, m)' = Taken(c)
    BY <1>2, <1>3, <1>4, Zenon DEF Got
  <2>2. \A t \in Receivers \ {r} : Got(t, m)' = Got(t, m)
    BY <1>2, <1>3, Zenon DEF Got
  <2>3. Handed(m)' = [t \in Receivers |-> Got(t, m)'] /\ Handed(m) = [t \in Receivers |-> Got(t, m)]
    BY <1>2, Zenon DEF Handed, Got
  <2> DEFINE h == [t \in Receivers |-> Got(t, m)]
             g == [t \in Receivers |-> Got(t, m)']
  <2>4. \A t \in Receivers : g[t] = [h EXCEPT ![r] = Taken(c)][t]
    BY <2>1, <2>2, Zenon
  <2>5. g = [h EXCEPT ![r] = Taken(c)]
    BY <2>4, Zenon
  <2>6. QED
    BY <2>3, <2>5, Zenon
<1>7. \A n \in MsgIds \ {m} : Bytes(n)' = Bytes(n) /\ Handed(n)' = Handed(n)
  <2> TAKE n \in MsgIds \ {m}
  <2>1. Bytes(n)' = Bytes(n)
    <3>1. use_buffer' = use_buffer /\ mapbuffer'[n] = mapbuffer[n]
      BY <1>2, <1>3, Zenon
    <3>2. QED
      BY <3>1, Zenon DEF Bytes
  <2>2. \A t \in Receivers : Got(t, n)' = Got(t, n)
    BY <1>2, <1>3, Zenon DEF Got
  <2>3. QED
    BY <2>1, <2>2, Zenon DEF Handed
<1>8. QED
  <2>1. PICK k \in ReadLengths :
          /\ k <= Len(Bytes(m))
          /\ Taken(c) = SubSeq(Bytes(m), 1, k)
          /\ (IF use_buffer THEN Left(c) ELSE Concat[Left(c)])
               = SubSeq(Bytes(m), k + 1, Len(Bytes(m)))
    BY <1>1, TakenFromFront, Zenon
  <2>2. QED
    BY <1>5, <1>6, <1>7, <2>1, Zenon

(* A call that begins or gives up leaves every stream as it is, and its    *)
(* caller with nothing.                                                    *)
LEMMA NothingHanded ==
  ASSUME TypeOK, NEW r \in Receivers, NEW m \in MsgIds,
         ret' = [ret EXCEPT ![r] = None] \/ ret' = [ret EXCEPT ![r] = TimedOut],
         \A t \in Receivers \ {r} : call'[t] = call[t]
  PROVE  Handed(m)' = [Handed(m) EXCEPT ![r] = <<>>]
<1>1. ret'[r] \in {None, TimedOut} /\ \A t \in Receivers \ {r} : ret'[t] = ret[t]
  BY Zenon DEF TypeOK
<1>2. Got(r, m)' = <<>>
  BY <1>1, Zenon DEF Got
<1>3. \A t \in Receivers \ {r} : Got(t, m)' = Got(t, m)
  BY <1>1, Zenon DEF Got
<1> DEFINE h == [t \in Receivers |-> Got(t, m)]
           g == [t \in Receivers |-> Got(t, m)']
<1>4. \A t \in Receivers : g[t] = [h EXCEPT ![r] = <<>>][t]
  BY <1>2, <1>3, Zenon
<1>5. g = [h EXCEPT ![r] = <<>>]
  BY <1>4, Zenon
<1>6. QED
  BY <1>5, Zenon DEF Handed

(* Each step is a step of every stream, or leaves it alone. *)
LEMMA StreamStep ==
  ASSUME TypeOK, [Next]_vars, NEW n \in MsgIds
  PROVE  [Stream(n)!Next]_<<Bytes(n), Handed(n)>>
<1>1. ASSUME NEW m \in MsgIds, NEW d \in Messages, Write(m, d)
      PROVE  [Stream(n)!Next]_<<Bytes(n), Handed(n)>>
  <2>1. CASE n = m
    <3>1. Bytes(n)' = Bytes(n) \o d /\ Handed(n)' = Handed(n)
      BY <1>1, <2>1, WritePuts, Zenon
    <3>2. Stream(n)!Put
      BY <3>1, Zenon DEF Stream!Put
    <3>3. QED
      BY <3>2, Zenon DEF Stream!Next
  <2>2. CASE n # m
    BY <1>1, <2>2, WritePuts, Zenon
  <2>3. QED
    BY <2>1, <2>2, Zenon
<1>2. ASSUME NEW r \in Receivers, Take(r)
      PROVE  [Stream(n)!Next]_<<Bytes(n), Handed(n)>>
  <2>1. CASE n = call[r].msgid
    <3>1. PICK k \in ReadLengths :
            /\ k <= Len(Bytes(n))
            /\ Handed(n)' = [Handed(n) EXCEPT ![r] = SubSeq(Bytes(n), 1, k)]
            /\ Bytes(n)' = SubSeq(Bytes(n), k + 1, Len(Bytes(n)))
      BY <1>2, <2>1, TakeGets, Zenon
    <3>2. Stream(n)!Get(r)
      BY <3>1, Zenon DEF Stream!Get, ReadLengths
    <3>3. QED
      BY <3>2, Zenon DEF Stream!Next
  <2>2. CASE n # call[r].msgid
    <3>1. call[r].msgid \in MsgIds
      BY <1>2, Zenon DEF TypeOK, Take, Calls
    <3>2. PICK m \in MsgIds : m = call[r].msgid
      BY <3>1, Zenon
    <3>3. QED
      BY <1>2, <2>2, <3>2, TakeGets, Zenon
  <2>3. QED
    BY <2>1, <2>2, Zenon
<1>3. ASSUME NEW r \in Receivers, Handed(n)' = [Handed(n) EXCEPT ![r] = <<>>],
             UNCHANGED <<use_buffer, mapbuffer>>
      PROVE  [Stream(n)!Next]_<<Bytes(n), Handed(n)>>
  <2>1. Bytes(n)' = Bytes(n)
    BY <1>3, Zenon DEF Bytes
  <2>2. Stream(n)!Return(r)
    BY <1>3, <2>1, Zenon DEF Stream!Return
  <2>3. QED
    BY <2>2, Zenon DEF Stream!Next
<1>4. ASSUME NEW r \in Receivers, NEW c \in Calls, Recv(r, c)
      PROVE  [Stream(n)!Next]_<<Bytes(n), Handed(n)>>
  <2>1. \A t \in Receivers \ {r} : call'[t] = call[t]
    BY <1>4, Zenon DEF TypeOK, Recv
  <2>2. Handed(n)' = [Handed(n) EXCEPT ![r] = <<>>]
    BY <1>4, <2>1, NothingHanded, Zenon DEF Recv
  <2>3. QED
    BY <1>3, <1>4, <2>2, Zenon DEF Recv
<1>5. ASSUME NEW r \in Receivers, Expire(r)
      PROVE  [Stream(n)!Next]_<<Bytes(n), Handed(n)>>
  <2>1. /\ ret' = [ret EXCEPT ![r] = TimedOut] /\ call' = call
        /\ UNCHANGED <<use_buffer, mapbuffer>>
    BY <1>5, Zenon DEF Expire, Return
  <2>2. Handed(n)' = [Handed(n) EXCEPT ![r] = <<>>]
    BY <2>1, NothingHanded, Zenon
  <2>3. QED
    BY <1>3, <2>1, <2>2, Zenon
<1>6. CASE UNCHANGED <<use_buffer, mapbuffer, call, ret>>
  BY <1>6, Zenon DEF Bytes, Handed, Got
<1>7. ASSUME NEW r \in Receivers, Sleep(r) \/ Wake(r) \/ SpuriousWake(r)
      PROVE  UNCHANGED <<use_buffer, mapbuffer, call, ret>>
  BY <1>7, Zenon DEF Sleep, Wake, SpuriousWake, Resume
<1>8. Tick \/ UNCHANGED vars => UNCHANGED <<use_buffer, mapbuffer, call, ret>>
  BY Zenon DEF Tick, vars
<1>9. QED
  BY <1>1, <1>2, <1>4, <1>5, <1>6, <1>7, <1>8, Zenon DEF Next, Step

(* In both builds each msgid is one byte stream: every recv hands over the *)
(* bytes at its front and nothing else is ever lost, doubled or mixed up   *)
(* with another msgid's.                                                   *)
THEOREM ConnectionIsStreams == Spec => ImplementsStreams
<1>1. Init => \A m \in MsgIds : Stream(m)!Init
  <2> SUFFICES ASSUME Init, NEW m \in MsgIds PROVE Stream(m)!Init
    BY Zenon
  <2>1. Bytes(m) = <<>>
    <3>1. mapbuffer[m] = <<>> /\ <<>> \in Lists
      BY Zenon, EmptySeq DEF Init, Lists
    <3>2. QED
      BY <3>1, ConcatCases, Zenon DEF Bytes
  <2>2. Handed(m) = [t \in Receivers |-> <<>>]
    BY Zenon DEF Init, Handed, Got
  <2>3. QED
    BY <2>1, <2>2, Zenon DEF Stream!Init
<1>2. TypeOK /\ [Next]_vars => \A m \in MsgIds : [Stream(m)!Next]_<<Bytes(m), Handed(m)>>
  BY StreamStep, Zenon
<1>3. QED
  BY <1>1, <1>2, QueuesKeepTheirKind, PTL DEF Spec, ImplementsStreams
=============================================================================
