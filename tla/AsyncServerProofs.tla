------------------------- MODULE AsyncServerProofs -------------------------
(***************************************************************************)
(* Proofs about module AsyncServer: its safety properties, for any number  *)
(* of client nodes and requests.                                           *)
(***************************************************************************)
EXTENDS AsyncServer, SequenceTheorems, TLAPS

(* A request nobody has dispatched has no answer, and a queue that is      *)
(* destroyed is empty: so run's last loop has nothing to answer again.     *)
Bookkeeping ==
  /\ \A q \in Requests : target[q] = NoNode => answers[q] = <<>>
  /\ \A n \in Nodes : done[n] => callbacks[n] = <<>>

IInv == /\ TypeOK
        /\ Bookkeeping
        /\ NoMissedNotify
        /\ AnsweredOnce
        /\ NothingAcceptedIsLost
        /\ StoredIsPrefix

-----------------------------------------------------------------------------
(* Storing: the head of the list moves to the end of what is stored. *)
LEMMA MoveHead ==
  ASSUME NEW S, NEW s \in Seq(S), NEW t \in Seq(S), t # <<>>
  PROVE  Append(s, Head(t)) \o Tail(t) = s \o t
<1>1. Head(t) \in S /\ Tail(t) \in Seq(S) /\ t = <<Head(t)>> \o Tail(t)
  BY HeadTailProperties
<1>2. Append(s, Head(t)) = s \o <<Head(t)>>
  BY <1>1, AppendIsConcat, Zenon
<1>3. <<Head(t)>> \in Seq(S)
  BY <1>1
<1>4. QED
  BY <1>1, <1>2, <1>3, ConcatAssociative, SMTT(40)

(* The first part of a concatenation is a prefix of it. *)
LEMMA FirstPart ==
  ASSUME NEW S, NEW s \in Seq(S), NEW t \in Seq(S)
  PROVE  /\ Len(s) <= Len(s \o t)
         /\ s = SubSeq(s \o t, 1, Len(s))
<1>1. Len(s \o t) = Len(s) + Len(t) /\ Len(s) \in Nat /\ Len(t) \in Nat
  BY ConcatProperties, LenProperties, Zenon
<1>2. QED
  BY <1>1, SubSeqOfConcat1, SubSeqFull

-----------------------------------------------------------------------------
(* Nothing has been started. *)
LEMMA InitInv == Init => IInv
<1> SUFFICES ASSUME Init PROVE IInv
  BY Zenon
<1>1. TypeOK
  BY DEF Init, TypeOK
<1>2. Bookkeeping /\ NoMissedNotify /\ AnsweredOnce
  BY DEF Init, Bookkeeping, NoMissedNotify, AnsweredOnce
<1>3. <<>> \in Seq(Requests) /\ <<>> \o <<>> = <<>> /\ Len(<<>>) = 0
  OBVIOUS
<1>4. SubSeq(<<>>, 1, 0) = <<>>
  BY SubSeqEmpty
<1>5. NothingAcceptedIsLost /\ StoredIsPrefix
  BY <1>3, <1>4 DEF Init, NothingAcceptedIsLost, StoredIsPrefix
<1>6. QED
  BY <1>1, <1>2, <1>5, Zenon DEF IInv

(* A worker that has just been started does not wait yet. *)
LEMMA StartInv ==
  ASSUME IInv, NEW n \in Nodes, Start(n)
  PROVE  IInv'
<1>1. TypeOK'
  BY Zenon DEF IInv, TypeOK, Start
<1>2. Bookkeeping' /\ AnsweredOnce'
  BY Zenon DEF IInv, TypeOK, Bookkeeping, AnsweredOnce, Start
<1>3. NoMissedNotify'
  BY Zenon DEF IInv, TypeOK, NoMissedNotify, Start
<1>4. NothingAcceptedIsLost' /\ StoredIsPrefix'
  BY Zenon DEF IInv, NothingAcceptedIsLost, StoredIsPrefix, Start
<1>5. QED
  BY <1>1, <1>2, <1>3, <1>4, Zenon DEF IInv

(* Activating, failing and destroying the adapter touch no queue. *)
LEMMA AdapterInv ==
  ASSUME IInv, Activate \/ ConstructorThrows \/ Close
  PROVE  IInv'
<1>1. /\ adapter' \in {"active", "failed", "destroyed"}
      /\ UNCHANGED <<worker, signalled, done, callbacks, stored, accepted, target, answers>>
  BY Zenon DEF Activate, ConstructorThrows, Close
<1>2. TypeOK'
  BY <1>1, Zenon DEF IInv, TypeOK
<1>3. Bookkeeping' /\ AnsweredOnce'
  BY <1>1, Zenon DEF IInv, TypeOK, Bookkeeping, AnsweredOnce
<1>4. NoMissedNotify'
  BY <1>1, Zenon DEF IInv, TypeOK, NoMissedNotify
<1>5. NothingAcceptedIsLost' /\ StoredIsPrefix'
  BY <1>1, Zenon DEF IInv, NothingAcceptedIsLost, StoredIsPrefix
<1>6. QED
  BY <1>2, <1>3, <1>4, <1>5, Zenon DEF IInv

(* A worker that holds _monitor does not wait. *)
LEMMA EnterInv ==
  ASSUME IInv, NEW n \in Nodes, Enter(n)
  PROVE  IInv'
<1>1. TypeOK'
  BY Zenon DEF IInv, TypeOK, Enter
<1>2. Bookkeeping' /\ AnsweredOnce'
  BY Zenon DEF IInv, TypeOK, Bookkeeping, AnsweredOnce, Enter
<1>3. NoMissedNotify'
  BY Zenon DEF IInv, TypeOK, NoMissedNotify, Enter
<1>4. NothingAcceptedIsLost' /\ StoredIsPrefix'
  BY Zenon DEF IInv, NothingAcceptedIsLost, StoredIsPrefix, Enter
<1>5. QED
  BY <1>1, <1>2, <1>3, <1>4, Zenon DEF IInv

(* Nor does one that wait has released without a signal. *)
LEMMA SpuriousEnterInv ==
  ASSUME IInv, NEW n \in Nodes, SpuriousEnter(n)
  PROVE  IInv'
<1>1. TypeOK'
  BY Zenon DEF IInv, TypeOK, SpuriousEnter
<1>2. Bookkeeping' /\ AnsweredOnce'
  BY Zenon DEF IInv, TypeOK, Bookkeeping, AnsweredOnce, SpuriousEnter
<1>3. NoMissedNotify'
  BY Zenon DEF IInv, TypeOK, NoMissedNotify, SpuriousEnter
<1>4. NothingAcceptedIsLost' /\ StoredIsPrefix'
  BY Zenon DEF IInv, NothingAcceptedIsLost, StoredIsPrefix, SpuriousEnter
<1>5. QED
  BY <1>1, <1>2, <1>3, <1>4, Zenon DEF IInv

(* It waits only with an empty list and not told to stop. *)
LEMMA WaitInv ==
  ASSUME IInv, NEW n \in Nodes, Wait(n)
  PROVE  IInv'
<1>1. TypeOK'
  BY Zenon DEF IInv, TypeOK, Wait
<1>2. Bookkeeping' /\ AnsweredOnce'
  BY Zenon DEF IInv, TypeOK, Bookkeeping, AnsweredOnce, Wait
<1>3. NoMissedNotify'
  BY Zenon DEF IInv, TypeOK, NoMissedNotify, Wait
<1>4. NothingAcceptedIsLost' /\ StoredIsPrefix'
  BY Zenon DEF IInv, NothingAcceptedIsLost, StoredIsPrefix, Wait
<1>5. QED
  BY <1>1, <1>2, <1>3, <1>4, Zenon DEF IInv

(* The worker stores the head: the stream is the same, cut one further. *)
LEMMA WriteFrontInv ==
  ASSUME IInv, NEW n \in Nodes, WriteFront(n)
  PROVE  IInv'
<1> DEFINE cb == callbacks[n]
           st == stored[n]
<1>1. cb \in Seq(Requests) /\ st \in Seq(Requests) /\ cb # <<>>
  BY Zenon DEF IInv, TypeOK, WriteFront
<1>2. Head(cb) \in Requests /\ Tail(cb) \in Seq(Requests)
  BY <1>1, HeadTailProperties, Zenon
<1>3. Append(st, Head(cb)) \in Seq(Requests)
  BY <1>1, <1>2, AppendProperties, Zenon
<1>4. TypeOK'
  BY <1>2, <1>3, Zenon DEF IInv, TypeOK, WriteFront
<1>5. Bookkeeping' /\ AnsweredOnce'
  BY Zenon DEF IInv, TypeOK, Bookkeeping, AnsweredOnce, WriteFront
<1>6. NoMissedNotify'
  BY Zenon DEF IInv, TypeOK, NoMissedNotify, WriteFront
<1>7. Append(st, Head(cb)) \o Tail(cb) = st \o cb
  BY <1>1, MoveHead, Zenon
<1>8. accepted[n] = Append(st, Head(cb)) \o Tail(cb)
  BY <1>7, Zenon DEF IInv, NothingAcceptedIsLost, WriteFront
<1>9. NothingAcceptedIsLost'
  BY <1>8, Zenon DEF IInv, TypeOK, NothingAcceptedIsLost, WriteFront
<1>10. /\ Len(Append(st, Head(cb))) <= Len(accepted[n])
       /\ Append(st, Head(cb)) = SubSeq(accepted[n], 1, Len(Append(st, Head(cb))))
  BY <1>2, <1>3, <1>8, FirstPart, Zenon
<1>11. StoredIsPrefix'
  BY <1>10, Zenon DEF IInv, TypeOK, StoredIsPrefix, WriteFront
<1>12. QED
  BY <1>4, <1>5, <1>6, <1>9, <1>11, Zenon DEF IInv

(* The worker stops; the list it goes through is empty. *)
LEMMA ExitInv ==
  ASSUME IInv, NEW n \in Nodes, Exit(n)
  PROVE  IInv'
<1>1. callbacks[n] = <<>>
  BY Zenon DEF IInv, Bookkeeping, Exit
<1>2. answers' = answers
  BY <1>1 DEF IInv, TypeOK, Exit
<1>3. TypeOK'
  BY <1>2, Zenon DEF IInv, TypeOK, Exit
<1>4. Bookkeeping' /\ AnsweredOnce'
  BY <1>2, Zenon DEF IInv, TypeOK, Bookkeeping, AnsweredOnce, Exit
<1>5. NoMissedNotify'
  BY Zenon DEF IInv, TypeOK, NoMissedNotify, Exit
<1>6. NothingAcceptedIsLost' /\ StoredIsPrefix'
  BY Zenon DEF IInv, NothingAcceptedIsLost, StoredIsPrefix, Exit
<1>7. QED
  BY <1>3, <1>4, <1>5, <1>6, Zenon DEF IInv

(* destroy empties the list and wakes the worker if it waits. *)
LEMMA DestroyInv ==
  ASSUME IInv, NEW n \in Nodes, Destroy(n)
  PROVE  IInv'
<1>1. TypeOK'
  BY DEF IInv, TypeOK, Destroy
<1>2. Bookkeeping' /\ AnsweredOnce'
  BY Zenon DEF IInv, TypeOK, Bookkeeping, AnsweredOnce, Destroy
<1>3. NoMissedNotify'
  BY Zenon DEF IInv, TypeOK, NoMissedNotify, Destroy, MonitorFree
<1>4. NothingAcceptedIsLost'
  BY Zenon DEF IInv, TypeOK, NothingAcceptedIsLost, Destroy
<1>5. StoredIsPrefix'
  BY Zenon DEF IInv, StoredIsPrefix, Destroy
<1>6. QED
  BY <1>1, <1>2, <1>3, <1>4, <1>5, Zenon DEF IInv

(* A request arrives: it is answered and queued, or refused, or ignored. *)
LEMMA SendAsyncInv ==
  ASSUME IInv, NEW q \in Requests, SendAsync(q)
  PROVE  IInv'
<1>1. target[q] = NoNode /\ answers[q] = <<>>
  BY Zenon DEF IInv, Bookkeeping, SendAsync
<1>2. CASE UNCHANGED <<signalled, callbacks, accepted, answers>>
           /\ target' = [target EXCEPT ![q] = Stranger]
  <2>1. TypeOK'
    BY <1>2, Zenon DEF IInv, TypeOK, SendAsync
  <2>2. Bookkeeping' /\ AnsweredOnce'
    BY <1>2, Zenon DEF IInv, TypeOK, Bookkeeping, AnsweredOnce, SendAsync
  <2>3. NoMissedNotify' /\ NothingAcceptedIsLost' /\ StoredIsPrefix'
    BY <1>2, Zenon DEF IInv, NoMissedNotify, NothingAcceptedIsLost, StoredIsPrefix, SendAsync
  <2>4. QED
    BY <2>1, <2>2, <2>3, Zenon DEF IInv
<1>3. ASSUME NEW n \in Nodes, target' = [target EXCEPT ![q] = n], Add(n, q)
      PROVE  IInv'
  <2>1. PICK a \in {OK, Failed} : Answer(q, a)
    BY <1>3, Zenon DEF Add
  <2>2. answers' = [answers EXCEPT ![q] = <<a>>]
    BY <1>1, <2>1 DEF Answer, IInv, TypeOK
  <2>3. /\ answers' \in [Requests -> Seq({OK, Failed})]
        /\ target' \in [Requests -> Nodes \cup {Stranger, NoNode}]
    BY <1>3, <2>2 DEF IInv, TypeOK
  <2>4. AnsweredOnce'
    BY <2>2 DEF IInv, TypeOK, AnsweredOnce
  <2>5. \A r \in Requests : target'[r] = NoNode => answers'[r] = <<>>
    BY <1>3, <2>2, NodeAssumption, Zenon DEF IInv, TypeOK, Bookkeeping
  <2>6. /\ adapter' = adapter /\ worker' = worker /\ done' = done /\ stored' = stored
    BY Zenon DEF SendAsync
  <2>7. CASE done[n]
    <3>1. UNCHANGED <<signalled, callbacks, accepted>>
      BY <1>3, <2>7, Zenon DEF Add
    <3>2. TypeOK'
      BY <2>3, <2>6, <3>1, Zenon DEF IInv, TypeOK
    <3>3. Bookkeeping'
      BY <2>5, <2>6, <3>1, Zenon DEF IInv, Bookkeeping
    <3>4. NoMissedNotify' /\ NothingAcceptedIsLost' /\ StoredIsPrefix'
      BY <2>6, <3>1, Zenon DEF IInv, NoMissedNotify, NothingAcceptedIsLost, StoredIsPrefix
    <3>5. QED
      BY <2>4, <3>2, <3>3, <3>4, Zenon DEF IInv
  <2>8. CASE ~done[n]
    <3> DEFINE cb == callbacks[n]
               st == stored[n]
    <3>1. /\ callbacks' = [callbacks EXCEPT ![n] = Append(cb, q)]
          /\ accepted' = [accepted EXCEPT ![n] = Append(accepted[n], q)]
          /\ signalled' = [signalled EXCEPT ![n] =
                             @ \/ (cb = <<>> /\ worker[n] = "waiting")]
      BY <1>3, <2>8, Zenon DEF Add
    <3>2. /\ cb \in Seq(Requests) /\ st \in Seq(Requests)
          /\ accepted[n] \in Seq(Requests)
      BY Zenon DEF IInv, TypeOK
    <3>3. Append(cb, q) \in Seq(Requests) /\ Append(accepted[n], q) \in Seq(Requests)
      BY <3>2, AppendProperties, Zenon
    <3>4. TypeOK'
      <4>1. signalled' \in [Nodes -> BOOLEAN]
        BY <3>1, Zenon DEF IInv, TypeOK
      <4>2. QED
        BY <2>3, <2>6, <3>1, <3>3, <4>1, Zenon DEF IInv, TypeOK
    <3>5. Bookkeeping'
      BY <2>5, <2>6, <2>8, <3>1, Zenon DEF IInv, TypeOK, Bookkeeping
    <3>6. NoMissedNotify'
      BY <2>6, <3>1, Zenon DEF IInv, TypeOK, NoMissedNotify
    <3>7. Append(accepted[n], q) = st \o Append(cb, q)
      <4>1. accepted[n] = st \o cb
        BY <2>8, Zenon DEF IInv, NothingAcceptedIsLost
      <4>2. Append(accepted[n], q) = accepted[n] \o <<q>>
        BY <3>2, AppendIsConcat, Zenon
      <4>3. Append(cb, q) = cb \o <<q>>
        BY <3>2, AppendIsConcat, Zenon
      <4>4. <<q>> \in Seq(Requests)
        OBVIOUS
      <4> HIDE DEF cb, st
      <4>5. (st \o cb) \o <<q>> = st \o (cb \o <<q>>)
        BY <3>2, <4>4, ConcatAssociative, SMTT(40)
      <4>6. QED
        BY <4>1, <4>2, <4>3, <4>5, Zenon
    <3>8. NothingAcceptedIsLost'
      BY <2>6, <3>1, <3>7, Zenon DEF IInv, TypeOK, NothingAcceptedIsLost
    <3>9. /\ Len(st) <= Len(Append(accepted[n], q))
          /\ st = SubSeq(Append(accepted[n], q), 1, Len(st))
      BY <3>2, <3>3, <3>7, FirstPart, ZenonT(60)
    <3>10. StoredIsPrefix'
      BY <2>6, <3>1, <3>9, Zenon DEF IInv, TypeOK, StoredIsPrefix
    <3>11. QED
      BY <2>4, <3>4, <3>5, <3>6, <3>8, <3>10, Zenon DEF IInv
  <2>9. QED
    BY <2>7, <2>8, Zenon
<1>4. QED
  BY <1>2, <1>3, Zenon DEF SendAsync

-----------------------------------------------------------------------------
(* The invariant holds through every interleaving of requests, workers and *)
(* the destructor.                                                         *)
THEOREM Invariance == Spec => []IInv
<1>1. Init => IInv
  BY InitInv, Zenon
<1>2. IInv /\ [Next]_vars => IInv'
  <2> SUFFICES ASSUME IInv, [Next]_vars PROVE IInv'
    BY Zenon
  <2>1. CASE Next
    BY Zenon, <2>1, StartInv, EnterInv, WaitInv, WriteFrontInv, ExitInv, SpuriousEnterInv,
       DestroyInv, AdapterInv, SendAsyncInv DEF Next, Run
  <2>2. CASE UNCHANGED vars
    BY <2>2, Zenon DEF vars, IInv, TypeOK, Bookkeeping, NoMissedNotify, AnsweredOnce,
                NothingAcceptedIsLost, StoredIsPrefix
  <2>3. QED
    BY <2>1, <2>2, Zenon
<1>3. QED
  BY <1>1, <1>2, PTL DEF Spec

(* A worker that waits unsignalled has an empty list and is not to stop,   *)
(* although WorkQueue::add notifies only when the list was empty and       *)
(* before it appends.                                                      *)
THEOREM WorkersMissNoNotify == Spec => []NoMissedNotify
<1>1. IInv => NoMissedNotify
  BY Zenon DEF IInv
<1>2. QED
  BY <1>1, Invariance, PTL

(* No callback object of WorkQueue is answered twice, the last loop of run *)
(* included.                                                               *)
THEOREM RequestsAreAnsweredOnce == Spec => []AnsweredOnce
<1>1. IInv => AnsweredOnce
  BY Zenon DEF IInv
<1>2. QED
  BY <1>1, Invariance, PTL

(* What a queue has acknowledged is stored or waiting, in order and once,  *)
(* until the queue is destroyed.                                           *)
THEOREM AcceptedIsKept == Spec => []NothingAcceptedIsLost
<1>1. IInv => NothingAcceptedIsLost
  BY Zenon DEF IInv
<1>2. QED
  BY <1>1, Invariance, PTL

(* Even of a queue that was destroyed with requests in its list, what is   *)
(* stored is the beginning of what it accepted: no gap, nothing twice.     *)
THEOREM StoredHasNoGap == Spec => []StoredIsPrefix
<1>1. IInv => StoredIsPrefix
  BY Zenon DEF IInv
<1>2. QED
  BY <1>1, Invariance, PTL

(* The state of the queues, workers and requests keeps its types. *)
THEOREM QueueTypes == Spec => []TypeOK
<1>1. IInv => TypeOK
  BY Zenon DEF IInv
<1>2. QED
  BY <1>1, Invariance, PTL
=============================================================================
