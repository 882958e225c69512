------------------------- MODULE SyncChannelProofs -------------------------
(***************************************************************************)
(* What send guarantees, for any number of threads, sends, retries and     *)
(* seconds.                                                                *)
(***************************************************************************)
EXTENDS SyncChannel, SequenceTheorems, FiniteSetTheorems, TLAPS

AllMessages == [from : Senders, seq : Nat]
AllRequests == [msg : AllMessages, try : Nat]

(* Types, without the model's bounds on sends and tries. *)
Types ==
  /\ known \in BOOLEAN
  /\ pc \in [Senders -> {"idle", "invoke", "waiting", "caught", "sleeping"}]
  /\ seq \in [Senders -> Nat]
  /\ tries \in [Senders -> Nat]
  /\ result \in [Senders -> Seq({Returned, Threw})]
  /\ timer \in 0 .. MaxClock
  /\ clock \in [Senders -> 0 .. MaxClock]
  /\ wire \subseteq AllRequests
  /\ replies \subseteq AllRequests
  /\ inbox \in Seq(AllMessages)

(* A thread has one send at most that has no outcome yet. *)
OneAtATime ==
  \A t \in Senders :
    Len(result[t]) = IF pc[t] = "idle" THEN seq[t] ELSE seq[t] - 1

Begun(m) == m.seq \in 1 .. seq[m.from]

IsStored(m) == \E i \in 1 .. Len(inbox) : inbox[i] = m

(* Requests and stored messages belong to sends that have begun; what is   *)
(* replied to, or has succeeded, is stored where its sender is known, and  *)
(* nothing is stored where it is not.                                      *)
Delivery ==
  /\ \A q \in wire : Begun(q.msg)
  /\ \A i \in 1 .. Len(inbox) : Begun(inbox[i])
  /\ known => /\ \A q \in replies : IsStored(q.msg)
              /\ \A m \in AllMessages : Begun(m) /\ Succeeded(m) => IsStored(m)
  /\ ~known => inbox = <<>>

(* The shared timer_ is never ahead of the time a send has taken. *)
TimerBehind == \A t \in Senders : pc[t] # "idle" => timer <= clock[t]

(* The inductive invariant. *)
SInv == /\ Types
        /\ OneAtATime
        /\ Delivery
        /\ SuccessesInOrder
        /\ TimerBehind

-----------------------------------------------------------------------------
LEMMA InitInv == Init => SInv
<1> SUFFICES ASSUME Init PROVE SInv
  BY Zenon
<1>1. Types
  BY SendAssumption DEF Init, Types
<1>2. OneAtATime
  BY Zenon DEF Init, OneAtATime
<1>3. Delivery /\ SuccessesInOrder
  BY DEF Init, Delivery, SuccessesInOrder, Begun, AllMessages
<1>4. TimerBehind
  BY Zenon DEF Init, TimerBehind
<1>5. QED
  BY <1>1, <1>2, <1>3, <1>4, Zenon DEF SInv

(* Steps that leave the sends, their outcomes and what is stored alone,    *)
(* and put nothing new on the wire.                                        *)
LEMMA DeliveryKept ==
  ASSUME SInv, UNCHANGED <<known, seq, result, inbox>>, wire' \subseteq wire, replies' \subseteq replies
  PROVE  Delivery' /\ SuccessesInOrder'
<1>1. (\A m : Begun(m)' <=> Begun(m)) /\ (\A m : IsStored(m)' <=> IsStored(m))
      /\ (\A m : Succeeded(m)' <=> Succeeded(m))
  BY Zenon DEF Begun, IsStored, Succeeded
<1>2. Delivery'
  BY <1>1, Zenon DEF SInv, Delivery
<1>3. SuccessesInOrder'
  BY <1>1 DEF SInv, SuccessesInOrder
<1>4. QED
  BY <1>2, <1>3, Zenon

(* Of two messages a thread has sent, the earlier one is not its current. *)
LEMMA EarlierSent ==
  ASSUME SInv, NEW i \in 1 .. Len(inbox), NEW k \in 1 .. inbox[i].seq - 1
  PROVE  /\ inbox[i].from \in Senders
         /\ k \in Nat
         /\ k \in 1 .. seq[inbox[i].from] - 1
<1>1. inbox[i] \in AllMessages /\ inbox[i].seq \in 1 .. seq[inbox[i].from]
  BY DEF SInv, Types, Delivery, Begun
<1>2. inbox[i].from \in Senders /\ inbox[i].seq \in Nat
  BY <1>1, Zenon DEF AllMessages
<1>3. seq[inbox[i].from] \in Nat
  BY <1>2, Zenon DEF SInv, Types
<1>4. QED
  BY <1>1, <1>2, <1>3, SMTT(30)

(* The order is kept if no earlier message succeeds after the fact. *)
LEMMA OrderKept ==
  ASSUME SInv, UNCHANGED inbox,
         \A m \in AllMessages :
           m.seq \in 1 .. seq[m.from] - 1 /\ Succeeded(m)' => Succeeded(m)
  PROVE  SuccessesInOrder'
<1> SUFFICES ASSUME NEW i \in 1 .. Len(inbox), NEW k \in 1 .. inbox[i].seq - 1, NEW m,
                    m = [from |-> inbox[i].from, seq |-> k], Succeeded(m)'
             PROVE  \E j \in 1 .. i - 1 : inbox[j] = m
  BY SMTT(30) DEF SuccessesInOrder, Succeeded
<1>1. m \in AllMessages /\ m.seq \in 1 .. seq[m.from] - 1
  BY EarlierSent, Zenon DEF AllMessages
<1>2. Succeeded(m)
  BY <1>1, Zenon
<1>3. QED
  BY <1>2, Zenon DEF SInv, SuccessesInOrder

(* What a thread's outcomes are when a send ends with x. *)
LEMMA Concluded ==
  ASSUME SInv, NEW t \in Senders, NEW x \in {Returned, Threw},
         result' = [result EXCEPT ![t] = Append(@, x)]
  PROVE  /\ result' \in [Senders -> Seq({Returned, Threw})]
         /\ Len(result[t]) \in Nat /\ Len(result'[t]) = Len(result[t]) + 1
         /\ result'[t][Len(result[t]) + 1] = x
         /\ \A i \in 1 .. Len(result[t]) : result'[t][i] = result[t][i]
         /\ \A s \in Senders \ {t} : result'[s] = result[s]
<1> DEFINE O == {Returned, Threw}
<1>1. result \in [Senders -> Seq(O)] /\ result[t] \in Seq(O) /\ x \in O
  BY Zenon DEF SInv, Types
<1> HIDE DEF O
<1>2. /\ Append(result[t], x) \in Seq(O)
      /\ Len(result[t]) \in Nat
      /\ Len(Append(result[t], x)) = Len(result[t]) + 1
      /\ Append(result[t], x)[Len(result[t]) + 1] = x
      /\ \A i \in 1 .. Len(result[t]) : Append(result[t], x)[i] = result[t][i]
  BY <1>1, AppendProperties
<1>3. /\ result' \in [Senders -> Seq(O)]
      /\ result'[t] = Append(result[t], x)
      /\ \A s \in Senders \ {t} : result'[s] = result[s]
  BY <1>1, <1>2, Zenon
<1>4. QED
  BY <1>2, <1>3, Zenon DEF O

(* A thread begins a send. *)
LEMMA SendInv ==
  ASSUME SInv, NEW t \in Senders, Send(t)
  PROVE  SInv'
<1>1. /\ pc[t] = "idle" /\ timer' = 0
      /\ seq' = [seq EXCEPT ![t] = @ + 1]
      /\ clock' = [clock EXCEPT ![t] = 0]
      /\ pc' = [pc EXCEPT ![t] = "invoke"]
      /\ UNCHANGED <<known, result, wire, replies, inbox>>
  BY Zenon DEF Send
<1>2. Types'
  <2>1. tries' \in [Senders -> Nat]
    BY Zenon DEF Send, SInv, Types
  <2>2. /\ pc' \in [Senders -> {"idle", "invoke", "waiting", "caught", "sleeping"}]
        /\ seq' \in [Senders -> Nat]
    BY <1>1 DEF SInv, Types
  <2>3. 0 \in 0 .. MaxClock
    BY SendAssumption
  <2>4. timer' \in 0 .. MaxClock /\ clock' \in [Senders -> 0 .. MaxClock]
    BY <1>1, <2>3, Zenon DEF SInv, Types
  <2>5. QED
    BY <1>1, <2>1, <2>2, <2>4, Zenon DEF SInv, Types
<1>3. OneAtATime'
  BY <1>1, SMTT(30) DEF SInv, Types, OneAtATime
<1>4. Delivery'
  <2>1. \A m \in AllMessages : Begun(m) => Begun(m)'
    BY <1>1 DEF SInv, Types, Begun, AllMessages
  <2>2. \A m \in AllMessages : Succeeded(m)' /\ Begun(m)' => Succeeded(m) /\ Begun(m)
    BY <1>1 DEF SInv, Types, OneAtATime, Begun, Succeeded, AllMessages
  <2>3. \A m : IsStored(m)' <=> IsStored(m)
    BY <1>1, Zenon DEF IsStored
  <2>4. /\ \A q \in wire : q.msg \in AllMessages
        /\ \A i \in 1 .. Len(inbox) : inbox[i] \in AllMessages
    BY SMTT(30) DEF SInv, Types, AllRequests
  <2>5. QED
    BY <1>1, <2>1, <2>2, <2>3, <2>4, Zenon DEF SInv, Delivery
<1>5. SuccessesInOrder'
  BY <1>1, Zenon DEF SInv, SuccessesInOrder, Succeeded
<1>6. TimerBehind'
  BY <1>1, SMTT(30) DEF SInv, Types, TimerBehind
<1>7. QED
  BY <1>2, <1>3, <1>4, <1>5, <1>6, Zenon DEF SInv

(* It puts a request on the wire, ... *)
LEMMA InvokeInv ==
  ASSUME SInv, NEW t \in Senders, Invoke(t)
  PROVE  SInv'
<1>1. /\ pc[t] = "invoke"
      /\ wire' = wire \cup {[msg |-> Message(t), try |-> tries[t] + 1]}
      /\ pc' = [pc EXCEPT ![t] = "waiting"]
      /\ UNCHANGED <<known, seq, result, timer, clock, replies, inbox>>
  BY Zenon DEF Invoke
<1>2. Message(t) \in AllMessages /\ Begun(Message(t))
  <2>1. /\ Len(result[t]) = seq[t] - 1
        /\ seq[t] \in Nat /\ Len(result[t]) \in Nat
    BY <1>1 DEF SInv, Types, OneAtATime
  <2>2. seq[t] \in 1 .. seq[t]
    BY <2>1
  <2>3. QED
    BY <2>1, <2>2, Zenon DEF Message, Begun, AllMessages
<1>3. Types'
  BY <1>1, <1>2, SMTT(30) DEF Invoke, SInv, Types, AllRequests
<1>4. OneAtATime'
  BY <1>1, Zenon DEF SInv, Types, OneAtATime
<1>5. Delivery' /\ SuccessesInOrder'
  <2>1. /\ \A m : Begun(m)' <=> Begun(m)
        /\ \A m : IsStored(m)' <=> IsStored(m)
        /\ \A m : Succeeded(m)' <=> Succeeded(m)
    BY <1>1, Zenon DEF Begun, IsStored, Succeeded
  <2>2. \A q \in wire' : Begun(q.msg)'
    BY <1>1, <1>2, <2>1, SMTT(30) DEF SInv, Delivery
  <2>3. SuccessesInOrder'
    BY <1>1, Zenon DEF SInv, SuccessesInOrder, Succeeded
  <2>4. Delivery'
    BY <1>1, <2>1, <2>2, Zenon DEF SInv, Delivery
  <2>5. QED
    BY <2>3, <2>4, Zenon
<1>6. TimerBehind'
  BY <1>1, Zenon DEF SInv, Types, TimerBehind
<1>7. QED
  BY <1>3, <1>4, <1>5, <1>6, Zenon DEF SInv

(* ... fails to, or catches the exception that ends the call, ... *)
LEMMA RefusedInv ==
  ASSUME SInv, NEW t \in Senders, Refused(t) \/ Break(t)
  PROVE  SInv'
<1>1. /\ pc[t] # "idle"
      /\ replies' \subseteq replies
      /\ pc' = [pc EXCEPT ![t] = "caught"]
      /\ UNCHANGED <<known, seq, tries, result, timer, clock, wire, inbox>>
  BY Zenon DEF Refused, Break
<1>2. Types'
  BY <1>1, Zenon DEF SInv, Types
<1>3. OneAtATime' /\ TimerBehind'
  BY <1>1, Zenon DEF SInv, Types, OneAtATime, TimerBehind
<1>4. QED
  BY <1>1, <1>2, <1>3, DeliveryKept, Zenon DEF SInv

(* ... goes to sleep or gives up, ... *)
LEMMA CatchInv ==
  ASSUME SInv, NEW t \in Senders, Catch(t)
  PROVE  SInv'
<1>1. pc[t] = "caught" /\ UNCHANGED <<known, seq, tries, timer, clock, wire, replies, inbox>>
  BY Zenon DEF Catch
<1>2. CASE timer < SendTimeout
  <2>1. pc' = [pc EXCEPT ![t] = "sleeping"] /\ UNCHANGED result
    BY <1>2, SendAssumption DEF Catch, SInv, Types
  <2>2. Types' /\ OneAtATime'
    BY <1>1, <2>1, Zenon DEF SInv, Types, OneAtATime
  <2>3. TimerBehind'
    BY <1>1, <1>2, <2>1, SendAssumption, SMTT(30) DEF SInv, Types, TimerBehind
  <2>4. QED
    BY <1>1, <2>1, <2>2, <2>3, DeliveryKept, Zenon DEF SInv
<1>3. CASE timer >= SendTimeout
  <2>1. /\ result' = [result EXCEPT ![t] = Append(@, Threw)]
        /\ pc' = [pc EXCEPT ![t] = "idle"]
    BY <1>3, SendAssumption DEF Catch, SInv, Types
  <2>2. /\ result' \in [Senders -> Seq({Returned, Threw})]
        /\ Len(result[t]) \in Nat /\ Len(result'[t]) = Len(result[t]) + 1
        /\ result'[t][Len(result[t]) + 1] = Threw
        /\ \A i \in 1 .. Len(result[t]) : result'[t][i] = result[t][i]
        /\ \A s \in Senders \ {t} : result'[s] = result[s]
    BY <2>1, Concluded, Zenon
  <2>3. Types' /\ OneAtATime'
    <3>1. Types'
      BY <1>1, <2>1, <2>2, Zenon DEF SInv, Types
    <3>2. OneAtATime'
      BY <1>1, <2>1, <2>2, SMTT(30) DEF SInv, Types, OneAtATime
    <3>3. QED
      BY <3>1, <3>2, Zenon
  <2>4. TimerBehind'
    BY <1>1, <2>1, Zenon DEF SInv, Types, TimerBehind
  <2>5. ASSUME NEW m \in AllMessages, m.seq # 0, Succeeded(m)'
        PROVE  Succeeded(m)
    <3>1. m.from \in Senders /\ m.seq \in Nat \ {0}
      BY <2>5, Zenon DEF AllMessages
    <3>2. m.seq <= Len(result'[m.from]) /\ result'[m.from][m.seq] = Returned
      BY <2>5, Zenon DEF Succeeded
    <3>3. CASE m.from # t
      BY <2>2, <3>1, <3>2, <3>3, Zenon DEF Succeeded
    <3>4. CASE m.from = t
      <4>1. m.seq # Len(result[t]) + 1
        BY <2>2, <3>2, <3>4, Zenon DEF Returned, Threw
      <4>2. m.seq \in 1 .. Len(result[t])
        BY <2>2, <3>1, <3>2, <3>4, <4>1, SMTT(30)
      <4>3. QED
        BY <2>2, <3>2, <3>4, <4>2, SMTT(30) DEF Succeeded
    <3>5. QED
      BY <3>3, <3>4, Zenon
  <2>6. (\A m : Begun(m)' <=> Begun(m)) /\ (\A m : IsStored(m)' <=> IsStored(m))
    BY <1>1, Zenon DEF Begun, IsStored
  <2>7. \A m \in AllMessages : Begun(m) => m.seq # 0
    BY DEF Begun, AllMessages
  <2>8. Delivery'
    BY <1>1, <2>5, <2>6, <2>7, Zenon DEF SInv, Delivery
  <2>9. SuccessesInOrder'
    BY <1>1, <2>5, OrderKept
  <2>10. QED
    BY <2>3, <2>4, <2>8, <2>9, Zenon DEF SInv
<1>4. timer \in Int /\ SendTimeout \in Int
  BY SendAssumption, SMTT(30) DEF SInv, Types
<1>5. QED
  BY <1>2, <1>3, <1>4

(* ... or gets its reply. *)
LEMMA ReplyInv ==
  ASSUME SInv, NEW t \in Senders, Reply(t)
  PROVE  SInv'
<1>1. /\ pc[t] = "waiting" /\ Request(t) \in replies
      /\ replies' \subseteq replies
      /\ result' = [result EXCEPT ![t] = Append(@, Returned)]
      /\ pc' = [pc EXCEPT ![t] = "idle"]
      /\ UNCHANGED <<known, seq, tries, timer, clock, wire, inbox>>
  BY Zenon DEF Reply
<1>2. /\ result' \in [Senders -> Seq({Returned, Threw})]
      /\ Len(result[t]) \in Nat /\ Len(result'[t]) = Len(result[t]) + 1
      /\ \A i \in 1 .. Len(result[t]) : result'[t][i] = result[t][i]
      /\ \A s \in Senders \ {t} : result'[s] = result[s]
  BY <1>1, Concluded, Zenon
<1>3. Types' /\ OneAtATime'
  <2>1. Types'
    BY <1>1, <1>2, Zenon DEF SInv, Types
  <2>2. OneAtATime'
    BY <1>1, <1>2, SMTT(30) DEF SInv, Types, OneAtATime
  <2>3. QED
    BY <2>1, <2>2, Zenon
<1>4. TimerBehind'
  BY <1>1, Zenon DEF SInv, Types, TimerBehind
<1>5. seq[t] = Len(result[t]) + 1 /\ seq[t] \in Nat
  BY <1>1, <1>2, SMTT(30) DEF SInv, Types, OneAtATime
<1>6. known => IsStored(Message(t))
  <2>1. known => \A q \in replies : IsStored(q.msg)
    BY Zenon DEF SInv, Delivery
  <2>2. Request(t).msg = Message(t)
    BY Zenon DEF Request
  <2>3. QED
    BY <1>1, <2>1, <2>2, Zenon
<1>7. ASSUME NEW m \in AllMessages, m.seq # 0, Succeeded(m)'
      PROVE  Succeeded(m) \/ m = Message(t)
  <2>1. m.from \in Senders /\ m.seq \in Nat \ {0} /\ m = [from |-> m.from, seq |-> m.seq]
    BY <1>7, Zenon DEF AllMessages
  <2>2. m.seq <= Len(result'[m.from]) /\ result'[m.from][m.seq] = Returned
    BY <1>7, Zenon DEF Succeeded
  <2>3. CASE m.from # t
    BY <1>2, <2>1, <2>2, <2>3, Zenon DEF Succeeded
  <2>4. CASE m.from = t /\ m.seq = Len(result[t]) + 1
    BY <1>5, <2>1, <2>4, Zenon DEF Message
  <2>5. CASE m.from = t /\ m.seq # Len(result[t]) + 1
    <3>1. m.seq \in 1 .. Len(result[t])
      BY <1>2, <2>1, <2>2, <2>5, SMTT(30)
    <3>2. QED
      BY <1>2, <2>2, <2>5, <3>1, SMTT(30) DEF Succeeded
  <2>6. QED
    BY <2>3, <2>4, <2>5, Zenon
<1>8. Delivery'
  <2>1. (\A m : Begun(m)' <=> Begun(m)) /\ (\A m : IsStored(m)' <=> IsStored(m))
    BY <1>1, Zenon DEF Begun, IsStored
  <2>2. \A m \in AllMessages : Begun(m) => m.seq # 0
    BY DEF Begun, AllMessages
  <2>3. QED
    BY <1>1, <1>6, <1>7, <2>1, <2>2, Zenon DEF SInv, Delivery
<1>9. SuccessesInOrder'
  <2>1. \A m \in AllMessages :
          m.seq \in 1 .. seq[m.from] - 1 => m.seq # 0 /\ m # Message(t)
    BY <1>5, SMTT(30) DEF AllMessages, Message, SInv, Types
  <2>2. QED
    BY <1>1, <1>7, <2>1, OrderKept, Zenon
<1>10. QED
  BY <1>3, <1>4, <1>8, <1>9, Zenon DEF SInv

(* The server that does not know the sender replies and stores nothing; *)
LEMMA DropInv ==
  ASSUME SInv, NEW q \in wire, Dispatch(q), ~known
  PROVE  SInv'
<1>1. /\ wire' \subseteq wire /\ replies' \subseteq replies \cup {q}
      /\ UNCHANGED <<known, pc, seq, tries, result, timer, clock, inbox>>
  BY Zenon DEF Dispatch
<1>2. Types' /\ OneAtATime' /\ TimerBehind'
  BY <1>1, Zenon DEF SInv, Types, OneAtATime, TimerBehind
<1>3. SuccessesInOrder'
  BY <1>1, Zenon DEF SInv, SuccessesInOrder, Succeeded
<1>4. \A m : Begun(m)' <=> Begun(m)
  BY <1>1, Zenon DEF Begun
<1>5. Delivery'
  BY <1>1, <1>4, Zenon DEF SInv, Delivery
<1>6. QED
  BY <1>2, <1>3, <1>5, Zenon DEF SInv

(* one that does stores a message and replies if somebody waits, ... *)
LEMMA DispatchInv ==
  ASSUME SInv, NEW q \in wire, Dispatch(q), known
  PROVE  SInv'
<1>1. /\ wire' \subseteq wire /\ inbox' = Append(inbox, q.msg)
      /\ replies' \subseteq replies \cup {q}
      /\ UNCHANGED <<known, pc, seq, tries, result, timer, clock>>
  BY Zenon DEF Dispatch
<1>2. q \in AllRequests /\ q.msg \in AllMessages /\ Begun(q.msg) /\ inbox \in Seq(AllMessages)
  BY Zenon DEF SInv, Types, Delivery, AllRequests
<1>3. /\ inbox' \in Seq(AllMessages)
      /\ Len(inbox) \in Nat /\ Len(inbox') = Len(inbox) + 1
      /\ inbox'[Len(inbox) + 1] = q.msg
      /\ \A i \in 1 .. Len(inbox) : inbox'[i] = inbox[i]
  BY <1>1, <1>2, AppendProperties
<1>4. Types'
  BY <1>1, <1>2, <1>3, Zenon DEF SInv, Types
<1>5. OneAtATime' /\ TimerBehind'
  BY <1>1, Zenon DEF SInv, OneAtATime, TimerBehind
<1>6. \A m : (Begun(m)' <=> Begun(m)) /\ (Succeeded(m)' <=> Succeeded(m))
  BY <1>1, Zenon DEF Begun, Succeeded
<1>7. \A m : IsStored(m) \/ m = q.msg => IsStored(m)'
  BY <1>3 DEF IsStored
<1>8. Delivery'
  <2>1. \A i \in 1 .. Len(inbox') : Begun(inbox'[i])
    BY <1>2, <1>3, SMTT(30) DEF SInv, Delivery
  <2>2. \A r \in wire' : Begun(r.msg)
    BY <1>1, Zenon DEF SInv, Delivery
  <2>3. \A r \in replies' : IsStored(r.msg)'
    BY <1>1, <1>7, Zenon DEF SInv, Delivery
  <2>4. \A m \in AllMessages : Begun(m) /\ Succeeded(m) => IsStored(m)'
    BY <1>7, Zenon DEF SInv, Delivery
  <2>5. QED
    BY <1>1, <1>6, <2>1, <2>2, <2>3, <2>4, Zenon DEF Delivery
<1>9. SuccessesInOrder'
  <2> SUFFICES ASSUME NEW i \in 1 .. Len(inbox'), NEW k \in 1 .. inbox'[i].seq - 1, NEW m,
                      m = [from |-> inbox'[i].from, seq |-> k], Succeeded(m)
               PROVE  \E j \in 1 .. i - 1 : inbox'[j] = m
    BY <1>1, SMTT(30) DEF SuccessesInOrder, Succeeded
  <2>1. CASE i \in 1 .. Len(inbox)
    <3>1. inbox'[i] = inbox[i]
      BY <1>3, <2>1, Zenon
    <3>2. PICK j \in 1 .. i - 1 : inbox[j] = m
      BY <2>1, <3>1, SMTT(30) DEF SInv, SuccessesInOrder
    <3>3. QED
      BY <1>3, <2>1, <3>2, SMTT(30)
  <2>2. CASE i = Len(inbox) + 1
    <3>1. m = [from |-> q.msg.from, seq |-> k] /\ k \in 1 .. q.msg.seq - 1
      BY <1>3, <2>2, Zenon
    <3>2. q.msg.from \in Senders /\ q.msg.seq \in 1 .. seq[q.msg.from] /\ seq[q.msg.from] \in Nat
      BY <1>2, Zenon DEF AllMessages, Begun, SInv, Types
    <3>3. m \in AllMessages /\ Begun(m)
      BY <3>1, <3>2, SMTT(30) DEF AllMessages, Begun
    <3>4. IsStored(m)
      BY <3>3, Zenon DEF SInv, Delivery
    <3>5. QED
      BY <1>3, <2>2, <3>4, SMTT(30) DEF IsStored
  <2>3. QED
    BY <1>3, <2>1, <2>2, SMTT(30)
<1>10. QED
  BY <1>4, <1>5, <1>8, <1>9, Zenon DEF SInv

(* ... requests are lost, and a second passes. *)
LEMMA TickInv ==
  ASSUME SInv, Tick
  PROVE  SInv'
<1>1. UNCHANGED <<known, seq, tries, result, wire, replies, inbox>>
  BY Zenon DEF Tick
<1>2. Types'
  BY SendAssumption, SMTT(30) DEF Tick, SInv, Types
<1>3. OneAtATime'
  BY Zenon DEF Tick, SInv, Types, OneAtATime
<1>4. TimerBehind'
  BY SendAssumption, SMTT(30) DEF Tick, SInv, Types, TimerBehind
<1>5. QED
  BY <1>1, <1>2, <1>3, <1>4, DeliveryKept, Zenon DEF SInv

LEMMA QuietInv ==
  ASSUME SInv, UNCHANGED <<known, pc, seq, tries, result, timer, clock, replies, inbox>>, wire' \subseteq wire
  PROVE  SInv'
<1>1. Types'
  BY Zenon DEF SInv, Types
<1>2. OneAtATime' /\ TimerBehind'
  BY Zenon DEF SInv, OneAtATime, TimerBehind
<1>3. QED
  BY <1>1, <1>2, DeliveryKept, Zenon DEF SInv

(* Another send of the object can only set timer_ back. *)
LEMMA OtherSendInv ==
  ASSUME SInv, OtherSend
  PROVE  SInv'
<1>1. timer' = 0 /\ UNCHANGED <<known, pc, seq, tries, result, clock, wire, replies, inbox>>
  BY Zenon DEF OtherSend
<1>2. 0 \in 0 .. MaxClock
  BY SendAssumption
<1>3. Types' /\ OneAtATime'
  BY <1>1, <1>2, Zenon DEF SInv, Types, OneAtATime
<1>4. TimerBehind'
  <2>1. \A t \in Senders : 0 <= clock[t]
    BY SMTT(30) DEF SInv, Types
  <2>2. QED
    BY <1>1, <2>1, Zenon DEF TimerBehind
<1>5. QED
  BY <1>1, <1>3, <1>4, DeliveryKept, Zenon DEF SInv

(* Every step keeps the invariant. *)
LEMMA NextInv == SInv /\ [Next]_vars => SInv'
<1> SUFFICES ASSUME SInv, [Next]_vars PROVE SInv'
  BY Zenon
<1>1. CASE UNCHANGED vars
  BY <1>1, QuietInv, Zenon DEF vars
<1>2. CASE StartServer
  BY <1>2, QuietInv, Zenon DEF StartServer
<1>3. ASSUME NEW t \in Senders, Send(t) PROVE SInv'
  BY <1>3, SendInv, Zenon
<1>4. ASSUME NEW t \in Senders, Step(t) PROVE SInv'
  BY <1>4, InvokeInv, RefusedInv, CatchInv, ReplyInv, Zenon DEF Step
<1>5. ASSUME NEW q \in wire, Dispatch(q) PROVE SInv'
  BY <1>5, DispatchInv, DropInv, Zenon
<1>6. ASSUME NEW q \in wire, Lose(q) PROVE SInv'
  BY <1>6, QuietInv, Zenon DEF Lose
<1>7. CASE Tick
  BY <1>7, TickInv, Zenon
<1>8. QED
  BY <1>1, <1>2, <1>3, <1>4, <1>5, <1>6, <1>7, OtherSendInv, Zenon DEF Next

(* The invariant holds throughout. *)
THEOREM Invariance == Spec => []SInv
  BY InitInv, NextInv, PTL DEF Spec

-----------------------------------------------------------------------------
(* As long as there are fewer sends than the bound, no thread is at it. *)
LEMMA RoomForOne ==
  ASSUME Types, Sends < MaxSends, NEW t \in Senders
  PROVE  seq[t] < MaxSends
<1> DEFINE All == Senders \X (1 .. MaxSends)
           B == {s \in All : s[2] <= seq[s[1]]}
           f == [k \in 1 .. MaxSends |-> <<t, k>>]
<1>1. MaxSends \in Nat /\ IsFiniteSet(Senders) /\ seq[t] \in Nat
  BY SendAssumption, Zenon DEF Types
<1>2. IsFiniteSet(1 .. MaxSends) /\ Cardinality(1 .. MaxSends) = MaxSends
  BY <1>1, FS_Interval
<1>3. IsFiniteSet(All)
  BY <1>1, <1>2, FS_Product, Zenon
<1>4. IsFiniteSet(B)
  BY <1>3, FS_Subset, Zenon
<1>5. ASSUME seq[t] >= MaxSends PROVE FALSE
  <2>1. \A k \in 1 .. MaxSends : <<t, k>> \in B
    BY <1>1, <1>5
  <2>2. f \in Injection(1 .. MaxSends, B)
    BY <2>1, Zenon DEF Injection, IsInjective
  <2>3. Cardinality(1 .. MaxSends) <= Cardinality(B) /\ Cardinality(B) \in Nat
    BY <1>4, <2>2, FS_Injection, FS_CardinalityType, SMTT(30)
  <2>4. Cardinality(B) < MaxSends
    BY Zenon DEF Sends
  <2>5. QED
    BY <1>1, <1>2, <2>3, <2>4, SMTT(30)
<1>6. QED
  BY <1>1, <1>5, SMTT(30)

(* What a thread that is in send works on. *)
LEMMA CurrentMessage ==
  ASSUME SInv, TypeOK, NEW t \in Senders, pc[t] # "idle"
  PROVE  Message(t) \in Msgs
<1>1. Len(result[t]) = seq[t] - 1 /\ seq[t] \in 0 .. MaxSends /\ Len(result[t]) \in Nat
  BY DEF SInv, OneAtATime, TypeOK
<1>2. seq[t] \in 1 .. MaxSends
  BY <1>1, SendAssumption
<1>3. QED
  BY <1>2, Zenon DEF Message, Msgs

(* The steps of send, and of what it has put on the wire. *)
LEMMA SendTypes ==
  ASSUME SInv, TypeOK, NEW t \in Senders, Send(t)
  PROVE  TypeOK'
<1>1. seq[t] + 1 \in 0 .. MaxSends
  BY RoomForOne, SendAssumption, SMTT(30) DEF Send, TypeOK, SInv
<1>2. 0 \in 0 .. MaxClock /\ 0 \in 0 .. MaxTries
  BY SendAssumption
<1>3. seq' \in [Senders -> 0 .. MaxSends] /\ tries' \in [Senders -> 0 .. MaxTries]
  BY <1>1, <1>2, SMTT(30) DEF Send, TypeOK
<1>4. /\ timer' \in 0 .. MaxClock /\ clock' \in [Senders -> 0 .. MaxClock]
      /\ pc' \in [Senders -> {"idle", "invoke", "waiting", "caught", "sleeping"}]
  BY <1>2, SMTT(30) DEF Send, TypeOK
<1>5. UNCHANGED <<known, up, result, wire, replies, inbox>>
  BY Zenon DEF Send
<1>6. QED
  BY <1>3, <1>4, <1>5, Zenon DEF TypeOK

LEMMA StepTypes ==
  ASSUME SInv, TypeOK, NEW t \in Senders, Step(t)
  PROVE  TypeOK'
<1>1. CASE Invoke(t)
  <2>1. Message(t) \in Msgs /\ tries[t] + 1 \in 1 .. MaxTries
    <3>1. pc[t] # "idle" /\ tries[t] < MaxTries /\ tries[t] \in 0 .. MaxTries
      BY <1>1, Zenon DEF Invoke, TypeOK
    <3>2. QED
      BY <3>1, CurrentMessage, SendAssumption, SMTT(30)
  <2>2. [msg |-> Message(t), try |-> tries[t] + 1] \in Reqs
    BY <2>1, Zenon DEF Reqs
  <2>3. tries' \in [Senders -> 0 .. MaxTries] /\ wire' \subseteq Reqs
    BY <1>1, <2>1, <2>2, SendAssumption, SMTT(30) DEF Invoke, TypeOK
  <2>4. pc' \in [Senders -> {"idle", "invoke", "waiting", "caught", "sleeping"}]
    BY <1>1, Zenon DEF Invoke, TypeOK
  <2>5. QED
    BY <1>1, <2>3, <2>4, Zenon DEF Invoke, TypeOK
<1>2. ASSUME NEW x \in {Returned, Threw}, result' = [result EXCEPT ![t] = Append(@, x)]
      PROVE  result' \in [Senders -> Seq({Returned, Threw})]
  BY <1>2, Concluded, Zenon
<1>3. CASE Refused(t) \/ Break(t) \/ Reply(t) \/ Catch(t)
  <2>1. pc' \in [Senders -> {"idle", "invoke", "waiting", "caught", "sleeping"}]
    <3>1. \E p \in {"idle", "caught", "sleeping"} : pc' = [pc EXCEPT ![t] = p]
      BY <1>3, Zenon DEF Refused, Break, Reply, Catch
    <3>2. QED
      BY <3>1, Zenon DEF TypeOK
  <2>2. /\ UNCHANGED <<known, up, seq, tries, timer, clock, wire, inbox>>
        /\ replies' \subseteq replies
    BY <1>3, Zenon DEF Refused, Break, Reply, Catch
  <2>3. result' \in [Senders -> Seq({Returned, Threw})]
    BY <1>2, <1>3, Zenon DEF Refused, Break, Reply, Catch, TypeOK
  <2>4. replies' \subseteq Reqs
    BY <2>2, Zenon DEF TypeOK
  <2>5. QED
    BY <2>1, <2>2, <2>3, <2>4, Zenon DEF TypeOK
<1>4. QED
  BY <1>1, <1>3, Zenon DEF Step

(* With the bounds: no thread gets past MaxSends, no send past MaxTries,   *)
(* and only what was sent is on the wire or stored.                        *)
THEOREM SendTypesHold == Spec => []TypeOK
<1>1. Init => TypeOK
  <2>1. /\ 0 \in 0 .. MaxSends /\ 0 \in 0 .. MaxTries /\ 0 \in 0 .. MaxClock
        /\ <<>> \in Seq({Returned, Threw}) /\ <<>> \in Seq(Msgs)
    BY SendAssumption, SMTT(30)
  <2>2. QED
    BY <2>1, Zenon DEF Init, TypeOK
<1>2. SInv /\ TypeOK /\ Next => TypeOK'
  <2> SUFFICES ASSUME SInv, TypeOK, Next PROVE TypeOK'
    BY Zenon
  <2>1. CASE StartServer
    BY <2>1, Zenon DEF StartServer, TypeOK
  <2>2. ASSUME NEW q \in wire, Dispatch(q) \/ Lose(q) PROVE TypeOK'
    <3>1. q \in Reqs /\ q.msg \in Msgs
      BY Zenon DEF TypeOK, Reqs
    <3>2. inbox' \in Seq(Msgs)
      <4>1. inbox \in Seq(Msgs) /\ inbox' \in {inbox, Append(inbox, q.msg)}
        BY <2>2, Zenon DEF Dispatch, Lose, TypeOK
      <4>2. Append(inbox, q.msg) \in Seq(Msgs)
        BY <3>1, <4>1, AppendProperties, Zenon
      <4>3. QED
        BY <4>1, <4>2, Zenon
    <3>3. /\ UNCHANGED <<known, up, pc, seq, tries, result, timer, clock>>
          /\ wire' \subseteq wire /\ replies' \subseteq replies \cup {q}
      BY <2>2, Zenon DEF Dispatch, Lose
    <3>4. QED
      BY <3>1, <3>2, <3>3, Zenon DEF TypeOK
  <2>3. CASE Tick
    <3>1. UNCHANGED <<known, up, seq, tries, result, wire, replies, inbox>>
      BY <2>3, Zenon DEF Tick
    <3>2. timer' \in 0 .. MaxClock /\ clock' \in [Senders -> 0 .. MaxClock]
      BY <2>3, SendAssumption, SMTT(30) DEF Tick, TypeOK
    <3>3. pc' \in [Senders -> {"idle", "invoke", "waiting", "caught", "sleeping"}]
      BY <2>3, SMTT(30) DEF Tick, TypeOK
    <3>4. QED
      BY <3>1, <3>2, <3>3, Zenon DEF TypeOK
  <2>4. CASE OtherSend
    <3>1. 0 \in 0 .. MaxClock
      BY SendAssumption
    <3>2. QED
      BY <2>4, <3>1, Zenon DEF OtherSend, TypeOK
  <2>5. QED
    BY <2>1, <2>2, <2>3, <2>4, SendTypes, StepTypes, Zenon DEF Next
<1>3. TypeOK /\ UNCHANGED vars => TypeOK'
  BY Zenon DEF TypeOK, vars
<1>4. QED
  BY <1>1, <1>2, <1>3, Invariance, PTL DEF Spec

-----------------------------------------------------------------------------
(* A thread's successful sends arrive in the order they were made, however *)
(* often send's loop retries (sync_client.cc).                             *)
THEOREM SuccessesStayInOrder == Spec => []SuccessesInOrder
  BY Invariance, PTL DEF SInv

(* A send that throws has been trying for send_timeout_: sharing timer_    *)
(* can only lengthen it.                                                   *)
THEOREM NoEarlyThrow == Spec => NeverThrowsEarly
<1>1. SInv /\ [Next]_vars => [ThrowsInTime]_vars
  <2> SUFFICES ASSUME SInv, Next PROVE ThrowsInTime
    BY Zenon
  <2>1. CASE UNCHANGED result
    <3>1. \A t \in Senders : Len(result[t]) \in Nat
      BY DEF SInv, Types
    <3>2. QED
      BY <2>1, <3>1, SMTT(30) DEF ThrowsInTime, ThrowsNow
  <2>2. ASSUME NEW t \in Senders, Reply(t) PROVE ThrowsInTime
    <3>1. result' = [result EXCEPT ![t] = Append(@, Returned)]
      BY <2>2, Zenon DEF Reply
    <3>2. /\ Len(result[t]) \in Nat /\ Len(result'[t]) = Len(result[t]) + 1
          /\ result'[t][Len(result[t]) + 1] = Returned
          /\ \A s \in Senders \ {t} : result'[s] = result[s]
      BY <3>1, Concluded, Zenon
    <3>3. \A s \in Senders : Len(result[s]) \in Nat
      BY DEF SInv, Types
    <3>4. \A s \in Senders : ~ThrowsNow(s)
      BY <3>2, <3>3, SMTT(30) DEF ThrowsNow, Returned, Threw
    <3>5. QED
      BY <3>4, Zenon DEF ThrowsInTime
  <2>3. ASSUME NEW t \in Senders, Catch(t), ~UNCHANGED result PROVE ThrowsInTime
    <3>1. /\ result' = [result EXCEPT ![t] = Append(@, Threw)]
          /\ pc[t] = "caught" /\ timer >= SendTimeout
      BY <2>3, Zenon DEF Catch
    <3>2. \A s \in Senders \ {t} : result'[s] = result[s]
      BY <3>1, Concluded, Zenon
    <3>3. \A s \in Senders : Len(result[s]) \in Nat
      BY DEF SInv, Types
    <3>4. clock[t] >= SendTimeout
      <4>1. timer <= clock[t]
        BY <3>1, Zenon DEF SInv, TimerBehind
      <4>2. timer \in Int /\ clock[t] \in Int /\ SendTimeout \in Int
        BY SendAssumption DEF SInv, Types
      <4>3. QED
        BY <3>1, <4>1, <4>2, SMTT(30)
    <3>5. \A s \in Senders : ThrowsNow(s) => s = t
      BY <3>2, <3>3, SMTT(30) DEF ThrowsNow
    <3>6. QED
      BY <3>4, <3>5, Zenon DEF ThrowsInTime
  <2>4. QED
    BY <2>1, <2>2, <2>3, Zenon
    DEF Next, StartServer, Send, OtherSend, Step, Invoke, Refused, Break, Dispatch, Lose, Tick
<1>2. QED
  BY <1>1, Invariance, PTL DEF Spec, NeverThrowsEarly

(* A thread inside send is in what the abstract specification calls one. *)
LEMMA InSend ==
  ASSUME SInv, NEW t \in Senders, pc[t] # "idle"
  PROVE  Promise!Sending(t)
<1>1. Len(result[t]) = seq[t] - 1 /\ seq[t] \in Nat
  BY Zenon DEF SInv, Types, OneAtATime
<1>2. QED
  BY <1>1 DEF Promise!Sending

(* send's loop of requests, over a network that loses, delays and repeats, *)
(* implements at-least-once delivery (module AtLeastOnce).                 *)
THEOREM SendKeepsPromise == Spec => ImplementsAtLeastOnce
<1>1. Init => Promise!Init
  BY Zenon DEF Init, Promise!Init
<1>2. SInv /\ [Next]_vars => [Promise!Next]_Promise!vars
  <2> SUFFICES ASSUME SInv, [Next]_vars
               PROVE  Promise!Next \/ UNCHANGED <<known, seq, result, inbox>>
    BY Zenon DEF Promise!vars
  <2>1. ASSUME NEW t \in Senders, Send(t) PROVE Promise!Next
    <3>1. ~Promise!Sending(t)
      BY <2>1 DEF Send, SInv, Types, OneAtATime, Promise!Sending
    <3>2. Promise!Begin(t)
      BY <2>1, <3>1, Zenon DEF Send, Promise!Begin
    <3>3. QED
      BY <3>2, Zenon DEF Promise!Next
  <2>2. ASSUME NEW q \in wire, Dispatch(q), known PROVE Promise!Next
    <3>1. /\ q.msg \in AllMessages /\ q.msg.from \in Senders
          /\ q.msg.seq \in 1 .. seq[q.msg.from]
          /\ q.msg = [from |-> q.msg.from, seq |-> q.msg.seq]
      BY Zenon DEF SInv, Types, Delivery, Begun, AllRequests, AllMessages
    <3>2. Promise!Store(q.msg.from, q.msg.seq)
      BY <2>2, <3>1, Zenon DEF Dispatch, Promise!Store
    <3>3. QED
      BY <3>1, <3>2, Zenon DEF Promise!Next
  <2>3. ASSUME NEW t \in Senders, Reply(t) PROVE Promise!Next
    <3>1. Promise!Sending(t)
      BY <2>3, InSend, Zenon DEF Reply
    <3>2. known => IsStored(Message(t))
      BY <2>3, Zenon DEF Reply, SInv, Delivery, Request
    <3>3. known => Promise!IsStored(Promise!Message(t))
      BY <3>2, Zenon DEF IsStored, Message, Promise!IsStored, Promise!Message
    <3>4. Promise!Return(t)
      BY <2>3, <3>1, <3>3, Zenon DEF Reply, Promise!Return
    <3>5. QED
      BY <3>4, Zenon DEF Promise!Next
  <2>4. ASSUME NEW t \in Senders, Catch(t), ~UNCHANGED result PROVE Promise!Next
    <3>1. Promise!Sending(t)
      BY <2>4, InSend, Zenon DEF Catch
    <3>2. Promise!Throw(t)
      BY <2>4, <3>1, Zenon DEF Catch, Promise!Throw
    <3>3. QED
      BY <3>2, Zenon DEF Promise!Next
  (* The other steps change nothing that was promised. *)
  <2>5. \/ vars' = vars
        \/ \E q \in wire : Dispatch(q) /\ ~known
        => UNCHANGED <<known, seq, result, inbox>>
    BY Zenon DEF vars, Dispatch
  <2>6. QED
    BY <2>5, <2>1, <2>2, <2>3, <2>4, Zenon
    DEF Next, StartServer, OtherSend, Step, Invoke, Refused, Break, Catch, Lose, Tick
<1>3. QED
  BY <1>2, <1>1, Invariance, PTL DEF Spec, ImplementsAtLeastOnce, Promise!Spec
=============================================================================
