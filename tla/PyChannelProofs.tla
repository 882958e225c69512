-------------------------- MODULE PyChannelProofs --------------------------
(***************************************************************************)
(* Proofs about PyChannel, for any processes, threads, programs and links: *)
(* no acknowledged message is lost on the way to Python, and a thread's    *)
(* acknowledged messages are delivered in the order they were sent.        *)
(*                                                                         *)
(* A message is in a queue, in the hand of a Recv or delivered; the        *)
(* invariant says that for each of the three places where the acknowledged *)
(* messages that must come before it are.  A message in hand leaves no     *)
(* room for an earlier one in another hand, because the two calls would    *)
(* hold the same GIL.                                                      *)
(***************************************************************************)
EXTENDS PyChannel, TLAPS

Busy(t) == pc[t] \in {"send", "sending", "recv", "waiting", "got"}
Holds(t, m) == pc[t] = "got" /\ result[t] = m

Control ==
  /\ pc \in [Threads -> {"idle", "called", "send", "sending", "recv", "waiting", "got"}]
  /\ call \in [Threads -> Calls \cup {NoCall}]
  /\ gil \in [Nodes -> Threads \cup {NoThread}]
  /\ \A t \in Threads : pc[t] # "idle" => call[t] \in Calls
  /\ \A t \in Threads : Busy(t) => gil[Self(t)] = t
  /\ \A t \in Threads : pc[t] \in {"waiting", "got"} => In(t) \in Links

Types ==
  /\ sent \in [Threads -> Seq(Links)]
  /\ queue \in [Links -> Seq(Messages)]
  /\ delivered \in [Links -> Seq(Messages)]
  /\ result \in [Threads -> Messages \cup {Nothing, Blank}]
  /\ stored \subseteq Messages
  /\ acked \subseteq stored
  /\ \A m \in stored : m.seq <= Len(sent[m.from])

(* A message is only where its link leads. *)
Linked ==
  /\ \A l \in Links : \A m \in Range(queue[l]) \cup Range(delivered[l]) :
       m \in stored /\ LinkOf(m) = l
  /\ \A t \in Threads, m \in Messages :
       Holds(t, m) => m \in stored /\ LinkOf(m) = In(t)

(* A stored message does not vanish. *)
Kept ==
  \A m \in stored :
    \/ m \in Range(queue[LinkOf(m)]) \cup Range(delivered[LinkOf(m)])
    \/ InHand(m)

(* The acknowledged messages that Python has to see before m. *)
Before(m) == {e \in acked : e.from = m.from /\ e.seq < m.seq /\ LinkOf(e) = LinkOf(m)}

(* Every m in q has an e before it. *)
Precedes(e, m, q) == \A i \in 1 .. Len(q) : q[i] = m => \E j \in 1 .. i - 1 : q[j] = e

(* What has to come before m is before it where it was delivered, is       *)
(* delivered when m is in hand, and gets to Python before an m that waits. *)
Ordered ==
  \A m \in stored : \A e \in Before(m) :
    /\ Precedes(e, m, delivered[LinkOf(m)])
    /\ InHand(m) => e \in Range(delivered[LinkOf(m)])
    /\ \/ e \in Range(delivered[LinkOf(m)])
       \/ InHand(e)
       \/ Precedes(e, m, queue[LinkOf(m)])

(* A Recv that is done has something for Python. *)
HandsFull == \A t \in Threads : pc[t] = "got" => result[t] \in Messages \cup {Blank}

PInv == Control /\ HandsFull /\ Types /\ Linked /\ Kept /\ Ordered

-----------------------------------------------------------------------------
LEMMA MessageParts ==
  ASSUME NEW m \in Messages
  PROVE  m.from \in Threads /\ m.seq \in Nat \ {0} /\ m = Message(m.from, m.seq)
BY PyAssumption DEF Messages, Message

LEMMA RangeOfSeq ==
  ASSUME NEW S, NEW q \in Seq(S)
  PROVE  /\ Range(q) = {q[i] : i \in 1 .. Len(q)}
         /\ Len(q) \in Nat
         /\ \A i \in 1 .. Len(q) : q[i] \in S
BY DEF Range

LEMMA AppendParts ==
  ASSUME NEW S, NEW q \in Seq(S), NEW x \in S
  PROVE  /\ Append(q, x) \in Seq(S)
         /\ Len(Append(q, x)) = Len(q) + 1
         /\ \A i \in 1 .. Len(q) : Append(q, x)[i] = q[i]
         /\ Append(q, x)[Len(q) + 1] = x
         /\ Range(Append(q, x)) = Range(q) \cup {x}
<1>1. Append(q, x) \in Seq(S) /\ Len(Append(q, x)) = Len(q) + 1 /\ Len(q) \in Nat
  OBVIOUS
<1>2. \A i \in 1 .. Len(q) : Append(q, x)[i] = q[i]
  OBVIOUS
<1>3. Append(q, x)[Len(q) + 1] = x
  OBVIOUS
<1>4. 1 .. Len(q) + 1 = (1 .. Len(q)) \cup {Len(q) + 1}
  BY <1>1
<1>5. Range(Append(q, x)) = {Append(q, x)[i] : i \in 1 .. Len(q) + 1}
  BY <1>1, RangeOfSeq, Zenon
<1>6. Range(q) = {q[i] : i \in 1 .. Len(q)}
  BY RangeOfSeq, Zenon
<1>7. QED
  BY <1>1, <1>2, <1>3, <1>4, <1>5, <1>6

LEMMA TailParts ==
  ASSUME NEW S, NEW q \in Seq(S), q # <<>>
  PROVE  /\ Tail(q) \in Seq(S) /\ Len(Tail(q)) = Len(q) - 1 /\ Len(q) \in Nat \ {0}
         /\ \A i \in 1 .. Len(q) - 1 : Tail(q)[i] = q[i + 1]
         /\ Head(q) = q[1] /\ Head(q) \in S
         /\ Range(q) = Range(Tail(q)) \cup {Head(q)}
<1>1. /\ Tail(q) \in Seq(S) /\ Len(Tail(q)) = Len(q) - 1 /\ Len(q) \in Nat \ {0}
      /\ \A i \in 1 .. Len(q) - 1 : Tail(q)[i] = q[i + 1]
      /\ Head(q) = q[1] /\ Head(q) \in S
  OBVIOUS
<1>2. Range(Tail(q)) = {Tail(q)[i] : i \in 1 .. Len(q) - 1}
  <2>1. PICK r \in Seq(S) : r = Tail(q)
    BY <1>1, Zenon
  <2>2. Range(r) = {r[i] : i \in 1 .. Len(r)}
    BY RangeOfSeq, Zenon
  <2>3. QED
    BY <1>1, <2>1, <2>2, Zenon
<1>3. Range(q) = {q[i] : i \in 1 .. Len(q)}
  BY RangeOfSeq, Zenon
<1>4. ASSUME NEW i \in 1 .. Len(q), i # 1 PROVE q[i] \in Range(Tail(q))
  <2>1. i - 1 \in 1 .. Len(q) - 1 /\ (i - 1) + 1 = i
    BY <1>1, <1>4
  <2>2. QED
    BY <1>1, <1>2, <2>1, Zenon
<1>5. \A i \in 1 .. Len(q) - 1 : i + 1 \in 1 .. Len(q)
  BY <1>1
<1>6. 1 \in 1 .. Len(q)
  BY <1>1
<1>7. Range(q) \subseteq Range(Tail(q)) \cup {Head(q)}
  BY <1>1, <1>3, <1>4, Zenon
<1>8. Range(Tail(q)) \cup {Head(q)} \subseteq Range(q)
  BY <1>1, <1>2, <1>3, <1>5, <1>6, Zenon
<1>9. QED
  BY <1>1, <1>7, <1>8, Zenon

LEMMA AbsentPrecedes ==
  ASSUME NEW S, NEW q \in Seq(S), NEW e, NEW m, m \notin Range(q)
  PROVE  Precedes(e, m, q)
BY RangeOfSeq DEF Precedes

LEMMA AppendPrecedes ==
  ASSUME NEW S, NEW q \in Seq(S), NEW x \in S, NEW e, NEW m,
         Precedes(e, m, q), x = m => e \in Range(q)
  PROVE  Precedes(e, m, Append(q, x))
<1>1. /\ Len(Append(q, x)) = Len(q) + 1 /\ Len(q) \in Nat
      /\ \A i \in 1 .. Len(q) : Append(q, x)[i] = q[i]
      /\ Append(q, x)[Len(q) + 1] = x
  BY AppendParts, RangeOfSeq
<1> SUFFICES ASSUME NEW i \in 1 .. Len(q) + 1, Append(q, x)[i] = m
             PROVE  \E j \in 1 .. i - 1 : Append(q, x)[j] = e
  BY <1>1, Zenon DEF Precedes
<1>2. CASE i \in 1 .. Len(q)
  <2>1. PICK j \in 1 .. i - 1 : q[j] = e
    BY <1>1, <1>2, Zenon DEF Precedes
  <2>2. QED
    BY <1>1, <1>2, <2>1
<1>3. CASE i = Len(q) + 1
  <2>1. PICK j \in 1 .. Len(q) : q[j] = e
    BY <1>1, <1>3, RangeOfSeq
  <2>2. QED
    BY <1>1, <1>3, <2>1
<1>4. QED
  BY <1>1, <1>2, <1>3

LEMMA TailPrecedes ==
  ASSUME NEW S, NEW q \in Seq(S), q # <<>>, NEW e, NEW m,
         Precedes(e, m, q), e # Head(q)
  PROVE  Precedes(e, m, Tail(q))
<1>1. /\ Len(Tail(q)) = Len(q) - 1 /\ Len(q) \in Nat \ {0} /\ Head(q) = q[1]
      /\ \A i \in 1 .. Len(q) - 1 : Tail(q)[i] = q[i + 1]
  BY TailParts, Zenon
<1> SUFFICES ASSUME NEW i \in 1 .. Len(q) - 1, Tail(q)[i] = m
             PROVE  \E j \in 1 .. i - 1 : Tail(q)[j] = e
  BY <1>1, Zenon DEF Precedes
<1>2. i + 1 \in 1 .. Len(q) /\ q[i + 1] = m
  BY <1>1
<1>3. PICK j \in 1 .. (i + 1) - 1 : q[j] = e
  BY <1>2, Zenon DEF Precedes
<1>4. j - 1 \in 1 .. i - 1 /\ j - 1 \in 1 .. Len(q) - 1 /\ (j - 1) + 1 = j
  BY <1>1, <1>3
<1>5. Tail(q)[j - 1] = q[j]
  BY <1>1, <1>4, Zenon
<1>6. QED
  BY <1>3, <1>4, <1>5, Zenon

LEMMA NonePrecedesHead ==
  ASSUME NEW S, NEW q \in Seq(S), q # <<>>, NEW e
  PROVE  ~Precedes(e, Head(q), q)
<1>1. 1 \in 1 .. Len(q) /\ q[1] = Head(q)
  BY TailParts
<1>2. QED
  BY <1>1 DEF Precedes

(* A message that was sent went over a link of the policy. *)
LEMMA SentLink ==
  ASSUME Types, NEW m \in Messages, m.seq <= Len(sent[m.from])
  PROVE  LinkOf(m) \in Links
<1>1. m.from \in Threads /\ m.seq \in Nat \ {0}
  BY MessageParts, Zenon
<1>2. sent[m.from] \in Seq(Links) /\ Len(sent[m.from]) \in Nat
  BY <1>1 DEF Types
<1>3. m.seq \in 1 .. Len(sent[m.from])
  BY <1>1, <1>2
<1>4. QED
  BY <1>2, <1>3 DEF LinkOf

LEMMA StoredLink ==
  ASSUME Types, NEW m \in stored
  PROVE  m \in Messages /\ LinkOf(m) \in Links
<1>1. m \in Messages /\ m.seq <= Len(sent[m.from])
  BY Zenon DEF Types
<1>2. QED
  BY <1>1, SentLink, Zenon

(* The GIL: one call of a process is in C++ at a time, so at most one      *)
(* message of a link is in hand.                                           *)
LEMMA OneHand ==
  ASSUME Control, NEW t \in Threads, NEW u \in Threads,
         Busy(t), Busy(u), Self(t) = Self(u)
  PROVE  t = u
BY Zenon DEF Control

-----------------------------------------------------------------------------
(* Steps that move no message. *)
LEMMA DataKeeps ==
  ASSUME Types, Linked, Kept, Ordered,
         UNCHANGED <<queue, stored, delivered>>,
         sent' \in [Threads -> Seq(Links)],
         result' \in [Threads -> Messages \cup {Nothing, Blank}],
         acked' \subseteq stored,
         \A m \in stored : /\ LinkOf(m)' = LinkOf(m)
                           /\ m.seq <= Len(sent'[m.from])
                           /\ Before(m)' = Before(m),
         \A t \in Threads, m \in Messages :
           /\ Holds(t, m)' <=> Holds(t, m)
           /\ Holds(t, m) => In(t)' = In(t)
  PROVE  Types' /\ Linked' /\ Kept' /\ Ordered'
<1>1. Types'
  BY Zenon DEF Types
<1>2. Linked'
  BY Zenon DEF Linked
<1>3. \A m \in stored : m \in Messages
  BY Zenon DEF Types
<1>4. ASSUME NEW m \in Messages PROVE InHand(m)' <=> InHand(m)
  BY Zenon DEF InHand, Holds
<1>5. Kept'
  BY <1>3, <1>4, Zenon DEF Kept
<1>6. Ordered'
  <2>1. SUFFICES ASSUME NEW m \in stored, NEW e \in Before(m)
                 PROVE  /\ Precedes(e, m, delivered[LinkOf(m)])
                        /\ InHand(m)' => e \in Range(delivered[LinkOf(m)])
                        /\ \/ e \in Range(delivered[LinkOf(m)])
                           \/ InHand(e)'
                           \/ Precedes(e, m, queue[LinkOf(m)])
    BY Zenon DEF Ordered
  <2>2. m \in Messages /\ e \in Messages
    BY <2>1, Zenon DEF Types, Before
  <2>3. QED
    BY <1>4, <2>1, <2>2, Zenon DEF Ordered
<1>7. QED
  BY <1>1, <1>2, <1>5, <1>6, Zenon

-----------------------------------------------------------------------------
(* What one thread's step does to the threads' control. *)
LEMMA ControlKeeps ==
  ASSUME Control, NEW t \in Threads,
         NEW p \in {"idle", "called", "send", "sending", "recv", "waiting", "got"},
         NEW c \in Calls \cup {NoCall}, NEW g \in Threads \cup {NoThread},
         pc' = [pc EXCEPT ![t] = p],
         call' = [call EXCEPT ![t] = c],
         gil' = [gil EXCEPT ![Self(t)] = g],
         p # "idle" => c \in Calls,
         p \notin {"idle", "called"} => g = t,
         g = gil[Self(t)] \/ (\A u \in Threads \ {t} : Self(u) = Self(t) => ~Busy(u)),
         p \in {"waiting", "got"} => <<c.peer, Self(t)>> \in Links
  PROVE  Control'
<1>1. \A u \in Threads : Self(u) \in Nodes
  BY PyAssumption, Zenon DEF Self
<1>2. /\ pc'[t] = p /\ call'[t] = c /\ gil'[Self(t)] = g
      /\ \A u \in Threads \ {t} : pc'[u] = pc[u] /\ call'[u] = call[u]
      /\ \A n \in Nodes \ {Self(t)} : gil'[n] = gil[n]
  BY <1>1, Zenon DEF Control
<1>3. \A u \in Threads \ {t} : Busy(u) => gil'[Self(u)] = u
  BY <1>1, <1>2, Zenon DEF Control
<1>4. \A u \in Threads : Busy(u)' => gil'[Self(u)] = u
  BY <1>2, <1>3, Zenon DEF Busy
<1>5. \A u \in Threads : pc'[u] \in {"waiting", "got"} => <<call'[u].peer, Self(u)>> \in Links
  BY <1>2, Zenon DEF Control, In
<1>6. \A u \in Threads : pc'[u] # "idle" => call'[u] \in Calls
  BY <1>2, Zenon DEF Control
<1>7. /\ pc' \in [Threads -> {"idle", "called", "send", "sending", "recv", "waiting", "got"}]
      /\ call' \in [Threads -> Calls \cup {NoCall}]
      /\ gil' \in [Nodes -> Threads \cup {NoThread}]
  BY Zenon DEF Control
<1>8. QED
  BY <1>4, <1>5, <1>6, <1>7, Zenon DEF Control, Busy, In, Self

(* A step inside a call: neither the arguments nor the GIL change. *)
LEMMA InsideKeeps ==
  ASSUME Control, NEW t \in Threads, Busy(t),
         NEW p \in {"sending", "waiting", "got"},
         pc' = [pc EXCEPT ![t] = p],
         UNCHANGED <<call, gil>>,
         p \in {"waiting", "got"} => In(t) \in Links
  PROVE  Control'
<1>1. call[t] \in Calls /\ gil[Self(t)] = t /\ Self(t) \in Nodes
  BY PyAssumption, Zenon DEF Control, Busy, Self
<1>2. call' = [call EXCEPT ![t] = call[t]] /\ gil' = [gil EXCEPT ![Self(t)] = t]
  BY <1>1, Zenon DEF Control
<1>3. QED
  BY <1>1, <1>2, ControlKeeps, Zenon DEF In

(* The end of a call gives the GIL back. *)
LEMMA ReturnKeeps ==
  ASSUME Control, NEW t \in Threads, Busy(t), Return(t)
  PROVE  Control'
<1>1. \A u \in Threads \ {t} : Self(u) = Self(t) => ~Busy(u)
  BY OneHand, Zenon
<1>2. /\ pc' = [pc EXCEPT ![t] = "idle"]
      /\ call' = [call EXCEPT ![t] = NoCall]
      /\ gil' = [gil EXCEPT ![Self(t)] = NoThread]
  BY Zenon DEF Return
<1>3. QED
  BY <1>1, <1>2, ControlKeeps, Zenon

(* A thread without a message in hand, before and after its step, changes  *)
(* nothing of who holds what.                                              *)
LEMMA HandsKeep ==
  ASSUME Control, Types, NEW t \in Threads,
         pc[t] # "got",
         \A m \in Messages : ~Holds(t, m)',
         \A u \in Threads \ {t} : /\ pc'[u] = pc[u] /\ result'[u] = result[u]
                                  /\ call'[u] = call[u]
  PROVE  \A u \in Threads, m \in Messages :
           /\ Holds(u, m)' <=> Holds(u, m)
           /\ Holds(u, m) => In(u)' = In(u)
BY Zenon DEF Holds, In, Self

(* Messages that no step touches keep their links and their order. *)
LEMMA SameLinks ==
  ASSUME UNCHANGED <<sent, acked>>
  PROVE  \A m : LinkOf(m)' = LinkOf(m) /\ Before(m)' = Before(m)
<1>1. \A m : LinkOf(m)' = LinkOf(m)
  BY Zenon DEF LinkOf
<1>2. QED
  BY <1>1, Zenon DEF Before

LEMMA SameBefore ==
  ASSUME Types, UNCHANGED <<sent, acked>>, NEW m \in stored
  PROVE  /\ LinkOf(m)' = LinkOf(m)
         /\ m.seq <= Len(sent'[m.from])
         /\ Before(m)' = Before(m)
BY SameLinks, Zenon DEF Types

(* When one thread's hand changes. *)
LEMMA OtherHands ==
  ASSUME NEW t \in Threads,
         \A u \in Threads \ {t} : /\ pc'[u] = pc[u] /\ result'[u] = result[u]
                                  /\ call'[u] = call[u]
  PROVE  \A u \in Threads \ {t} : /\ In(u)' = In(u)
                                  /\ \A m : Holds(u, m)' <=> Holds(u, m)
BY Zenon DEF Holds, In, Self

LEMMA InHandHolds == \A m : InHand(m) <=> \E t \in Threads : Holds(t, m)
BY Zenon DEF InHand, Holds

(* Steps of a thread that only concern its control. *)
LEMMA QuietKeeps ==
  ASSUME Control, HandsFull, Types, Linked, Kept, Ordered,
         NEW t \in Threads, Control',
         pc[t] # "got",
         pc'[t] = "got" => result'[t] = Blank,
         UNCHANGED <<sent, queue, stored, acked, delivered>>,
         result' \in [Threads -> Messages \cup {Nothing, Blank}],
         \A u \in Threads \ {t} : /\ pc'[u] = pc[u] /\ result'[u] = result[u]
                                  /\ call'[u] = call[u]
  PROVE  PInv'
<1>1. \A u \in Threads, m \in Messages :
        /\ Holds(u, m)' <=> Holds(u, m)
        /\ Holds(u, m) => In(u)' = In(u)
  <2>1. \A m \in Messages : ~Holds(t, m)'
    BY DistinctAssumption, Zenon DEF Holds
  <2>2. QED
    BY <2>1, HandsKeep, Zenon
<1>2. sent' \in [Threads -> Seq(Links)] /\ acked' \subseteq stored
  BY Zenon DEF Types
<1>3. \A m \in stored : /\ LinkOf(m)' = LinkOf(m)
                        /\ m.seq <= Len(sent'[m.from])
                        /\ Before(m)' = Before(m)
  BY SameBefore, Zenon
<1>4. Types' /\ Linked' /\ Kept' /\ Ordered'
  BY <1>1, <1>2, <1>3, DataKeeps, Zenon
<1>5. HandsFull'
  BY Zenon DEF HandsFull
<1>6. QED
  BY <1>4, <1>5, Zenon DEF PInv

-----------------------------------------------------------------------------
LEMMA InitPInv == Init => PInv
<1> SUFFICES ASSUME Init PROVE PInv
  BY Zenon
<1>1. Control
  BY Zenon DEF Init, Control, Busy
<1>2. Types
  BY DEF Init, Types
<1>3. \A l \in Links : Range(queue[l]) = {} /\ Range(delivered[l]) = {}
  BY DEF Init, Range
<1>4. Linked /\ Kept
  BY <1>3, Zenon DEF Init, Linked, Kept, Holds
<1>5. Ordered
  BY Zenon DEF Init, Ordered, Holds
<1>6. HandsFull
  BY Zenon DEF Init, HandsFull
<1>7. QED
  BY <1>1, <1>2, <1>4, <1>5, <1>6, Zenon DEF PInv

LEMMA CallKeeps ==
  ASSUME Control, HandsFull, Types, Linked, Kept, Ordered,
         NEW t \in Threads, NEW c \in Program[t], Call(t, c)
  PROVE  PInv'
<1> SUFFICES ASSUME /\ pc[t] = "idle" /\ pc' = [pc EXCEPT ![t] = "called"]
                    /\ call' = [call EXCEPT ![t] = c]
                    /\ UNCHANGED <<gil, result, sent, queue, stored, acked, delivered>>
             PROVE  PInv'
  BY Zenon DEF Call
<1>1. c \in Calls /\ Self(t) \in Nodes
  BY PyAssumption, Zenon DEF Self
<1>2. gil' = [gil EXCEPT ![Self(t)] = gil[Self(t)]] /\ gil[Self(t)] \in Threads \cup {NoThread}
  BY <1>1, Zenon DEF Control
<1>3. Control'
  BY <1>1, <1>2, ControlKeeps, Zenon
<1>4. /\ pc'[t] = "got" => result'[t] = Blank
      /\ \A u \in Threads \ {t} : pc'[u] = pc[u] /\ call'[u] = call[u]
  BY Zenon DEF Control
<1>5. result' \in [Threads -> Messages \cup {Nothing, Blank}]
  BY Zenon DEF Types
<1>6. QED
  BY <1>3, <1>4, <1>5, QuietKeeps, Zenon

LEMMA AcquireKeeps ==
  ASSUME Control, HandsFull, Types, Linked, Kept, Ordered,
         NEW t \in Threads, Acquire(t)
  PROVE  PInv'
<1> SUFFICES ASSUME /\ pc[t] = "called" /\ pc' = [pc EXCEPT ![t] = call[t].op]
                    /\ gil[Self(t)] = NoThread /\ gil' = [gil EXCEPT ![Self(t)] = t]
                    /\ UNCHANGED <<call, result, sent, queue, stored, acked, delivered>>
             PROVE  PInv'
  BY Zenon DEF Acquire
<1>1. call[t] \in Calls /\ call[t].op \in {"send", "recv"}
  BY Zenon DEF Control, Calls
<1>2. call' = [call EXCEPT ![t] = call[t]]
  BY Zenon DEF Control
<1>3. \A u \in Threads \ {t} : Self(u) = Self(t) => ~Busy(u)
  BY DistinctAssumption, Zenon DEF Control
<1>4. Control'
  BY <1>1, <1>2, <1>3, ControlKeeps, Zenon
<1>5. /\ pc'[t] = "got" => result'[t] = Blank
      /\ \A u \in Threads \ {t} : pc'[u] = pc[u] /\ call'[u] = call[u]
  BY <1>1, Zenon DEF Control
<1>6. result' \in [Threads -> Messages \cup {Nothing, Blank}]
  BY Zenon DEF Types
<1>7. QED
  BY <1>4, <1>5, <1>6, QuietKeeps, Zenon

(* Refused and SendThrows: the call ends and leaves no trace. *)
LEMMA EndKeeps ==
  ASSUME Control, HandsFull, Types, Linked, Kept, Ordered,
         NEW t \in Threads, Busy(t), pc[t] # "got", Return(t),
         UNCHANGED <<result, sent, queue, stored, acked, delivered>>
  PROVE  PInv'
<1>1. Control'
  BY ReturnKeeps, Zenon
<1>2. /\ pc'[t] = "got" => result'[t] = Blank
      /\ \A u \in Threads \ {t} : pc'[u] = pc[u] /\ call'[u] = call[u]
  BY Zenon DEF Control, Return
<1>3. result' \in [Threads -> Messages \cup {Nothing, Blank}]
  BY Zenon DEF Types
<1>4. QED
  BY <1>1, <1>2, <1>3, QuietKeeps, Zenon

LEMMA WaitKeeps ==
  ASSUME Control, HandsFull, Types, Linked, Kept, Ordered,
         NEW t \in Threads, Wait(t)
  PROVE  PInv'
<1> SUFFICES ASSUME /\ pc[t] = "recv" /\ In(t) \in Links
                    /\ pc' = [pc EXCEPT ![t] = "waiting"]
                    /\ UNCHANGED <<call, gil, result, sent, queue, stored, acked, delivered>>
             PROVE  PInv'
  BY Zenon DEF Wait, Receiving
<1>1. Busy(t)
  BY Zenon DEF Busy
<1>2. Control'
  BY <1>1, InsideKeeps, Zenon
<1>3. /\ pc'[t] = "got" => result'[t] = Blank
      /\ \A u \in Threads \ {t} : pc'[u] = pc[u]
  BY Zenon DEF Control
<1>4. result' \in [Threads -> Messages \cup {Nothing, Blank}]
  BY Zenon DEF Types
<1>5. QED
  BY <1>2, <1>3, <1>4, QuietKeeps, Zenon

(* A wait that expires has no message in hand. *)
LEMMA ExpireKeeps ==
  ASSUME Control, HandsFull, Types, Linked, Kept, Ordered,
         NEW t \in Threads, Expire(t)
  PROVE  PInv'
<1> SUFFICES ASSUME /\ pc[t] = "waiting" /\ pc' = [pc EXCEPT ![t] = "got"]
                    /\ result' = [result EXCEPT ![t] = Blank]
                    /\ UNCHANGED <<call, gil, sent, queue, stored, acked, delivered>>
             PROVE  PInv'
  BY Zenon DEF Expire, Got
<1>1. Busy(t) /\ In(t) \in Links
  BY Zenon DEF Busy, Control
<1>2. Control'
  BY <1>1, InsideKeeps, Zenon
<1>3. /\ pc'[t] = "got" => result'[t] = Blank
      /\ \A u \in Threads \ {t} : pc'[u] = pc[u] /\ result'[u] = result[u]
  BY Zenon DEF Control, Types
<1>4. result' \in [Threads -> Messages \cup {Nothing, Blank}]
  BY Zenon DEF Types
<1>5. QED
  BY <1>2, <1>3, <1>4, QuietKeeps, Zenon

(* A new send changes no earlier message. *)
LEMMA SendKeeps ==
  ASSUME Control, HandsFull, Types, Linked, Kept, Ordered,
         NEW t \in Threads, Send(t)
  PROVE  PInv'
<1> SUFFICES ASSUME /\ pc[t] = "send" /\ Out(t) \in Links
                    /\ pc' = [pc EXCEPT ![t] = "sending"]
                    /\ sent' = [sent EXCEPT ![t] = Append(@, Out(t))]
                    /\ UNCHANGED <<call, gil, result, queue, stored, acked, delivered>>
             PROVE  PInv'
  BY Zenon DEF Send
<1>1. Busy(t)
  BY Zenon DEF Busy
<1>2. Control'
  BY <1>1, InsideKeeps, Zenon
<1>3. /\ \A m \in Messages : ~Holds(t, m)'
      /\ \A u \in Threads \ {t} : pc'[u] = pc[u]
  BY Zenon DEF Control, Holds
<1>4. \A u \in Threads, m \in Messages :
        /\ Holds(u, m)' <=> Holds(u, m)
        /\ Holds(u, m) => In(u)' = In(u)
  BY <1>3, HandsKeep, Zenon
<1>5. sent' \in [Threads -> Seq(Links)]
  BY DEF Types
<1>6. ASSUME NEW m \in stored
      PROVE  LinkOf(m)' = LinkOf(m) /\ m.seq <= Len(sent'[m.from])
  <2>1. m.from \in Threads /\ m.seq \in Nat \ {0} /\ m.seq <= Len(sent[m.from])
    BY MessageParts, Zenon DEF Types
  <2>2. CASE m.from # t
    <3>1. sent'[m.from] = sent[m.from]
      BY <2>1, <2>2, Zenon DEF Types
    <3>2. QED
      BY <2>1, <3>1, Zenon DEF LinkOf
  <2>3. CASE m.from = t
    <3>1. sent[t] \in Seq(Links) /\ sent'[t] = Append(sent[t], Out(t))
      BY Zenon DEF Types
    <3>2. Len(sent[t]) \in Nat /\ Len(sent'[t]) = Len(sent[t]) + 1
          /\ \A i \in 1 .. Len(sent[t]) : sent'[t][i] = sent[t][i]
      BY <3>1, AppendParts
    <3>3. m.seq \in 1 .. Len(sent[t])
      BY <2>1, <2>3, <3>2
    <3>4. QED
      BY <2>1, <2>3, <3>2, <3>3 DEF LinkOf
  <2>4. QED
    BY <2>2, <2>3, Zenon
<1>7. ASSUME NEW m \in stored PROVE Before(m)' = Before(m)
  <2>1. LinkOf(m)' = LinkOf(m)
    BY <1>6, Zenon
  <2>2. \A e \in acked : LinkOf(e)' = LinkOf(e)
    BY <1>6, Zenon DEF Types
  <2>3. acked' = acked
    BY Zenon
  <2>4. QED
    BY <2>1, <2>2, <2>3, Zenon DEF Before
<1>8. result' \in [Threads -> Messages \cup {Nothing, Blank}] /\ acked' \subseteq stored
  BY Zenon DEF Types
<1>9. Types' /\ Linked' /\ Kept' /\ Ordered'
  BY <1>4, <1>5, <1>6, <1>7, <1>8, DataKeeps, Zenon
<1>10. HandsFull'
  BY Zenon DEF HandsFull, Control
<1>11. QED
  BY <1>2, <1>9, <1>10, Zenon DEF PInv

(* When a message is acknowledged its thread has sent none after it. *)
LEMMA SendReturnsKeeps ==
  ASSUME Control, HandsFull, Types, Linked, Kept, Ordered,
         NEW t \in Threads, SendReturns(t)
  PROVE  PInv'
<1> SUFFICES ASSUME /\ pc[t] = "sending" /\ Current(t) \in stored
                    /\ acked' = acked \cup {Current(t)} /\ Return(t)
                    /\ UNCHANGED <<result, sent, queue, stored, delivered>>
             PROVE  PInv'
  BY Zenon DEF SendReturns
<1>1. Busy(t)
  BY Zenon DEF Busy
<1>2. Control'
  BY <1>1, ReturnKeeps, Zenon
<1>3. /\ \A m \in Messages : ~Holds(t, m)'
      /\ \A u \in Threads \ {t} : pc'[u] = pc[u] /\ call'[u] = call[u]
  BY Zenon DEF Control, Holds, Return
<1>4. \A u \in Threads, m \in Messages :
        /\ Holds(u, m)' <=> Holds(u, m)
        /\ Holds(u, m) => In(u)' = In(u)
  BY <1>3, HandsKeep, Zenon
<1>5. ASSUME NEW m \in stored
      PROVE  LinkOf(m)' = LinkOf(m) /\ m.seq <= Len(sent'[m.from])
  BY Zenon DEF LinkOf, Types
<1>6. ASSUME NEW m \in stored PROVE Before(m)' = Before(m)
  <2>1. \A e \in stored : LinkOf(e)' = LinkOf(e)
    BY <1>5, Zenon
  <2>2. ~(Current(t).from = m.from /\ Current(t).seq < m.seq)
    <3>1. m.from \in Threads /\ m.seq \in Nat /\ m.seq <= Len(sent[m.from])
      BY MessageParts, Zenon DEF Types
    <3>2. Len(sent[t]) \in Nat
      BY DEF Types
    <3>3. QED
      BY <3>1, <3>2 DEF Current, Message
  <2>3. acked' \subseteq stored
    BY Zenon DEF Types
  <2>4. QED
    BY <2>1, <2>2, <2>3, Zenon DEF Before
<1>7. /\ result' \in [Threads -> Messages \cup {Nothing, Blank}]
      /\ acked' \subseteq stored /\ sent' \in [Threads -> Seq(Links)]
  BY Zenon DEF Types
<1>8. Types' /\ Linked' /\ Kept' /\ Ordered'
  BY <1>4, <1>5, <1>6, <1>7, DataKeeps, Zenon
<1>9. HandsFull'
  BY Zenon DEF HandsFull, Control, Return
<1>10. QED
  BY <1>2, <1>8, <1>9, Zenon DEF PInv

-----------------------------------------------------------------------------
(* A message, or a copy of it, is stored behind all that came before. *)
LEMMA StoreKeeps ==
  ASSUME Control, HandsFull, Types, Linked, Kept, Ordered,
         NEW m \in Messages, Store(m)
  PROVE  PInv'
<1>1. /\ m.seq <= Len(sent[m.from])
      /\ queue' = [queue EXCEPT ![LinkOf(m)] = Append(@, m)]
      /\ stored' = stored \cup {m}
      /\ UNCHANGED <<gil, pc, call, result, sent, acked, delivered>>
  BY Zenon DEF Store
<1>2. PICK l \in Links : l = LinkOf(m)
  BY <1>1, SentLink, Zenon
<1>3. queue \in [Links -> Seq(Messages)] /\ queue[l] \in Seq(Messages)
  BY Zenon DEF Types
<1>4. /\ queue'[l] = Append(queue[l], m)
      /\ \A k \in Links \ {l} : queue'[k] = queue[k]
      /\ queue' \in [Links -> Seq(Messages)]
  BY <1>1, <1>2, <1>3
<1>5. Range(queue'[l]) = Range(queue[l]) \cup {m}
  BY <1>3, <1>4, AppendParts
<1>6. /\ \A k \in Links : Range(queue[k]) \subseteq Range(queue'[k])
      /\ \A k \in Links : \A e \in Range(queue'[k]) :
           e \in Range(queue[k]) \/ (k = l /\ e = m)
  BY <1>4, <1>5, Zenon
<1>7. /\ \A e : LinkOf(e)' = LinkOf(e) /\ Before(e)' = Before(e)
      /\ \A e : InHand(e)' <=> InHand(e)
      /\ \A u \in Threads, e \in Messages : Holds(u, e)' <=> Holds(u, e)
      /\ \A u \in Threads : In(u)' = In(u)
  <2>1. \A u, e : (Holds(u, e)' <=> Holds(u, e)) /\ In(u)' = In(u)
    BY <1>1, Zenon DEF Holds, In, Self
  <2>2. \A e : InHand(e)' <=> InHand(e)
    BY <1>1, Zenon DEF InHand
  <2>3. QED
    BY <1>1, <2>1, <2>2, SameLinks, Zenon
<1>8. Control' /\ HandsFull'
  BY <1>1, Zenon DEF Control, Busy, In, Self, HandsFull
<1>9. Types'
  BY <1>1, <1>4, Zenon DEF Types
<1>10. Linked'
  <2>1. ASSUME NEW k \in Links, NEW e \in Range(queue'[k]) \cup Range(delivered[k])
        PROVE  e \in stored' /\ LinkOf(e) = k
    BY <1>1, <1>2, <1>6, <2>1, Zenon DEF Linked
  <2>2. QED
    BY <1>1, <1>7, <2>1, Zenon DEF Linked
<1>11. ASSUME NEW e \in stored'
       PROVE  \/ e \in Range(queue'[LinkOf(e)]) \cup Range(delivered[LinkOf(e)])
              \/ InHand(e)
  <2>1. CASE e = m
    BY <1>2, <1>5, <2>1, Zenon
  <2>2. CASE e \in stored
    BY <1>6, <2>2, StoredLink, Zenon DEF Kept
  <2>3. QED
    BY <1>1, <1>11, <2>1, <2>2, Zenon
<1>12. Kept'
  BY <1>1, <1>7, <1>11, Zenon DEF Kept
(* A message that was not stored before is nowhere yet. *)
<1>13. ASSUME NEW x \in stored', NEW e \in Before(x)
       PROVE  /\ Precedes(e, x, delivered[LinkOf(x)])
              /\ InHand(x) => e \in Range(delivered[LinkOf(x)])
              /\ \/ e \in Range(delivered[LinkOf(x)])
                 \/ InHand(e)
                 \/ Precedes(e, x, queue[LinkOf(x)])
  <2>1. CASE x \in stored
    BY <2>1, Zenon DEF Ordered
  <2>2. CASE x \notin stored
    <3>1. x = m /\ LinkOf(x) = l
      BY <1>1, <1>2, <2>2, Zenon
    <3>2. /\ x \notin Range(queue[l]) /\ x \notin Range(delivered[l])
          /\ ~InHand(x)
      BY <2>2, <3>1, InHandHolds, Zenon DEF Linked
    <3>3. delivered[l] \in Seq(Messages)
      BY Zenon DEF Types
    <3>4. QED
      BY <1>3, <3>1, <3>2, <3>3, AbsentPrecedes, Zenon
  <2>3. QED
    BY <2>1, <2>2, Zenon
<1>14. ASSUME NEW x \in stored', NEW e \in Before(x),
              e \notin Range(delivered[LinkOf(x)]), ~InHand(e)
       PROVE  Precedes(e, x, queue'[LinkOf(x)])
  <2>1. LinkOf(x) \in Links /\ Precedes(e, x, queue[LinkOf(x)])
    BY <1>1, <1>2, <1>13, <1>14, StoredLink, Zenon
  <2>2. CASE LinkOf(x) # l
    BY <1>4, <2>1, <2>2, Zenon
  <2>3. CASE LinkOf(x) = l
    <3>1. x = m => e \in Range(queue[l])
      <4>1. e \in stored /\ LinkOf(e) = l
        BY <1>14, <2>3, Zenon DEF Before, Types
      <4>2. QED
        BY <1>14, <2>3, <4>1, Zenon DEF Kept
    <3>2. QED
      BY <1>3, <1>4, <2>1, <2>3, <3>1, AppendPrecedes, Zenon
  <2>4. QED
    BY <2>2, <2>3, Zenon
<1>15. Ordered'
  BY <1>1, <1>7, <1>13, <1>14, Zenon DEF Ordered
<1>16. QED
  BY <1>8, <1>9, <1>10, <1>12, <1>15, Zenon DEF PInv

(* The first message of a queue comes into a hand; what must come before   *)
(* it is delivered already, because no other hand of the process is busy.  *)
LEMMA TakeKeeps ==
  ASSUME Control, HandsFull, Types, Linked, Kept, Ordered,
         NEW t \in Threads, Take(t)
  PROVE  PInv'
<1>1. /\ pc[t] \in {"recv", "waiting"} /\ In(t) \in Links /\ queue[In(t)] # <<>>
      /\ queue' = [queue EXCEPT ![In(t)] = Tail(@)]
      /\ result' = [result EXCEPT ![t] = Head(queue[In(t)])]
      /\ pc' = [pc EXCEPT ![t] = "got"]
      /\ UNCHANGED <<gil, call, sent, stored, acked, delivered>>
  BY Zenon DEF Take, Receiving, Got
<1>2. PICK l \in Links : l = In(t)
  BY <1>1, Zenon
<1>3. /\ queue \in [Links -> Seq(Messages)]
      /\ queue[l] \in Seq(Messages) /\ queue[l] # <<>> /\ Busy(t)
  BY <1>1, <1>2, Zenon DEF Types, Busy
<1>4. PICK m \in Messages : m = Head(queue[l])
  BY <1>3, TailParts, Zenon
<1>5. Tail(queue[l]) \in Seq(Messages) /\ Range(queue[l]) = Range(Tail(queue[l])) \cup {m}
  BY <1>3, <1>4, TailParts, Zenon
<1>6. /\ queue'[l] = Tail(queue[l])
      /\ \A k \in Links \ {l} : queue'[k] = queue[k]
      /\ queue' \in [Links -> Seq(Messages)]
  BY <1>1, <1>2, <1>3, <1>5, Zenon
<1>7. /\ pc'[t] = "got" /\ result'[t] = m
      /\ \A u \in Threads \ {t} : /\ pc'[u] = pc[u] /\ result'[u] = result[u]
                                  /\ call'[u] = call[u]
      /\ result' \in [Threads -> Messages \cup {Nothing, Blank}]
  BY <1>1, <1>2, <1>4, Zenon DEF Control, Types
<1>8. Control'
  BY <1>1, <1>3, InsideKeeps, Zenon
<1>9. HandsFull' /\ Types'
  BY <1>1, <1>6, <1>7, Zenon DEF HandsFull, Types
<1>10. /\ \A e : LinkOf(e)' = LinkOf(e) /\ Before(e)' = Before(e)
       /\ \A u \in Threads : In(u)' = In(u)
  <2>1. \A u \in Threads : In(u)' = In(u)
    BY <1>1, Zenon DEF In, Self
  <2>2. QED
    BY <1>1, <2>1, SameLinks, Zenon
<1>11. /\ \A e : Holds(t, e)' <=> e = m
       /\ \A u \in Threads \ {t} : \A e : Holds(u, e)' <=> Holds(u, e)
       /\ \A e : ~Holds(t, e)
  <2>1. (\A e : Holds(t, e)' <=> e = m) /\ (\A e : ~Holds(t, e))
    BY <1>1, <1>7, Zenon DEF Holds
  <2>2. QED
    BY <1>7, <2>1, OtherHands, Zenon
<1>12. \A e : InHand(e)' <=> InHand(e) \/ e = m
  BY <1>11, Zenon DEF InHand, Holds
<1>13. m \in stored /\ LinkOf(m) = l
  BY <1>5, Zenon DEF Linked
<1>14. Linked'
  <2>1. \A k \in Links : Range(queue'[k]) \subseteq Range(queue[k])
    BY <1>5, <1>6, Zenon
  <2>2. \A k \in Links : \A e \in Range(queue'[k]) \cup Range(delivered[k]) :
          e \in stored /\ LinkOf(e) = k
    BY <2>1, Zenon DEF Linked
  <2>3. \A u \in Threads, e \in Messages : Holds(u, e)' => e \in stored /\ LinkOf(e) = In(u)
    BY <1>2, <1>11, <1>13, Zenon DEF Linked
  <2>4. QED
    BY <1>1, <1>10, <2>2, <2>3, Zenon DEF Linked
<1>15. ASSUME NEW e \in stored
       PROVE  \/ e \in Range(queue'[LinkOf(e)]) \cup Range(delivered[LinkOf(e)])
              \/ InHand(e)'
  <2>1. LinkOf(e) \in Links
    BY StoredLink, Zenon
  <2>2. \A k \in Links : Range(queue[k]) \subseteq Range(queue'[k]) \cup {m}
    BY <1>5, <1>6, Zenon
  <2>3. QED
    BY <1>12, <2>1, <2>2, Zenon DEF Kept
<1>16. Kept'
  BY <1>1, <1>10, <1>15, Zenon DEF Kept
<1>17. ASSUME NEW e \in Before(m) PROVE e \in Range(delivered[l])
  <2>1. e \in stored /\ e \in Messages /\ LinkOf(e) = l
    BY <1>13, <1>17, Zenon DEF Before, Types
  <2>2. ASSUME NEW u \in Threads, Holds(u, e) PROVE FALSE
    <3>1. In(u) = In(t) /\ Busy(u)
      BY <1>2, <2>1, <2>2, Zenon DEF Linked, Holds, Busy
    <3>2. u = t
      BY <1>3, <3>1, OneHand, Zenon DEF In
    <3>3. QED
      BY <1>11, <2>2, <3>2, Zenon
  <2>3. ~InHand(e)
    BY <2>2, InHandHolds, Zenon
  <2>4. ~Precedes(e, m, queue[l])
    BY <1>3, <1>4, NonePrecedesHead, Zenon
  <2>5. QED
    BY <1>13, <2>3, <2>4, Zenon DEF Ordered
<1>18. ASSUME NEW x \in stored, NEW e \in Before(x),
              e \notin Range(delivered[LinkOf(x)]), ~InHand(e)'
       PROVE  Precedes(e, x, queue'[LinkOf(x)])
  <2>1. LinkOf(x) \in Links /\ Precedes(e, x, queue[LinkOf(x)]) /\ e # m
    BY <1>12, <1>18, StoredLink, Zenon DEF Ordered
  <2>2. CASE LinkOf(x) # l
    BY <1>6, <2>1, <2>2, Zenon
  <2>3. CASE LinkOf(x) = l
    BY <1>3, <1>4, <1>6, <2>1, <2>3, TailPrecedes, Zenon
  <2>4. QED
    BY <2>2, <2>3, Zenon
<1>19. ASSUME NEW x \in stored, NEW e \in Before(x), InHand(x)'
       PROVE  e \in Range(delivered[LinkOf(x)])
  BY <1>12, <1>13, <1>17, <1>19, Zenon DEF Ordered
<1>20. \A x \in stored : \A e \in Before(x) : Precedes(e, x, delivered[LinkOf(x)])
  BY Zenon DEF Ordered
<1>21. Ordered'
  BY <1>1, <1>10, <1>18, <1>19, <1>20, Zenon DEF Ordered
<1>22. QED
  BY <1>8, <1>9, <1>14, <1>16, <1>21, Zenon DEF PInv

(* Python gets the string: a message in hand becomes a delivered one, at   *)
(* the end of what was delivered unless it is a copy.                      *)
LEMMA BackKeeps ==
  ASSUME Control, HandsFull, Types, Linked, Kept, Ordered,
         NEW t \in Threads, Back(t)
  PROVE  PInv'
<1>1. /\ pc[t] = "got" /\ Return(t) /\ pc' = [pc EXCEPT ![t] = "idle"]
      /\ call' = [call EXCEPT ![t] = NoCall]
      /\ result' = [result EXCEPT ![t] = Nothing]
      /\ UNCHANGED <<sent, queue, stored, acked>>
  BY Zenon DEF Back, Return
<1>2. Busy(t) /\ In(t) \in Links
  BY <1>1, Zenon DEF Busy, Control
<1>3. Control'
  BY <1>1, <1>2, ReturnKeeps, Zenon
<1>4. PICK l \in Links : l = In(t)
  BY <1>2, Zenon
<1>5. PICK r \in Messages \cup {Blank} : r = result[t]
  BY <1>1, Zenon DEF HandsFull
<1>6. /\ pc'[t] = "idle"
      /\ \A u \in Threads \ {t} : /\ pc'[u] = pc[u] /\ result'[u] = result[u]
                                  /\ call'[u] = call[u]
      /\ result' \in [Threads -> Messages \cup {Nothing, Blank}]
  BY <1>1, Zenon DEF Control, Types
<1>7. HandsFull'
  BY <1>6, Zenon DEF HandsFull
<1>8. delivered \in [Links -> Seq(Messages)] /\ delivered[l] \in Seq(Messages)
  BY Zenon DEF Types
(* What happens to the deliveries of the link. *)
<1>9. /\ delivered' \in [Links -> Seq(Messages)]
      /\ \A k \in Links \ {l} : delivered'[k] = delivered[k]
      /\ \/ (r \in Messages => r \in Range(delivered[l])) /\ delivered'[l] = delivered[l]
         \/ r \in Messages /\ delivered'[l] = Append(delivered[l], r)
  <2>1. CASE r = Blank
    BY <1>5, <1>8, <2>1, DistinctAssumption, Zenon DEF Back
  <2>2. CASE r # Blank /\ r \in Range(delivered[l])
    <3>1. delivered' = [delivered EXCEPT ![l] = delivered[l]]
      BY <1>4, <1>5, <2>2, Zenon DEF Back, First
    <3>2. QED
      BY <1>8, <2>2, <3>1, Zenon
  <2>3. CASE r # Blank /\ r \notin Range(delivered[l])
    <3>1. delivered' = [delivered EXCEPT ![l] = Append(delivered[l], r)]
      BY <1>4, <1>5, <2>3, Zenon DEF Back, First
    <3>2. r \in Messages /\ Append(delivered[l], r) \in Seq(Messages)
      BY <1>5, <1>8, <2>3
    <3>3. QED
      BY <1>8, <3>1, <3>2, Zenon
  <2>4. QED
    BY <2>1, <2>2, <2>3, Zenon
<1>10. /\ \A k \in Links : Range(delivered[k]) \subseteq Range(delivered'[k])
       /\ r \in Messages => r \in Range(delivered'[l])
       /\ \A k \in Links : \A e \in Range(delivered'[k]) :
            e \in Range(delivered[k]) \/ (k = l /\ e = r /\ e \in Messages)
  <2>1. r \in Messages => Range(Append(delivered[l], r)) = Range(delivered[l]) \cup {r}
    BY <1>8, AppendParts
  <2>2. QED
    BY <1>9, <2>1, Zenon
<1>11. \A e : LinkOf(e)' = LinkOf(e) /\ Before(e)' = Before(e)
  BY <1>1, SameLinks, Zenon
<1>12. /\ \A e : ~Holds(t, e)'
       /\ \A u \in Threads \ {t} : \A e : Holds(u, e)' <=> Holds(u, e)
       /\ \A u \in Threads \ {t} : In(u)' = In(u)
  <2>1. \A e : ~Holds(t, e)'
    BY <1>6, Zenon DEF Holds
  <2>2. QED
    BY <1>6, <2>1, OtherHands, Zenon
<1>13. \A e : (InHand(e)' => InHand(e)) /\ (InHand(e) => InHand(e)' \/ e = r)
  BY <1>1, <1>5, <1>12, Zenon DEF InHand, Holds
<1>14. r \in Messages => InHand(r) /\ r \in stored /\ LinkOf(r) = l
  BY <1>1, <1>4, <1>5, Zenon DEF InHand, Linked, Holds
<1>15. Types'
  BY <1>1, <1>6, <1>9, Zenon DEF Types
<1>16. Linked'
  <2>1. \A k \in Links : \A e \in Range(queue[k]) \cup Range(delivered'[k]) :
          e \in stored /\ LinkOf(e) = k
    BY <1>10, <1>14 DEF Linked
  <2>2. \A u \in Threads, e \in Messages :
          Holds(u, e)' => e \in stored /\ LinkOf(e) = In(u)'
    BY <1>12, Zenon DEF Linked
  <2>3. QED
    BY <1>1, <1>11, <2>1, <2>2, Zenon DEF Linked
<1>17. ASSUME NEW e \in stored
       PROVE  \/ e \in Range(queue[LinkOf(e)]) \cup Range(delivered'[LinkOf(e)])
              \/ InHand(e)'
  <2>1. e \in Messages /\ LinkOf(e) \in Links
    BY StoredLink, Zenon
  <2>2. QED
    BY <1>10, <1>13, <1>14, <2>1, Zenon DEF Kept
<1>18. Kept'
  BY <1>1, <1>11, <1>17, Zenon DEF Kept
<1>19. ASSUME NEW x \in stored, NEW e \in Before(x)
       PROVE  /\ Precedes(e, x, delivered'[LinkOf(x)])
              /\ InHand(x)' => e \in Range(delivered'[LinkOf(x)])
              /\ \/ e \in Range(delivered'[LinkOf(x)])
                 \/ InHand(e)'
                 \/ Precedes(e, x, queue[LinkOf(x)])
  <2>1. /\ LinkOf(x) \in Links
        /\ e \in Messages /\ LinkOf(e) = LinkOf(x)
    BY <1>19, StoredLink, Zenon DEF Before, Types
  <2>2. /\ Precedes(e, x, delivered[LinkOf(x)])
        /\ InHand(x) => e \in Range(delivered[LinkOf(x)])
        /\ \/ e \in Range(delivered[LinkOf(x)])
           \/ InHand(e)
           \/ Precedes(e, x, queue[LinkOf(x)])
    BY <1>19, Zenon DEF Ordered
  <2>3. Precedes(e, x, delivered'[LinkOf(x)])
    <3>1. CASE delivered'[LinkOf(x)] = delivered[LinkOf(x)]
      BY <2>2, <3>1, Zenon
    <3>2. CASE LinkOf(x) = l /\ r \in Messages /\ delivered'[l] = Append(delivered[l], r)
      <4>1. r = x => e \in Range(delivered[l])
        BY <1>14, <2>2, <3>2, Zenon
      <4>2. QED
        BY <1>8, <2>2, <3>2, <4>1, AppendPrecedes, Zenon
    <3>3. QED
      BY <1>9, <2>1, <3>1, <3>2, Zenon
  <2>4. InHand(x)' => e \in Range(delivered'[LinkOf(x)])
    BY <1>10, <1>13, <2>1, <2>2, Zenon
  <2>5. InHand(e) => InHand(e)' \/ e \in Range(delivered'[LinkOf(x)])
    BY <1>10, <1>13, <1>14, <2>1, Zenon
  <2>6. QED
    BY <1>10, <2>1, <2>2, <2>3, <2>4, <2>5, Zenon
<1>20. Ordered'
  BY <1>1, <1>11, <1>19, Zenon DEF Ordered
<1>21. QED
  BY <1>3, <1>7, <1>15, <1>16, <1>18, <1>20, Zenon DEF PInv

LEMMA StutterKeeps ==
  ASSUME Control, HandsFull, Types, Linked, Kept, Ordered, UNCHANGED vars
  PROVE  PInv'
<1> SUFFICES ASSUME UNCHANGED <<gil, pc, call, result, sent, queue, stored, acked, delivered>>
             PROVE  PInv'
  BY Zenon DEF vars
<1>1. Control' /\ HandsFull'
  BY Zenon DEF Control, Busy, In, Self, HandsFull
<1>2. \A m \in stored : /\ LinkOf(m)' = LinkOf(m)
                        /\ m.seq <= Len(sent'[m.from])
                        /\ Before(m)' = Before(m)
  BY SameBefore, Zenon
<1>3. \A t \in Threads, m \in Messages : /\ Holds(t, m)' <=> Holds(t, m)
                                         /\ In(t)' = In(t)
  BY Zenon DEF Holds, In, Self
<1>4. /\ sent' \in [Threads -> Seq(Links)] /\ acked' \subseteq stored
      /\ result' \in [Threads -> Messages \cup {Nothing, Blank}]
  BY Zenon DEF Types
<1>5. Types' /\ Linked' /\ Kept' /\ Ordered'
  BY <1>2, <1>3, <1>4, DataKeeps, Zenon
<1>6. QED
  BY <1>1, <1>5, Zenon DEF PInv

-----------------------------------------------------------------------------
(* Where messages are, and in which order, is inductive. *)
THEOREM Invariance == Spec => []PInv
<1>1. ASSUME PInv, NEW t \in Threads, Refused(t) \/ SendThrows(t) PROVE PInv'
  <2>1. /\ Busy(t) /\ pc[t] # "got" /\ Return(t)
        /\ UNCHANGED <<result, sent, queue, stored, acked, delivered>>
    BY <1>1, Zenon DEF Refused, SendThrows, Busy
  <2>2. QED
    BY <1>1, <2>1, EndKeeps, Zenon DEF PInv
<1>2. ASSUME PInv, NEW t \in Threads, Step(t) PROVE PInv'
  <2>1. Control /\ HandsFull /\ Types /\ Linked /\ Kept /\ Ordered
    BY <1>2, Zenon DEF PInv
  <2>2. QED
    BY Zenon, <1>1, <1>2, <2>1, SendKeeps, SendReturnsKeeps, TakeKeeps, WaitKeeps,
       ExpireKeeps, BackKeeps DEF Step
<1>3. ASSUME PInv, [Next]_vars PROVE PInv'
  <2>1. Control /\ HandsFull /\ Types /\ Linked /\ Kept /\ Ordered
    BY <1>3, Zenon DEF PInv
  <2>2. QED
    BY <1>2, <1>3, <2>1, CallKeeps, AcquireKeeps, StoreKeeps, StutterKeeps, Zenon DEF Next
<1>4. QED
  BY <1>3, InitPInv, PTL DEF Spec

(* An acknowledged message waits for a Recv, is in the hands of one or has *)
(* reached Python.                                                         *)
THEOREM NothingAckedIsLost == Spec => []AckedIsKept
<1>1. PInv => AckedIsKept
  BY Zenon DEF PInv, AckedIsKept, Kept, Types
<1>2. QED
  BY <1>1, Invariance, PTL

(* Whatever threads of a program receive from a peer, Python sees each     *)
(* sending thread's acknowledged messages in order.                        *)
THEOREM PythonSeesOrder == Spec => []DeliveredInOrder
<1>1. PInv => DeliveredInOrder
  <2> SUFFICES ASSUME PInv, NEW l \in Links, NEW i \in 1 .. Len(delivered[l]),
                      NEW k \in 1 .. delivered[l][i].seq - 1,
                      Message(delivered[l][i].from, k) \in acked,
                      LinkOf(Message(delivered[l][i].from, k)) = l
               PROVE  \E j \in 1 .. i - 1 :
                        delivered[l][j] = Message(delivered[l][i].from, k)
    BY Zenon DEF DeliveredInOrder
  <2> DEFINE m == delivered[l][i]
             e == Message(m.from, k)
  <2>1. m \in Messages /\ m \in Range(delivered[l])
    BY RangeOfSeq DEF PInv, Types
  <2>2. m \in stored /\ LinkOf(m) = l /\ m.seq \in Nat
    BY <2>1, MessageParts, Zenon DEF PInv, Linked
  <2>3. e.from = m.from /\ e.seq = k
    BY Zenon DEF Message
  <2>4. e \in Before(m)
    BY <2>2, <2>3 DEF Before
  <2>5. Precedes(e, m, delivered[l])
    BY <2>2, <2>4, Zenon DEF PInv, Ordered
  <2>6. QED
    BY <2>5, Zenon DEF Precedes
<1>2. QED
  BY <1>1, Invariance, PTL
=============================================================================
