------------------------- MODULE CycleBufferProofs -------------------------
(***************************************************************************)
(* The ring's bookkeeping is right for every initial capacity, every       *)
(* message length and every number of threads.                             *)
(***************************************************************************)
EXTENDS CycleBuffer, SequenceTheorems, TLAPS

(* One call at a time: whoever is inside write or read holds mutex_. *)
MutexHeld == \A t \in Threads : pc[t] # "idle" <=> mutex = t

(* A writer carries a message of `length' bytes, and the bound on unread   *)
(* bytes counts them in; a reader carries the length it was called with.   *)
Writing(t) == pc[t] \in {"realloc", "wait_space", "copy_in"}

WriteArgs ==
  \A t \in Threads : Writing(t) =>
    /\ data[t] \in Chunks
    /\ Len(data[t]) = length[t]
    /\ size + length[t] <= MaxUnread

ReadArgs ==
  \A t \in Threads : pc[t] \in {"wait_data", "copy_out"} => length[t] \in Lengths

(* The inductive invariant. *)
IInv == /\ TypeOK
        /\ PositionsAgree
        /\ MutexHeld
        /\ WriteArgs
        /\ ReadArgs
        /\ NeverBlocksInRing
        /\ CapacityBounded

-----------------------------------------------------------------------------
(* What realloc's integer division gives. *)
LEMMA DivBounds ==
  ASSUME NEW d \in Nat \ {0}, NEW k \in Nat
  PROVE  /\ k \div d \in Nat
         /\ d * (k \div d) <= k
         /\ k < d * (k \div d) + d
  OBVIOUS

(* What growing for k bytes makes of a capacity d: room for d old and k    *)
(* new bytes, and no more than k + 2d.                                     *)
LEMMA GrowthBounds ==
  ASSUME NEW d \in Nat \ {0}, NEW k \in Nat
  PROVE  /\ d * ((k \div d) + 2) \in Nat
         /\ d * ((k \div d) + 2) > k + d
         /\ d * ((k \div d) + 2) <= k + 2 * d
<1> DEFINE q == k \div d
<1>1. q \in Nat /\ d * q <= k /\ k < d * q + d
  BY DivBounds, Zenon
<1>2. d * (q + 2) = d * q + 2 * d
  BY <1>1
<1>3. d * q \in Nat
  BY <1>1
<1> HIDE DEF q
<1>4. d * (q + 2) \in Nat /\ d * (q + 2) > k + d /\ d * (q + 2) <= k + 2 * d
  BY <1>1, <1>2, <1>3
<1>5. QED
  BY <1>4, Zenon DEF q

(* A number that fits an int32_t is kept. *)
LEMMA ModSmall ==
  ASSUME NEW m \in Nat \ {0}, NEW y \in Nat, y < m
  PROVE  y % m = y
  OBVIOUS

LEMMA Int32Fits ==
  ASSUME NEW x \in 0 .. IntMax
  PROVE  Int32(x) = x
<1> DEFINE y == x + IntMax + 1
           m == 2 * IntMax + 2
<1>1. m \in Nat \ {0} /\ y \in Nat /\ y < m
  BY WidthAssumption
<1>2. y % m = y
  <2> HIDE DEF y, m
  <2>1. QED
    BY <1>1, ModSmall, Zenon
<1>3. Int32(x) = (y % m) - (IntMax + 1)
  BY Zenon DEF Int32
<1>4. QED
  BY <1>2, <1>3, WidthAssumption

(* Copying bytes into a block within its bounds gives a block. *)
LEMMA PutType ==
  ASSUME NEW S, NEW N \in Nat, NEW b \in [0 .. N - 1 -> S],
         NEW at \in Nat, NEW d \in Seq(S)
  PROVE  Put(b, at, d) \in [0 .. N - 1 -> S]
<1>1. \A i \in 0 .. N - 1 : at <= i /\ i < at + Len(d) => d[i - at + 1] \in S
  <2> TAKE i \in 0 .. N - 1
  <2> HAVE at <= i /\ i < at + Len(d)
  <2>1. Len(d) \in Nat
    BY LenProperties, Zenon
  <2>2. i - at + 1 \in 1 .. Len(d)
    BY <2>1
  <2>3. QED
    BY <2>2, ElementOfSeq, Zenon
<1>2. QED
  BY <1>1, Zenon DEF Put

(* Copying k bytes out of a block within its bounds gives k bytes. *)
LEMMA PeekType ==
  ASSUME NEW S, NEW N \in Nat, NEW b \in [0 .. N - 1 -> S],
         NEW at \in Nat, NEW k \in Nat, at + k <= N
  PROVE  Peek(b, at, k) \in Seq(S) /\ Len(Peek(b, at, k)) = k
<1>1. Peek(b, at, k) \in [1 .. k -> S]
  BY DEF Peek
<1>2. QED
  BY <1>1

(* A new ring satisfies the invariant. *)
LEMMA InitInv == Init => IInv
<1> SUFFICES ASSUME Init PROVE IInv
  BY Zenon
<1>1. TypeOK
  BY SizeAssumption DEF Init, TypeOK, Memory, Steps
<1>2. PositionsAgree /\ CapacityBounded
  BY SizeAssumption DEF Init, PositionsAgree, CapacityBounded, size
<1>3. MutexHeld
  BY ThreadAssumption, Zenon DEF Init, MutexHeld
<1>4. WriteArgs /\ ReadArgs /\ NeverBlocksInRing
  BY Zenon DEF Init, WriteArgs, ReadArgs, Writing, NeverBlocksInRing
<1>5. QED
  BY <1>1, <1>2, <1>3, <1>4, Zenon DEF IInv

-----------------------------------------------------------------------------
(* While t is inside a call nobody else is. *)
LEMMA Alone ==
  ASSUME IInv, NEW t \in Threads, pc[t] # "idle" \/ mutex = NoThread
  PROVE  \A s \in Threads \ {t} : pc[s] = "idle"
  BY ThreadAssumption, Zenon DEF IInv, TypeOK, MutexHeld

(* Each action keeps the invariant.  A write enters with mutex_ free, ... *)
LEMMA WriteCallInv ==
  ASSUME IInv, NEW t \in Threads, NEW d \in Chunks, WriteCall(t, d)
  PROVE  IInv'
<1> USE DEF IInv
<1>1. \A s \in Threads \ {t} : pc[s] = "idle"
  BY Alone, Zenon DEF WriteCall
<1>2. /\ d \in Seq(Byte) /\ d \in Seq(Memory) /\ Len(d) \in Nat
      /\ Int32(Len(d)) = Len(d)
  <2>1. d \in Seq(Byte) /\ d \in Seq(Memory) /\ Len(d) \in Nat
    BY DataAssumption DEF Memory
  <2>2. Len(d) \in 0 .. IntMax
    BY <2>1, SizeAssumption, WidthAssumption DEF WriteCall, TypeOK, size
  <2>3. QED
    BY <2>1, <2>2, Int32Fits, Zenon
<1>3. TypeOK'
  BY <1>2, Zenon DEF WriteCall, TypeOK, ring, Steps
<1>4. PositionsAgree' /\ CapacityBounded'
  BY Zenon DEF WriteCall, ring, PositionsAgree, CapacityBounded, size
<1>5. MutexHeld'
  BY ThreadAssumption, Zenon DEF WriteCall, MutexHeld, TypeOK
<1>6. WriteArgs' /\ ReadArgs'
  BY <1>1, <1>2, Zenon DEF WriteCall, WriteArgs, ReadArgs, Writing, TypeOK, ring, size
<1>7. NeverBlocksInRing'
  BY <1>1, Zenon DEF WriteCall, NeverBlocksInRing, TypeOK, ring, size
<1>8. QED
  BY <1>3, <1>4, <1>5, <1>6, <1>7, Zenon

(* ... makes room, unrolling the ring into a larger block if it must, ... *)
LEMMA ReallocInv ==
  ASSUME IInv, NEW t \in Threads, Realloc(t)
  PROVE  IInv'
<1> USE DEF IInv
<1>1. \A s \in Threads \ {t} : pc[s] = "idle"
  BY Alone, Zenon DEF Realloc
<1>2. MutexHeld'
  BY Zenon DEF Realloc, MutexHeld, TypeOK
<1>3. /\ length[t] \in Nat
      /\ data[t] \in Chunks /\ Len(data[t]) = length[t]
      /\ size + length[t] <= MaxUnread
  BY Zenon DEF Realloc, WriteArgs, Writing, TypeOK
<1>4. CASE remain_space >= length[t]
  <2>1. UNCHANGED ring
    BY <1>3, <1>4 DEF Realloc, TypeOK
  <2>2. TypeOK'
    BY <2>1, Zenon DEF Realloc, TypeOK, ring, Steps
  <2>3. PositionsAgree' /\ CapacityBounded'
    BY <2>1, Zenon DEF ring, PositionsAgree, CapacityBounded, size
  <2>4. WriteArgs' /\ ReadArgs' /\ NeverBlocksInRing'
    BY <1>1, <1>3, <1>4, <2>1, Zenon
    DEF Realloc, WriteArgs, ReadArgs, Writing, NeverBlocksInRing, TypeOK, ring, size
  <2>5. QED
    BY <1>2, <2>2, <2>3, <2>4, Zenon
<1>5. CASE remain_space < length[t]
  <2> DEFINE k == length[t]
             nn == NewSize(k)
  <2>1. nn \in Nat \ {0} /\ nn > k + n /\ nn <= k + 2 * n
    <3>1. n \in Nat \ {0} /\ k \in Nat
      BY <1>3, Zenon DEF TypeOK
    <3>2. size >= 0 /\ n < size + k /\ size + k <= MaxUnread /\ size \in Int
      BY <1>3, <1>5 DEF TypeOK, size
    <3> DEFINE grown == n * ((k \div n) + 2)
    <3>3. nn = Int32(grown)
      BY Zenon DEF NewSize
    <3> HIDE DEF k, nn
    <3>4. grown \in Nat /\ grown > k + n /\ grown <= k + 2 * n
      BY <3>1, GrowthBounds, Zenon
    <3> HIDE DEF grown
    <3>5. grown \in 0 .. IntMax
      BY <3>1, <3>2, <3>4, SizeAssumption, WidthAssumption
    <3>6. QED
      BY <3>1, <3>3, <3>4, <3>5, Int32Fits
  <2>2. /\ buffer' = NewBlock(k) /\ n' = nn /\ r_pos' = 0
        /\ remain_space' = nn - size /\ w_pos' = size
    BY <1>3, <1>5 DEF Realloc, TypeOK
  <2>3. size \in 0 .. n /\ size' = size
    BY <2>1, <2>2 DEF size, TypeOK
  <2>4. NewBlock(k) \in [0 .. nn - 1 -> Memory]
    <3> DEFINE first_n == IF w_pos > r_pos THEN size ELSE n - r_pos
    <3>1. \A i \in 0 .. nn - 1 : i < first_n => buffer[r_pos + i] \in Memory
      BY <2>3 DEF TypeOK, PositionsAgree, size
    <3>2. \A i \in 0 .. nn - 1 : i >= first_n /\ i < size
                                 => buffer[i - first_n] \in Memory
      BY <2>3 DEF TypeOK, PositionsAgree, size
    <3>3. first_n \in Int
      BY <2>3 DEF TypeOK
    <3>4. QED
      BY <2>1, <2>3, <3>1, <3>2, <3>3 DEF NewBlock, Memory
  <2>5. TypeOK'
    <3>1. /\ mutex' = mutex /\ data' = data /\ length' = length
          /\ pc' = [pc EXCEPT ![t] = "wait_space"]
      BY Zenon DEF Realloc
    <3>2. size <= nn
      BY <2>1, <2>3, SMTT(30) DEF TypeOK
    <3> HIDE DEF k, nn
    <3>3. QED
      BY <2>1, <2>2, <2>3, <2>4, <3>1, <3>2, SMTT(30) DEF TypeOK, Steps
  <2>6. PositionsAgree'
    BY <2>1, <2>2, <2>3 DEF PositionsAgree
  <2>7. CapacityBounded'
    BY <1>3, <1>5, <2>1, <2>2, SizeAssumption, SMTT(40) DEF CapacityBounded, size, TypeOK
  <2>8. WriteArgs' /\ ReadArgs'
    <3>1. /\ data' = data /\ length' = length
          /\ pc'[t] = "wait_space"
          /\ \A s \in Threads \ {t} : pc'[s] = "idle"
      BY <1>1, Zenon DEF Realloc, TypeOK
    <3>2. QED
      BY <1>3, <2>3, <3>1, Zenon DEF WriteArgs, ReadArgs, Writing
  <2>9. NeverBlocksInRing'
    <3>1. /\ length' = length
          /\ pc'[t] = "wait_space"
          /\ \A s \in Threads \ {t} : pc'[s] = "idle"
      BY <1>1, Zenon DEF Realloc, TypeOK
    <3>2. remain_space' >= k
      <4> HIDE DEF k, nn
      <4>1. QED
        BY <1>3, <2>1, <2>2, <2>3 DEF TypeOK, k
    <3>3. QED
      BY <3>1, <3>2, Zenon DEF NeverBlocksInRing
  <2>10. QED
    BY <1>2, <2>5, <2>6, <2>7, <2>8, <2>9, Zenon
<1>6. QED
  BY <1>3, <1>4, <1>5, SMTT(40) DEF TypeOK

(* ... passes its wait, ... *)
LEMMA WaitSpaceInv ==
  ASSUME IInv, NEW t \in Threads, WaitSpace(t)
  PROVE  IInv'
<1> USE DEF IInv, WaitSpace, ring
<1>1. TypeOK' /\ MutexHeld'
  BY Zenon DEF TypeOK, MutexHeld, Steps
<1>2. PositionsAgree' /\ CapacityBounded'
  BY Zenon DEF PositionsAgree, CapacityBounded, size
<1>3. WriteArgs' /\ ReadArgs' /\ NeverBlocksInRing'
  BY Zenon DEF WriteArgs, ReadArgs, Writing, NeverBlocksInRing, TypeOK, size
<1>4. QED
  BY <1>1, <1>2, <1>3, Zenon

(* A read enters only when the bytes it asks for are there, ... *)
LEMMA ReadCallInv ==
  ASSUME IInv, NEW t \in Threads, NEW k \in Lengths, ReadCall(t, k)
  PROVE  IInv'
<1> USE DEF IInv, ReadCall, ring
<1>1. k \in Nat /\ Int32(k) = k
  BY DataAssumption, WidthAssumption, Int32Fits, Zenon
<1>2. \A s \in Threads \ {t} : pc[s] = "idle"
  BY Alone, Zenon
<1>3. TypeOK' /\ MutexHeld'
  BY <1>1, ThreadAssumption, Zenon DEF TypeOK, MutexHeld, Steps
<1>4. PositionsAgree' /\ CapacityBounded'
  BY Zenon DEF PositionsAgree, CapacityBounded, size
<1>5. WriteArgs' /\ ReadArgs' /\ NeverBlocksInRing'
  BY <1>1, <1>2, Zenon DEF WriteArgs, ReadArgs, Writing, NeverBlocksInRing, TypeOK, size
<1>6. QED
  BY <1>3, <1>4, <1>5, Zenon

(* ... and passes its wait. *)
LEMMA WaitDataInv ==
  ASSUME IInv, NEW t \in Threads, WaitData(t)
  PROVE  IInv'
<1> USE DEF IInv, WaitData, ring
<1>1. TypeOK' /\ MutexHeld'
  BY Zenon DEF TypeOK, MutexHeld, Steps
<1>2. PositionsAgree' /\ CapacityBounded'
  BY Zenon DEF PositionsAgree, CapacityBounded, size
<1>3. WriteArgs' /\ ReadArgs' /\ NeverBlocksInRing'
  BY Zenon DEF WriteArgs, ReadArgs, Writing, NeverBlocksInRing, TypeOK, size
<1>4. QED
  BY <1>1, <1>2, <1>3, Zenon

(* The call ends and gives mutex_ back. *)
LEMMA ReturnInv ==
  ASSUME IInv, NEW t \in Threads, Return(t)
  PROVE  IInv'
<1> USE DEF IInv, Return, ring
<1>1. TypeOK' /\ MutexHeld'
  BY ThreadAssumption DEF TypeOK, MutexHeld, Steps
<1>2. PositionsAgree' /\ CapacityBounded'
  BY Zenon DEF PositionsAgree, CapacityBounded, size
<1>3. WriteArgs' /\ ReadArgs' /\ NeverBlocksInRing'
  BY Zenon DEF WriteArgs, ReadArgs, Writing, NeverBlocksInRing, TypeOK, size
<1>4. QED
  BY <1>1, <1>2, <1>3, Zenon

(* Under the invariant both copies stay in bounds and off unread bytes. *)
LEMMA InBounds == IInv => CopiesInBounds
<1> SUFFICES ASSUME IInv, NEW t \in Threads
             PROVE  CopiesInBounds!(t)
  BY Zenon DEF CopiesInBounds
<1> USE DEF IInv
<1>1. length[t] \in Nat
  BY Zenon DEF TypeOK
<1>2. pc[t] = "copy_in" => CopiesInBounds!(t)!1
  BY <1>1, SMTT(40) DEF TypeOK, PositionsAgree, NeverBlocksInRing, Splits, size
<1>3. pc[t] = "copy_out" => CopiesInBounds!(t)!2
  BY <1>1, SMTT(40) DEF TypeOK, PositionsAgree, NeverBlocksInRing, Splits, size
<1>4. QED
  BY <1>2, <1>3, Zenon

(* write copies its message in, in one piece or in two, ... *)
LEMMA CopyInInv ==
  ASSUME IInv, NEW t \in Threads, CopyIn(t)
  PROVE  IInv'
<1> USE DEF IInv
<1> DEFINE k == length[t]
           first_n == n - w_pos
<1>1. \A s \in Threads \ {t} : pc[s] = "idle"
  BY Alone, Zenon DEF CopyIn
<1>2. /\ k \in Nat /\ k <= remain_space
      /\ data[t] \in Seq(Memory) /\ Len(data[t]) = k
      /\ size + k <= MaxUnread
  BY Zenon DEF CopyIn, WriteArgs, Writing, NeverBlocksInRing, TypeOK
<1>3. /\ w_pos' \in 0 .. n
      /\ remain_space' = remain_space - k
      /\ PositionsAgree'
  <2>1. /\ n' = n /\ r_pos' = r_pos
        /\ remain_space' = remain_space - k
        /\ w_pos' = IF Splits(w_pos, r_pos, k) THEN k - first_n ELSE w_pos + k
    BY Zenon DEF CopyIn
  <2> HIDE DEF k
  <2>2. CASE w_pos > r_pos
    BY <1>2, <2>1, <2>2 DEF Splits, PositionsAgree, TypeOK, size
  <2>3. CASE w_pos < r_pos
    BY <1>2, <2>1, <2>3 DEF Splits, PositionsAgree, TypeOK, size
  <2>4. CASE w_pos = r_pos
    BY <1>2, <2>1, <2>4 DEF Splits, PositionsAgree, TypeOK, size
  <2>5. QED
    BY <2>2, <2>3, <2>4 DEF TypeOK
<1>4. buffer' \in [0 .. n - 1 -> Memory]
  <2>0. n \in Nat /\ w_pos \in Nat /\ buffer \in [0 .. n - 1 -> Memory]
    BY DEF TypeOK
  <2>1. CASE Splits(w_pos, r_pos, k)
    <3> DEFINE head == SubSeq(data[t], 1, first_n)
               tail == SubSeq(data[t], first_n + 1, k)
               half == Put(buffer, w_pos, head)
    <3>1. first_n \in 0 .. k
      BY <1>2, <2>1 DEF Splits, TypeOK
    <3>2. \A i \in 1 .. k : data[t][i] \in Memory
      BY <1>2, ElementOfSeq, Zenon
    <3>3. head \in Seq(Memory) /\ tail \in Seq(Memory)
      BY <1>2, <3>1, <3>2, SubSeqProperties
    <3>4. half \in [0 .. n - 1 -> Memory]
      <4> HIDE DEF head
      <4>1. QED
        BY <2>0, <3>3, PutType, Zenon
    <3>5. Put(half, 0, tail) \in [0 .. n - 1 -> Memory]
      <4> HIDE DEF half, tail
      <4>1. QED
        BY <2>0, <3>3, <3>4, PutType, Zenon
    <3>6. QED
      BY <2>1, <3>5, Zenon DEF CopyIn
  <2>2. CASE ~Splits(w_pos, r_pos, k)
    <3>1. Put(buffer, w_pos, data[t]) \in [0 .. n - 1 -> Memory]
      BY <1>2, <2>0, PutType, Zenon
    <3>2. QED
      BY <2>2, <3>1, Zenon DEF CopyIn
  <2>3. QED
    BY <2>1, <2>2, Zenon
<1>5. TypeOK'
  BY <1>2, <1>3, <1>4, SMTT(40) DEF CopyIn, TypeOK, Steps
<1>6. MutexHeld'
  BY Zenon DEF CopyIn, MutexHeld, TypeOK
<1>7. WriteArgs' /\ ReadArgs' /\ NeverBlocksInRing'
  <2>1. /\ pc'[t] = "return"
        /\ \A s \in Threads \ {t} : pc'[s] = "idle"
    BY <1>1, Zenon DEF CopyIn, TypeOK
  <2>2. QED
    BY <2>1, Zenon DEF WriteArgs, ReadArgs, Writing, NeverBlocksInRing
<1>8. CapacityBounded'
  BY Zenon DEF CopyIn, CapacityBounded
<1>9. QED
  BY <1>3, <1>5, <1>6, <1>7, <1>8, Zenon

(* ... and read copies bytes out, in one piece or in two. *)
LEMMA CopyOutInv ==
  ASSUME IInv, NEW t \in Threads, CopyOut(t)
  PROVE  IInv'
<1> USE DEF IInv
<1> DEFINE k == length[t]
           first_n == n - r_pos
<1>1. \A s \in Threads \ {t} : pc[s] = "idle"
  BY Alone, Zenon DEF CopyOut
<1>2. k \in Nat /\ k <= size
  BY Zenon DEF CopyOut, NeverBlocksInRing, TypeOK
<1>3. /\ r_pos' \in 0 .. n
      /\ remain_space' \in 0 .. n
      /\ PositionsAgree'
  <2>1. /\ n' = n /\ w_pos' = w_pos
        /\ remain_space' = remain_space + k
        /\ r_pos' = IF Splits(r_pos, w_pos, k) THEN k - first_n ELSE r_pos + k
    BY Zenon DEF CopyOut
  <2> HIDE DEF k
  <2>2. CASE w_pos > r_pos
    BY <1>2, <2>1, <2>2 DEF Splits, PositionsAgree, TypeOK, size
  <2>3. CASE w_pos < r_pos
    BY <1>2, <2>1, <2>3 DEF Splits, PositionsAgree, TypeOK, size
  <2>4. CASE w_pos = r_pos
    BY <1>2, <2>1, <2>4 DEF Splits, PositionsAgree, TypeOK, size
  <2>5. QED
    BY <2>2, <2>3, <2>4 DEF TypeOK
<1>4. data' \in [Threads -> Seq(Memory)]
  <2>0. n \in Nat /\ r_pos \in Nat /\ buffer \in [0 .. n - 1 -> Memory]
    BY DEF TypeOK
  <2>1. CASE Splits(r_pos, w_pos, k)
    <3>1. first_n \in 0 .. k /\ r_pos + first_n <= n /\ k - first_n \in 0 .. n
      BY <1>2, <2>1, SMTT(30) DEF Splits, TypeOK, size
    <3>2. Peek(buffer, r_pos, first_n) \in Seq(Memory)
      <4> HIDE DEF first_n
      <4>1. QED
        BY <2>0, <3>1, PeekType
    <3>3. Peek(buffer, 0, k - first_n) \in Seq(Memory)
      <4> DEFINE rest == k - first_n
      <4>1. rest \in Nat /\ 0 + rest <= n
        BY <2>0, <3>1
      <4> HIDE DEF rest
      <4>2. Peek(buffer, 0, rest) \in Seq(Memory)
        BY <2>0, <4>1, PeekType, Zenon
      <4>3. QED
        BY <4>2, Zenon DEF rest
    <3>4. Peek(buffer, r_pos, first_n) \o Peek(buffer, 0, k - first_n)
            \in Seq(Memory)
      BY <3>2, <3>3, ConcatProperties, Zenon
    <3>5. QED
      BY <2>1, <3>4, Zenon DEF CopyOut, TypeOK
  <2>2. CASE ~Splits(r_pos, w_pos, k)
    <3>1. r_pos + k <= n
      BY <1>2, <2>2 DEF Splits, PositionsAgree, TypeOK, size
    <3>2. Peek(buffer, r_pos, k) \in Seq(Memory)
      <4> HIDE DEF k
      <4>1. QED
        BY <1>2, <2>0, <3>1, PeekType, Zenon
    <3>3. QED
      BY <2>2, <3>2, Zenon DEF CopyOut, TypeOK
  <2>3. QED
    BY <2>1, <2>2, Zenon
<1>5. TypeOK'
  BY <1>2, <1>3, <1>4, Zenon DEF CopyOut, TypeOK, Steps
<1>6. MutexHeld'
  BY Zenon DEF CopyOut, MutexHeld, TypeOK
<1>7. WriteArgs' /\ ReadArgs' /\ NeverBlocksInRing'
  <2>1. /\ pc'[t] = "return"
        /\ \A s \in Threads \ {t} : pc'[s] = "idle"
    BY <1>1, Zenon DEF CopyOut, TypeOK
  <2>2. QED
    BY <2>1, Zenon DEF WriteArgs, ReadArgs, Writing, NeverBlocksInRing
<1>8. CapacityBounded'
  BY Zenon DEF CopyOut, CapacityBounded
<1>9. QED
  BY <1>3, <1>5, <1>6, <1>7, <1>8, Zenon

-----------------------------------------------------------------------------
(* The invariant holds throughout: between any two steps of any threads in *)
(* write, realloc and read, the ring is consistent and the thread that     *)
(* holds mutex_ still has the space or the bytes it waited for.            *)
THEOREM Invariance == Spec => []IInv
<1>1. IInv /\ [Next]_vars => IInv'
  <2> SUFFICES ASSUME IInv, [Next]_vars PROVE IInv'
    BY Zenon
  <2>1. CASE UNCHANGED vars
    BY <2>1, Zenon DEF IInv, vars, ring, TypeOK, PositionsAgree, MutexHeld, WriteArgs,
                ReadArgs, Writing, NeverBlocksInRing, CapacityBounded, size
  <2>2. ASSUME NEW t \in Threads, NEW d \in Chunks, WriteCall(t, d) PROVE IInv'
    BY <2>2, WriteCallInv, Zenon
  <2>3. ASSUME NEW t \in Threads, NEW k \in Lengths, ReadCall(t, k) PROVE IInv'
    BY <2>3, ReadCallInv, Zenon
  <2>4. ASSUME NEW t \in Threads,
               Realloc(t) \/ WaitSpace(t) \/ CopyIn(t)
        PROVE  IInv'
    BY <2>4, ReallocInv, WaitSpaceInv, CopyInInv, Zenon
  <2>5. ASSUME NEW t \in Threads,
               WaitData(t) \/ CopyOut(t) \/ Return(t)
        PROVE  IInv'
    BY <2>5, WaitDataInv, CopyOutInv, ReturnInv, Zenon
  <2>6. QED
    BY <2>1, <2>2, <2>3, <2>4, <2>5, Zenon DEF Next
<1>2. QED
  BY <1>1, InitInv, PTL DEF Spec

(* The bookkeeping of the ring is consistent in every reachable state:     *)
(* n_, r_pos_, w_pos_ and remain_space_ describe the same stretch of       *)
(* bytes, whatever mixture of reallocations, writes and reads went before. *)
THEOREM PositionsAlwaysAgree == Spec => []PositionsAgree
  BY Invariance, PTL DEF IInv

(* The variables of the ring keep their types: r_pos_ and w_pos_ point     *)
(* into the allocation, whatever realloc has made of it.                   *)
THEOREM RingTypes == Spec => []TypeOK
  BY Invariance, PTL DEF IInv

(* No thread ever blocks inside the ring while it holds mutex_ (the        *)
(* message "never enter here" of write is never printed).                  *)
THEOREM RingNeverBlocks == Spec => []NeverBlocksInRing
  BY Invariance, PTL DEF IInv

(* No memcpy of read or write leaves the allocation or overwrites an       *)
(* unread byte.                                                            *)
THEOREM CopiesStayInBounds == Spec => []CopiesInBounds
  BY Invariance, InBounds, PTL

(* The capacity is at most three times the largest backlog, or the initial *)
(* capacity: realloc's growth does not compound.                           *)
THEOREM CapacityIsBounded == Spec => []CapacityBounded
  BY Invariance, PTL DEF IInv

-----------------------------------------------------------------------------
(* Refinement of ByteFifo. *)

(* A sequence defined slot by slot is one. *)
LEMMA RingSeq ==
  ASSUME NEW N \in Nat, NEW r \in 0 .. N, NEW k \in 0 .. N,
         NEW b \in [0 .. N - 1 -> Memory]
  PROVE  LET c == [i \in 1 .. k |-> IF r + i - 1 < N THEN b[r + i - 1]
                                                    ELSE b[r + i - 1 - N]]
         IN c \in Seq(Memory) /\ Len(c) = k
<1> DEFINE e(i) == IF r + i - 1 < N THEN b[r + i - 1] ELSE b[r + i - 1 - N]
           c == [i \in 1 .. k |-> e(i)]
<1>1. \A i \in 1 .. k : e(i) \in Memory
  OBVIOUS
<1>2. c \in [1 .. k -> Memory]
  BY <1>1, Zenon
<1>3. QED
  BY <1>2

(* The unread bytes form a sequence of n_ - remain_space_ of them, ... *)
LEMMA ContentsType ==
  ASSUME IInv
  PROVE  /\ size \in Nat
         /\ Contents \in Seq(Memory)
         /\ Len(Contents) = size
<1>1. /\ n \in Nat /\ r_pos \in 0 .. n /\ size \in 0 .. n
      /\ buffer \in [0 .. n - 1 -> Memory]
  BY SMTT(30) DEF IInv, TypeOK, size
<1>2. QED
  BY <1>1, RingSeq DEF Contents

(* Where a write of k bytes puts them, slot by slot. *)
LEMMA SlotsAfterCopyIn ==
  ASSUME IInv, NEW t \in Threads, CopyIn(t)
  PROVE  LET k == length[t]
             first_n == n - w_pos
             split == Splits(w_pos, r_pos, k)
         IN \A p \in 0 .. n - 1 :
              buffer'[p] = IF w_pos <= p /\ p < w_pos + k
                           THEN data[t][p - w_pos + 1]
                           ELSE IF split /\ p < k - first_n
                           THEN data[t][first_n + p + 1]
                           ELSE buffer[p]
<1> DEFINE k == length[t]
           first_n == n - w_pos
           d == data[t]
<1> USE DEF IInv
<1>1. /\ n \in Nat /\ w_pos \in 0 .. n /\ r_pos \in 0 .. n
      /\ DOMAIN buffer = 0 .. n - 1
      /\ k \in Nat /\ d \in Seq(Memory) /\ Len(d) = k
  BY Zenon DEF CopyIn, WriteArgs, Writing, TypeOK
<1>2. CASE Splits(w_pos, r_pos, k)
  <2> DEFINE head == SubSeq(d, 1, first_n)
             tail == SubSeq(d, first_n + 1, k)
  <2>1. first_n \in 0 .. k /\ k - first_n <= r_pos /\ r_pos <= w_pos
    <3>1. k <= remain_space
      BY Zenon DEF CopyIn, NeverBlocksInRing
    <3> HIDE DEF k
    <3>2. QED
      BY <1>1, <1>2, <3>1, SMTT(30) DEF PositionsAgree, Splits, TypeOK, size
  <2>2. \A i \in 1 .. k : d[i] \in Memory
    BY <1>1, ElementOfSeq, Zenon
  <2>3. /\ Len(head) = first_n
        /\ \A i \in 1 .. first_n : head[i] = d[i]
    BY <1>1, <2>1, <2>2, SubSeqProperties, SMTT(30)
  <2>4. /\ Len(tail) = k - first_n
        /\ \A i \in 1 .. k - first_n : tail[i] = d[first_n + i]
    BY <1>1, <2>1, <2>2, SubSeqProperties, SMTT(40)
  <2>5. buffer' = Put(Put(buffer, w_pos, head), 0, tail)
    BY <1>2, Zenon DEF CopyIn
  <2> HIDE DEF head, tail, k, d
  <2>6. \A p \in 0 .. n - 1 :
          buffer'[p] = IF p < k - first_n THEN tail[p + 1]
                       ELSE IF w_pos <= p /\ p < w_pos + first_n
                       THEN head[p - w_pos + 1] ELSE buffer[p]
    BY <1>1, <2>1, <2>3, <2>4, <2>5, SMTT(40) DEF Put
  <2>7. ASSUME NEW p \in 0 .. n - 1
        PROVE  buffer'[p] = IF w_pos <= p /\ p < w_pos + k
                            THEN d[p - w_pos + 1]
                            ELSE IF p < k - first_n THEN d[first_n + p + 1]
                            ELSE buffer[p]
    <3>1. CASE p < k - first_n
      <4>1. ~(w_pos <= p) /\ p + 1 \in 1 .. k - first_n
        BY <1>1, <2>1, <3>1
      <4>2. buffer'[p] = d[first_n + (p + 1)]
        BY <2>4, <2>6, <3>1, <4>1, Zenon
      <4>3. QED
        BY <1>1, <3>1, <4>1, <4>2, SMTT(40)
    <3>2. CASE ~(p < k - first_n) /\ w_pos <= p
      <4>1. p < w_pos + first_n /\ p < w_pos + k /\ p - w_pos + 1 \in 1 .. first_n
        BY <1>1, <2>1, <3>2
      <4>2. QED
        BY <2>3, <2>6, <3>2, <4>1, Zenon
    <3>3. CASE ~(p < k - first_n) /\ ~(w_pos <= p)
      BY <2>6, <3>3, Zenon
    <3>4. QED
      BY <3>1, <3>2, <3>3, Zenon
  <2>8. QED
    BY <1>2, <2>7, Zenon DEF k, d
<1>3. CASE ~Splits(w_pos, r_pos, k)
  <2>1. buffer' = Put(buffer, w_pos, d)
    BY <1>3, Zenon DEF CopyIn
  <2>2. QED
    BY <1>1, <1>3, <2>1, Zenon DEF Put
<1>4. QED
  BY <1>2, <1>3, Zenon

(* The i-th unread byte. *)
Nth(i) == IF r_pos + i - 1 < n THEN buffer[r_pos + i - 1]
                               ELSE buffer[r_pos + i - 1 - n]

(* ... the i-th of which Nth finds in the block; ... *)
LEMMA ContentsNth ==
  ASSUME IInv, NEW i \in 1 .. size
  PROVE  Contents[i] = Nth(i)
  BY Zenon DEF Contents, Nth

(* ... the same after a step ... *)
LEMMA ContentsNthPrime ==
  ASSUME IInv', NEW i \in 1 .. size'
  PROVE  Contents'[i] = Nth(i)'
  BY Zenon DEF Contents, Nth

(* ... for both. *)
LEMMA ContentsTypePrime ==
  ASSUME IInv'
  PROVE  /\ size' \in Nat
         /\ Contents' \in Seq(Memory)
         /\ Len(Contents') = size'
<1>1. TypeOK'
  BY Zenon DEF IInv
<1>2. /\ n' \in Nat /\ r_pos' \in 0 .. n' /\ remain_space' \in 0 .. n'
      /\ buffer' \in [0 .. n' - 1 -> Memory]
  BY <1>1, Zenon DEF TypeOK
<1>3. \A a \in Nat : \A b \in 0 .. a : a - b \in 0 .. a
  OBVIOUS
<1>4. size' \in 0 .. n'
  BY <1>2, <1>3, Zenon DEF size
<1> DEFINE N == n'
           r == r_pos'
           k == size'
           b == buffer'
<1>5. Contents' = [i \in 1 .. k |-> IF r + i - 1 < N THEN b[r + i - 1]
                                                   ELSE b[r + i - 1 - N]]
  BY Zenon DEF Contents
<1>6. k \in 0 .. N /\ N \in Nat /\ r \in 0 .. N /\ b \in [0 .. N - 1 -> Memory]
  BY <1>2, <1>4, Zenon
<1> HIDE DEF N, r, k, b
<1>7. Contents' \in Seq(Memory) /\ Len(Contents') = k /\ k \in Nat
  BY <1>5, <1>6, RingSeq
<1>8. QED
  BY <1>7, Zenon DEF k

(* write appends. *)
LEMMA CopyInAppends ==
  ASSUME IInv, NEW t \in Threads, CopyIn(t)
  PROVE  Contents' = Contents \o data[t]
<1> DEFINE k == length[t]
           d == data[t]
<1>1. IInv'
  BY CopyInInv, Zenon
<1>2. /\ size \in Nat /\ Contents \in Seq(Memory) /\ Len(Contents) = size
  BY ContentsType, Zenon
<1>3. /\ size' \in Nat /\ Contents' \in Seq(Memory) /\ Len(Contents') = size'
  BY <1>1, ContentsTypePrime, Zenon
<1>4. /\ k \in Nat /\ d \in Seq(Memory) /\ Len(d) = k /\ k <= remain_space
  BY Zenon DEF IInv, CopyIn, WriteArgs, Writing, NeverBlocksInRing, TypeOK
<1>5. n' = n /\ r_pos' = r_pos /\ size' = size + k
  BY <1>4 DEF IInv, CopyIn, size, TypeOK
<1>6. /\ Contents \o d \in Seq(Memory)
      /\ Len(Contents \o d) = size + k
      /\ \A i \in 1 .. size + k :
           (Contents \o d)[i] = IF i <= size THEN Contents[i] ELSE d[i - size]
  <2> DEFINE c == Contents
  <2>1. c \in Seq(Memory) /\ d \in Seq(Memory) /\ Len(c) = size /\ Len(d) = k
    BY <1>2, <1>4, Zenon
  <2> HIDE DEF c, d, k
  <2>2. /\ c \o d \in Seq(Memory)
        /\ Len(c \o d) = Len(c) + Len(d)
        /\ \A i \in 1 .. Len(c) + Len(d) :
             (c \o d)[i] = IF i <= Len(c) THEN c[i] ELSE d[i - Len(c)]
    BY <2>1, ConcatProperties, Zenon
  <2>3. QED
    BY <2>1, <2>2, Zenon DEF c
<1>7. \A p \in 0 .. n - 1 :
        buffer'[p] = IF w_pos <= p /\ p < w_pos + k
                     THEN d[p - w_pos + 1]
                     ELSE IF Splits(w_pos, r_pos, k) /\ p < k - (n - w_pos)
                     THEN d[(n - w_pos) + p + 1]
                     ELSE buffer[p]
  BY SlotsAfterCopyIn, Zenon
<1> HIDE DEF k, d
<1>8. ASSUME NEW i \in 1 .. size
      PROVE  Nth(i)' = Nth(i)
  <2> DEFINE p == IF r_pos + i - 1 < n THEN r_pos + i - 1 ELSE r_pos + i - 1 - n
  <2>1. /\ p \in 0 .. n - 1
        /\ ~(w_pos <= p /\ p < w_pos + k)
        /\ ~(Splits(w_pos, r_pos, k) /\ p < k - (n - w_pos))
    BY <1>2, <1>4, SMTT(30) DEF IInv, TypeOK, PositionsAgree, Splits, size
  <2>2. Nth(i) = buffer[p] /\ Nth(i)' = buffer'[p]
    BY <1>5, Zenon DEF Nth
  <2> HIDE DEF p
  <2>3. QED
    BY <1>7, <2>1, <2>2, Zenon
<1>9. ASSUME NEW i \in size + 1 .. size + k
      PROVE  Nth(i)' = d[i - size]
  <2> DEFINE p == IF r_pos + i - 1 < n THEN r_pos + i - 1 ELSE r_pos + i - 1 - n
  <2>1. /\ p \in 0 .. n - 1
        /\ \/ w_pos <= p /\ p < w_pos + k /\ p - w_pos + 1 = i - size
           \/ /\ ~(w_pos <= p /\ p < w_pos + k)
              /\ Splits(w_pos, r_pos, k) /\ p < k - (n - w_pos)
              /\ (n - w_pos) + p + 1 = i - size
    BY <1>2, <1>4, SMTT(30) DEF IInv, TypeOK, PositionsAgree, Splits, size
  <2>2. Nth(i)' = buffer'[p]
    BY <1>5, Zenon DEF Nth
  <2> HIDE DEF p
  <2>3. QED
    BY <1>7, <2>1, <2>2, Zenon
<1>10. ASSUME NEW i \in 1 .. size + k
       PROVE  Contents'[i] = (Contents \o d)[i]
  <2>1. Contents'[i] = Nth(i)'
    BY <1>1, <1>5, ContentsNthPrime, Zenon
  <2>2. CASE i <= size
    BY <1>2, <1>6, <1>8, <2>1, <2>2, ContentsNth
  <2>3. CASE i > size
    BY <1>2, <1>4, <1>6, <1>9, <2>1, <2>3
  <2>4. QED
    BY <1>2, <1>4, <2>2, <2>3
<1>11. Contents' = Contents \o d
  BY <1>3, <1>5, <1>6, <1>10, SeqEqual, Zenon
<1>12. QED
  BY <1>11, Zenon DEF d

(* realloc moves the bytes and keeps their order. *)
LEMMA ReallocKeeps ==
  ASSUME IInv, NEW t \in Threads, Realloc(t)
  PROVE  Contents' = Contents
<1>1. IInv'
  BY ReallocInv, Zenon
<1>2. /\ size \in Nat /\ Contents \in Seq(Memory) /\ Len(Contents) = size
  BY ContentsType, Zenon
<1>3. /\ size' \in Nat /\ Contents' \in Seq(Memory) /\ Len(Contents') = size'
  BY <1>1, ContentsTypePrime, Zenon
<1>4. CASE UNCHANGED ring
  BY <1>4, Zenon DEF ring, Contents, size
<1>5. CASE ~UNCHANGED ring
  <2> DEFINE nn == NewSize(length[t])
  <2>1. /\ buffer' = NewBlock(length[t]) /\ n' = nn /\ r_pos' = 0
        /\ remain_space' = nn - size
    BY <1>5, Zenon DEF Realloc
  <2>2. nn \in Nat
    BY <1>1, <2>1, Zenon DEF IInv, TypeOK
  <2>3. size' = size /\ size <= nn
    <3> HIDE DEF nn
    <3>1. size' = n' - remain_space' /\ remain_space' \in 0 .. n'
      BY <1>1, Zenon DEF size, IInv, TypeOK
    <3>2. QED
      BY <1>2, <2>1, <2>2, <3>1
  <2>4. ASSUME NEW i \in 1 .. size
        PROVE  Nth(i)' = Nth(i)
    <3>1. i - 1 \in 0 .. nn - 1
      BY <1>2, <2>2, <2>3
    <3>2. Nth(i)' = buffer'[i - 1]
      BY <2>1, <2>2, <3>1 DEF Nth
    <3> DEFINE first_n == IF w_pos > r_pos THEN size ELSE n - r_pos
    <3>3. buffer'[i - 1] = IF i - 1 < first_n THEN buffer[r_pos + (i - 1)]
                           ELSE IF i - 1 < size THEN buffer[(i - 1) - first_n]
                           ELSE Junk
      BY <2>1, <3>1, Zenon DEF NewBlock
    <3>4. QED
      BY <1>2, <3>2, <3>3, SMTT(30) DEF Nth, IInv, TypeOK, PositionsAgree, size
  <2>5. \A i \in 1 .. size : Contents'[i] = Contents[i]
    BY <1>1, <2>3, <2>4, ContentsNth, ContentsNthPrime, Zenon
  <2>6. QED
    BY <1>2, <1>3, <2>3, <2>5, SeqEqual, Zenon
<1>6. QED
  BY <1>4, <1>5, Zenon

(* read hands over the first k bytes and leaves the others. *)
LEMMA CopyOutTakes ==
  ASSUME IInv, NEW t \in Threads, CopyOut(t)
  PROVE  /\ length[t] <= Len(Contents)
         /\ data'[t] = SubSeq(Contents, 1, length[t])
         /\ Contents' = SubSeq(Contents, length[t] + 1, Len(Contents))
<1> DEFINE k == length[t]
           first_n == n - r_pos
<1>1. IInv'
  BY CopyOutInv, Zenon
<1>2. /\ size \in Nat /\ Contents \in Seq(Memory) /\ Len(Contents) = size
  BY ContentsType, Zenon
<1>3. /\ size' \in Nat /\ Contents' \in Seq(Memory) /\ Len(Contents') = size'
  BY <1>1, ContentsTypePrime, Zenon
<1>4. k \in Nat /\ k <= size
  BY Zenon DEF IInv, CopyOut, NeverBlocksInRing, TypeOK
<1>5. /\ n' = n /\ buffer' = buffer /\ size' = size - k
      /\ r_pos' = IF Splits(r_pos, w_pos, k) THEN k - first_n ELSE r_pos + k
  BY <1>4, SMTT(30) DEF IInv, CopyOut, size, TypeOK
<1>6. data'[t] \in Seq(Memory)
  BY <1>1, Zenon DEF IInv, TypeOK
<1>7. /\ Len(data'[t]) = k
      /\ \A j \in 1 .. k : data'[t][j] = Nth(j)
  <2>0. /\ n \in Nat /\ r_pos \in 0 .. n /\ w_pos \in 0 .. n
        /\ buffer \in [0 .. n - 1 -> Memory]
    BY Zenon DEF IInv, TypeOK
  <2>1. CASE Splits(r_pos, w_pos, k)
    <3> DEFINE head == Peek(buffer, r_pos, first_n)
               rest == k - first_n
               tail == Peek(buffer, 0, rest)
    <3>1. first_n \in 0 .. k /\ rest \in 0 .. n
      <4>1. remain_space \in 0 .. n
        BY Zenon DEF IInv, TypeOK
      <4>2. k \in Nat /\ k <= n - remain_space
        BY <1>4, Zenon DEF size
      <4>3. r_pos > n - k
        BY <2>1, Zenon DEF Splits
      <4> HIDE DEF k
      <4>4. QED
        BY <2>0, <4>1, <4>2, <4>3
    <3>2. head \in Seq(Memory) /\ Len(head) = first_n
      <4>1. first_n \in Nat /\ r_pos \in Nat /\ r_pos + first_n <= n
        BY <2>0, <3>1
      <4> HIDE DEF first_n
      <4>2. QED
        BY <2>0, <4>1, PeekType
    <3>3. tail \in Seq(Memory) /\ Len(tail) = rest
      <4>1. rest \in Nat /\ 0 + rest <= n
        BY <2>0, <3>1, SMTT(30)
      <4> HIDE DEF rest
      <4>2. QED
        BY <2>0, <4>1, PeekType
    <3>4. data'[t] = head \o tail
      BY <2>1, Zenon DEF CopyOut, IInv, TypeOK
    <3>5. /\ \A j \in 1 .. first_n : head[j] = buffer[r_pos + j - 1]
          /\ \A j \in 1 .. rest : tail[j] = buffer[0 + j - 1]
      BY Zenon DEF Peek
    <3> HIDE DEF head, tail
    <3>6. /\ Len(head \o tail) = Len(head) + Len(tail)
          /\ \A j \in 1 .. Len(head) + Len(tail) :
               (head \o tail)[j] = IF j <= Len(head) THEN head[j]
                                   ELSE tail[j - Len(head)]
      BY <3>2, <3>3, ConcatProperties, Zenon
    <3>7. Len(data'[t]) = k
      BY <1>4, <2>0, <3>1, <3>2, <3>3, <3>4, <3>6, SMTT(30)
    <3>8. ASSUME NEW j \in 1 .. k PROVE data'[t][j] = Nth(j)
      <4>1. CASE j <= first_n
        <5>1. j \in 1 .. first_n /\ r_pos + j - 1 < n /\ j \in 1 .. first_n + rest
          BY <1>4, <2>0, <4>1, SMTT(30)
        <5>2. QED
          BY <3>2, <3>3, <3>4, <3>5, <3>6, <4>1, <5>1 DEF Nth
      <4>2. CASE ~(j <= first_n)
        <5>1. /\ j - first_n \in 1 .. rest /\ ~(r_pos + j - 1 < n)
              /\ j \in 1 .. first_n + rest
              /\ 0 + (j - first_n) - 1 = r_pos + j - 1 - n
          BY <1>4, <2>0, <3>1, <4>2, SMTT(30)
        <5>2. data'[t][j] = tail[j - first_n]
          BY <3>2, <3>3, <3>4, <3>6, <4>2, <5>1, Zenon
        <5>3. QED
          BY <3>5, <5>1, <5>2, Zenon DEF Nth
      <4>3. QED
        BY <4>1, <4>2, Zenon
    <3>9. QED
      BY <3>7, <3>8, Zenon
  <2>2. CASE ~Splits(r_pos, w_pos, k)
    <3>1. r_pos + k <= n
      BY <1>2, <1>4, <2>0, <2>2, SMTT(30) DEF Splits, IInv, PositionsAgree, TypeOK, size
    <3>2. data'[t] = Peek(buffer, r_pos, k)
      BY <2>2, Zenon DEF CopyOut, IInv, TypeOK
    <3> HIDE DEF k
    <3>3. Len(data'[t]) = k
      <4>1. k \in Nat /\ r_pos \in Nat
        BY <1>4, <2>0
      <4>2. Peek(buffer, r_pos, k) \in Seq(Memory) /\ Len(Peek(buffer, r_pos, k)) = k
        BY <2>0, <3>1, <4>1, PeekType, SMTT(30)
      <4>3. QED
        BY <3>2, <4>2, Zenon
    <3>4. \A j \in 1 .. k : data'[t][j] = buffer[r_pos + j - 1]
      BY <3>2, Zenon DEF Peek
    <3>5. \A j \in 1 .. k : r_pos + j - 1 < n
      BY <1>4, <2>0, <3>1
    <3>6. QED
      BY <3>3, <3>4, <3>5, Zenon DEF Nth
  <2>3. QED
    BY <2>1, <2>2, Zenon
<1>8. ASSUME NEW i \in 1 .. size - k
      PROVE  Nth(i)' = Nth(k + i)
  <2>1. /\ n \in Nat /\ r_pos \in 0 .. n /\ w_pos \in 0 .. n
    BY Zenon DEF IInv, TypeOK
  <2> DEFINE p == IF r_pos' + i - 1 < n THEN r_pos' + i - 1 ELSE r_pos' + i - 1 - n
             q == IF r_pos + (k + i) - 1 < n THEN r_pos + (k + i) - 1
                                             ELSE r_pos + (k + i) - 1 - n
  <2>2. p = q
    <3> HIDE DEF k
    <3>1. QED
      BY <1>4, <1>5, <2>1, SMTT(40) DEF IInv, PositionsAgree, TypeOK, Splits, size
  <2>3. Nth(i)' = buffer[p] /\ Nth(k + i) = buffer[q]
    BY <1>5, Zenon DEF Nth
  <2>4. QED
    BY <2>2, <2>3
<1> HIDE DEF k, first_n
<1>9. \A i \in 1 .. size : Contents[i] \in Memory
  BY <1>2, ElementOfSeq, Zenon
<1>10. data'[t] = SubSeq(Contents, 1, k)
  <2> DEFINE s == SubSeq(Contents, 1, k)
  <2>1. /\ s \in Seq(Memory) /\ Len(s) = k
        /\ \A j \in 1 .. k : s[j] = Contents[j]
    BY <1>2, <1>4, <1>9, SubSeqProperties
  <2>2. \A j \in 1 .. k : s[j] = data'[t][j]
    BY <1>2, <1>4, <1>7, <2>1, ContentsNth, SMTT(30)
  <2> HIDE DEF s
  <2>3. data'[t] = s
    BY <1>6, <1>7, <2>1, <2>2, SeqEqual, Zenon
  <2>4. QED
    BY <2>3, Zenon DEF s
<1>11. Contents' = SubSeq(Contents, k + 1, Len(Contents))
  <2> DEFINE s == SubSeq(Contents, k + 1, size)
  <2>1. /\ s \in Seq(Memory) /\ Len(s) = size - k
        /\ \A j \in 1 .. size - k : s[j] = Contents[k + j]
    BY <1>2, <1>4, <1>9, SubSeqProperties, SMTT(40)
  <2>2. \A j \in 1 .. size - k : k + j \in 1 .. size
    BY <1>2, <1>4, SMTT(30)
  <2>3. \A j \in 1 .. size - k : s[j] = Contents'[j]
    BY <1>1, <1>5, <1>8, <2>1, <2>2, ContentsNth, ContentsNthPrime, Zenon
  <2> HIDE DEF s
  <2>4. Contents' = s
    BY <1>3, <1>5, <2>1, <2>3, SeqEqual, Zenon
  <2>5. QED
    BY <1>2, <2>4, Zenon DEF s
<1>12. QED
  BY <1>2, <1>4, <1>10, <1>11, Zenon DEF k

(* A step that leaves the ring alone leaves its contents alone. *)
LEMMA RingKept ==
  ASSUME UNCHANGED ring
  PROVE  Contents' = Contents
  BY Zenon DEF ring, Contents, size

(* A step of t that neither starts nor ends in "return" delivers nothing. *)
LEMMA NothingDelivered ==
  ASSUME IInv, NEW t \in Threads, NEW s \in Steps \ {"return"},
         pc[t] # "return", pc' = [pc EXCEPT ![t] = s],
         \A u \in Threads \ {t} : data'[u] = data[u]
  PROVE  Delivered' = Delivered
<1>1. \A u \in Threads : (IF pc'[u] = "return" THEN data'[u] ELSE <<>>)
                         = (IF pc[u] = "return" THEN data[u] ELSE <<>>)
  BY Zenon DEF IInv, TypeOK
<1>2. QED
  BY <1>1, Zenon DEF Delivered

(* Every step of the ring is a step of the byte stream or none at all. *)
LEMMA StepSimulation ==
  ASSUME IInv, [Next]_vars
  PROVE  [Abstract!Next]_<<Contents, Delivered>>
<1> DEFINE Kept == Contents' = Contents /\ Delivered' = Delivered
<1> USE DEF Steps
<1>0. Kept => [Abstract!Next]_<<Contents, Delivered>>
  BY Zenon
<1>1. CASE UNCHANGED vars
  BY <1>1, RingKept, Zenon DEF vars, Delivered
<1>2. ASSUME NEW t \in Threads, NEW d \in Chunks, WriteCall(t, d) PROVE Kept
  BY <1>2, RingKept, NothingDelivered, Zenon DEF WriteCall, IInv, TypeOK
<1>3. ASSUME NEW t \in Threads, NEW k \in Lengths, ReadCall(t, k) PROVE Kept
  BY <1>3, RingKept, NothingDelivered, Zenon DEF ReadCall
<1>4. ASSUME NEW t \in Threads, Realloc(t) PROVE Kept
  BY <1>4, ReallocKeeps, NothingDelivered, Zenon DEF Realloc
<1>5. ASSUME NEW t \in Threads, WaitSpace(t) PROVE Kept
  BY <1>5, RingKept, NothingDelivered, Zenon DEF WaitSpace
<1>6. ASSUME NEW t \in Threads, WaitData(t) PROVE Kept
  BY <1>6, RingKept, NothingDelivered, Zenon DEF WaitData
<1>7. ASSUME NEW t \in Threads, CopyIn(t) PROVE Abstract!Put
  <2>1. data[t] \in Chunks
    BY <1>7, Zenon DEF IInv, WriteArgs, Writing, CopyIn
  <2>2. Contents' = Contents \o data[t]
    BY <1>7, CopyInAppends, Zenon
  <2>3. \A u \in Threads : (IF pc'[u] = "return" THEN data'[u] ELSE <<>>)
                           = (IF pc[u] = "return" THEN data[u] ELSE <<>>)
    BY <1>7, Zenon DEF CopyIn, IInv, TypeOK
  <2>4. Delivered' = Delivered
    BY <2>3, Zenon DEF Delivered
  <2>5. QED
    BY <2>1, <2>2, <2>4, Zenon DEF Abstract!Put
<1>8. ASSUME NEW t \in Threads, CopyOut(t) PROVE Abstract!Get(t)
  <2>1. length[t] \in Lengths
    BY <1>8, Zenon DEF IInv, ReadArgs, CopyOut
  <2>2. /\ length[t] <= Len(Contents)
        /\ data'[t] = SubSeq(Contents, 1, length[t])
        /\ Contents' = SubSeq(Contents, length[t] + 1, Len(Contents))
    BY <1>8, CopyOutTakes, Zenon
  <2>3. \A u \in Threads \ {t} : pc'[u] = pc[u] /\ data'[u] = data[u]
    BY <1>8, Zenon DEF CopyOut, IInv, TypeOK
  <2>4. pc'[t] = "return"
    BY <1>8, Zenon DEF CopyOut, IInv, TypeOK
  <2>5. Delivered' = [Delivered EXCEPT ![t] = SubSeq(Contents, 1, length[t])]
    BY <2>2, <2>3, <2>4, Zenon DEF Delivered
  <2>6. QED
    BY <2>1, <2>2, <2>5, Zenon DEF Abstract!Get
<1>9. ASSUME NEW t \in Threads, Return(t) PROVE Abstract!Return(t)
  <2>1. \A u \in Threads \ {t} : pc'[u] = pc[u] /\ data'[u] = data[u]
    BY <1>9, Zenon DEF Return, IInv, TypeOK
  <2>2. pc'[t] = "idle"
    BY <1>9, Zenon DEF Return, IInv, TypeOK
  <2>3. Delivered' = [Delivered EXCEPT ![t] = <<>>]
    BY <2>1, <2>2, Zenon DEF Delivered
  <2>4. Contents' = Contents
    BY <1>9, RingKept, Zenon DEF Return
  <2>5. QED
    BY <2>3, <2>4, Zenon DEF Abstract!Return
<1> HIDE DEF Kept
<1>10. QED
  BY <1>0, <1>1, <1>2, <1>3, <1>4, <1>5, <1>6, <1>7, <1>8, <1>9, Zenon
     DEF Next, Abstract!Next

(* cycle_buffer implements the byte stream of ByteFifo for every initial   *)
(* capacity, message set and number of threads: growing and wrapping       *)
(* around lose, duplicate and reorder nothing, and a reader is handed      *)
(* exactly the oldest bytes it asked for.                                  *)
THEOREM RingImplementsByteFifo == Spec => ImplementsByteFifo
<1>1. Init => Abstract!Init
  <2> SUFFICES ASSUME Init PROVE Abstract!Init
    BY Zenon
  <2>1. IInv
    BY InitInv, Zenon
  <2>2. Contents \in Seq(Memory) /\ Len(Contents) = 0
    BY <2>1, ContentsType, SizeAssumption DEF Init, size
  <2>3. Contents = <<>>
    BY <2>2, EmptySeq, Zenon
  <2>4. Delivered = [t \in Threads |-> <<>>]
    BY Zenon DEF Init, Delivered
  <2>5. QED
    BY <2>3, <2>4, Zenon DEF Abstract!Init
<1>2. IInv /\ [Next]_vars => [Abstract!Next]_<<Contents, Delivered>>
  BY StepSimulation, Zenon
<1>3. QED
  BY <1>1, <1>2, Invariance, PTL DEF Spec, ImplementsByteFifo, Abstract!Spec
=============================================================================
