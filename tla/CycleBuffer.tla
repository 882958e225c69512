----------------------------- MODULE CycleBuffer -----------------------------
(***************************************************************************)
(* The growing ring buffer of the USE_BUFFER build                         *)
(* (core/src/cycle_buffer.cc) as ClientConnection uses it: one ring (one   *)
(* msgid), written by Ice dispatch threads and read by application         *)
(* threads, every call made while the caller holds                         *)
(* ClientConnection::mutex_.  Each critical section on the ring's own      *)
(* mtx_ is one action, so a write is three of them (realloc, wait for      *)
(* space, copy) and a read two (wait for data, copy).                      *)
(*                                                                         *)
(* Positions are NOT reduced modulo n_: r_pos_ and w_pos_ may equal n_.    *)
(* w_pos_ = r_pos_ means full or empty; only remain_space_ tells which.    *)
(***************************************************************************)
EXTENDS Integers, Sequences

CONSTANTS Threads,     \* threads calling into the ClientConnection
          NoThread,    \* "mutex_ is free"
          Byte,        \* values of a byte
          Junk,        \* what freshly allocated memory holds
          Chunks,      \* messages a write may carry
          Lengths,     \* lengths a recv may ask for
          BufferSize,  \* buffer_size_, the initial capacity
          MaxUnread,   \* bound: unread bytes the peer lets pile up
          IntMax       \* greatest int32_t

ASSUME ThreadAssumption == NoThread \notin Threads
ASSUME DataAssumption == /\ Junk \notin Byte
                         /\ Chunks \subseteq Seq(Byte)
                         /\ Lengths \subseteq Nat
ASSUME SizeAssumption == BufferSize \in Nat \ {0} /\ MaxUnread \in Nat

(* As much as int32_t can count: a third of IntMax unread at most. *)
ASSUME WidthAssumption == /\ IntMax \in Nat
                          /\ BufferSize <= IntMax
                          /\ 3 * MaxUnread <= IntMax
                          /\ Lengths \subseteq 0 .. IntMax

VARIABLES buffer,        \* buffer_: slot -> byte
          n,             \* n_
          r_pos,         \* r_pos_
          w_pos,         \* w_pos_
          remain_space,  \* remain_space_
          mutex,         \* holder of ClientConnection::mutex_
          pc,            \* where each thread is
          data,          \* the caller's char* area
          length         \* the length argument of the call

ring == <<buffer, n, r_pos, w_pos, remain_space>>
vars == <<ring, mutex, pc, data, length>>

Memory == Byte \cup {Junk}
Steps == {"idle", "realloc", "wait_space", "copy_in",
          "wait_data", "copy_out", "return"}

size == n - remain_space

(* The value x has as an int32_t. *)
Int32(x) == ((x + IntMax + 1) % (2 * IntMax + 2)) - (IntMax + 1)

(* cycle_buffer(int32_t n): new char[n_], nothing stored. *)
Init == /\ buffer = [i \in 0 .. BufferSize - 1 |-> Junk]
        /\ n = BufferSize
        /\ r_pos = 0
        /\ w_pos = 0
        /\ remain_space = BufferSize
        /\ mutex = NoThread
        /\ pc = [t \in Threads |-> "idle"]
        /\ data = [t \in Threads |-> <<>>]
        /\ length = [t \in Threads |-> 0]

-----------------------------------------------------------------------------
(* memcpy of the bytes d to slots at, at+1, ... of b; a byte that would    *)
(* land outside b is dropped here and is what CopiesInBounds rules out.    *)
Put(b, at, d) == [i \in DOMAIN b |->
                    IF at <= i /\ i < at + Len(d) THEN d[i - at + 1] ELSE b[i]]

(* memcpy of k bytes out of b from slot at. *)
Peek(b, at, k) == [i \in 1 .. k |-> b[at + i - 1]]

(* Does a transfer of k bytes at `pos' take the two-memcpy branch? The     *)
(* other position is `rival'.                                              *)
Splits_Late(pos, rival, k) == pos >= rival /\ pos >= n

Splits(pos, rival, k) == pos >= rival /\ pos > n - k

-----------------------------------------------------------------------------
(* ClientConnection::write takes mutex_, finds or creates the ring and     *)
(* calls write on it.  MaxUnread bounds what the model lets pile up.       *)
WriteCall_NoLock(t, d) ==
  /\ pc[t] = "idle"
  /\ size + Len(d) <= MaxUnread
  /\ mutex' = t
  /\ pc' = [pc EXCEPT ![t] = "realloc"]
  /\ data' = [data EXCEPT ![t] = d]
  /\ length' = [length EXCEPT ![t] = Int32(Len(d))]
  /\ UNCHANGED ring

WriteCall(t, d) ==
  /\ pc[t] = "idle"
  /\ mutex = NoThread
  /\ size + Len(d) <= MaxUnread
  /\ mutex' = t
  /\ pc' = [pc EXCEPT ![t] = "realloc"]
  /\ data' = [data EXCEPT ![t] = d]
  /\ length' = [length EXCEPT ![t] = Int32(Len(d))]
  /\ UNCHANGED ring

(* The capacity after growing for a write of k bytes: at least twofold. *)
NewSize(k) == Int32(n * ((k \div n) + 2))

(* The new block: first the bytes from r_pos_ on (when the data does not   *)
(* run past the end that is all of it), then the bytes from slot 0.        *)
NewBlock_HeadOnly(k) ==
  LET first_n == IF w_pos > r_pos THEN size ELSE n - r_pos
  IN [i \in 0 .. NewSize(k) - 1 |->
        IF i < first_n THEN buffer[r_pos + i] ELSE Junk]

NewBlock(k) ==
  LET first_n == IF w_pos > r_pos THEN size ELSE n - r_pos
  IN [i \in 0 .. NewSize(k) - 1 |->
        IF i < first_n THEN buffer[r_pos + i]
        ELSE IF i < size THEN buffer[i - first_n] ELSE Junk]

(* cycle_buffer::realloc *)
Realloc_Always(t) ==
  /\ pc[t] = "realloc"
  /\ buffer' = NewBlock(length[t])
  /\ n' = NewSize(length[t])
  /\ remain_space' = NewSize(length[t]) - size
  /\ r_pos' = 0
  /\ w_pos' = size
  /\ pc' = [pc EXCEPT ![t] = "wait_space"]
  /\ UNCHANGED <<mutex, data, length>>

Realloc(t) ==
  /\ pc[t] = "realloc"
  /\ \/ /\ remain_space >= length[t]
        /\ UNCHANGED ring
     \/ /\ remain_space < length[t]
        /\ buffer' = NewBlock(length[t])
        /\ n' = NewSize(length[t])
        /\ remain_space' = NewSize(length[t]) - size
        /\ r_pos' = 0
        /\ w_pos' = size
  /\ pc' = [pc EXCEPT ![t] = "wait_space"]
  /\ UNCHANGED <<mutex, data, length>>

(* The cv_.wait of write: passes when the space is there, else the thread  *)
(* stays, still holding mutex_.                                            *)
WaitSpace(t) ==
  /\ pc[t] = "wait_space"
  /\ remain_space >= length[t]
  /\ pc' = [pc EXCEPT ![t] = "copy_in"]
  /\ UNCHANGED <<ring, mutex, data, length>>

(* The copy of write under mtx_, then cv_.notify_all(). *)
CopyIn_NoSplit(t) ==
  /\ pc[t] = "copy_in"
  /\ buffer' = Put(buffer, w_pos, data[t])
  /\ w_pos' = w_pos + length[t]
  /\ remain_space' = remain_space - length[t]
  /\ pc' = [pc EXCEPT ![t] = "return"]
  /\ data' = [data EXCEPT ![t] = <<>>]
  /\ UNCHANGED <<n, r_pos, mutex, length>>

CopyIn(t) ==
  LET k == length[t]
      first_n == n - w_pos
  IN
  /\ pc[t] = "copy_in"
  /\ \/ /\ Splits(w_pos, r_pos, k)
        /\ buffer' = Put(Put(buffer, w_pos, SubSeq(data[t], 1, first_n)),
                         0, SubSeq(data[t], first_n + 1, k))
        /\ w_pos' = k - first_n
     \/ /\ ~Splits(w_pos, r_pos, k)
        /\ buffer' = Put(buffer, w_pos, data[t])
        /\ w_pos' = w_pos + k
  /\ remain_space' = remain_space - k
  /\ pc' = [pc EXCEPT ![t] = "return"]
  /\ data' = [data EXCEPT ![t] = <<>>]
  /\ UNCHANGED <<n, r_pos, mutex, length>>

-----------------------------------------------------------------------------
(* ClientConnection::recv takes mutex_ and calls read when the ring is not *)
(* empty and can_read(length); otherwise it gives mutex_ up and waits,     *)
(* which leaves the ring alone (module ClientConnection has that part).    *)
ReadCall(t, k) ==
  /\ pc[t] = "idle"
  /\ mutex = NoThread
  /\ size # 0 /\ size >= Int32(k)
  /\ mutex' = t
  /\ pc' = [pc EXCEPT ![t] = "wait_data"]
  /\ length' = [length EXCEPT ![t] = Int32(k)]
  /\ UNCHANGED <<ring, data>>

(* The wait_for loop of read: leaves only when the data is there. *)
WaitData(t) ==
  /\ pc[t] = "wait_data"
  /\ size >= length[t]
  /\ pc' = [pc EXCEPT ![t] = "copy_out"]
  /\ UNCHANGED <<ring, mutex, data, length>>

(* The copy of read under mtx_, then cv_.notify_all(). *)
CopyOut_NoSpaceBack(t) ==
  LET k == length[t]
      first_n == n - r_pos
  IN
  /\ pc[t] = "copy_out"
  /\ \/ /\ Splits(r_pos, w_pos, k)
        /\ data' = [data EXCEPT ![t] = Peek(buffer, r_pos, first_n)
                                       \o Peek(buffer, 0, k - first_n)]
        /\ r_pos' = k - first_n
     \/ /\ ~Splits(r_pos, w_pos, k)
        /\ data' = [data EXCEPT ![t] = Peek(buffer, r_pos, k)]
        /\ r_pos' = r_pos + k
  /\ pc' = [pc EXCEPT ![t] = "return"]
  /\ UNCHANGED <<buffer, n, w_pos, remain_space, mutex, length>>

CopyOut(t) ==
  LET k == length[t]
      first_n == n - r_pos
  IN
  /\ pc[t] = "copy_out"
  /\ \/ /\ Splits(r_pos, w_pos, k)
        /\ data' = [data EXCEPT ![t] = Peek(buffer, r_pos, first_n)
                                       \o Peek(buffer, 0, k - first_n)]
        /\ r_pos' = k - first_n
     \/ /\ ~Splits(r_pos, w_pos, k)
        /\ data' = [data EXCEPT ![t] = Peek(buffer, r_pos, k)]
        /\ r_pos' = r_pos + k
  /\ remain_space' = remain_space + k
  /\ pc' = [pc EXCEPT ![t] = "return"]
  /\ UNCHANGED <<buffer, n, w_pos, mutex, length>>

(* write or recv returns: the unique_lock on mutex_ goes out of scope. *)
Return(t) ==
  /\ pc[t] = "return"
  /\ mutex' = NoThread
  /\ pc' = [pc EXCEPT ![t] = "idle"]
  /\ data' = [data EXCEPT ![t] = <<>>]
  /\ length' = [length EXCEPT ![t] = 0]
  /\ UNCHANGED ring

Next == \E t \in Threads :
          \/ \E d \in Chunks : WriteCall(t, d)
          \/ Realloc(t) \/ WaitSpace(t) \/ CopyIn(t)
          \/ \E k \in Lengths : ReadCall(t, k)
          \/ WaitData(t) \/ CopyOut(t)
          \/ Return(t)

Spec == Init /\ [][Next]_vars

-----------------------------------------------------------------------------
(* Types; in particular every slot the ring has is a byte or never-written *)
(* memory, and the bookkeeping stays within the capacity.                  *)
TypeOK == /\ n \in Nat \ {0}
          /\ buffer \in [0 .. n - 1 -> Memory]
          /\ r_pos \in 0 .. n
          /\ w_pos \in 0 .. n
          /\ remain_space \in 0 .. n
          /\ mutex \in Threads \cup {NoThread}
          /\ pc \in [Threads -> Steps]
          /\ data \in [Threads -> Seq(Memory)]
          /\ length \in [Threads -> Nat]

(* The three variables that describe the contents agree after every step   *)
(* of every thread: the distance from r_pos_ to w_pos_, around the end if  *)
(* need be, is n_ - remain_space_; equal positions mean full or empty.     *)
(* (cycle_buffer.cc: realloc, read and write each update them separately.) *)
PositionsAgree ==
  \/ w_pos > r_pos /\ size = w_pos - r_pos
  \/ w_pos < r_pos /\ size = n - r_pos + w_pos
  \/ w_pos = r_pos /\ size \in {0, n}

(* "never enter here. can not write" (cycle_buffer.cc:236) and its         *)
(* counterpart in read: a thread that reaches either wait finds its        *)
(* condition true, so nobody sleeps inside the ring with mutex_ held.      *)
NeverBlocksInRing ==
  \A t \in Threads :
    /\ pc[t] \in {"wait_space", "copy_in"} => remain_space >= length[t]
    /\ pc[t] \in {"wait_data", "copy_out"} => size >= length[t]

(* Every memcpy of read and write stays inside the allocation, and a write *)
(* never lands on an unread byte.                                          *)
CopiesInBounds ==
  \A t \in Threads :
    /\ pc[t] = "copy_in" =>
         IF Splits(w_pos, r_pos, length[t])
         THEN length[t] - (n - w_pos) \in 0 .. r_pos
         ELSE w_pos + length[t] <= (IF w_pos >= r_pos THEN n ELSE r_pos)
    /\ pc[t] = "copy_out" =>
         IF Splits(r_pos, w_pos, length[t])
         THEN length[t] - (n - r_pos) \in 0 .. w_pos
         ELSE r_pos + length[t] <= (IF r_pos >= w_pos THEN n ELSE w_pos)

(* Growth is bounded by demand: if unread bytes never exceed MaxUnread the *)
(* capacity never exceeds three times that (or the initial size), however  *)
(* writes and reads interleave; and it never wraps around to a number that *)
(* is no capacity.                                                         *)
CapacityBounded == n > 0 /\ (n <= BufferSize \/ n <= 3 * MaxUnread)

(* The bytes the ring holds, oldest first. *)
Contents == [i \in 1 .. size |->
               IF r_pos + i - 1 < n THEN buffer[r_pos + i - 1]
                                    ELSE buffer[r_pos + i - 1 - n]]

(* What a call has delivered to its caller's area. *)
Delivered == [t \in Threads |-> IF pc[t] = "return" THEN data[t] ELSE <<>>]

Abstract == INSTANCE ByteFifo WITH fifo <- Contents, out <- Delivered

(* The ring is a byte stream: realloc keeps the contents, write appends    *)
(* and read removes exactly the requested prefix, wrapped or not, and a    *)
(* byte that was never written is never delivered.                         *)
ImplementsByteFifo == Abstract!Spec
=============================================================================
