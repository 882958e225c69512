-------------------------- MODULE TcpChannelProofs --------------------------
(***************************************************************************)
(* Proofs about TcpChannel, for any number of threads, channels and kinds  *)
(* of list: what a Get... function has returned stays, and no list is      *)
(* leaked.                                                                 *)
(*                                                                         *)
(* The invariant says what the mutex of a kind protects: a thread that is  *)
(* between the lookup and the return holds it, so what it saw in the map   *)
(* still stands (Found nothing, or the block it will return), and a block  *)
(* that is not in the map yet is in the hands of the holder.               *)
(***************************************************************************)
EXTENDS TcpChannel, TLAPS

Inside(t) == pc[t] \in {"encode", "insert", "return"}

Types ==
  /\ phase \in {"run", "exit", "over"}
  /\ made \subseteq Channels
  /\ io_channel \in made \cup {NoChannel}
  /\ phase = "exit" => io_channel \in made
  /\ maps \in [Kinds -> [Channels -> Blocks \cup {NoBlock}]]
  /\ mutexes \in [Kinds -> Threads \cup {NoThread}]
  /\ heap \subseteq Blocks
  /\ serial \in Nat
  /\ \A b \in heap : b.id \in 0 .. serial - 1
  /\ pc \in [Threads -> {"idle", "find", "encode", "insert", "return"}]
  /\ call \in [Threads -> {<<>>} \cup Channels \X Kinds]
  /\ block \in [Threads -> Blocks \cup {NoBlock}]
  /\ handed \subseteq Channels \X Kinds \X Blocks

(* A call is for a channel that exists, and none is left when main returns; *)
(* until then no channel is deleted.                                        *)
CallsAreCurrent ==
  /\ \A t \in Threads : pc[t] # "idle" => /\ phase = "run"
                                          /\ call[t] \in made \X Kinds
  /\ phase = "run" => \A h \in handed : h[1] \in made

(* What is in a map is a list of that channel. *)
MapsAreSound ==
  \A k \in Kinds, c \in Channels :
    maps[k][c] # NoBlock => maps[k][c] \in heap /\ maps[k][c].from = <<c, k>>

(* What a thread knows while it holds the mutex. *)
Locked ==
  \A t \in Threads :
    /\ Inside(t) => mutexes[call[t][2]] = t
    /\ pc[t] \in {"encode", "insert"} => Found(t) = NoBlock
    /\ pc[t] = "insert" => block[t] \in heap /\ block[t].from = call[t]
    /\ pc[t] = "return" => block[t] = Found(t) /\ Found(t) # NoBlock

LInv == Types /\ CallsAreCurrent /\ MapsAreSound /\ Locked
          /\ HandedOutStays /\ NothingLeaks

(* A block's origin tells its map entry. *)
LEMMA Origin ==
  ASSUME Types, NEW b \in heap
  PROVE  b \in Blocks /\ b # NoBlock /\ b.from \in Channels \X Kinds
         /\ b.from[1] \in Channels /\ b.from[2] \in Kinds
BY NobodyAssumption DEF Types, Blocks

(* Two threads inside their calls ask for different kinds. *)
LEMMA OneInside ==
  ASSUME Locked, NEW t \in Threads, NEW u \in Threads, Inside(t), Inside(u), t # u
  PROVE  call[t][2] # call[u][2]
BY DEF Locked

-----------------------------------------------------------------------------
LEMMA InitLInv == Init => LInv
<1> SUFFICES ASSUME Init PROVE LInv
  OBVIOUS
<1>1. Types
  BY DEF Init, Types
<1>2. CallsAreCurrent /\ Locked
  BY DEF Init, CallsAreCurrent, Locked, Inside
<1>3. MapsAreSound /\ HandedOutStays /\ NothingLeaks
  BY DEF Init, MapsAreSound, HandedOutStays, NothingLeaks
<1>4. QED
  BY <1>1, <1>2, <1>3 DEF LInv

LEMMA CreateKeeps ==
  ASSUME LInv, NEW c \in Channels, Create(c)
  PROVE  LInv'
<1>1. /\ Types /\ CallsAreCurrent /\ MapsAreSound /\ Locked
      /\ HandedOutStays /\ NothingLeaks
  BY DEF LInv
<1>2. /\ phase = "run" /\ c \notin made /\ made' = made \cup {c} /\ io_channel' = c
      /\ UNCHANGED <<phase, maps, heap, serial, mutexes, pc, call, block, handed>>
  BY DEF Create, lists, calls
<1>3. Types'
  BY <1>1, <1>2 DEF Types
<1>4. CallsAreCurrent'
  BY <1>1, <1>2, Zenon DEF CallsAreCurrent
<1>5. MapsAreSound' /\ Locked'
  BY <1>1, <1>2 DEF MapsAreSound, Locked, Inside, Found
<1>6. NothingLeaks'
  BY <1>1, <1>2 DEF NothingLeaks
<1>7. HandedOutStays'
  BY <1>1, <1>2 DEF HandedOutStays, CallsAreCurrent, Live
<1>8. QED
  BY <1>3, <1>4, <1>5, <1>6, <1>7 DEF LInv

LEMMA CallKeeps ==
  ASSUME LInv, NEW t \in Threads, NEW c \in Channels, NEW k \in Kinds, Call(t, c, k)
  PROVE  LInv'
<1>1. /\ Types /\ CallsAreCurrent /\ MapsAreSound /\ Locked
      /\ HandedOutStays /\ NothingLeaks
  BY DEF LInv
<1>2. /\ phase = "run" /\ c \in made /\ pc[t] = "idle"
      /\ call' = [call EXCEPT ![t] = <<c, k>>]
      /\ pc' = [pc EXCEPT ![t] = "find"]
      /\ UNCHANGED <<phase, io_channel, made, mutexes, maps, heap, serial, block, handed>>
  BY DEF Call, lists
<1>3. Types'
  BY <1>1, <1>2 DEF Types
<1>4. CallsAreCurrent'
  BY <1>1, <1>2 DEF Types, CallsAreCurrent
<1>5. /\ pc'[t] = "find"
      /\ \A u \in Threads \ {t} : pc'[u] = pc[u] /\ call'[u] = call[u]
  BY <1>1, <1>2, Zenon DEF Types
<1>6. Locked'
  BY <1>1, <1>2, <1>5 DEF Locked, Inside, Found
<1>7. MapsAreSound' /\ HandedOutStays'
  BY <1>1, <1>2 DEF MapsAreSound, HandedOutStays, Live
<1>8. NothingLeaks'
  BY <1>1, <1>2, <1>5 DEF NothingLeaks
<1>9. QED
  BY <1>3, <1>4, <1>6, <1>7, <1>8 DEF LInv

LEMMA FindKeeps ==
  ASSUME LInv, NEW t \in Threads, Find(t)
  PROVE  LInv'
<1>1. /\ Types /\ CallsAreCurrent /\ MapsAreSound /\ Locked
      /\ HandedOutStays /\ NothingLeaks
  BY DEF LInv
<1>2. /\ pc[t] = "find" /\ mutexes[call[t][2]] = NoThread
      /\ mutexes' = [mutexes EXCEPT ![call[t][2]] = t]
      /\ block' = [block EXCEPT ![t] = Found(t)]
      /\ pc' = [pc EXCEPT ![t] = IF Found(t) = NoBlock THEN "encode" ELSE "return"]
      /\ UNCHANGED <<phase, io_channel, made, maps, heap, serial, call, handed>>
  BY DEF Find, lists
<1>3. /\ call[t] \in Channels \X Kinds
      /\ call[t][1] \in Channels /\ call[t][2] \in Kinds
  BY <1>1, <1>2 DEF Types, CallsAreCurrent
<1>4. Found(t) \in Blocks \cup {NoBlock}
  BY <1>1, <1>3 DEF Types, Found
<1>5. Types'
  BY <1>1, <1>2, <1>3, <1>4 DEF Types
<1>6. CallsAreCurrent'
  BY <1>1, <1>2 DEF Types, CallsAreCurrent
<1>7. /\ pc'[t] = (IF Found(t) = NoBlock THEN "encode" ELSE "return")
      /\ block'[t] = Found(t) /\ mutexes'[call[t][2]] = t
      /\ \A u \in Threads \ {t} : pc'[u] = pc[u] /\ block'[u] = block[u]
  BY <1>1, <1>2, <1>3 DEF Types
<1>8. \A u \in Threads : Inside(u) => mutexes'[call[u][2]] = u
  BY <1>1, <1>2, <1>3, NobodyAssumption, SMTT(30) DEF Types, Locked, CallsAreCurrent, Inside
<1>9. Locked'
  BY <1>1, <1>2, <1>7, <1>8 DEF Locked, Inside, Found
<1>10. MapsAreSound' /\ HandedOutStays'
  BY <1>1, <1>2 DEF MapsAreSound, HandedOutStays, Live
<1>11. NothingLeaks'
  BY <1>1, <1>2, <1>7 DEF NothingLeaks
<1>12. QED
  BY <1>5, <1>6, <1>9, <1>10, <1>11 DEF LInv

LEMMA EncodeKeeps ==
  ASSUME LInv, NEW t \in Threads, Encode(t)
  PROVE  LInv'
<1> DEFINE new == [id |-> serial, from |-> call[t]]
<1>1. /\ Types /\ CallsAreCurrent /\ MapsAreSound /\ Locked
      /\ HandedOutStays /\ NothingLeaks
  BY DEF LInv
<1>2. /\ pc[t] = "encode" /\ serial' = serial + 1 /\ heap' = heap \cup {new}
      /\ block' = [block EXCEPT ![t] = new]
      /\ pc' = [pc EXCEPT ![t] = "insert"]
      /\ UNCHANGED <<phase, io_channel, made, maps, mutexes, call, handed>>
  BY DEF Encode
<1>3. call[t] \in Channels \X Kinds /\ call[t][1] \in made
  BY <1>1, <1>2 DEF Types, CallsAreCurrent
<1>4. new \in Blocks /\ new.id = serial /\ new.from = call[t]
  BY <1>1, <1>3 DEF Types, Blocks
<1> HIDE DEF new
<1>5. Types'
  <2>1. \A b \in heap' : b.id \in 0 .. serial' - 1
    BY <1>1, <1>2, <1>4 DEF Types
  <2>2. QED
    BY <1>1, <1>2, <1>4, <2>1 DEF Types
<1>6. CallsAreCurrent'
  BY <1>1, <1>2 DEF Types, CallsAreCurrent
<1>7. /\ pc'[t] = "insert" /\ block'[t] = new
      /\ \A u \in Threads \ {t} : pc'[u] = pc[u] /\ block'[u] = block[u]
  BY <1>1, <1>2, Zenon DEF Types
<1>8. Locked'
  BY <1>1, <1>2, <1>4, <1>7 DEF Locked, Inside, Found
<1>9. MapsAreSound' /\ HandedOutStays'
  BY <1>1, <1>2 DEF MapsAreSound, HandedOutStays, Live
<1>10. NothingLeaks'
  BY <1>1, <1>2, <1>3, <1>4, <1>7 DEF NothingLeaks
<1>11. QED
  BY <1>5, <1>6, <1>8, <1>9, <1>10 DEF LInv

(* The holder of the mutex fills the entry that it found empty. *)
LEMMA InsertKeeps ==
  ASSUME LInv, NEW t \in Threads, Insert(t)
  PROVE  LInv'
<1> DEFINE c == call[t][1]
           k == call[t][2]
<1>1. /\ Types /\ CallsAreCurrent /\ MapsAreSound /\ Locked
      /\ HandedOutStays /\ NothingLeaks
  BY DEF LInv
<1>2. /\ pc[t] = "insert"
      /\ pc' = [pc EXCEPT ![t] = "return"]
      /\ UNCHANGED <<phase, io_channel, made, mutexes, heap, serial, call, block, handed>>
  BY DEF Insert
<1>3. c \in Channels /\ k \in Kinds /\ call[t] = <<c, k>>
  BY <1>1, <1>2, SMTT(30) DEF Types, CallsAreCurrent
<1>4. /\ maps[k][c] = NoBlock /\ block[t] \in heap /\ block[t].from = <<c, k>>
      /\ block[t] # NoBlock
  BY <1>1, <1>2, <1>3, Origin DEF Locked, Found
<1>5. maps' = [maps EXCEPT ![k][c] = block[t]]
  BY <1>4 DEF Insert
<1>6. /\ maps'[k][c] = block[t]
      /\ \A j \in Kinds, d \in Channels :
           <<d, j>> # <<c, k>> => maps'[j][d] = maps[j][d]
  BY <1>1, <1>3, <1>5 DEF Types
<1>7. /\ pc'[t] = "return"
      /\ \A u \in Threads \ {t} : pc'[u] = pc[u]
  BY <1>1, <1>2 DEF Types
<1>8. Types'
  BY <1>1, <1>2, <1>3, <1>5 DEF Types
<1>9. CallsAreCurrent'
  BY <1>1, <1>2 DEF Types, CallsAreCurrent
<1>10. MapsAreSound'
  BY <1>1, <1>2, <1>4, <1>6 DEF MapsAreSound
<1>11. Locked'
  <2>1. Inside(t)
    BY <1>2 DEF Inside
  <2>2. \A u \in Threads \ {t} : Inside(u) => /\ call[u][2] # k
                                              /\ call[u][2] \in Kinds
                                              /\ call[u][1] \in Channels
    BY <1>1, <2>1, OneInside DEF Types, CallsAreCurrent, Inside
  <2>3. \A u \in Threads \ {t} : Inside(u) => Found(u)' = Found(u)
    BY <1>2, <1>6, <2>2 DEF Found
  <2>4. Found(t)' = block[t]
    BY <1>2, <1>6 DEF Found
  <2>5. QED
    BY <1>1, <1>2, <1>4, <1>7, <2>3, <2>4 DEF Locked, Inside
<1>12. HandedOutStays'
  <2>1. ASSUME NEW h \in handed, Live(h[1])
        PROVE  <<h[1], h[2]>> # <<c, k>> /\ h[1] \in Channels /\ h[2] \in Kinds
    <3>1. h[3] = maps[h[2]][h[1]] /\ h[3] \in heap
      BY <1>1, <2>1 DEF HandedOutStays
    <3>2. h[3] # NoBlock
      BY <1>1, <3>1, Origin
    <3>3. QED
      BY <1>1, <1>4, <3>1, <3>2 DEF Types
  <2>2. QED
    BY <1>1, <1>2, <1>6, <2>1 DEF HandedOutStays, Live
<1>13. NothingLeaks'
  <2>1. ASSUME NEW b \in heap, b.from # <<c, k>>
        PROVE  maps'[b.from[2]][b.from[1]] = maps[b.from[2]][b.from[1]]
    BY <1>1, <1>6, <2>1, Origin
  <2>2. ASSUME NEW b \in heap, b.from = <<c, k>> PROVE b = block[t]
    <3>1. b # NoBlock
      BY <1>1, Origin
    <3>2. PICK u \in Threads : pc[u] = "insert" /\ block[u] = b
      BY <1>1, <1>4, <2>2, <3>1 DEF NothingLeaks
    <3>3. call[u][2] = k /\ Inside(u) /\ Inside(t)
      BY <1>1, <1>2, <2>2, <3>2 DEF Locked, Inside
    <3>4. QED
      BY <1>1, <3>2, <3>3, OneInside
  <2>3. \A b \in heap : b.from[1] \in made
    BY <1>1 DEF NothingLeaks
  <2>4. ASSUME NEW b \in heap
        PROVE  \/ maps'[b.from[2]][b.from[1]] = b
               \/ \E u \in Threads : pc'[u] = "insert" /\ block'[u] = b
    <3>1. CASE b = block[t]
      BY <1>4, <1>6, <3>1, SMTT(30)
    <3>2. CASE b # block[t]
      BY <1>1, <1>2, <1>7, <2>1, <2>2, <3>2 DEF NothingLeaks
    <3>3. QED
      BY <3>1, <3>2
  <2>5. QED
    BY <1>2, <2>3, <2>4 DEF NothingLeaks
<1>14. QED
  BY <1>8, <1>9, <1>10, <1>11, <1>12, <1>13 DEF LInv

LEMMA ReturnKeeps ==
  ASSUME LInv, NEW t \in Threads, Return(t)
  PROVE  LInv'
<1> DEFINE c == call[t][1]
           k == call[t][2]
<1>1. /\ Types /\ CallsAreCurrent /\ MapsAreSound /\ Locked
      /\ HandedOutStays /\ NothingLeaks
  BY DEF LInv
<1>2. /\ pc[t] = "return"
      /\ handed' = handed \cup {<<c, k, block[t]>>}
      /\ mutexes' = [mutexes EXCEPT ![k] = NoThread]
      /\ block' = [block EXCEPT ![t] = NoBlock]
      /\ pc' = [pc EXCEPT ![t] = "idle"]
      /\ UNCHANGED <<phase, io_channel, made, maps, heap, serial, call>>
  BY DEF Return, lists
<1>3. c \in Channels /\ k \in Kinds /\ call[t] = <<c, k>> /\ c \in made
  BY <1>1, <1>2, SMTT(30) DEF Types, CallsAreCurrent
<1>4. /\ block[t] = maps[k][c] /\ maps[k][c] # NoBlock
      /\ maps[k][c] \in heap /\ maps[k][c].from = <<c, k>>
  BY <1>1, <1>2, <1>3, Zenon DEF Locked, Found, MapsAreSound
<1>5. block[t] \in Blocks
  BY <1>1, <1>4, Origin
<1>6. Types'
  BY <1>1, <1>2, <1>3, <1>5 DEF Types
<1>7. CallsAreCurrent'
  BY <1>1, <1>2, <1>3 DEF Types, CallsAreCurrent
<1>8. /\ pc'[t] = "idle"
      /\ \A u \in Threads \ {t} : pc'[u] = pc[u] /\ block'[u] = block[u]
      /\ \A j \in Kinds \ {k} : mutexes'[j] = mutexes[j]
  BY <1>1, <1>2, Zenon DEF Types
<1>9. Inside(t)
  BY <1>2 DEF Inside
<1>10. \A u \in Threads \ {t} : Inside(u) => call[u][2] # k /\ call[u][2] \in Kinds
  BY <1>1, <1>9, OneInside, Zenon DEF Types, CallsAreCurrent, Inside
<1>11. Locked'
  BY <1>1, <1>2, <1>8, <1>10, SMTT(30) DEF Locked, Inside, Found
<1>12. MapsAreSound'
  BY <1>1, <1>2 DEF MapsAreSound
<1>13. HandedOutStays'
  <2>1. ASSUME NEW h \in handed', Live(h[1])'
        PROVE  /\ h[3] = maps[h[2]][h[1]] /\ h[3] \in heap
               /\ h[3].from = <<h[1], h[2]>>
    <3>1. CASE h \in handed
      BY <1>1, <1>2, <2>1, <3>1, Zenon DEF HandedOutStays, Live
    <3>2. CASE h = <<c, k, block[t]>>
      BY <1>4, <3>2, Zenon
    <3>3. QED
      BY <1>2, <2>1, <3>1, <3>2, Zenon
  <2>2. QED
    BY <1>2, <2>1, Zenon DEF HandedOutStays
<1>14. NothingLeaks'
  BY <1>1, <1>2, <1>8 DEF NothingLeaks
<1>15. QED
  BY <1>6, <1>7, <1>11, <1>12, <1>13, <1>14 DEF LInv

-----------------------------------------------------------------------------
LEMMA ExitKeeps ==
  ASSUME LInv, Exit
  PROVE  LInv'
<1>1. /\ Types /\ CallsAreCurrent /\ MapsAreSound /\ Locked
      /\ HandedOutStays /\ NothingLeaks
  BY DEF LInv
<1>2. /\ phase = "run" /\ \A t \in Threads : pc[t] = "idle"
      /\ phase' = IF io_channel = NoChannel THEN "over" ELSE "exit"
      /\ UNCHANGED <<io_channel, made, mutexes, maps, heap, serial, pc, call, block, handed>>
  BY DEF Exit, lists, calls
<1>3. Types'
  BY <1>1, <1>2, Zenon DEF Types
<1>4. CallsAreCurrent'
  BY <1>1, <1>2, Zenon DEF CallsAreCurrent
<1>5. MapsAreSound' /\ Locked' /\ NothingLeaks'
  BY <1>1, <1>2, Zenon DEF MapsAreSound, Locked, Inside, Found, NothingLeaks
<1>6. HandedOutStays'
  BY <1>1, <1>2 DEF HandedOutStays, Live
<1>7. QED
  BY <1>3, <1>4, <1>5, <1>6 DEF LInv

(* Freeing a list of the channel that goes touches no other channel's. *)
LEMMA DestroyKeeps ==
  ASSUME LInv, NEW k \in Kinds, Destroy(k)
  PROVE  LInv'
<1> DEFINE c == io_channel
           gone == maps[k][c]
<1>1. /\ Types /\ CallsAreCurrent /\ MapsAreSound /\ Locked
      /\ HandedOutStays /\ NothingLeaks
  BY DEF LInv
<1>2. /\ phase = "exit" /\ gone # NoBlock /\ heap' = heap \ {gone}
      /\ maps' = [maps EXCEPT ![k][c] = NoBlock]
      /\ UNCHANGED <<phase, io_channel, made, mutexes, serial, pc, call, block, handed>>
  BY DEF Destroy, calls
<1>3. c \in Channels /\ c \in made
  BY <1>1, <1>2 DEF Types
<1>4. gone \in heap /\ gone.from = <<c, k>>
  BY <1>1, <1>2, <1>3 DEF MapsAreSound
<1>5. /\ maps'[k][c] = NoBlock
      /\ \A j \in Kinds, d \in Channels :
           <<d, j>> # <<c, k>> => maps'[j][d] = maps[j][d]
  BY <1>1, <1>2, <1>3 DEF Types
<1>6. \A t \in Threads : pc[t] = "idle"
  BY <1>1, <1>2, Zenon DEF CallsAreCurrent
<1>7. Types'
  BY <1>1, <1>2, <1>3 DEF Types
<1>8. CallsAreCurrent' /\ Locked'
  BY <1>1, <1>2, <1>6 DEF CallsAreCurrent, Locked, Inside
<1>9. MapsAreSound'
  <2>1. ASSUME NEW j \in Kinds, NEW d \in Channels, maps'[j][d] # NoBlock
        PROVE  maps'[j][d] \in heap' /\ maps'[j][d].from = <<d, j>>
    <3>1. <<d, j>> # <<c, k>> /\ maps'[j][d] = maps[j][d]
      BY <1>5, <2>1
    <3>2. maps[j][d] \in heap /\ maps[j][d].from = <<d, j>>
      BY <1>1, <2>1, <3>1 DEF MapsAreSound
    <3>3. QED
      BY <1>2, <1>4, <3>1, <3>2, SMTT(30)
  <2>2. QED
    BY <2>1, Zenon DEF MapsAreSound
<1>10. HandedOutStays'
  <2>1. ASSUME NEW h \in handed, Live(h[1])'
        PROVE  /\ h[3] = maps'[h[2]][h[1]] /\ h[3] \in heap'
               /\ h[3].from = <<h[1], h[2]>>
    <3>1. Live(h[1]) /\ h[1] # c /\ h[1] \in Channels /\ h[2] \in Kinds
      BY <1>1, <1>2, <2>1 DEF Live, Types
    <3>2. h[3] = maps[h[2]][h[1]] /\ h[3] \in heap /\ h[3].from = <<h[1], h[2]>>
      BY <1>1, <3>1, Zenon DEF HandedOutStays
    <3>3. maps'[h[2]][h[1]] = maps[h[2]][h[1]] /\ h[3] # gone
      BY <1>4, <1>5, <3>1, <3>2
    <3>4. QED
      BY <1>2, <3>2, <3>3
  <2>2. QED
    BY <1>2, <2>1, Zenon DEF HandedOutStays
<1>11. NothingLeaks'
  <2>1. ASSUME NEW b \in heap' 
        PROVE  b.from[1] \in made' /\ maps'[b.from[2]][b.from[1]] = b
    <3>1. b \in heap /\ b # gone
      BY <1>2, <2>1
    <3>2. b.from[1] \in made /\ maps[b.from[2]][b.from[1]] = b
      BY <1>1, <1>6, <3>1 DEF NothingLeaks
    <3>3. b.from # <<c, k>>
      BY <3>1, <3>2, SMTT(30)
    <3>4. maps'[b.from[2]][b.from[1]] = maps[b.from[2]][b.from[1]]
      BY <1>1, <1>5, <3>1, <3>3, Origin
    <3>5. QED
      BY <1>2, <3>2, <3>4
  <2>2. QED
    BY <2>1, Zenon DEF NothingLeaks
<1>12. QED
  BY <1>7, <1>8, <1>9, <1>10, <1>11 DEF LInv

LEMMA DeletedKeeps ==
  ASSUME LInv, Deleted
  PROVE  LInv'
<1>1. /\ Types /\ CallsAreCurrent /\ MapsAreSound /\ Locked
      /\ HandedOutStays /\ NothingLeaks
  BY DEF LInv
<1>2. /\ phase = "exit" /\ \A k \in Kinds : maps[k][io_channel] = NoBlock
      /\ made' = made \ {io_channel} /\ io_channel' = NoChannel /\ phase' = "over"
      /\ UNCHANGED <<mutexes, maps, heap, serial, pc, call, block, handed>>
  BY DEF Deleted, lists, calls
<1>3. \A t \in Threads : pc[t] = "idle"
  BY <1>1, <1>2, Zenon DEF CallsAreCurrent
<1>4. Types'
  BY <1>1, <1>2, Zenon DEF Types
<1>5. CallsAreCurrent' /\ Locked'
  BY <1>1, <1>2, <1>3 DEF CallsAreCurrent, Locked, Inside
<1>6. MapsAreSound'
  BY <1>1, <1>2 DEF MapsAreSound
<1>7. HandedOutStays'
  BY <1>1, <1>2 DEF HandedOutStays, Live
<1>8. ASSUME NEW b \in heap PROVE b.from[1] # io_channel /\ maps[b.from[2]][b.from[1]] = b
  <2>1. maps[b.from[2]][b.from[1]] = b
    BY <1>1, <1>3 DEF NothingLeaks
  <2>2. b # NoBlock /\ b.from[2] \in Kinds
    BY <1>1, Origin
  <2>3. QED
    BY <1>2, <2>1, <2>2
<1>9. NothingLeaks'
  BY <1>1, <1>2, <1>8 DEF NothingLeaks
<1>10. QED
  BY <1>4, <1>5, <1>6, <1>7, <1>9 DEF LInv

LEMMA StutterKeeps ==
  ASSUME LInv, UNCHANGED vars
  PROVE  LInv'
<1>1. UNCHANGED <<phase, io_channel, made, maps, mutexes, heap, serial, pc, call, block, handed>>
  BY DEF vars
<1>2. Types' /\ CallsAreCurrent'
  BY <1>1, Zenon DEF LInv, Types, CallsAreCurrent
<1>3. MapsAreSound' /\ Locked' /\ HandedOutStays' /\ NothingLeaks'
  BY <1>1 DEF LInv, MapsAreSound, Locked, Inside, Found, HandedOutStays, Live, NothingLeaks
<1>4. QED
  BY <1>2, <1>3 DEF LInv

-----------------------------------------------------------------------------
(* The discipline of the mutexes, and what it gives, is inductive. *)
THEOREM Invariance == Spec => []LInv
<1>1. LInv /\ [Next]_vars => LInv'
  BY CreateKeeps, CallKeeps, FindKeeps, EncodeKeeps, InsertKeeps, ReturnKeeps,
     ExitKeeps, DestroyKeeps, DeletedKeeps, StutterKeeps
  DEF Next
<1>2. QED
  BY <1>1, InitLInv, PTL DEF Spec

(* A map holds lists that are allocated, and block ids are not reused. *)
THEOREM MapTypes == Spec => []TypeOK
<1>1. LInv => TypeOK
  BY DEF LInv, Types, MapsAreSound, TypeOK
<1>2. QED
  BY <1>1, Invariance, PTL

(* A list that a Get... function returned stays valid, the same and the    *)
(* channel's own, as long as the channel lives.                            *)
THEOREM ListsStay == Spec => []HandedOutStays
<1>1. LInv => HandedOutStays
  BY DEF LInv
<1>2. QED
  BY <1>1, Invariance, PTL

(* No encoded list is out of reach of its channel's destructor. *)
THEOREM ListsAreFreed == Spec => []NothingLeaks
<1>1. LInv => NothingLeaks
  BY DEF LInv
<1>2. QED
  BY <1>1, Invariance, PTL
=============================================================================
