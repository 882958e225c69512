# A specification of the channel SDK

The SDK connects the nodes of a task. Each node runs a server for the nodes that
send to it (its *clients*) and has a client object for each node it sends to (its
*servers*). Messages travel by Ice calls and wait, per sender and msgid, until the
application asks for them. The modules here describe that machinery in TLA+; TLC
checks them on small instances; TLAPS proves all their safety properties for all sizes.
Paths below are relative to `src/`.

## The system

| part | state | operations | what is hard about it |
|---|---|---|---|
| `cycle_buffer` (USE_BUFFER) | block, two positions, free space | `write` (`realloc`, wait, copy), `read` | positions are equal when empty *and* when full; growth while wrapped; waits under the caller's lock |
| `ClientConnection` | `mapbuffer_`, `mutex_`, `cv_` | `write`, `recv` | one condition variable for all msgids; timed waits that are restarted; truncated times |
| `WorkQueue`, `AsyncServer` (ASYNC_SERVER) | `_callbacks`, `_done` per client | `add`, `run`, `destroy`, constructor, destructor | answers before storing; sparse notifies; destruction at any moment |
| `SyncClient` | `timer_`, `send_timeout_` | `send` | retries after an exception that says nothing about the request; threads share the timer |
| `IoChannelI`, `SyncServer` | adapter, connection map | `ice_invoke`, `send_async` | acknowledges messages of unknown nodes and drops them |
| `ViaNetIO` | connection map, client map, server | `init`, `send`, `recv` | all nodes run `init` at the same time, fail, restart and leave |
| `BaseClient`, `BaseServer` | Ice properties, proxy, adapter | constructors, `CheckConnStatus` | both sides choose the route on their own |
| `ChannelConfig` | node infos, task nodes, policy | `parse`, `GetNodeInfos` | every node computes its peers by itself and the results must fit |
| `IoChannelImpl`, `TcpChannel` | the last channel made; caches of encoded lists | `CreateIoChannel`, `GetPolicy`, `Send`, `Recv`, getters | second channel replaces the first; `Recv` drops the length |
| Python binding | none of its own | `Send`, `Recv`, `create_channel`, `GetPolicy` | keeps the interpreter lock while a call waits |

`IoChannelImpl::CreateIoChannel` parses the document (`ChannelConfig`), works out
the peers and calls `ViaNetIO::init`. `ViaNetIO::send` uses a `SyncClient`, whose
call arrives at `IoChannelI` of the peer, directly or through a `WorkQueue`, and
ends in `ClientConnection::write`. `ViaNetIO::recv` is `ClientConnection::recv`.
The builds are default (synchronous server, dynamic invocation), `STATIC_CALL`,
and `STATIC_CALL` with `ASYNC_SERVER`, each with or without `USE_BUFFER`.

## The modules

**ByteFifo** is the abstract promise: bytes come out in the order they went in,
each read delivers exactly the oldest bytes.

**CycleBuffer** is the ring: `n`, `buffer`, `r_pos`, `w_pos`, `remain_space` are the
members of the class, `mutex` is `ClientConnection::mutex_`. One action per locked
section: `WriteCall`, `Realloc`, `WaitSpace`, `CopyIn`, and `ReadCall`, `WaitData`,
`CopyOut`, then `Return`. Never-written memory is the value `Junk`, so a copy from
the wrong place shows. The new capacity is an `int32_t` (`Int32`, of width `IntMax`).
`MCCycleBuffer` is its instance.

**ClientConnection** has both builds (`use_buffer`). A msgid holds a queue of messages
or a byte stream; `Recv`, `Take`, `Sleep`, the wakeups and `Expire` are the steps of
`recv`, `Write` is `write` with its `notify_all`. Since `mutex_` is held from the
lookup to the return or the sleep, each such stretch is one action. Time is in
ticks, several to the millisecond, because `recv` truncates to milliseconds. Its
byte streams are what CycleBuffer is shown to implement, and the module itself is shown
to implement one ByteFifo per msgid (`ImplementsStreams`; `Concat` reads a queue of
messages as a stream). In the default build `recv`
takes one whole message and does not consult `length`, and so does the model; the
caller's buffer is not part of it. In the byte build `recv` passes its `uint64_t` length
on as an `int32_t` (`Asked`): a length of 2^32 + 1 takes one byte. Lengths that become
negative are excluded (`LengthAssumption`), because `memcpy` is undefined for them.

**AtLeastOnce** is what `send` promises: a message may be stored any number of times
from the moment its send has begun, and a send that returns has stored it, if the
server knows the sender (`known`); messages of an unknown node are acknowledged and
dropped.

**SyncChannel** is one direction of a channel in the default build: threads in
`SyncClient::send`, requests and replies under way, the server's dispatch. Ice is
external: a call ends with a reply or with an exception, and an exception leaves it
open whether the request was lost, executed, or will be executed later. The server
has a ClientConnection for the client or not (`known`); it answers either way. The
threads of the model make a bounded number of sends whose messages are followed;
`OtherSend` is any further send through the same `SyncClient`, of which only the restart
of the shared `timer_` matters here. The module implements AtLeastOnce.

**AsyncServer** is the work queue build: constructor, `send_async`, `add`, `run`,
`destroy` and the destructor. The worker holds `_monitor` while it has work. When Ice
refuses the servant or the activation the constructor throws (`ConstructorThrows`);
then no destructor runs and the workers already started wait for ever.

**NetInit** runs `ViaNetIO::init` on every node under every policy, with and without
CONNECT_SYNC. A flag sent or received is one send or recv of the modules above.
Failures, lost replies, restarts and early departures are actions. It has no clocks:
a node may fail at any step. The nodes of `SelfNaming` may name themselves in the policy.
Such a node has a client for itself but no ClientConnection, so its flag to itself is
acknowledged and dropped; and it has a server to dial only if another node is its
client.

**TimedInit** is NetInit with its clocks. Its actions are NetInit's, each at the time
the code takes it: processes are started at different moments, `send` and
`CheckConnStatus` sleep between attempts and give up at the first failed attempt past
the timeout, `recv` when its wait expires; every call measures its own time. A step
takes no time compared with the sleeps and timeouts, which are in seconds.
`MCTimedInit` starts from one of the initial states that are the same up to a permutation
of nodes; when a node names itself, only that one is started late, and it names at most
one other node (so too in `MCNetInit`).

**ChannelConfig** goes from the document to the channel: `load`, the three node lists,
the policy, `GetNodeInfos`, `GetPolicy`, `CreateIoChannel`, and the proxies that
`BaseServer` and `BaseClient` set up: route, protocol and servant name. Ids are
sequences of characters, because `FilterIllChar` replaces some of them in a servant's
name. The two sides get their copies separately: `CopyNodeInfo` takes the CA from
`root_cert_`, `GetCertInfosFromNode` from the `CA_CERT_PATH` kept with the node, and with
SSL_TYPE 2 also puts it in the place of the server's certificate. Ice may refuse to
start a server or to make a client. `MCChannelConfig` has the documents.

**PyChannel** is a Python program on top of the rest: threads of several processes call
`Send` and `Recv`, which go through the binding, `IoChannelImpl`, `TcpChannel` and
`ViaNetIO`. `Send` is what AtLeastOnce promises, `Recv` is `ClientConnection::recv` in
the queue build with the time left out. The binding does not release the interpreter
lock, so a thread keeps it from `Acquire` to `Return`. A message stands for its bytes;
`Blank` is the string of zeros that `Recv` gives out after a timeout. No node is its own
server (`NoSelfLinkAssumption`). `MCPyChannel` has the programs.

**TcpChannel** is the life of channel objects in a process: the singleton
`IoChannelImpl` that points to the last one made and deletes it at exit, and the node
lists that are encoded on first use, kept in global maps and handed out as pointers.
Of the five kinds of list, which differ in type only, the run has two.

Operators whose names end in `_Something` (`CopyIn_NoSplit`, `Write_NotifyOne`) are
deliberately faulty versions of the definition that follows them. They are not used
by any specification; put in place of the real one they make a property fail, which
shows that the property can.

## The runs

| run | configuration | shows |
|---|---|---|
| `ring` | 2 threads, messages of 0-3 bytes, ring of 2 that grows, at most 5 unread, `IntMax` 15 | bookkeeping, bounds, no inner blocking, bounded growth, implements ByteFifo |
| `recv` | both builds; 2 receivers, 2 msgids, 2 ticks per ms, messages of 1 and 2 bytes, lengths of 2 and (narrowed) 1 | no lost wakeup, deadline kept, every recv returns, streams in order |
| `recv_default_timeout` | 1 receiver, queue build | **violated**: the default timeout is not "forever" |
| `async_server` | 2 queues, 3 requests, the constructor may throw | no missed notify, one answer each, nothing lost or reordered before destroy, workers stop |
| `async_outstanding` | as `async_server` | **violated**: no exception for outstanding requests |
| `send` | 2 threads, 2 sends in all, up to 3 requests each, any number of others, timeout 2; the server knows the client or not | implements AtLeastOnce, successes in order, no send throws before its timeout, and each ends unless the timer is restarted again and again |
| `send_idempotent` | 1 thread, 1 send of up to 2 requests | **violated**: a retry stores the message twice |
| `bring_up` | 3 nodes, all policies without a node that names itself, and those where a given one names itself and at most one other; all may fail, one restart each | what `init` returning guarantees; no flag is dropped |
| `bring_up_timed` | 3 nodes, the same policies, started up to 1 tick apart, 1 call breaks; timeouts 6 and 3, sleeps 2 and 1 | nobody times out, everybody comes up |
| `config` | 3 ids, all policies, missing infos, 6 ways to be reachable, with and without SSL, SSL_TYPE 1 and 2 | peers, routes, protocols and names match; GetPolicy's answer is the policy |
| `lists` | 2 threads, 2 channels, 2 kinds of list | lists handed out stay valid and are freed with their channel |
| `python` | 2 processes, 3 threads, 2 sends, 1 message waiting per link | nothing acknowledged is lost, Python sees the order, every call returns |

*Bounds.* The ring's cases (wrap, exact end, growth while wrapped, equal positions
full and empty) all occur with a capacity of two to a few and messages of up to
three bytes; the proofs cover the rest. `IntMax` is the least that `WidthAssumption`
allows for five unread bytes, so that any larger capacity would wrap. Two
receivers are enough for one to take what the other was woken for, and two msgids for
a wakeup that is of no use. Two ticks per millisecond are the fewest for which
truncation loses something. Two requests per send are needed for a duplicate, and with
three there may be two still on the way when a retry succeeds; two sends show it met by the next
message of its own thread or of another, and a timeout of two ticks is one that a
restart can extend halfway. Three nodes give chains, cycles,
one-sided and full policies. In `bring_up_timed` the timeouts are the smallest that
`TimeAssumption` allows for SEND_TIMEOUT, with a skew and a broken call to use them
up. Two threads that receive from one peer, and one that sends two messages, are
what it takes to see messages out of order in Python. Clocks that stand still at
their bound are past every deadline by then.

*Deadlock* is checked for `ring`, `recv` and `python`; in the other modules the program
may come to its end.

*Fairness.* A thread that can run does (weak fairness of each thread's own steps) and
time passes. A step of a send includes the exception Ice ends a call with. The peers,
the network, an application that leaves, restarts and spurious wakeups owe nothing.
`SendEnds` assumes nothing of the other sends either: it says that a send that never ends
sees its timer restarted for ever, which two threads that take turns do bring about.
In `TimedInit` the steps that are due are taken, and time passes when none is. In
`PyChannel` a call in C++ goes on and its timeouts expire, and the interpreter lets a
thread that waits for its lock go before the one that has just released it (`Turn`);
no message has to arrive.

*When bring-up succeeds.* `NobodyGivesUp` and `AllComeUp` hold under `TimeAssumption`:
`MaxSkew + (MaxBroken + 1) * SendSleep < SendTimeout` (and its counterpart for pings),
so with the sleep of one second in `send` SEND_TIMEOUT has to exceed the spread of the
start times by a second, and by one more for each call that breaks. The bound is tight:
with a SEND_TIMEOUT one tick less TLC finds a node that gives up. Both properties except
a server that leaves before everybody is up, without CONNECT_SYNC, or after a call
broke that had delivered its flag: its client tries again and times out, and nothing
in the code prevents that. They also except policies under which a node dials only
itself (`DialsItselfOnly`): `init` starts no server for it, so its own call times out.

*What the runs found.* Three statements in comments and interfaces differ from the
code: `recv` ignores its `timeout` argument (`core/include/IChannel.h:78`);
`WorkQueue::destroy` empties the list that `run` is to answer, and the requests in it
have been acknowledged already (`core/src/WorkQueue.cc:39`); `send` is declared
`idempotent` and is not (`ice/io_channel_ice.ice:17`). Also, a send may outlast its
timeout when another thread restarts the timer (`core/src/sync_client.cc:13`), and the
comment `core/include/const.h:15` leaves the task id out of the servant's name
that `core/src/sync_server.cc:17` and `core/src/base_client.cc:82` put in.

## The proofs

`CycleBufferProofs` proves, for any set of bytes, threads, messages and read lengths
and any positive initial size, that the ring is always consistent
(`PositionsAlwaysAgree`), never blocks inside (`RingNeverBlocks`), never copies out of
bounds or over unread bytes (`CopiesStayInBounds`), grows only within
a bound (`CapacityIsBounded`), and implements ByteFifo (`RingImplementsByteFifo`).
The assumptions are those of `CycleBuffer`: a positive `BufferSize`, natural lengths,
messages that are byte sequences, and `WidthAssumption`: no more than a third of the
greatest `int32_t` is unread at any time, which the code does not enforce.

`PositionsAgree` is not inductive alone: a copy is right only if the space or data the
thread found is still there when it copies. The inductive invariant `IInv` adds that
at most one thread is inside a call, the one that holds the connection's mutex
(`MutexHeld`), that the arguments of a call under way fit each other (`WriteArgs`,
`ReadArgs`), and that a thread past its wait still has what it waited for
(`NeverBlocksInRing`). Growth rests on an arithmetic lemma about
`n * (length / n + 2)` (`GrowthBounds`). For the refinement, `CopyInAppends`,
`ReallocKeeps` and `CopyOutTakes` say what each copy does to the contents, slot by
slot, and `StepSimulation` puts them together.

`NetInitProofs` proves, for any number of nodes, every policy, and with failures,
restarts and lost replies, `InitIsBarrier` and `FlagsAreKept`. `Barrier` speaks of the
end of `init`; the invariant `Knowledge` says what a node knows at each stage on the
way: a server that is up, and a client whose flag waits, has begun; so has every peer
the current loop is done with. `NoFlagDropped` is inductive with that and with the
fact, part of `TypeOK`, that a server that is up has its ClientConnections.

The same module proves, about `TimedInit`, that nobody times out (`InitNeverTimesOut`)
for any number of nodes, policy, start times, timeouts and sleeps that `TimeAssumption`
relates. Every timed step is a step of NetInit or moves only clocks
(`TimedIsUntimed`), so TimedInit implements NetInit (`TimedInitIsInit`) and inherits
its invariants (`TimedBarrier`). The new invariant `TInv` bounds the clocks by one
another (`Within`): as long as some node has not entered its first loop *no* clock in
the system is past `MaxSkew` less that node's remaining lateness, and as long as some
node is in a call no clock is past `MaxSkew` plus one sleep for each call that broke
and one more. A node that waits for a flag waits for a client that is in one of these
situations, so its clock is bounded as well, and `TimeAssumption` puts the bound below
the timeout. A client must not meet a server that has gone: while no call has broken, a
server has a flag only from a client that is done with it (`FlagsAreEarned`), so a
server that leaves leaves nobody behind. The bounds are claimed only until a server
leaves too early, and not for policies in which a node dials only itself (`Undisturbed`),
as in the property. `Break` lets a call break only before its
timeout; `BrokenCallsAreRetried` shows that this restricts nothing.

`AsyncServerProofs` proves, for any number of queues and requests,
`WorkersMissNoNotify`, `RequestsAreAnsweredOnce`, `AcceptedIsKept` and
`StoredHasNoGap`. The invariant
adds `Bookkeeping`: a request not yet dispatched has no answer, and a destroyed queue
is empty, so that the worker's last loop answers nobody a second time. Two lemmas
on sequences carry the bookkeeping of list and stream. The assumption is that the
placeholders for "unknown node" and "not dispatched" are not node ids.

`ClientConnectionProofs` proves, for any receivers, msgids, messages and timeouts and
for both builds, `WakeupsAreNotLost`, `WaitsEndInTime` and `NobodyGivesUpEarly` (an
action property, `NeverEarly`). The conjunction of type invariant, `NoLostWakeup` and
`DeadlineKept` is inductive: a receiver decides to sleep under the mutex, with nothing
to take and a deadline computed from an age rounded down to milliseconds (`WaitEnds`
has the arithmetic).

It also proves that both builds implement a ByteFifo per msgid (`ConnectionIsStreams`).
`WritePuts`, `TakeGets` and `NothingHanded` say what each step of the code does to the
stream it concerns, and that it leaves the others alone; `StreamStep` puts them
together. In the queue build the stream is the recursive function `Concat`. What is
needed of it is shown by induction on the length of the queue: that a function
satisfying its definition exists and is unique (`ConcatDef`), that appending a message
appends its bytes (`ConcatAppend`), and that the first message is the front of the
bytes (`ConcatSplits`). The induction principle is the lemma `CountUp`, on sets of naturals
rather than on predicates, from the library's theorem that `<` is well-founded on the
naturals. The assumption is that the placeholders for "no result" and "timed out" are
not byte strings, and that narrowed lengths are not negative.

`SyncChannelProofs` proves, for any number of threads, sends and retries,
`SuccessesStayInOrder`, `NoEarlyThrow` and the refinement
`SendKeepsPromise`. The invariant says that a thread has at most one send without an
outcome (`OneAtATime`), that whatever is under way or stored belongs to a send that
has begun and whatever a server that knows the sender replied to is stored (`Delivery`), and that the shared
timer is never ahead of a send's own clock (`TimerBehind`), which is why sharing it can
delay a timeout but not bring it forward. The number of sends so far is counted as the
size of a set (`Sends`), so the types need a finite set of threads (`SendAssumption`).

`ChannelConfigProofs` proves, for any set of ids and documents, `NodesAgree`,
`RoutesAlwaysMeet`, `PeersAreNotIsolated` and `AnswerStandsIn`. The invariant says of
every open channel that its peers are those the parsed policy gives its node and that
all its proxies could be set up, and of GetPolicy's answer what it consists of. The
routes need one more fact: the CA that `parse` keeps and those `parse_node_info` keeps
are one (`SameRoot`). `NamesTellApart` is about `FilterIllChar` and the names alone: for one node,
different tasks have different servants unless filtering makes their ids equal, as the
comment at `core/src/base_client.cc:77` wants it, and so have the nodes of one task.

`TcpChannelProofs` proves, for any threads, channels and kinds of list, `ListsStay` and
`ListsAreFreed`. The invariant adds what a thread knows while it holds a list's mutex
(`Locked`), that the maps hold lists of their own channel (`MapsAreSound`), and that
calls are made on channels that exist and have returned when the process ends
(`CallsAreCurrent`).

`PyChannelProofs` proves, for any programs, threads, processes and links between them,
`NothingAckedIsLost` and `PythonSeesOrder`. The order needs an invariant on the whole
way of a message: before it come, in the queue, in the hands of a `Recv` or at Python,
all acknowledged messages of its thread on its link (`Ordered`). It is preserved
because only the holder of the interpreter lock is inside a call (`Control`), so that a
message in hand is delivered before the next is taken.

The type invariant of each module is a theorem as well (`RingTypes`, `InitTypes`,
`QueueTypes`, `QueuesKeepTheirKind`, `SendTypesHold`, `DocumentTypes`, `MapTypes`); that
of `PyChannel` (`Types`) is part of its invariant.

Only model-checked: all liveness (`RecvReturns`, `AcceptedIsStored`, `WorkerStops`,
`SendEnds`, `AllComeUp`, `CallsReturn`). It rests on fairness, hence on ENABLED, which
the prover cannot handle. Every invariant, action property and refinement that a passing
run checks is proved.

## Not modelled

JSON decoding, the contents of certificates and Ice properties, texts, VIA names, which
nothing dials; the generated stubs and Ice itself, whose calls return, throw, or do
their work late; the ring operations nobody calls (`peek`, `can_read()`, `can_remove`,
`reset`, `read(id, data)`) and the unused getters of `SimpleTimer`; the caller's buffer
in `recv`, which the queue build fills with a whole message whatever its length; a
second `create_channel` of a Python process while calls are under way (`TcpChannel` has
the second channel, `PyChannel` has one); the shutdown of Ice's communicators.
