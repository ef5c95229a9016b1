# miniROS in TLA+

miniROS is a small message broker in the manner of ROS: nodes connect to a broker over TCP, announce
which topics they publish and subscribe to, and the broker forwards what a publisher sends to the
subscribers. The repository has two generations of it. `testv2.0/` ("v2") is the current one: long-lived
connections, binary heads, several threads for each connection. `cpp/` ("v1") is the older one: one
connection and one text message for each request.

This directory models v2's broker and client, the format of their messages, v1's broker with the nodes
that use it, and the epoll echo server kept beside it; checks them with TLC and proves the safety of
v2's broker and client with TLAPS. All line numbers below are relative to `src/testv2.0/include/` unless
they say otherwise.

## 1. Inventory

### v2 broker (`server_*.h`, `src/serverv2.cpp`)

| component | state | operations | shared with |
|---|---|---|---|
| class `Topic` | `sub2name`, `pub2name` (number to names), `name2subANDpub` (name to two bit masks) | `pubTopic`, `subTopic`, `delTopic` (by name or `"all"`), `GetSubNodeSet` | every `ReadThread`, every `MsgCopyToNode`, `DelNode`; under `NameLock` |
| class `Broke`, register | `totalNode` (32 bits, one for each number in use), `index2nodeptr` | `AllocIndex`, `AddNode`, `DelNode`, `GetNodePtr` | every `ConnectThread` and retry thread |
| class `Node` (broker's) | `State`, `nodeIndex`, `IndexFlag`, `TimeOutflag`, deque `Message`, semaphore `Msg_Sem` | `SetState` (by table), `SetIndex`/`ResetIndex` (hand-over of a number with a 3 s limit), `SendData` and twins, `CloseWrite`, `WaitForSendMsg`, `GetTopMsg`, `WaitForClose` | its own three threads, copying threads |
| threads of a connection | program counters | `AccpetThread` starts `ConnectThread`; that starts perhaps a retry thread, and `ReadThread` and `WriteThread`, then waits for the close and calls `DelNode` | |
| message handling | none of its own | `Broke::MsgHandler` in `ReadThread`: registration is answered, topic calls go to `Topic`, each data message starts a detached `MsgCopyToNode` | |
| main program | `KeepRunning` | starts the accepting thread, waits for SIGINT, deletes the broker | all |

### v2 client (`client_*.h`, `src/clientv2-*.cpp`)

| component | state | operations |
|---|---|---|
| class `Node` (client's) | `State`, `nodeIndex`, topic lists, send deque and semaphore, receive deque and condition variable | as the broker's, and `GetData`/`WaitForData` |
| class `MyNode` | the node, the client socket | `StartClient`, `Reg` (waits at most 10 s for the number), `AddSub`, `AddPub`, `DelTopic`, `SendData`, `WaitForData`, `MsgHandler`, destructor |
| threads | program counters | `ManageClient`, `ReadThread`, `WriteThread` |

### Connection

A message is an 8-byte head of one-byte fields (type, node number, length of the topic name, length of
the data, check code), the topic name and the data. `WriteThread` writes a message with one `write`,
`ReadThread` reads the head, then the announced number of bytes, then asserts the check code and calls
`MsgHandler`. Its buffer has 263 bytes (`server_head.h` 41), 8 for the head and 255 for the body, which
two length bytes can make twice as long.

### v1 (`cpp/`, with Python clients in `py/`, trial copies in `test-ros-cpp/`, `test-ros-py/`)

`Master` keeps a vector of nodes and a vector of queues. A server thread for each request calls
`AddNode`, `AddSub`, `AddPub` or `GetData`; the main thread polls `TransmitData`, which starts a
`sendThread` for each queue with data, which starts one thread for each subscriber. The locks are taken
with `try_lock` and the result is ignored. `RosNode` opens a connection for each request, and receives
data on a server socket of its own, one connection for each datum.

### Epoll experiments (`cpp/server-epoll.cpp`, `cpp/client-epoll.cpp`)

An echo server of one thread and one buffer for all connections, and a client with one buffer for both
directions. State: which event each descriptor is registered for, and the buffers.

### What is hard

* **Interleaving.** Three to four threads for each connection and one for each data message; several
  locks, each held for one call only.
* **Reuse of numbers.** A node number is a bit in masks all over the broker. It is given back by one
  thread while others hold a mask or a number they read before.
* **Hand-over with a timeout.** When all 32 numbers are taken, a retry thread and a timed wait race for
  one node.
* **Shut-down.** A hang-up reaches the reader; the writer is told by state and semaphore, the connecting
  thread by a condition variable; `SetState` ignores wrong transitions silently.
* **Streams.** Short reads, an end in the middle of a message, lengths that do not fit a byte or the
  buffer.
* **Lost and spurious wakeups** in the client's receive queue, which waits without a predicate.
* **A client's start and end.** Four threads and the program set one state; `Reg` waits at most ten
  seconds; `~MyNode` may come before the threads have started or while they write.
* **Locks that lock nothing** in v1, where each request has a thread, and the order of a node's requests
  is the order in which those threads run.
* **Tables and buffers of a fixed length** that nothing looks at: v1's two tables, the reader's buffer
  of v2, the echo programs' buffers, which a read may fill without leaving a zero for `strlen`.
* **One buffer for several connections** in the echo server.

What makes each component correct: the three maps of `Topic` agree and a topic has one publisher; no
number speaks for two connections, none is lost, the register and the nodes agree, every connection that
ends is removed; the writer sends every message once and in order, never takes from an empty queue and
stops after the close; a freed number carries no topics, data reaches the subscribers, each at most
once, and overtakes only what is still being copied; a message is read as it was composed; a client uses
the number it was given, its lists agree with the broker's table, its threads end, and it writes what it
was given; v1's tables agree, a queue has one sender and keeps nothing from a subscriber; an echo is
what was typed. `PROJECT.json` lists every hazard at its line, and every component with what is left out
of it.

## 2. Modules

```
   TopicTable    NodeTable    Outbox <--implements-- SendQueue      ClientNode       Wire
        \            |           .                   (broker)       (client)   (client -> broker)
         \           |          .  used as
          +------- Broker ......                                    Master        EpollEcho
                                                                     (v1)     (echo server, clients)
```

Each module has one action for each operation or atomic section, named after the source. An operator
that says "A faulty ..." is a plausible bug, used to see that a property notices it; no specification
uses one. `MC*` modules give the constants their values.

**TopicTable** is `Topic` (`server_class_define.h` 36-113, 205-211). A bit mask is the set of the
numbers whose bits are set; `name2subANDpub` is its key set and two functions. Every public method but
`printAll` holds `NameLock` from its first line to its last, so a method is one step. `delTopic("all")`
finds the masks to clear through the maps by number, as the code does, so it only works as long as the
three maps agree: that is `Consistent`. Printing is left out, `printAll`, which `MsgHandler` calls after
every topic request and which takes no lock, included.

**NodeTable** is the register and the life of connections (`ConnectThread`, retry thread,
`Node::SetState`, `SetIndex`, `ResetIndex`, `AllocIndex`, `AddNode`, `DelNode`). Number `i` stands for
the mask `1 << (i-1)`. A step ends where a thread gives up a lock that another thread takes. `SetState`
follows the code's transition table and does nothing for other transitions. The retry thread is modelled
as it is written: it gives up trying only with a number in hand.

**SendQueue** is one node's deque, semaphore, writer and closing reader. `SemInit` is what the semaphore
may hold at first, `{0}` since the broker's constructor calls `sem_init`. The client has the same code
without that call; `ClientNode` has it with the rest of the client.

**Outbox** is what a send queue promises: messages can be put in, they are sent in order until the node
is closed. `SendQueue` implements it under the mapping at the end of that module: a message counts as
sent when the writer, having looked at the state, is committed to it.

**Broker** composes `NodeTable` and `TopicTable` (both by `INSTANCE`) with an outbox for each
connection, `MsgHandler` and the copying threads. `Delete` is the whole of `DelNode`: topics, bit, map
entry. `Lookup` and `CopyOne` are the two halves of `MsgCopyToNode`.

**ClientNode** is a client process: the program (`App`), which makes the calls of `MyNode` in any order
between `StartClient` and `delete`; `ManageClient`, `ReadThread` and `WriteThread`, whose program
counters are `mt`, `rd` and `wt`; and the connection. A step of a thread is a method of the client's
`Node`, which locks for its own length. `SetState` follows the table and drops the rest. What no
constructor sets may hold anything: `nodeIndex` (`IndexInit`) and `Msg_Sem` (`SemInit`, with `leftover`
remembering it). A failed assertion, the front of an empty deque, and SIGPIPE end the process
(`crashed`). The broker is the peer, as `Broke::MsgHandler` treats one client: it files requests under
the number they carry, may refuse a publication without an answer, sends data while there is a
subscription, and may be gone. It may also never get to the client's requests: while all numbers stay
taken there is no `ReadThread` for the connection, and the retry thread keeps the socket open
(`server_thread.h` 51-64); then `served` is false. `WaitForData` may wake without a notification
(`WakeUnasked`). The reader tests the state twice before it reads (`client_thread.h` 30 and 36): closed
in between, or with the end of the file inside a body, it goes on to an assertion over a buffer that was
not read (`ReadUnwritten`, `ReadCut`). `halved`, `refused`, `gaveUp`, `unasked`, `arrived` and `taken`
are history.

**Master** is v1: requests of the nodes (`Prog` says what each node does), one server thread for each
(`at` is how far it is, `idx` its local variable), the main thread's `TransmitData`, `sendThread`s and,
inside them, the threads for each subscriber. The mutexes are not in the model: `try_lock` without a
look at its result excludes nobody, and an `unlock` by a thread that does not hold the mutex frees it
for others. A read before the first element of `nodes`, or an `index` that was never set and is no
queue, ends the run (`Undefined`); an `index` that happens to be a queue is followed. So does a write
past the end of a table (`Beyond`): nothing compares `num_node` and `num_mq` with the 100 entries of
each, and two requests that race count one entry twice, so that a counter may be larger than the table.
A request is lost when its descriptor is closed twice (`CloseAgain`).

**EpollEcho** is the echo server and its clients, one action for each handler of an event. A buffer is
what `strlen` sees of it, so a short line read over a long one keeps the tail of the long one. A `read`
takes `MAXSIZE` bytes at most (`Taken`) and may fill the buffer, so that no zero is left in it. `strlen`
then goes on behind it and what it finds before a zero is written too (`Text`, with `Behind` for what
may lie there); `overrun` remembers the connections this has happened to.

**Wire** is a connection as a stream of bytes: `Compose` is the head that `MyNode` makes, `Write` the
writer, `Arrive` the network, the rest `ReadThread`. A string is its length and the number of one bits
in each byte, a byte of the stream is its position. What the code computes from a head or body that it
does not have whole is any value, since it reads uninitialised or overwritten memory. Every `read`
writes to the beginning of its part of the buffer; one that asks for the rest of a head or a body
therefore overwrites what is there, which `torn` remembers. A body that goes beyond the room behind the
head (`BodyRoom`), by what is read or by what the check code is computed over, takes the reader to the
place `overrun`, and the model ends there.

### Abstractions

* *Honest clients.* `Broker` has every request carry the number of the connection it comes on, as the v2
  client does once it is registered. The broker itself does not check it.
* The node's own topic lists in the broker are written and never read; they are left out.
* The heartbeat case of `MsgHandler` is left out of `Broker` and `ClientNode`: no client sends a
  heartbeat.
* `GetNodePtr` and the `SendData` that follows are one step of `CopyOne`. If the node is deleted in
  between it was closed before, and its writer sends nothing that is queued after the close
  (`QuietAfterClose`), so nothing that can be observed differs.
* A deleted node's queue is emptied in `Delete`: it goes with the last `shared_ptr`.
* A condition variable wakes a waiting thread when notified, and `WaitForData`, which has no predicate,
  at any moment too. The waits with a predicate look at it again, so that waking more often changes
  nothing.
* A connection is accepted once. A peer that comes back is another connection, as it is for the broker.
* Signals and file descriptors are in the models only where they change what happens: SIGPIPE in
  `ClientNode` and `EpollEcho`, the double close in `Master`. The text of printing is nowhere.
* What happens after undefined behaviour is not followed: `Broker` and `SendQueue` have none,
  `ClientNode` ends in `crashed`, `Master` with `alive` false, `Wire`'s reader in `overrun`. Only
  `EpollEcho` goes on, with what lies behind a full buffer written too: on the stack `strlen` meets a
  zero sooner or later.
* A data race of two pushes to one `std::queue` in `Master` loses one of them at most; a push and a pop
  at the same moment are taken to be one after the other.

## 3. Runs

| run | instance | what it shows |
|---|---|---|
| `topic_table` | 3 numbers, 2 names, one of them `"all"` | `Consistent`, `SinglePublisher`, `NoTakeover` (no call moves a topic to another publisher), `OthersUntouched` (a call changes nothing of other nodes, even a `delTopic` of the topic called `"all"`) |
| `node_table` | 4 connections, 2 numbers, fair threads | `IndexUnique`, `MapAgrees`, `TimedOutHasNoIndex`, `NeverStuck`, `Accounted`; `Released`: whoever waits for a number is served or gone in the end |
| `send_queue` | 4 pushes of 2 messages, fair threads | `ImplementsOutbox`, with the liveness of `Outbox`: messages are sent in order, each once, all of them while the node is open and none after; `WriterStops` |
| `broker` | 3 connections, 2 numbers, 1 topic, 1 message, symmetric | `RowsHaveNodes` (a number is never given out again with old topics), `AtMostOnce` |
| `broker_live` | 2 connections, 2 numbers, 2 messages, fair threads | `Forwarded`: whoever is on a copying thread's list gets the message or has hung up; `OvertakesOnlyInFlight`: a message overtakes another only while both have a copying thread |
| `client` | 3 calls, 2 data, 1 topic, 1 second for `Reg`, numbers 0 and 2 and a count of 1 left over in memory, fair threads, a broker that serves the client or does not | `OwnNumberUnlessGivenUp`, `CrashExplained` (the list of reasons for which the process may end by itself is complete), `ReplyAccepted`, `ListsAgree` (with the broker's table, but for two exceptions that are named), `InOrder`; `ThreadsStop`, `EverythingWritten` |
| `master` | a publisher that registers twice, a node that publishes another topic, wants to publish the first too and subscribes to it, 2 data, 2 connections open at once, tables of 2, fair broker | `TablesAgree`, `OneSender`, `SentInOrder`, `AudienceServed`, `SavedWhereItBelongs`; `NothingStranded` |
| `epoll` | 2 clients, one of them with 2 lines, the second of which fills its buffer, buffers of 3 | `EchoUnlessOverlap`, `PrintsWhatWasTyped`, `SentOnce`; `EchoComes` |
| `wire` | 2 messages out of 24, bytes of 16 values, masks of 8 bits, a head of 3 and a buffer of 18 bytes, cuts behind the first byte of a head or a body | `RoundTrip`, `CodeIsOnesModulo`, `FailureExplained`, `EverythingHandled` |

Runs that are expected to end with a counterexample; each shows a disagreement between the code and what
a comment, assertion or program of the repository says:

| run | property | the counterexample |
|---|---|---|
| `broker_reuse` | `OnlySubscribersServed` | a subscriber leaves while `MsgCopyToNode` works on its set of numbers; a new connection gets the number, and the message |
| `client_lost` | `WaitReturns` | the answer comes between `SendData` and `WaitForData`; the notification is lost and the program waits with the answer in its queue |
| `wire_short` | `CheckCodeMatches` | a head that arrives in two pieces: the second `read` writes over the first piece, the broker parses a head nobody sent and its assertion fails |

The type invariant of a module is checked where it is not proved (`master`, `epoll`, `wire`). What is
proved for every instance and adds little to the properties of a run is not checked there again:
`NeverPopsEmpty`, `InOrder` and `QuietAfterClose` of `SendQueue`, `AddNeverRefused` of `NodeTable`
(whose refusal branch is dead code), `NeverTakesEmpty` of `ClientNode`, and the other type invariants.

The passing properties also bound other weaknesses precisely. `Accounted` says that a node number is
lost in one way only: to the retry thread of a connection that has timed out, which takes a number,
learns from `SetIndex` that it is too late and does not give it back. `FailureExplained` says that the
broker's assertion fails for four reasons only: a string of 256 bytes or more, whose length is cut to a
byte while the check code covers all of it; two strings that are together longer than the buffer, of
which the assertion reads, or `read` writes, what is not the buffer's; a peer that is gone between the
head and the end of the body, because the assertion stands before the test of `MsgFlag`; or a read that
has overwritten a part of a message. The buffer is overrun for the first two of these and the last. All
of it happens in the run.

The properties of `client` and `master` are conditional on purpose. `CrashExplained` says that the
undefined behaviour of the client comes from its uninitialised semaphore, from `Reg` giving up without
telling its caller, from a wakeup of `WaitForData` that nobody asked for, or from the end of the
connection, and from nowhere else; its mutant shows that this is not so by itself. `ListsAgree` names
the two ways in which the client's lists differ from the broker's table: a publication that was refused,
and a `DelTopic` of a name that is in both lists. `TablesAgree` says that v1's tables break only when
two requests overlap in the table calls, so that one missing lock is the whole cause;
`SavedWhereItBelongs` says the same of data saved in the wrong queue. `EchoUnlessOverlap` and
`PrintsWhatWasTyped` say that sharing one buffer, typing ahead and a full buffer are the only ways to a
wrong echo. All the exceptions happen in the runs.

### Bounds

* `node_table`: with more connections than numbers, several retry threads compete with each other, with
  an accept and with departures; two numbers let "lowest free" and "another's number" differ. One topic
  more or one number more adds no new kind of contest: all sharing goes by number.
* `topic_table`: two names are what a call can confuse, three numbers allow a publisher, a second one
  and a bystander.
* `broker`: three connections are a publisher, a subscriber that leaves and a newcomer that gets its
  number. Two data messages (in `broker_live`) are what an order needs. Connections are interchangeable
  in `Init` and `Next`, so the symmetry set is sound; the liveness run does not use it.
* `send_queue`: four pushes let the deque fill and drain twice around the close.
* `wire`: 256 values of a byte and 32 bits of a mask are scaled to 16 and 8, and the buffer to a head
  and the 15 bytes that one length byte can say, as in the code. What matters is kept: a byte holds
  every bit position, a byte wraps after more shifts than a mask has bits, there are strings of length
  0, 3, 15 (the largest that fits) and 17 (does not fit), two that fit alone and not together, check
  codes that wrap once and more often. The network may cut a head or a body behind its first byte, in
  the code anywhere (`CutAt`; in `wire_short`, with bytes of 4 values and a buffer of 6, behind any).
  What is made of bytes that are no head is one of two heads (`StrayHeads`), one without a body and one
  too long for the buffer; in `wire_short` any. The run has 470,975 states.
* `client`: three calls are a publication, a subscription of the same name and its withdrawal, or two
  sends and a wait; two data let one wait be in vain. `MaxTries` is the code's 10, and only that it can
  run out matters. One topic is enough, since the calls for different topics do not meet. The run has
  1,089,653 states.
* `master`: two nodes are a publisher, a subscriber, and a second candidate for the publication. Two
  open connections at once are what every race between two requests needs; three would only add races of
  three. The tables have 2 entries where the code has 100, which is what the requests need when none of
  them race. The run has 316,037 states.
* `epoll`: lines of different lengths, so that a short one is read over a long one, and one that fills
  the buffer; the client's buffer holds nothing at first, or all but the last byte is used. Behind a
  full buffer there is one byte, which is enough to be neither what was typed nor what fits the next
  read.
* `MaxPush`, `MaxData`, `MaxCalls`, `MaxThreads`, `Lines` and the `Conn` sets bound histories only; all
  others are the code's own. Deadlock is not checked because with these bounds, and when all connections
  are gone, the systems do stop; that no thread waits for ever is stated by the liveness properties.

### Fairness

Weak fairness of each action of a thread: the threads are operating-system threads, run whenever they
can, and hold locks only for a call. `ResetTimeout` is fair because it stands for the 3 seconds passing.
Not fair: connecting, hanging up, sending requests (the peers' choice), and `RetryAlloc`, which may find
all numbers taken each time it looks. In `Wire` only the reader is fair, and the liveness property
starts from the hang-up. In `ClientNode` the threads are fair, so are `Reg` (its seconds pass), a woken
`WaitForData` and `~Client`, and the broker closes once its `ReadThread` has read the client's FIN. It
has one only if it got the client a number: `ThreadsStop` says nothing of a client that is not `served`
and whose broker stays there, for such a connection nothing need ever close. The program's calls and the
broker's data are not. In `Master` the broker as a whole is fair: each of its threads ends, and the main
thread never stops looking. In `EpollEcho` the two loops handle what `epoll_wait` reports; nobody has to
type.

## 4. Proofs

| module | theorems |
|---|---|
| `TopicTableProofs` | `TypeCorrect`, `AlwaysConsistent`, `AlwaysSinglePublisher`, `NeverTakenOver`, `CallsStayApart` |
| `NodeTableProofs` | `TypeCorrect`, `NumbersUnique`, `MapFaithful`, `NumbersAccounted`, `NeverRefused`, `TimeoutExcludesNumber`, `CloseIsAwaitable` |
| `SendQueueProofs` | `TypeCorrect`, `PopSafe`, `WrittenInOrder`, `ClosedIsQuiet`, `OutboxImplemented` |
| `BrokerProofs` | `UsesNodeTable`, `UsesTopicTable`, `RegisterInvariant`, `NoStaleRows`, `OnePublisherEach`, `TypeCorrect`, `DeliveredOnce`, `OvertakingBounded` |
| `ClientNodeProofs` | `TypeCorrect`, `NumberIsOwn`, `CrashesExplained`, `TakeSafe`, `DeliveredInOrder`, `ReplyTaken`, `ListsInStep` |
| `WireProofs` | `TypeCorrect`, `CodeIsOnes`, `RoundTripHolds`, `FailureIsExplained` |
| `MasterProofs` | `AlwaysOneSender`, `TypeCorrect`, `TablesSuffice`, `EveryoneServed`, `TablesAlwaysAgree`, `AlwaysSavedWhereItBelongs`, `AlwaysInOrder` |
| `EpollEchoProofs` | `TypeCorrect`, `EchoIsOwn`, `PrintsTyped`, `SentIsOnce` |

They hold for every value of the constants that satisfies the modules' named assumptions. Two things are
assumed beyond these: `SemInit = {0}` in `PopSafe` and what follows from it, which is the broker's
`sem_init`; and `LongEnough` in `TablesSuffice`, which is what that theorem is about. The named
assumptions say no more than the code needs: a byte has more values than a mask has bits, a reader's
buffer has room for a head, a buffer of the echo programs holds something, the nodes of v1 are finitely
many and make finitely many requests. Nothing is assumed of the length of v1's tables or of the
messages, of the pieces in which the network delivers them, of lines that leave room for a zero, or of
wakeups: where the code does wrong on them, the property says so.

*TopicTable.* `TypeOK /\ Consistent` is inductive. `SinglePublisher` needs `Consistent`: the test in
`pubTopic` is on the mask by name, while a row by number left over would make a second publisher.

*NodeTable.* None of the invariants is inductive alone. The inductive one is the conjunction of
`TypeOK`; `Threads` (where the threads of one connection can be together, and its node's state and flags
then: for instance, a retry thread is at work only while its node has no number and waits for one or has
timed out); `IndexUnique`, which counts the number in a retry thread's hand as well; `MapAgrees`;
`MapLive` (an entry's thread is past `AddNode` and before `DelNode`); and `Accounted`. `AddNeverRefused`
follows from `MapAgrees`, `MapLive` and `IndexUnique`: another node in the map under my number would own
it too. `NeverStuck` and `TimedOutHasNoIndex` follow from `Threads`.

*SendQueue.* The invariant counts tokens: the semaphore and what the writer has already taken from it
equal the length of the deque, plus one after the closing post. So the writer that passed the state
check has a message to take. `OutboxImplemented` maps every step to a step of `Outbox` or a stutter.

*Broker.* Every step of the broker is a step of the register or leaves it alone (`UsesNodeTable`), so
that the register's invariant is cited from `NodeTableProofs`, instantiated, and holds of the broker.
`RowsHaveNodes` is inductive relative to it: topics are only entered by an online node for its own
number, which the map leads back to it by `MapAgrees`, and only `Delete` frees a number, together with
its topics.

`OnePublisherEach` carries `SinglePublisher` over from `TopicTableProofs` in the same way.
`DeliveredOnce` and `OvertakingBounded` share one picture: what a connection was or will be sent,
`written[c] \o Message[c]`, is only ever extended at its end, and only by the copying thread of the
message (`OutSteps`). For `DeliveredOnce` the invariant says that a connection holding message `d` has a
number that is no longer on `d`'s list: the numbers on the list are taken in ascending order, and a
connection keeps its number until it is deleted. For `OvertakingBounded` it says that a message with a
finished thread is never queued again, so whatever is queued after it cannot be in its past.

*ClientNode.* Three invariants. *Numbered*: the number is set before the state, so whoever sees `online`
sees the number; with *Known* (the program gets past `Reg` only then, or gave up) and *Carried* it gives
`NumberIsOwn`. *Counted*: until the writer has ended, the semaphore and what the writer has taken off it
equal the length of the queue, the reader's closing post and what the semaphore held at first; so the
writer meets an empty queue only if one of the last two is not zero, and by *Closing* the reader posts
only when the node is closed. With `Known`, that is `CrashesExplained`. `TakeSafe` (`NeverTakesEmpty`:
whoever a notification woke finds a message) and `DeliveredInOrder` rest on `DataSteps`: only the reader
appends and only the program takes.

For `ReplyAccepted` there is at most one request for a number, and its answer, in the queue, on the way
and with the reader together (`OneRequest`), and none before the writer, which alone makes the node
connected, has started (`Started`, `AfterStart`). For `ListsAgree` the requests on the way and in the
queue are one list, `Due`: the last one in it about a name decides what the broker's table will say of
that name, and where there is none, the two sides agree already (`Agree`). A step of the writer then
moves a request within `Due`, and changes nothing.

*Wire.* The conversions are recursive functions over the bits of a mask or the bytes of a text, and the
prover has no induction scheme that can be applied to them. What replaces it is that the finite subsets
of `Nat` are well-founded under inclusion, which the library has as a theorem about sets: a set of
naturals has a least member (`LeastNat`), so a set that holds 0 and is closed under successor holds all
(`SetInduction`). With that, `TypeCorrect` and `CodeIsOnes` follow the recursions. `RoundTripHolds` and
`FailureIsExplained` rest on `ReaderInv`: until a read has overwritten something (`torn`), whatever the
reader has taken off the stream is a whole number of messages, and perhaps a head and a beginning of a
body (`InHead`, `HeadRead`, `InBody`, `InCheck`), and a head or body that is whole is what the buffer
holds. No step undoes `torn`, which both properties name.

*Master.* `Sole`: only the main thread starts a `sendThread`, and it looks at `flag` first; only the
`sendThread` resets `flag`; no server thread touches it. This is the one place where v1 needs no lock.
The rest stands on it.

* `TypeOK` holds whatever the tables' length, since a write past their end is the end of the run.
  `TablesSuffice` says when there is none: if the tables have an entry for every registration, and for
  every subscription and publication. It needs the counters bounded although racing calls may count one
  slot twice: a counter grows only when a request is done, so it is at most the number of those that are
  (`Counted`).
* `AudienceServed` holds whatever races: the sender's datum is the front of its queue, which nobody else
  pops, and whoever was subscribed when it came has been sent it or is at an index still in `todo`
  (`Serving`), where appending another subscriber leaves it (`Grows`).
* `TablesAgree` holds until two table calls overlap (`raced`), so its invariant `TableInv` is about
  states with one such call at most (`One`): the slot or queue it has written and not counted is full
  (`FilledSlots`, `FilledQueues`), the others behind the counters are empty, and what its search found
  is still so when it writes (`Found`).
* `SavedWhereItBelongs` adds that a publication that was granted has a queue that says so (`Granted`),
  and that a set `savedataflag` belongs to a datum of that queue's topic that is being saved
  (`Claimed`).
* `SentInOrder`: what a queue holds is the end of what was put into it (`InQueue`); what a node was sent
  from it has left it, or is its front, with the node no longer in `todo` (`AllBehind`). That a node is
  not twice in `todo` is `Once` with `NamesAgree`, and that is why the property is about runs without a
  race: after one, a node may have two slots, and be sent everything twice.

*EpollEcho.* A byte that was typed is a client and a position. `Ring` says for each client where its
bytes can be at all; `Owned`, that without an overlap the server's buffer is that of the one connection
registered for output; `Phase` and `Whole`, that a client that does not type ahead has its whole line in
one of four places, from the keyboard to the screen; `OnceInv`, that a byte is in one place, at one
position of it. These are about the connections that nothing of their own has taken past the end of a
buffer (`overrun`, which never shrinks: `OverrunStays`).

Only model-checked is the liveness: `Released`, `WriterStops`, `EverythingHandled`, `Forwarded`,
`ThreadsStop`, `EverythingWritten`, `NothingStranded`, `EchoComes`, and of `ImplementsOutbox` the
fairness; the prover cannot reason about fairness. Every invariant and every action property of the
passing runs is the subject of a theorem.

## 5. Not modelled, and what is left

* `MiniRos`, client, network and broker end to end: `ClientNode` has the broker's answers to one client
  and `Broker` the clients' requests, so a composition would check again what each assumes of the other,
  with a state space out of proportion to it.
* The heartbeats, which the broker answers and no client sends, and so the peer that disappears without
  closing (`testv2.0/README.md` 3 promises to notice it).
* `serverv2.cpp`'s main and the deletion of the broker and of `MyNode` under their detached threads:
  what these meet in freed memory is not defined.
* An abstract publish-subscribe specification: `TopicTable`'s properties say what it would say.
* `~Node` of the broker, `printIndex`, `printAll`, `ShowMQ`, `ShowNodes`: printing.
* The Python nodes, the `test-ros-*` copies (clients or drafts of v1 with no logic of their own),
  `copy-epoll.cpp` (the same server as `server-epoll.cpp`), the `mmap` and `sendfile` experiments
  (stand-alone input and output), and the drafts under `testv2.0/src/test`, which were read for what
  they say v2 is meant to do.
