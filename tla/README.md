# A TLA+ model of eltex-summer

The repository is a set of C programs written for a summer course: command-line
tools (module2), programs of several processes over IPC and sockets (module3),
router configurations (module4) and Linux kernel modules (module5). Every
directory is a program of its own; nothing is shared between them. The
verification therefore is one module (or a small family) for each program, and the effort
goes to the programs with processes that interleave, wait and are signalled.

Commands, in this directory:

    tlc -workers 2 -config SysV.cfg MCSysVProdCons
    tlapm SysVProofs.tla

`PROJECT.json` lists the runs, the theorems, the source lines every definition
models, the hazards, and for each checked property a mutant: a plausible bug, written next to
the definition it replaces, that makes the property fail.

## 1. Inventory

| Program | State | Operations | What is hard | Model |
|---|---|---|---|---|
| module3/04 producer/consumers, System V | list of blocks in shared memory, one semaphore, `used_memory`, `producer_finished` | write and link a block; check; find, take and process a block; create, fork, wait, clean up | check and take in two critical sections; leaving while the producer still links; a signal that ends the holder of the semaphore; `size_t` arithmetic on the memory left | ProducerConsumer, SysVProdCons |
| module3/05 the same over POSIX objects | the same, with names that outlive the processes | the same | unlinking does not wake those who wait; `O_CREAT` takes over a semaphore left down | ProducerConsumer, PosixProdCons |
| module3/03 chat over POSIX queues | two bounded priority queues, two names, `is_creator`, `should_exit` | open or join, read all messages, send a line, exit, clean up, SIGINT handler | opening and unlinking two names in two steps; mutual blocking of two senders; EXIT overtaking lines; a handler at any instruction | MqChat |
| module3/02 publish/subscribe broker | one bounded queue for all directions, tables of subscriptions and publishers | subscribe, register, send, receive, shutdown by signals | the broker sends to the queue it reads; clients it does not know at shutdown | Broker |
| module3/cross2 taxi dispatcher | table of drivers, one connection per request, the driver's `busy_until` | create, task, status, list, exit; the driver's loop | a time-out and the late answer; zombies; a full table; waiting for a driver that was never told | Taxi |
| module3/01 file copy through pipes | two pipes, a byte stream with headers, data and END, ACKs | send a file, receive a file, acknowledge | framing by timing; data that look like the protocol; waiting for an ACK that will not come | PipeCopy |
| module3/07 TCP chat with files | client table, one FileReceiver, an edge-triggered epoll; each client's static receiver | accept, join, text, file parts, list, get, disconnect, shutdown | one read per event; a broadcast that removes clients while it walks the table; `send_all` that spins on a full socket; SIGPIPE; two uploads at once | TcpChat, TcpFiles |
| module3/cross1 echo server on raw UDP | slots with counters | number a message, close, checksum | lost and late CLOSE; every raw socket sees every datagram; odd-length checksum | UdpChecksum, EchoServer |
| module2/4_3 phone book | binary tree, operation counter | insert, delete, edit, balance | deletion with two children; equal names; a name edited in place | PhoneBook |
| module5/06 firewall | table of blocked addresses, its length | add, del, clear; the packet hook; loading and unloading | the hook walks the table while a write shifts it, without a lock | Firewall |
| module5 procmod, kbleds, chardev | a buffer each | read, write, timer | | not modelled, see section 5 |
| module3/06, module3/08, module2/6_3, module5 hello and netlink | next to none | | sequential, printing or floating point | not modelled, see section 5 |
| module4 | configurations | | no program | not modelled |

The properties that make each modelled program correct are in section 3, next to
the run that checks them. The hazards, each at its source line, are in
`PROJECT.json`.

## 2. Modules and the code

**ProducerConsumer** has the state and the steps of the child processes of
module3/04 and 05, whose producer.c and consumer.c are the same but for the
names of the semaphore calls. `nodes` is the linked list; a block keeps its
offset, its length and its `count`, the numbers in it are left out. Every
`semaphore_lock`, every `semaphore_unlock` and every access between them is a
step (`PLockLink`, `PLink`, `PUnlockLink`, `CLock`, `CScan`, ...), so it is the
semaphore in the model that keeps critical sections apart. `Remaining` is
`total_size - used_memory` modulo `SizeMod`, as `size_t` computes it. A block that would
end beyond the mapped pages makes the producer fault.

**SysVProdCons** (module3/04) and **PosixProdCons** (module3/05) add `main`: creation
of the objects with every failure, forks that fail midway, the waits, the
cleanup, and `signal_handler` in every process at every step. They differ in
what removal does: `IPC_RMID` makes every waiting `semop` fail (`SemFails`);
`sem_unlink` only removes the name. PosixProdCons starts from no semaphore, one left
up, or one left down.

**WorkPool** is what 04 and 05 promise, without processes, memory or a semaphore: blocks
are handed out in the order they were produced, each to one worker, who reports it once, and a
worker leaves by itself only from a closed, empty pool. The mapping is in
ProducerConsumer: `produced` is the length of the list, `taken` the number of nodes that are not full,
`hand` and `log` are the consumers' own, `closed` is
the producer's flag, `left` are the consumers that exited. `RefinesPool` is `WorkPool`'s specification under it.

**MqChat** (module3/03) has one `pc` per process. Each `mq_open` and `mq_unlink` is a
step; a queue is identified by its creator and number, so two processes may hold
different queues under one name. A queue is the number of its EXIT messages,
which come first, and the sequence of its lines. `Interrupt` is SIGINT at any
step, also in a blocked `mq_send`; the handler's calls are steps again.

**Broker** (module3/02) keeps one sequence of messages; `Oldest` is `msgrcv` with a type.
The broker takes a command (`BrokerReceive`), acts on it (`Handle`) and sends copies one
by one (`BrokerSend`), each of which waits for room; `found` are the entries of `subs` it has still to
send to (the code copies their process ids, and the table does not change meanwhile). Its handler signals the
clients in its tables one by one and removes the queue. The names that PipeCopy has too are
different here (`PubSubSpec`, `pubSubVars`), because one module holds the proofs of both.

**Taxi** (module3/cross2) keeps the dispatcher's one request at a time and, for every driver,
the connections it has not served. Connecting and sending is one step,
accepting and answering another: what can happen in between (a driver
that dies, a time-out) has the same effect before or after. `left` is the seconds until
`busy_until`. taxi.c and driver.c define `_POSIX_C_SOURCE` and nothing else, so `signal()`
installs a handler for one delivery and interrupted calls return: `Interrupt`
cuts `fgets`, `poll` and `waitpid` short, `Killed` is the second signal of a kind.

**PipeCopy** (module3/01) has the data pipe as a sequence of units (a header, a part of a
file, END). A read of the child takes what is there up to its buffer, whatever
writes it came from; `Looks` is what `strncmp` finds at its start. The child's read and what it
does with the buffer are one step, as nothing it shares with the parent is
looked at in between. `ReadFails` is a `read` of the file that fails, at any place in it: the parent's loop takes it for
the end of the file, as with a directory given as an argument. `total` is `total_bytes`, which counts what each `write` was given; what it stored may be
less, and `copy` has only that. A write to a pipe without a reader ends the parent (`killed`), and `TakeAcks` returns from a
closed pipe with nothing, which the parent takes for an ACK as the code does.

**PhoneBook** (module2/4_3) has the nodes on a heap, so that a pointer to a freed node, a shared
subtree and a lost one can be told apart. `insert`, `deleteNode`, `storeInOrder`,
`buildBalanced` are the recursive functions of contacts.c on that heap, and
each menu command is an action: `addContact` and `deleteContact` end in `Settle`,
which counts the operation and rebuilds the tree when it is due.
A number that `sscanf` does not find leaves `choice` as it was, or not initialised: any number
may be the choice, as in the model.

**TcpChat** (module3/07) has the server's event loop and the connections. A Message is two halves of the byte
stream, so that a `recv` may find less than one. `edge` says that a socket is on epoll's ready list. `EpollWait` moves the
listed sockets into `batch`, the entries of `events[]` not yet handled, and clears the list, so that an arrival between `epoll_wait` and `recv` makes
another event. Every event is one `accept` or one `recv`, which may find nothing (EAGAIN): `handle_client_message` takes that for the end
of the connection. Linux polls a listed socket again before it reports it and leaves out one with nothing to read; as that is not promised, the
model allows both. `accept` may return the descriptor of a socket that was closed while its event stood in `events[]`; the event is
then the new socket's. Two histories: `late`, something arrived while the socket was on the list already, and `spare`, an event may find
nothing in it, because a Message came in two segments or because of such a descriptor.
`broadcast_message` calls `remove_client`, which calls
`broadcast_message`: `stack` holds those calls, one turn of a loop is a step, and `signal_handler`
replaces the stack at any step. The states of a connection tell apart what `send` does next: it
succeeds, finds the socket full, fails (ECONNRESET), or raises SIGPIPE.

**TcpFiles** (module3/07) has the transfers: `receiver` is the server's one FileReceiver, `static` are
the static variables of each client's `receive_file`. The connections are FIFO streams; a client may die
with a part of its file unsent. Each Message carries its transfer and its place in it as a history, which no guard of
the code reads. It is a module of its own, as sockets and files meet only in the order
of the Messages, which both keep.

**UdpChecksum** has `udp_checksum` byte by byte, and what a receiver would compute (RFC 768).
**EchoServer** (module3/cross1) has the slots, the datagrams on their way, and clients that share a port or not. A
datagram is delivered, lost, or overtaken by any other. `since` counts the answers since the last CLOSE,
`clean` are the clients that met no trace of an earlier one on their port; both are histories.

**Firewall** (module5/06) has the writes of `firewall_write` store by store: an entry that `strcpy` is writing is `Torn`
and compares either way. Addresses fit their entries. The hook's test of `ip_count` and its comparison are two steps.
`listed` is what the completed commands should have left blocked.

**MCxxx** modules only give constants their values. **ProducerConsumerProofs** (what 04 and 05 share), **SysVProofs**,
**PosixProofs**, **MqChatProofs**, **IpcProofs** (pipe copy and broker), **TaxiProofs**, **TcpProofs** (chat and file transfers) and **PacketProofs** (echo server
and firewall) hold the proofs.

## 3. Runs

| Run | Configuration | Shows |
|---|---|---|
| sysv | SysV.cfg, 446 000 states | `MutualExclusion`, `ClaimedOnce` (a block is processed by one consumer, once), `ExitMeansDrained` (who leaves leaves nothing), `NoOverlap` (data read outside the semaphore are not being written), `HolderIsAlive` (a semaphore that is down will be posted), `CompleteRun`, `RefinesPool` (the program implements WorkPool), `Termination` (with any one signal and any failing fork, every process ends) |
| sysv_memory | SysVMemory.cfg, violation | see Findings |
| posix_prodcons | PosixProdCons.cfg, 466 000 states | `LostOnlyByKillOrLeftover` and `TerminatesUnlessLost`: the program hangs when a holder is killed, when it inherits a semaphore left down, or when the producer dies before it sets its flag, and in no other way |
| mq_chat | MqChat.cfg, 404 000 states | `Paired` (two chatting processes hold the two ends of the same queues), `NoMutualBlock`, `InOrder`, `NamesRemoved`, `SenderResumes`, `ExitIsSeen` |
| broker | Broker.cfg, 243 000 states | `LinesInOrder` (per publisher: none lost, repeated or overtaken once subscribed), `BrokerGoesOn` (the only way the broker hangs), `Shutdown` |
| taxi | Taxi.cfg, 248 000 states | `ReportedIsTaken`, `AvailableIsFinal` (late answers and late tasks do not spoil the next request), `ShutdownEnds` |
| pipe_copy | PipeCopy.cfg, 561 000 states | `AckedIsCopied` (an acknowledged copy is complete, whatever reads were joined and whatever read or write failed, unless data were taken for the protocol or a write was short), `EmptyAtAck` (the next header starts a read of its own), `EndsUnlessSpoiled` (the four ways the program hangs) |
| phone_book | PhoneBook.cfg, 110 000 states | `TreeSound` (no freed node is reached, none is linked twice, and the names are in order until one is edited), `AddKeepsAll` (also through a rebuild), `SimpleDelete` (which deletions are exact) |
| tcp_chat | TcpChat.cfg, 1 320 000 states | `BroadcastReachesAll` (nobody is sent a message twice, and when a client is skipped), `WaitingIsAnnounced` (what waits in a socket has an event to come, and the one exception), `LiveClientStays` (when a connected client may be removed), `ServerComesBack` (the only way the server hangs) |
| tcp_files | TcpFiles.cfg, 1 213 000 states | `UploadStoredWhole` and `CopyIsWhole` (which transfers arrive whole, at the server and at a client), `NothingLeftOpen` |
| echo_server | EchoServer.cfg, 1 584 000 states | `CountsSinceClose` (the slots are a map from addresses to counters, freed and reused in any order), `FreshClientCounts` (what a client may rely on), `OnlyEvenAnswersVerify` (exactly which datagrams carry a right checksum) |
| firewall | Firewall.cfg, 86 000 states | `TableIsWhatWasCommanded`, `HookIsRight` (a verdict is right unless an entry is removed meanwhile) |

`BrokerGoesOn` describes a real hang: `Stuck` is reachable. When publishers
and subscribers that still announce themselves fill the queue while the broker
distributes a line, the broker waits for room that only it could make.

### Findings

* **sysv_memory** (producer.c:17). The guard counts 12 + 4n bytes for a block, the account
  24 + 4n. `used_memory` can pass `total_size`, the unsigned difference wraps, and the
  producer goes on past its segment where it should say "no more memory, finished".
  The run uses the program's own sizes: 2048 bytes, blocks of 65 and 69 numbers.

The conditions in the passing properties mark further limits of the code:

* taxi.c:102: a driver is forked before a slot is looked for; with the table full it is in no
  slot and survives "Stopping all drivers..." (`ShutdownEnds` is about the dispatcher, which does not wait for it).
* taxi.c:130: `kill(pid, 0)` succeeds on a zombie and the dispatcher waits for no child
  before its end, so a dead driver keeps its slot (`Exists` in Taxi).
* process.c:138: what follows a header in the same read is dropped. Only `usleep(1000)` keeps them apart; when the
  child is late both processes wait for ever (`merged` in `EndsUnlessSpoiled`).
* process.c:141: `END` and `FILE:` are looked for in data too; a file that starts with `END` is
  acknowledged without being copied (`~mistaken` in `AckedIsCopied`).
* process.c:120, 168: a copy that cannot be created, or whose `write` fails, is never acknowledged, and both
  processes wait (`failed` in `EndsUnlessSpoiled`).
* process.c:168-175: `write` is tested for -1 only and `total_bytes` grows by what it was given, so a copy written short (a full disk) is
  acknowledged as a whole one (`short` in `AckedIsCopied`).
* process.c:50: a `read` that fails ends the loop as the end of the file does. The parent then waits for an ACK and the child for the
  rest of the announced size (`cut # 0` in `EndsUnlessSpoiled`).
* contacts.c:243: an edited name stays where it was and the list is out of order
  (`~renamed` in the third part of `TreeSound`).
* contacts.c:96: `*tree = *temp` copies the links of the successor over those of the
  deleted node, whose left subtree is lost (the conditions of `SimpleDelete`).
* contacts.c:338: the chosen node is searched for again by name; of two contacts with one
  name the upper one is deleted, and one with an edited name may not be found (the conditions of `SimpleDelete`).
* 07/server.c:335: one `recv` for each edge. A Message that arrives while its socket is on the ready list stays
  unread until the next one arrives; the same holds for a connection, and for a client's end (`late` in `WaitingIsAnnounced`).
* 07/server.c:337: `recv` returning -1 with EAGAIN removes the client, although it is connected. It takes an event whose data an earlier `recv` has
  taken: the second segment of a Message arrived between `epoll_wait` and `recv` (`spare` in `LiveClientStays`).
* 07/server.c:324: a broadcast that fails removes a client and broadcasts the removal; if that inner broadcast removes a client
  the outer one has passed, the outer one skips a client (the exception in `BroadcastReachesAll`).
* 07/server.c, `send_all`: the server spins on a full socket, the client blocks in its own `send_all` and does not
  read: both wait (`Jam`). A second send to a client whose connection was reset raises SIGPIPE, which
  ends the server (`ServerEnds`).
* 07/server.c:115: two uploads at once close each other's file, and an upload that its client abandoned swallows the next one
  of that name (`alone` in `UploadStoredWhole`).
* cross1/checksum.c:49: the last byte of an odd payload is not summed; and cross1/client.c:85 sums a zero source
  address. Nothing in the program checks a checksum, so neither is noticed (`OnlyEvenAnswersVerify`).
* cross1/server.c:151: a CLOSE that is lost leaves the slot taken, a late one resets the
  count of the next client on that port (`clean` in `FreshClientCounts`).
* firewall.c: while `del` or `clear` is at work the hook may let a blocked packet pass or drop another (`shrunk` in `HookIsRight`).

### Bounds

* Producer and consumers: two consumers, because the hazards are between the
  producer and a consumer and between two consumers; a segment of 352 bytes takes
  three blocks of 20 or 23 numbers (the second length makes the miscounted
  headers matter); a batch of two, so that the producer waits and goes on; one
  signal, to any process. `MappedSize` and `SizeMod` stand for the page and 2^64.
* Chat: capacity 3 is the smallest for which `NoMutualBlock` holds (the program has 10);
  four lines per process fill a queue and leave one more to wait. SIGINT is not bounded.
* Broker: room for two messages, so that it fills; two lines; a table of
  subscriptions with one entry less than asked for, so that a subscriber is not
  entered; one subscriber names its topic twice.
* Taxi: two drivers, two user requests (a scan makes more), tasks of 0 or 1 second, two
  signals; a given-up request and a later one fill a backlog.
* Pipe copy: three files of up to four units; a chunk of three, a read of two and room for four units keep the
  order of the real sizes (4096, 4095 and 65536) and make a chunk take two reads, alone or with its header.
  Contents are chosen to hold `END` and `FILE:` at the start of a read, inside one, and nowhere.
* Phone book: five nodes, which hold every case of `deleteNode`, the successor being the right child
  or deeper; three names, so that equal ones are on both sides; a rebuild after six
  operations instead of ten. The addresses are symmetric.
* TCP chat: three clients, because skipping one in a broadcast takes a removed one before it and the
  skipped one after; tables of one, so that clients are refused and a place is taken again, and of three. A client's socket holds one Message, the server's two,
  and an upload is three, so that the jam is reached. Of commands and clients that end there are two in all, at most one a command; a Message in two
  segments is the last event. Each exception of the four properties is reached within these bounds.
* File transfers: two clients, two names and one that cannot be created, files of zero to two chunks, two
  transfers: enough for interleaved, repeated and abandoned ones.
* Echo server: three clients, two on one port; tables of one and two slots, so that one is full and slots
  are freed out of order; three lines; texts of odd and even length whose sums carry.
* Firewall: four addresses and a table of three, which is filled and shifted from every position.

### Fairness

Safety runs need none. In SysVProdCons and PosixProdCons `main` is weakly fair and each child
strongly fair: `semop` serves waiters in the order they came, and in the POSIX
program every loop sleeps outside the semaphore, so a waiter that can have it again and again gets it.
In MqChat, Broker, Taxi and PipeCopy each process is weakly fair (a failing call is a choice within a step, so fairness does not exclude it); nobody is obliged to type
or to send a signal (`Line`, `TypeLine`, `Quit`, `Ask`, `Interrupt` are not in the fairness
conditions). In TcpChat the server's one thread, and the sending and reading of each client,
are weakly fair; typing, connecting and ending a client are not. A signal the broker has sent arrives (weak fairness of `Signalled`).
Deadlock checking is off where the system really may stop: when everyone has ended, or in a hang that a property
describes.

## 4. Proofs

All theorems hold for every value of the constants that satisfies the ASSUMEs,
which only say what the code does: at least one consumer, block lengths
that are positive, `SizeMod > TotalSize`; two different processes and a capacity of
three or more; client ports other than the server's; publishers that are not subscribers; tables with at least one entry; addresses
that are not the empty string; files that are sequences of `text`, `END` and `FILE:`; and bounds that are natural numbers.

**The list (ProducerConsumerProofs, SysVProofs).** The safety properties of 04 are not inductive: a
consumer about to take a block must know that the block is still full
(`CurIsFull`), a consumer that holds the semaphore after its scan must know that what it saw
still is so (`ScanIsCurrent`), a block in hand must match where the consumer is
(`HandMatchesPC`), the flag must be the producer's last write (`FinishedIsLast`), and the
disjointness of blocks needs the position of the next one (`BlocksBelowUsed`, `DraftFits`).
`PCInv` is the conjunction, and `ProcStepKeepsPCInv` shows that every step of a child keeps
it, whoever runs it. `SysVInv` adds what `main` knows (`NothingForked`, `NoAccident`,
`Reaped`). From it: `SysVTypeCorrect`, `SysVMutualExclusion`, `SysVClaimedOnce`,
`SysVExitMeansDrained`, `SysVMemory`, `SysVHolderIsAlive`, `SysVCompleteRun`.

**The chat (MqChatProofs).** `Paired` needs the whole history of opening: which names can lead to whom
(`NamesMatchRole`), what the ends of a creator and of a joiner are (`EndsMatchRole`), and that two processes never
both hold a queue 1 they created, even when one unlinks the other's name
late (`OneHolder`). `NoMutualBlock` rests on a count: `burst` is what a process sent since it saw its own queue empty; it is at
most 2 (`BurstSmall`), and of the two processes the one that saw its queue empty
last has in it at most what the other sent since (`Balanced`), so not both queues can hold three. That
balance starts when the joiner connects, for nobody could send to queue 1
before (`QuietBeforeJoin`). From `ChatInv`: `ChatTypeCorrect`, `ChatPaired`, `ChatNoMutualBlock`.
For `ChatInOrder` the printed lines and the queue are one sequence (`Flow`): the queue goes on where the printed lines stop, and while the
sender is in its loop both together are all it has sent. A queue 1 is used by nobody before its creator knows its role (`Unused`),
so no line of an earlier conversation is in it. For `ChatNamesRemoved` every name has an owner that still passes its `mq_unlink`
(`NamesAreOwned`), on each way out and with SIGINT at each step; the exception in the property is the one step at which it does not.

**The pool (ProducerConsumerProofs, SysVProofs, PosixProofs).** That 04 and 05 implement WorkPool needs more than `PCInv`: the full nodes are a suffix of the list
(`Fifo`), so that the first full one is the next to be handed out, and the consumer that has scanned holds that one (`CurIsFirst`);
no consumer exists before the producer does (`ProducerFirst`), so that the flag an earlier use of the memory may hold is not taken for the producer's. Every step of a child is
then a step of the pool or leaves it alone (`SysVRefinesPool`, `PosixRefinesPool`), with or without signals.

**The POSIX program (PosixProofs).** `PosixInv` takes `PCInv` over and adds `DownMeansHeld`: without a signal, and
unless it was found down, the semaphore is down only while somebody is inside. From it `PosixLostOnlyByKillOrLeftover` and
`PosixCompleteRun`.

**The echo server (PacketProofs).** `CountsSinceClose` is inductive with the type invariant, which says that what is on its way to
the server comes from a client's port. `AnswerKeeps` and `CloseKeeps` show that `find_client` and `remove_client` keep one slot for an address,
for any number of slots (`EchoCounts`). `EchoFreshClient` needs what is on its way: as long as a clean client is alone on its port
(`Alone`), every datagram from that port is its own line (`OwnLines`), the answers since the CLOSE and the requests not yet served are together no more
than the lines typed (`LinesCovered`), and the answers on their way and those printed have different numbers (`AnswersNew`, `PrintedOnce`). That
a client is clean when it starts rests on what is left of one that ended (`OffIsNew`, `GoneFresh`).

**The copy over pipes (IpcProofs).** As long as no data were taken for the protocol, `PipeInv` says what the pipe holds at each point of a transfer:
the header with everything sent after it (`HeaderWaits`), then the last parts sent, `total_bytes` being exactly what was taken out so far and the copy just that unless a
write was short, or less for good if a read dropped some (`PartsWait`, `CopyGrows`), then nothing, with the ACK on its way (`CopyIsDone`). A count that lost something, or a file that was not read to its end, stays behind for good, so its
last part is never reached and no ACK is sent; and the parent starts the next file only after the ACK (`Between`).
`PipeEmptyAtAck` and `PipeAckedIsCopied` follow. `PipeTypeCorrect` holds also after the protocol broke down.

**The broker (IpcProofs).** A line passes through five stages on its way to a subscriber: in the queue to the broker, in the broker's hand, found to be sent, in the queue
to the subscriber, received. `FlowOK` says that a line further on its way has a lower number, and that none is missing up to the last line typed
as long as the broker works; once it is interrupted, what it has not put into the queue never comes. Two facts about the table carry it: who has had a line is entered for its
topic (`Entered`; nobody leaves the table, because the loop that unsubscribes runs only when the queue is gone, `Places`), so that no later line passes it by, and nobody is
entered twice for a topic (`EnteredOnce`), so that none comes twice. That `msgrcv` takes the lowest number needs that the lines of one publisher to
one reader stand in order in the queue (`Ascending`), whatever stands between them. From it `BrokerLinesInOrder`; `PubSubTypeCorrect` is part of it.

**The taxi dispatcher (TaxiProofs).** A driver also serves the requests its dispatcher gave up. What makes an answer true is order: the
connections of a driver are numbered in the order they were made and served in that order (`Numbered`), and the open one is the last of all
(`OneConnection`). So an answer that arrives (`Answered`) is of the request it is taken for (`TaxiReportedIsTaken`), and when it is
`AVAILABLE` nothing is left before the driver (`TaxiAvailableIsFinal`).

**The TCP chat (TcpProofs).** Every frame of the stack, not only the running one, keeps `CallOK`: nobody the loop has still to come to has been
sent the message (`Ahead`), and everybody it has passed has (`Passed`), unless one of those was removed (`Lost`). A removal
shifts the table under all the frames at once; the removed client is either ahead of a frame, and both hold again, or behind it, and it is
lost to that frame for good. The table must be free of duplicates for that, which needs that MSG_JOIN is the first Message of
a connection and comes once (`JoinIsFirst`). From it `TcpBroadcastReachesAll`. `TcpWaitingIsAnnounced` counts the events of a socket, on the list and in
`events[]` (`Pending`): unless something arrived late they are enough for what waits in it (`Covered`), and the same of the listening socket (`ListenOK`).
`TcpLiveClientStays` needs the converse: as long as every Message came whole, and the descriptor is the socket's own, each of those events has a Message
to find (`AllReadable`), so that an empty `recv` means the end of the connection. That is also why a broadcast may remove only a client whose connection was reset.

**The file transfers (TcpProofs).** The receivers keep no record of whose upload they serve, so the invariant follows an upload by its identity: what a
client sent is in order and whole but for the last upload of one that died (`AllSent`), nobody has seen anything of an upload whose MSG_FILE is still to
be handled (`StartsUnseen`), and where two Messages of a transfer follow each other on their way to a client nothing is missing between them (`Gapless`). A receiver
that has followed a transfer has exactly the chunks before the next Message of it (`Awaits`), for the server (`ServerInStep`), for a client whose
next Message is on its way (`ClientInStep`) and for one whose next Message the server has still to send (`SentInStep`); the last two are needed together, because a
broadcast joins a queue that may be empty or not. At MSG_FILE_END this gives the whole file: `FilesUploadStoredWhole` and `FilesCopyIsWhole`, both action properties.
`FilesNothingLeftOpen` rests on `Ending`: while nobody has died an open receiver has a MSG_FILE_END, not always its own, in some queue.

**The firewall (PacketProofs).** `TableInv` says what the table holds between two stores of a command: outside a `del` the used entries are
the blocked addresses, each once (`AtRest`), a new one being past them (`AddGoesOn`); during a `del` all used entries but one are what will be left
(`DelGoesOn`). It gives `FirewallTypeCorrect` (`ip_count` stays within the table) and `TableIsCommanded`. For `HookVerdict`, an action property, a walk that no removal has
met still has an address that was blocked at its start ahead of it (`WalkIsAhead`).

The type invariants are parts of these proofs; the runs do not repeat them. `PosixCompleteRun` (every block reported, both names removed) is only proved. `SysVMemory` also states how far a block may overrun
the segment (`OverrunBounded`).

**Only model-checked.** All liveness properties (the prover does not handle fairness and
ENABLED); `OnlyEvenAnswersVerify` (a sum over the bytes of a payload: induction over data); `TreeSound` and the other properties of PhoneBook, whose functions are recursive. The inductive
invariants were checked with TLC before they were proved.

## 5. What is left out

* SIGKILL and power failure, except for the semaphore that an earlier POSIX instance left.
* Two instances of the same program at once (producer/consumers), a third chat process.
* The contents of blocks, lines and payloads; the minimum and maximum a consumer prints.
* Bytes written past the mapped memory: the model stops the producer with a fault.
* The steps inside `init_shared_memory` and `init_semaphore`: each is one step with all its outcomes.
* Topics that contain a comma, and messages of different sizes in the broker's queue;
  the array of 100 that `find_subscribers` fills is taken for large enough.
* Reuse of process ids.
* Pipe copy: files that change while they are copied; a text that starts with `FILE:` and also
  names a size; a header split by a read, which takes data left over before it; files whose reads return more or less than `lseek` said
  without failing (devices, /proc), or that cannot be sought; files of 2^31 bytes or more, which `total_bytes` cannot count.
* Phone book: `malloc` failing, end of file on standard input, printing.
* A second signal in the broker's handler.
* TCP chat: what a `recv` that joins the ends of two Messages finds has no known type; `MSG_LEAVE`, which no client sends; a
  signal inside the handler of another; failing `socket`, `bind`, `epoll_create` and `epoll_ctl`; nicknames, listings, progress output;
  a ready list longer than `events[]`.
* Echo server: one host; a client on the server's own port; a `sendto` that fails, which is a lost datagram.
* Firewall: an address longer than an entry, which `strcpy` writes past its end (undefined); two writers at once; reading the proc file; processors that see stores out of order (x86 is assumed).

Programs not modelled:

* module3/06, a chat over UDP broadcast: each datagram is shown or dropped on its own, by comparing its address with those of the host.
* module3/08, a capture of raw UDP: one thread, a filter and a count, the rest prints header fields.
* module2/6_3, a calculator with plug-ins: a menu over `dlopen` and floating-point functions, which are out of TLC's reach.
* module5 procmod, kbleds, chardev: a buffer used by system calls that nothing serialises. What concurrent callers get is left open by
  the code, and for a single caller each operation is a copy and a few assignments, which a model would only repeat.
* module5 hello and netlink: a message, and one request with one answer.
* module4: configurations.

## 6. Plan

1. *(done)* Producer and consumers: shared list, both variants of `main`, the abstract pool and its refinement, proofs for both.
2. *(done)* Chat over message queues, with proofs.
3. *(done)* Broker, taxi dispatcher, pipe copy, phone book: models and runs.
4. *(done)* TCP chat, its file transfers, echo server with its checksum, firewall: models and runs; `CountsSinceClose` proved.
5. *(done)* Proofs: the order of the lines and the names of MqChat, the client's view of EchoServer, Taxi, TcpChat's broadcasts and events, Firewall.
6. *(done)* Proofs: PipeCopy, TcpFiles, the order of the lines of Broker.
