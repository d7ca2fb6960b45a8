# Specifications for 0Voice

This directory holds TLA+ specifications of the programs in this repository: modules that model
them, TLC configurations that check the modules on small instances, and theorems checked by
TLAPS. `PROJECT.json` lists for every definition the lines of the source it models, the runs, the
theorems, the deliberate faults that show that each property can fail, and the hazards of the code.

Contents: [the system](#the-system), [modules](#the-modules), [runs](#the-runs),
[fairness](#fairness), [proofs](#the-proofs), [disagreements found](#disagreements-between-code-and-comments),
[what is not modelled](#what-is-not-modelled), [plan](#plan).

## The system

The repository is a collection of programs for Linux written while following a course. They share
no library; most are one file each. They fall into these parts.

| part | source | state | operations |
|---|---|---|---|
| thread pool | `Linux入门环境编程/并发下的技术方案（锁）/线程池/threadpool.c` | list of tasks, list of workers, mutex, condition variable, `terminate` per worker | create, push, worker loop, destroy |
| connection pool, image upload | `Linux入门环境编程/数据库mysql项目实战/threadpool+connpool/` | ten connections and their `used` flags, plus a thread pool | init, get, release, the upload task |
| DNS client | `Linux入门环境编程/DNS协议与请求/` | a request, a socket, a parsed answer; `homework_dns_async` runs it in a thread pool | build, send, receive, parse |
| locks | `Linux入门环境编程/并发下的技术方案（锁）/{CAS,Atomic,MutexLock,SpinLock}.c` | one counter | N threads add to it |
| address book | `Linux入门环境编程/实现通讯录（结构体）/contact.c`, `homework_按照首字母/26Alpha_contact.c` | a list (26 lists) of persons, a count, a file | insert, print, delete, search, save, load |
| KCP | `2.2…/2.2.3-udp-kcp-quic(示例版)/ikcp.c` | send and receive queues and buffers, sequence numbers, windows, timers | send, recv, input, flush, update |
| KCP chat room | same directory, `kcp_session`, `kcp_server`, `kcp_client`, `chat_*` | sessions by conversation, users, last-heard times | receive loop, update thread, keep-alive, timeout |
| TCP peer to peer | `2.2…/2.2.1_homework_tcp_p2p(ChatGPT版)/2.2.1_tcp_p2p.c` | listening, connecting and connected sockets, an output buffer | simultaneous connect/accept, chat |
| reactor | `2.1…/2.1.3_reactor_*.c`, `2.1.4_reactor_webserver/reactor.c` | one record per descriptor: buffers, lengths, callbacks, epoll interest | accept, recv, send callbacks |
| web server, WebSocket | `2.1…/2.1.4_reactor_webserver/` | status per connection, file being sent | request, response, handshake, frames |
| io_uring echo server | `2.5…/uring_tcp_server.c` | submission and completion queue, one buffer | accept, recv, send events |
| other servers and clients | `2.1.2_poll.c`, `TCP服务器`, `百万并发的服务器`, `http客户端请求` | descriptor sets | accept, echo |
| MySQL demonstrations, word count, shell exercises | `数据库mysql项目实战/mysql_*`, `统计文件单词数量（文件操作）`, `Shell脚本编程案例` | none that outlives a call | |

Hard behaviour is found in: the thread pool (a mutex and a condition variable that are destroyed
while workers use them, a list that is reset without the mutex), the connection pool used from the
thread pool, KCP (loss, duplication and reordering of datagrams, timeouts against late
acknowledgements, closed windows, wrapping sequence numbers), the chat room on top of it (sessions
that time out while the client is alive), the peer-to-peer program (two connections made at the
same time, data and shutdown in one event) and the servers (partial sends, one buffer shared by
several connections). `PROJECT.json` lists each of these hazards at its line under `hazards`.

What makes the parts correct, in words: a pushed task runs once and by one worker; a connection has
one user and comes back; the stream of messages a KCP user receives is the one its peer sent; a
session lives as long as its client; each connection's bytes come back to it and in order; the
address book is the list of persons inserted and not deleted.

## The modules

| module | models | uses |
|---|---|---|
| `TaskPool` | what a thread pool promises (abstract) | |
| `ThreadPool` | `threadpool.c`: main and the workers, step by step | refines `TaskPool` |
| `ThreadPoolProofs` | theorems about `ThreadPool` and `ImageUpload` | |
| `ConnPool` | `connpool.h` | |
| `ConnPoolLocksProofs` | theorems about `ConnPool` and `Locks` | |
| `ImageUpload` | `threadpool+connpool/`: the workers of `ThreadPool` as clients of `ConnPool` | `ThreadPool`, `ConnPool` |
| `MessageStream` | what KCP promises to its two users (abstract) | |
| `KcpBlock` | `ikcp.c`: the functions on one control block | |
| `Kcp` | `ikcp.c`: two endpoints and the network between them | `KcpBlock`, refines `MessageStream` |
| `KcpProofs` | theorems about `Kcp` | |
| `KcpLive` | the steps of `Kcp` with their names recorded, so that fairness can be stated | `Kcp` |
| `KcpChat` | the chat room: `kcp_server.cc`, `kcp_client.cc`, `chat_*.cc`, `kcp_session.cc` | |
| `KcpChatProofs` | theorems about `KcpChat` | |
| `TcpP2p` | `2.2.1_tcp_p2p.c`: two peers and TCP between them | |
| `TcpP2pProofs` | theorems about `TcpP2p` | |
| `TcpClients` | external: the clients of a server, and the kernel's connections | |
| `Reactor` | what the epoll reactors share: batches of events, callbacks, records | `TcpClients` |
| `EchoReactor` | `2.1.3_reactor_02MillionConcurrent.c` | `Reactor` |
| `WebServer` | `reactor.c` with `webserver_02status.c` | `Reactor` |
| `WebSocket` | the directory `websocket(补充)`: its reactor and `server.c` | `Reactor` |
| `UringEcho` | `uring_tcp_server.c` | `TcpClients` |
| `UringEchoProofs` | theorems about `UringEcho` | |
| `PollServer` | `2.1.2_poll.c` | `TcpClients` |
| `ReactorProofs` | theorems about `EchoReactor`, `WebServer`, `WebSocket` and `PollServer` | |
| `EpollReader` | `tcp_epoll.c` and `tcp_Server.c` | `TcpClients` |
| `EpollReaderProofs` | theorems about `EpollReader` and `OneByOne` | |
| `OneByOne` | `tcp_onebyone.c`: one thread for each client | `TcpClients` |
| `AddressBook` | what an address book promises (abstract) | |
| `PersonList` | the linked lists and the file of both address books | |
| `Contact`, `AlphaContact` | `contact.c`; `26Alpha_contact.c` | `PersonList`, refine `AddressBook` |
| `Locks` | `CAS.c`, `Atomic.c`, `MutexLock.c`, `SpinLock.c` | |
| `DnsClient` | the DNS client of `homework_dns_async` in several workers | |
| `MCServers` | the servers over `TcpClients`, one of them chosen in the initial state | all of these |
| `MCTools` | `ConnPool`, `ImageUpload`, the address books, `Locks`, `DnsClient`, one of them chosen in the initial state | all of these |
| other `MC…` | constants and symmetry for TLC | |

`MCServers` and `MCTools` join programs that have nothing to do with each other, so that one run
checks them all; a step is always one of the program chosen first, the variables of the others keep
their initial value. Their properties are those of the modules they instantiate.

### ThreadPool

Threads are main, which runs `nThreadPoolCreate`, pushes tasks, waits in `getchar`, runs
`nThreadPoolDestory` and exits, and the workers, which run `nThreadPoolCallback`. `mpc` and `wpc`
are the program counters, at the grain at which another thread can see a difference: an action ends
where a lock is taken or released, or where a field is read or written without the lock.

* `tasks` is the list of tasks from its head (`LIST_INSERT` puts in front), `workers` the number of
  the last worker created: since every new worker goes to the front, the `next` pointer of worker
  `w` leads to `w - 1`.
* `mutex` holds the owner, or `Free`, or `Destroyed`. The pthread functions are not part of the
  repository; they are modelled as glibc implements them, because the program depends on it:
  `pthread_mutex_destroy` fails with EBUSY when the mutex is held, and a destroyed mutex makes
  `pthread_mutex_lock` return EINVAL at once, so that a late worker goes through its loop without
  the lock. `pthread_cond_destroy` waits for the threads that still wait.
* `memset(worker, 0, sizeof(worker))` clears eight bytes, not the structure, so `terminate` holds
  what `malloc` returned. The constant `Garbage` is the set of values that may be; `{FALSE}` stands
  for fresh pages from the kernel.
* The walk of `nThreadPoolDestory` is one action to mark a worker and one to follow its `next`
  pointer, because marked workers free themselves meanwhile. The model lets the second read find
  the old pointer, which is what happens as long as the freed memory is not reused.

### ConnPool and ImageUpload

`get_conn` and `release_conn` hold the pool's lock throughout and are one step each. A connection
is named by its slot; one that could not be made is `NULL`. `init_conn_pool` starts with any set of
failed slots. In `ImageUpload` the workers of `ThreadPool` are the clients; `task_entry` is split
into taking the connection, writing, giving it back and freeing the task. Writing with `NULL`
dereferences it and ends the process (`crashed`).

### Kcp

`kcp[e]` is the control block of endpoint `e`, with the fields of `ikcp.h` that influence control
flow. Each call of the library is one step, for `KcpSession` makes them under its mutex. The
functions on a control block, in `KcpBlock`, carry the names of `ikcp.c`; `ikcp_input` and `ikcp_flush` are
composed of them in the order in which the code calls them.

* The network is a set of datagrams. A flush may lose any of its datagrams, a datagram that arrives
  may stay to arrive again, and any of them may arrive next.
* Clocks are abstract. In place of `current`, `ts`, `rto` and `resendts`, a flush may find any set of
  segments in flight late (`late`), and the time of the next probe come or not (`due`). Every
  schedule of the real timers is among these.
* Sizes are counted in segments. Messages are sequences of fragments, `MTU` is the number of
  segments in a datagram.
* `incr`, which counts the growth of the congestion window in bytes, is abstracted: above `ssthresh`
  the window may grow by 0, 1 or 2 (`Grown`).
* `xmit`, `fastack` are counted up to the value from which on they make no difference.

`KcpLive` records the name of each step. Its fairness condition is about the steps taken; `ENABLED`
of actions that choose among subsets of segments is too expensive for TLC.

### KcpChat

The server keeps a session for each conversation number it receives a datagram of, and erases it
when no keep-alive command was handled for `keep_alive_timeout`. `sessions` and `users` are
`KcpServer::sessions_` and `ChatServer::users_`; `log` is the history of notifications, from which
`told[c]` says what went to client `c` in each of its sessions, in the order of sequence numbers.

* The steps of the server are the stretches under `KcpServer::mtx_`: `HandleSession` is a datagram
  from `GetSession` to the end of the loop that reads messages (`NewSession`, `HandleConnection` and
  the notifications included), `Timeout` an `Update` that finds a session expired, `StartTimer` the
  first `Update` of a session. Steps of a client are a line of input, a keep-alive and a round of `Run`
  with a datagram.
* The transport is abstracted, for two endpoints as in `Kcp` for each client would be too many
  states: any message given to `ikcp_send` may arrive from then on, alone or with another one in a
  datagram, in any order, again or never. This allows more than `ikcp.c` does; it includes that the
  two sides disagree about sequence numbers after a session was dropped, that old datagrams arrive
  in a new session, and that a client is never heard again (its numbers go on, the server's fresh
  block waits for the first).
* Times are abstract: a started timer may run out at any moment.
* Of a line only what the code tells apart is kept: empty (its `ikcp_recv` returns 0 and ends the
  reading loop), `"prefix"`, a beginning of the keep-alive command, which is taken for the command when
  that was read into the buffer before it (`memcmp` compares 19 bytes whatever the message's
  length), or other text longer than the command.
* Left out: `SetAddr`, two clients that draw the same conversation number (`rand() * rand()`, seeded
  with the second), messages of more than a segment, errors of the socket.

### TcpP2p

Two processes run the same `main`: each listens, and connects to the other from the port it listens
on. `stage[p]` is how far `main` is: before `listen`, before `connect`, the loop that waits for a
connection, the loop that chats. `ends` is the state of each socket as the kernel sees it.

* The SYN of a peer arrives (`SynArrives`) at a peer whose own SYN is under way, and the two become one
  connection (`crossed`), at a listener, or at nobody, and is refused.
* `epoll_wait` takes a batch of events; `evs[p]` are those not yet handled. Each is handled, in any
  order, with what was reported then, whatever has happened since.
* `ob[p]` is the output buffer with its offset: appended to, compacted, and flushed as far as the
  kernel has room (`Room` pieces). `interest` is what epoll watches, with the failures of
  `epoll_ctl` (a socket that is watched already is not added again).
* `bind(cfd)` may fail and is ignored; the constant `BindFails` says whether it does.
* A peer may be stopped by SIGINT (`on_sigint`) at any time, and by the shutdown of the other.

### The servers

`TcpClients` is what the servers have in common on the outside. A client connects, sends pieces of
data, reads what was sent back, and at any time hangs up, having read everything (`"closed"`) or
not (`"reset"`). Data is a stream: a `recv` returns any positive number of the pieces that have
arrived, several sends may be received as one. The second write to a client that is gone raises
SIGPIPE, which no server handles (`crashed`).

* `Reactor`: `conn_list` is the array of records, one for each descriptor, reused with the descriptor
  and only partly cleared by `event_register`; `evs` is the batch in hand. The sockets are blocking,
  so `EventsHold` says that what was reported of a descriptor still holds when its callback runs.
* `EchoReactor`, `WebServer` and `WebSocket` are the callbacks. In `WebServer` the answer is sent by three
  callbacks, chosen by `status`; `open` and `fstat` may fail (`MaxFailures` times) and then nothing
  changes, so that the next `EPOLLOUT` sends nothing new, or the same again. In `WebSocket` a frame is
  its text, the code in its second byte and the place where the text starts: `decode_packet` tests a
  one-bit field for 126 and 127, so it finds the text only in short frames, and `encode_packet` writes
  no length from 126 on. What is received together is taken for one frame.
* `UringEcho`: operations are prepared (`sq`), given to the kernel (`ops`), executed in any order and
  completed (`cq`). A receive writes into the only `buffer`, a send reads from it when the kernel
  executes it. A failed accept is received from as a descriptor (`Bad`); a send may take only a part.
* `PollServer`: the loop looks at one descriptor after another (`i`), with the `revents` of the last
  `poll`.
* `EpollReader`: edge-triggered; `edges` are the descriptors with something new since the last
  `epoll_wait`, and a descriptor is read until nothing is left. `tcp_Server.c` recognises listeners
  by `islistenfd`.
* `OneByOne`: `main` allocates a cell, accepts into it and gives it to a thread, which reads the
  descriptor, frees the cell, and receives until the client is gone.

### Address books

`PersonList` models the lists as nodes in allocated memory with `next` and `prev` (`book`), as the macros
`LIST_INSERT` and `LIST_REMOVE` change them, and the file as a sequence of lines. A person is a name and
whether its phone number ends with the line feed that `fgets` leaves there. `AddressBook` is the
abstract specification, one sequence of persons for each list; the refinement mapping reads a
sequence off the list from its head. `ListsIntact` says that `prev` mirrors `next` and that every
allocated node is in exactly one list.

Names are pairs of an initial and a rest; `26Alpha_contact.c` has two letters instead of 26, one
name begins with a small letter and one with a digit, which it refuses.

### Locks

Four programs that add to one counter, chosen by `way`. `main` creates the threads (each may fail to
be created, which nothing looks at), and returns after any time, whereby the threads end. A thread
between loading and storing is a state of its own. The `cmpxchgl` of `CAS.c` is modelled with the
operand it really stores, see [below](#disagreements-between-code-and-comments).

### DnsClient

Workers resolve one domain after another. A name is a sequence of labels, a message a sequence of
cells (a label with its length, the terminating 0, a compression pointer, the fixed fields of a
record, an address). What the workers share is the static pointer of `strtok`: each call reads it
and writes it in two steps, and after `free` of the copy it dangles, where one more token of unknown
text is found or none. `AsksOwnName` is about the workers during whose conversion no other one called
`strtok` (`disturbed` are the rest). `FindsAddresses` follows the parser through names that are
shortened by pointers into the question and into the data of earlier records. The length of a
disturbed name is bounded at one label more than the domain has. A lost answer leaves its worker
waiting in `recvfrom`: the code has no timeout.

## The runs

Each property has a deliberate fault among `PROJECT.json`'s `mutants`: a plausible bug of the
modelled function (in the modules: the definitions marked *Fault*) under which the same run reports
that the property is violated.

| run | question | bounds |
|---|---|---|
| `threadpool` | Is the task list safe, no signal lost, and `TaskPool` implemented? Under fairness, does a pushed task run and does destruction end? | 3 workers, 2 tasks |
| `threadpool_garbage` | Does a worker stop only when the pool is destroyed? (no) | 2 workers, 2 tasks |
| `tools` | Is a connection held by one client and marked used exactly then; does every upload worker give its connection back; do the address books keep their lists and implement `AddressBook`, and does a load of `26Alpha_contact.c` bring everybody back; is nothing added to the counter lost, and does every thread end; do DNS workers ask for their own names and find the addresses? | 3 slots and 4 clients; 2 workers, 3 tasks, 2 slots; 3 persons, 2 to 4 names; 3 threads with 2 additions each; 2 DNS workers |
| `cas` | Does every addition of `CAS.c` count? (no) | 2 threads, 2 additions |
| `contact_load` | Does a load of `contact.c` bring back who is in the file? (no) | 3 persons, 2 names |
| `kcp` | Is anything lost or delivered twice, do windows hold, is `MessageStream` implemented? | 2 messages of up to 2 segments, receive window 3, 2 datagrams under way |
| `kcp_live` | With a window that closes and opens, does everything arrive in the end? | 3 messages, receive window 2, 2 datagrams under way |
| `kcp_chat` | Is everybody shown the room's history once and without a gap, and is each session orderly? | 2 clients, 2 lines, 1 keep-alive, 2 sessions |
| `kcp_chat_shown` | Is what is shown what the server sent? (no) | the same |
| `p2p` | Do two peers meet however they start, and is what they type conveyed whole, in order and without waiting for the next line? | 3 pieces one way, 1 the other, room for 1 in the kernel |
| `servers` | Is what was reported still true when it is used, does everybody get the right answer, can only a rude client end a server, and is everybody served? | 2 clients with 1 or 2 pieces each, 2 descriptors, room for 2 pieces (1 in `UringEcho`) |
| `uring_own_echo` | Is every client of the io_uring server sent its own data? (no) | 2 clients, 1 piece each |

Several properties are conjunctions of those the modules name: `UploadsSafe` of `NoConnectionKept`
and `NoCrash`, `BooksIntact` of `ListsIntact` and `FoundByName`, `DnsSound` of `AsksOwnName` and
`FindsAddresses`, `RightAnswers` of the property of that name of
`EchoReactor`, `EchoedInOrder`, `Answers` and `Echoes`, `ReadersSound` of that of `EpollReader`
(`ReadsConnections` and `NoForgottenInput`) and `OneReader`, `EventsHold` of that of `Reactor`, `ReportsHold`,
`KeepsListening` and the type invariants, `LocksCount` of `AddsCount` and the types; `Conveyed` includes `SameConnection` and
`WaitsForRoom`; `AllServed` gathers what each server owes a client that stays.

Why the bounds are enough for the interesting cases.

* Two workers suffice for a task list that is emptied between signal and wakeup; the third adds one
  that sleeps while the others race. Four clients of three slots exhaust the pool.
* In `kcp` a message of one segment less than the receive window is the longest that is accepted,
  sequence numbers start so that they wrap inside the first message or between the two, two
  datagrams can overtake each other, and with two segments in flight an acknowledgement can skip
  one, so fast retransmission, timeouts and both in one flush occur. `SnSpace` is at least twice the
  number of segments and the receive window (`KcpBounds`), as 2^32 is in the code, so that comparisons stay
  meaningful across the wrap. In `kcp_live` the three messages are one more than the receive window and
  the numbers wrap within them: the window closes, and only a probe finds out that it is open again
  when its announcement was lost.
* In the runs of `Kcp` one side sends data and the other acknowledgements and window announcements;
  both sides run the same code (`Senders` can name both). In `kcp_chat` the two sessions may be those
  of both clients, who then hear each other come, speak and go, or two of one client, dropped in
  between with its datagrams still under way; two lines have an order, and a keep-alive and a line
  can share a datagram.
* In `p2p` three pieces against a room of one fill the output buffer, flush it in part and append to
  it while it has an offset, which compacts it; the other direction shows that both work at once.
* In `servers` two clients share a batch of events, and a descriptor is used again after its client
  has gone. Two pieces of one client can be received together or apart, `AcceptFails` and the failures
  of `open` may come at any time. The two frames of the WebSocket client are on both sides of the limit
  at 126. The second port of `tcp_Server.c` is one that `islistenfd` does not know.
* Three nodes are the smallest list with a middle; of the names two share a letter.
* Two DNS workers, one domain with two labels: one can call `strtok` between the first and the second
  call of the other, and after the other has freed its copy. Records lead from one alias to another
  and share the end of the name.

Every bound is a named constant (`TASKSIZE`, `MaxMsg`, `MaxFrag`, `NetBound`, `AckBound`, `MaxLines`,
`MaxAlive`, `MaxJoins`, `MaxTyped`, `Room`, `Sends`, `MaxFailures`, `MaxNode`, `NUMBER`, `Cell`); `AckBound`
limits the acknowledgements that wait for the next flush, and keeps a datagram in the network
until there is room. Deadlock is checked in all runs but those where everybody may be done with what
the bounds allow: `servers`, `uring_own_echo` and the runs of `p2p` and `kcp_chat`.

### Fairness

`threadpool` assumes weak fairness of every step a thread takes by itself and strong fairness
of taking the mutex, for a Linux mutex does not starve a thread for ever. It assumes nothing of
`getchar` (the user may never press a key), of failing `pthread_create` and of spurious wakeups.

`kcp_live` assumes that from some time on the network neither loses nor doubles datagrams, that no
kind of datagram is held back for ever, that `ikcp_update` is called again and again (the update
thread does so every 10 microseconds) and now and then finds its timers run out, and that the user
reads what has arrived. The assumption on doubling is needed: if the network delivered an old
datagram with a closed window for ever, the sender would never find the window open at a flush.

`p2p` assumes that each process goes on while it has something to do, and that a SYN arrives.
Nobody need type, and nobody need press Ctrl-C.

`servers` assumes that the server's threads go on, that the kernel executes the operations it was
given, and that a connected client reads what was sent to it. It assumes nothing of what a client
sends, or whether it hangs up.

`tools` assumes for the counters that `main` creates its threads and that the threads go on; weak
fairness is enough, since every thread adds a bounded number of times, so that the lock becomes free
for good once the others are done. The other programs need none.

## The proofs

The modules `…Proofs` are checked by TLAPS without any unproved statement; their theorems hold for every
number of workers, tasks, slots, threads, clients, descriptors and pieces. Where a run checks a property of
several programs at once (`UploadsSafe`, `EventsHold`, `RightAnswers`, `OnlyRudeCrash`, `OneUnderWay`,
`ReadersSound`), the theorem is about the conjunct of its program, the definition of the same name in the
program's module.

`ThreadPool`. The properties are not inductive: that `LIST_REMOVE` finds a task (`TakeFindsTask`)
holds because the list was tested under the mutex, which says something only together with who
owns the mutex; and after `nThreadPoolDestory` has destroyed the mutex nobody owns it. `IInv` adds
to `TypeOK`

* `MainInv`: the workers in the list are those that were created, and the walk of
  `nThreadPoolDestory` has marked all those it has passed, so that when it takes the mutex every
  worker is marked;
* `MutexInv`: a thread between lock and unlock owns the mutex, or it is destroyed; and once
  `nThreadPoolDestory` has had it, nobody is about to take a task;
* `WorkerInv`: what a worker learnt of the list stays true until it uses it.

`IInvStep` proves `IInv` inductive, with one step for each action. The theorems follow from it:
`OneWriter`, `TakeIsSafe`, `DestoryStopsWorkers`, `WakeupsArrive`, `WalkFindsWorkers`, `TasksRunOnce`
(that a task is in one place and runs at most once) and `Refinement` (`ThreadPool` implements
`TaskPool`, each action mapped to a step or a stutter). `WalkFindsWorkers` assumes
`Garbage = {FALSE}`; the others hold for any content of fresh memory.

`ConnPool`. `PoolSafe` consists of `UsedIsHeld` and `ExclusiveConnection`, which are inductive together,
not alone: a connection is given to one client only because its slot was unused, and is unused only
when no client has it.

`ImageUpload`. Every step is one of `ThreadPool`, one of `ConnPool`, or neither
(`UploadImplementsThreadPool`, `UploadImplementsConnPool`), so the theorems about both hold of the upload.
`UploadIsSafe` adds that no worker leaves `task_entry` with a connection, and that none writes with `NULL`
as long as every slot has a connection and there is one for each worker, or for each task. The
first part is inductive only with `NullGoesNoFurther`: who gives a connection back has not got `NULL`,
because `NULL` would have ended the process before. The second is a matter of counting (`OneIsLeft`): if
every slot were used, the holders and the worker that asks would be more than there are.

`Locks`. That the counter is the number of additions is not inductive, for `Store` writes what was
read some steps before. `MutualExclusion` (who is between `Lock` and `Unlock` is the lock's owner) makes
`ReadIsCurrent` true: what was read is still in the counter. The additions are a set, so that the sum
over all threads is its cardinality and one more addition one more element. `LocksCounted` includes
`CAS.c` for the types only: there the counter stays 0.

`UringEcho`. `OneOperationEach`: every connection has one operation in one of `sq`, `ops` and `cq`, and so
has the listener. The invariant says it from the other side: in each of the three places no two entries
name the same descriptor (`OneInEach`), a descriptor is in one place and exactly when it is connected
(`OnePlace`). That nobody is sent more than it sent (`NeverTooMuch`) needs a bound on the lengths that
are under way: a send's length, and that of a receive which was completed but not handled
(`Carries`), is at most what the client has sent and not yet been sent back (`AmountsOK`).

`EpollReader`. `NothingForgotten`: an edge is reported once, and the theorem says that this is enough,
because whatever has arrived has its edge pending, is in the batch, or is being read. That only
connections are read needs that no batch names a descriptor twice (`NoneTwice`): the second time it
would have been closed.

`EchoReactor`. `EvsOK` says that no batch names a descriptor twice and that what it reports of a descriptor is
what is watched, from which `EventsHold` is inductive: between `epoll_wait` and the callback a client only adds
to what can be read and makes room for what can be written. This part (`TcpHas`, `Watched`, `EvsOK`, together
`ReactorInv`) is the same for every server that is built on `Reactor`, whatever it receives and sends, and is proved
once for all of them, with one lemma for each call (`AcceptReactor`, `RecvReactor`, `SendReactor`, `CloseReactor`,
`ClientReactor`, `BatchHolds`). `PiecesOK` says where every piece of a client is:
read, on its way back, in the record's buffer while `EPOLLOUT` is watched, or on its way to the server,
numbered through in this order. `EverythingInOrder` and `RudeClientsOnly` follow.

`WebServer`. `WebAnswers`: a response takes two or three calls of `send_cb`, so what a client is sent depends on the
status of its record. `AnswersOK` says that each body comes right after its head, that a record with status 1 is
one whose client was sent a head last (unless it is gone), and that the bodies, the requests that wait and the
one being answered (`Due`) are no more than the requests sent. As long as `open` never failed, every head but
the last has its body (`HeadsFollowed`); a failure leaves a head without one, and with status 1 another head
follows. That what is due to a client counts even after it left is what makes `OnlyRudeCrash` inductive
(`WebRudeCrash`): a write to a client that is gone was an answer it had asked for and not got.

`WebSocket`. `WebSocketEchoes`, for any messages of any length. `Taken` counts what was received of a client;
`FramesOK` says that what waits is what the client sent from there on, and `SessionOK` that the status of its
record tells whether the upgrade was among it. The order of the echoes is not inductive, because one echo
answers all frames that were received together: `MadeOf` says that each one is the echo of a message that was
taken, with numbers that go up and stay below what has been taken, so that the next one (`MadeNext`) is
larger. `ShortEchoed` follows a frame through `decode_packet` and `encode_packet`; it is the only place where the
length matters. A client sends no frame before its upgrade was answered; without that the first thing it is
sent might be an echo.

`PollServer`. `PollEchoes`: what `poll` reported of a descriptor is still true when the loop comes to it
(`ReportsTrue`), since only the loop itself reads or closes, and a descriptor that it has passed is not
looked at again before the next `poll`; and as long as a client is connected, what it sent is read, on its
way back, or on its way to the server (`AllThere`), for the loop keeps nothing between two calls.

`OneByOne`. `OneReaderEach`: a cell belongs to main until its thread is created and to the thread until it
has copied the descriptor (`HandedOver`, `CellsOK`), so that a descriptor is in one cell or with one thread; the theorem
counts both as a set with exactly one element.

`TcpP2p`. `ConveyedHolds` is about any number of lines typed at either peer and any room in the kernel's
buffers, and needs that `bind(cfd)` succeeds; without that, `PrintedInOrder` still says that what is
printed is the beginning of what the other's user typed. The argument has two parts.

* The connection (`Sockets`, `OneConnection`): how far main has come tells what its sockets can be, and an open socket
  tells what the peer's are. A queued or accepted connection means that the peer's `cfd` made it; if
  both sides are bound to their listening port, whoever has one has not got another. From this
  follows that the established sockets of two peers that chat are the two ends of one connection.
* The lines (`Silent`, `Flow`): before a peer chats it has read and sent nothing; afterwards what it has read
  is what was printed, what is in the inbox of the socket it sends to, and a rest (`InTransit`), and the rest is
  its outbuf as long as that socket is open. `AppendUnsent` and `FlushUnsent` say that the outbuf neither loses nor
  doubles anything, compacted or not, however little the kernel takes. `MonotoneStep` is what keeps the
  two together: a peer never leaves its connection for another one, and a closed end does not come back.

`Kcp`. The six theorems say of `ikcp.c`, for any windows, message lengths, datagram sizes, any number of
datagrams under way and both sides sending, what the run `kcp` checks of two messages: control blocks
keep their types (`TypesKept`), nothing is lost (`NothingIsLost`), windows are kept (`WindowsKept`), a full queue
begins with a whole message (`WholeMessages`), neither `snd_una` nor `rcv_nxt` goes back (`NoneTakenBack`), and the
messages arrive whole, once and in order (`StreamImplemented`, the refinement of `MessageStream`).

* Sequence numbers wrap. `Abs` counts them from the first one used; `AbsDiff` shows that `_itimediff` of
  two numbers is the difference of these counts if it is less than half the space. This is where
  `KcpBounds` is needed: a datagram may be held for ever, so a session must not come back to a number, and
  uses fewer than half of them (2^31 in the code). The run satisfies it with 4 segments and a window of
  3 in a space of 16.
* None of the properties is inductive. `IInv` says that for each direction there are the stream `F` of all
  fragments the sender was given and the places `B` where its messages end, such that `Dir` holds:
  send queue, send buffer, receive buffer, receive queue and every data segment in the network are
  parts of `F` at their sequence numbers (`SendOK`, `RecvOK`, `SegOK`); what was sent and the receiver has not
  moved to its queue is kept by one side (`Kept`); whatever acknowledges a segment, in `acklist` or in the
  network, does so after it has arrived (`AcksOK`, `SegOK`), because `rcv_nxt` never goes back; and what was
  read ends where a message ends (`GotOK`).
* There is a lemma for each function of `ikcp.c` (`ParseUnaOK`, `ParseAckOK`, `ParseDataOK`, `ShrinkOK`, `MoveOK`,
  `ReadOK`, `FillOK`, `OutputOK`, ...), one for each call of the library (`SendStep`, `FlushStep`, `InputStep`,
  `RecvStep`), and `StepOK`, which joins them. `HeadOK` shows that the head of the receive queue is the next
  message: it is there that the length a message may have, less than the default receive window, is used.
* `TLAPS` knows no induction over sequences that a proof could cite here; `NatSet`, which follows from the
  well-foundedness of the numbers, is what the loop over the segments of a datagram (`InputLoop`) and the
  order of the segments in a flush (`SortedOK`) rest on.

`KcpChat`. Besides `TypeCorrect`, `OrderlySessionHolds`, `ShownOnceHolds` and `RoomHistoryHolds` are about any number of clients, of lines,
of sessions and of datagrams that are late, doubled or lost. `IInv` follows a line from who typed it to
those who show it.

* The session (`SessionOK`, `LogOK`): what it has received are messages of its client, in their order; what
  was told of it comes before what waits in its queue, and that before what it has not received
  (`Ahead`). A fresh session starts from nothing and reads the client's messages from the first one on, so its lines
  are told again, but as lines of another session. `QueueInput` and `QueueHandled` say that a datagram
  and the handling of messages up to an empty line keep this; `SessionHandles` collects what
  `HandleSession` does.
* The history (`StreamsOK`, `JoinsOK`): every session of a client was told one part of it, without a
  gap, which begins with the client's joining and reaches to the end while the client is a user;
  the parts of two sessions have nothing in common. `GoesOn` says what a notification does to the parts.
* The client (`HeardOK`): it has one receiver for the datagrams of all its sessions. What it shows at place
  `i` is what one of its sessions was told at `i` (`ShownTold`), and two parts of the history have nothing in common, so
  nothing is shown twice; if there was one session only, this is the history from the joining on.

The constants are assumed to be what the programs make of them: `None` is no client, descriptors are
numbers and finitely many, `Room` is a number, and `Listening`, `Bad` and `NoFd` are no descriptor of a
connection.

Only model-checked:

* liveness (temporal reasoning with fairness is beyond the prover): `PushedTaskRuns`, `DestoryReturns`,
  `EverythingArrives`, `Meet`, `Arrives`, `AllServed`, `AllTaken`, `AllFinish`;
* the address books and the DNS client (`BooksIntact`, `DnsSound`), whose definitions recurse over lists,
  files and names.

## Disagreements between code and comments

* `threadpool.c:132`: a worker may stop before the pool is destroyed (`StopsOnlyOnDestory`, run
  `threadpool_garbage`), against the comment at line 85.
* `contact.c:162`: the test of `paraser_token` is inverted; a load brings back nobody who was saved, and
  adds one person without a name for the end of the file (`LoadInserts`, run `contact_load`), against the
  comments at lines 165 and 180. `26Alpha_contact.c` has it right (`LoadRestores`, run `tools`).
* `kcp_client.cc:61`: the second of two messages of one datagram loses its end if it is longer than
  the first (`ShownAsSent`, run `kcp_chat_shown`).
* `uring_tcp_server.c:125`: all connections share one buffer, so a client may be sent what another
  one has sent (`OwnEcho`, run `uring_own_echo`), although the server is meant to echo.
* `CAS.c:13`: a compare-and-swap that succeeds stores the value it has compared with, so the counter
  stays 0 (`EveryAddCounts`, run `cas`), against the comment at line 71.

Seen in the models, and part of what their properties say, without a run of its own:

* `connpool.h:46`: `threadpool.h:90` prints "No available DB connection" although a connection is free,
  because the slot of a failed connection is handed out first (`NoCrash` is about a pool in which every
  connection was made).
* `kcp_server.cc:142`: a line that is a beginning of the keep-alive command and comes with one in the
  same datagram is taken for the command, and nobody is told of it (`OrderlySession` and `RoomHistory` are
  about the lines that are told).
* `dns.h:97`: with two workers in `convert_domain`, `strtok` lets one go on in the other's domain, or in
  memory that was freed, and the name that is asked for is not the worker's own, against the comment at
  line 112 (`AsksOwnName` is about the workers that were not disturbed).
* `2.2.1_tcp_p2p.c:498`: what a peer sent last is not printed when its shutdown is reported together
  with it (`Conveyed` and `Arrives` are about peers that both go on).
* `2.2.1_tcp_p2p.c:249`: the comment says that a failure of `bind(cfd)` can be ignored. With
  `BindFails = {TRUE, FALSE}` TLC finds `SameConnection` violated: the two peers are not behind the same
  pair of ports, their SYNs do not meet, and each may settle on another connection.
* `websocket(补充)/server.c:150`: texts of 126 bytes and more are not echoed as they came, because the
  field that line 167 compares with 126 has one bit, and of frames that are received together only the first is
  echoed (`Echoes` is about the short ones, and allows the gap).
* `tcp_Server.c:21`: with more ports than `islistenfd` knows, a listener is taken for a client, read,
  and closed (`KeepsListening` is about the ports it knows).
* `2.1.3_reactor_02MillionConcurrent.c:146`: a client that resets its connection makes `recv` return -1,
  which is used as a length; `reactor.c:150`: sending the body after the client has gone raises SIGPIPE
  (`OnlyRudeCrash` says that nothing else ends a server).

## What is not modelled

* Of `ikcp.c`: stream mode (no caller switches it on), `ikcp_setmtu`, `ikcp_interval`, `ikcp_check`,
  logging, the round-trip estimate, malformed datagrams and foreign conversations (refused before
  they change anything), running out of memory.
* Of the thread pool: return values (nothing looks at them), printing.
* MySQL demonstrations, load generators, the HTTP client, shell exercises and the stand-alone KCP
  test programs: straight-line calls of a library, or drivers; they keep no state that a property
  could relate.
* Of the chat room: see [KcpChat](#kcpchat).
* Of the peer-to-peer program: a `connect` that succeeds at once, a SYN that nobody ever answers, the
  end of stdin, running out of memory. That `bind(cfd)` fails
  is in `TcpP2p`, but `p2p` runs with `BindFails = {FALSE}`.
* Of the servers: a partial `send` (blocking sockets, small answers) except in `UringEcho`; a `sendfile`
  that sends a part; what `2.1.3_reactor_01.c` and `2.1.2_poll.c` do with a failed `accept`, whose result
  they do not look at; a `pthread_create` that fails in `tcp_onebyone.c`; `webserver_03png.c`, which is
  `webserver_02status.c` with another file, and the earlier versions in `webserver__not status`.
* Of WebSocket: the opcodes (the code does not look at them), an upgrade request that arrives in two
  parts, the digest of the key.
* Of the address books: names with a comma, errors of the file.
* Of DNS: the header, records other than A and CNAME, names in answers that are not pointers, the
  socket.
* `mysql_conn_pool` (one thread, the slots of `connpool.h` without a lock) and the word count are
  sequential and small.

## Plan

What is left, in this order:

1. `TcpP2p` with a `bind` that fails; the word count as a pure function; the single-threaded pool.
