# Verification of the excc network programs

This directory holds TLA+ models of the programs in this repository, the TLC
runs that check them on small instances, and theorems about them proved with
TLAPS for every value of the constants. Every definition is translated from the
C source; `PROJECT.json` names the lines each one stands for.

## 1. Inventory

| part | files | state it keeps | operations | what is hard about it |
|---|---|---|---|---|
| TCP chat server | `kadai4/chatserver.c` | table of `MAXCLIENT` slots (socket, name, status), `client_count`, `read_fds` | accept or reject, take a name, broadcast, answer `/list`, notice a departure | peers break at any time between two handlers; stale `read_fds`; counter against table; SIGPIPE in a broadcast; TCP keeps no message boundaries |
| TCP chat client | `kadai4/chatclient.c` | its position in the handshake, the socket, stdin | connect, read the answer, send the name, select loop | answers that arrive together; a server that goes away in the handshake; stdio buffering against `select()` |
| UDP chat server | `kadai4/chatserver-udp.c` | table of slots (address, name, status), `client_count` | HELLO, name, line, `/list` | loss, duplication, reordering; slots never freed; no way to tell a late datagram from a first contact |
| UDP chat client | `kadai4/chatclient-udp.c` | its position in the handshake | HELLO, name, select loop | waits for ever for a lost answer; a broadcast that overtakes its answer |
| barrier | `kadai3/barrier_sync.c` | one System V semaphore | fork, decrement, wait for zero, remove | fork failures, children that die, when the set is removed |
| file counter | `kadai3/file-counter.c` | a file and a semaphore | lock, read, write, unlock | lost updates, a failed `fopen()` with the lock held |
| alternating processes | `kadai3/mutual_exec.c` | two pipes | write a number, read a number | strict alternation with the child a number ahead; a process that dies with the turn |
| sketch with semaphores | `kadai3/alt_exec_sem.c` | - | ends after `semget()` | - |
| two-way pipe | `kadai3/two-way-pipe.c` | two pipes | one message each way | buffer lengths |
| merge sort | `kadai3/mergesort.c`, `conc_merge_sort.c` | two arrays, copied by `fork()`; a pipe | split, sort in a child, merge | the turn too many of `merge()`, which half comes from where, a child that is lost |
| alarm, talk client with timer | `kadai3/alarm.c`, `simple-talk-client.c` | a child process that sleeps, a flag | arm, reset, fire | the signal against the activity that should reset it; a timer that outlives its parent |
| semaphore commands | `kadai3/sem-wait.c`, `sem-signal.c` | one semaphore | P, V | - |
| system call samples | `kadai3/fork.c`, `pipe.c`, `signal.c` | - | one call each | - |
| echo server and client | `kadai2/echoserver.c`, `lowerechoserver.c`, `echoclient.c` | one connection | read, write back | short reads |
| simple talk | `kadai2/simple-talk-*.c` | one connection, a line buffer | select loop | blank lines skip the client; one client after another; a write to a client that has gone |
| UDP samples | `kadai2/udp_send.c`, `udp_receive.c` | - | `sendto`, `recvfrom` | - |

The chat programs carry the repository's own logic, and of these the TCP pair is
what report4 describes. The server is one process with one thread: a `select()`
loop that calls one handler per ready descriptor. Its concurrency is with the
kernel and the peers: connections complete, bytes arrive and connections break
at any moment between two of its system calls. Clients talk to the server only
through their TCP connection; the server's handlers share the table.

What makes each part correct:

* TCP server: the counter, the table and the descriptors agree; no `read()`
  stops the server; names are unique; every peer is told things in an order the
  client understands and nothing impossible (a message of somebody who has left);
  all members hear the same events in the same order; every connection is
  answered, every input read, every broken connection noticed.
* TCP client: it speaks only in turn; it and the server agree who is in the
  chat; it does not hang in the handshake.
* UDP pair: the same promises against a network that loses, repeats and reorders.
* Barrier: nobody passes before everybody has arrived, then everybody passes.
* File counter: no increment is lost. Alternation: strictly one after the other,
  and nobody waits for ever when the other one dies.
* Merge sort: the result is the sorted input, no index leaves the array and its
  margin, and the parent always comes to an end.
* Talk: an idle client ends and a busy one does not, timers do not pile up, and
  the server lets go of a client that has gone.

## 2. Modules and how they correspond to the code

| module | what it is |
|---|---|
| `ChatServer` | every handler of `chatserver.c`; sockets and peers external |
| `ChatRoom` | the promise: one room, one order of events for all members |
| `ChatServerRoom` | the refinement mapping from `ChatServer` to `ChatRoom` |
| `ChatSystem` | `chatclient.c` processes composed with `ChatServer` |
| `ChatFlow` | the lines between `chatclient.c` and `chatserver.c` when `write()` waits and stdio reads ahead |
| `ChatUdp` | `chatserver-udp.c`, `chatclient-udp.c` and the network between them |
| `BarrierSync` | the processes of `barrier_sync.c` |
| `AbstractBarrier` | the promise: nobody goes on before all have come |
| `FileCounter` | the processes of `file-counter.c` |
| `AtomicCounter` | the promise: one increment each, in one step |
| `MutualExec` | the two processes of `mutual_exec.c` |
| `Alternation` | the promise: two parties take turns; one left alone says at most one line more |
| `Merge` | `merge()`, one element at a time |
| `MergeSort` | the processes of `mergesort.c` and `conc_merge_sort.c` |
| `Talk` | `simple-talk-server.c` with clients of three programs, and the timer processes of `myalarm()` |
| `ChatServer_proofs`, `ChatSystem_proofs`, `ChatUdp_proofs`, `BarrierSync_proofs`, `FileCounter_proofs`, `MutualExec_proofs`, `MergeSort_proofs`, `Talk_proofs` | theorems |
| `MCChatServer`, `MCChatSystem`, `MCChatFlow`, `MCChatUdp` | small instances for TLC |

The others are small enough to be checked as they are.
Operators commented as "Mutant" are wrong variants of the definition below them;
`PROJECT.json` says which property each one breaks.

### ChatServer

`sock`, `name`, `status` are the fields of `clients[i]` (`NoSock` is the 0 of an
unused `socket`, `NoName` the empty name, status `"NONE"` the value 0 of
`ClientStatus`), `client_count` is the counter. `pc` and `ready` are the position in the main
loop: `ready` holds the slots that `FD_ISSET` selected and the `for` loop has still to
visit. The other variables belong to the kernel and the peers: `backlog`, the
state `link` of each connection, the unread bytes `inbox`, everything delivered
to a peer `sent`, the connections the server has `closed`.

| code | definition |
|---|---|
| `main`, `select()` and the priority of `listening_socket` | `Select`, `SyscallFails` |
| `main`, loop over the clients | `Serve`, `Scanned` |
| `new_client` | `NewClient` = `AcceptClient` or `RejectClient` |
| `receive_username`, `register_client_name` | `ReceiveUsername`, `RegisterName`, `RejectName` |
| `handle_massage`, `broadcast_message`, `all_username` | `HandleMessage`, `Answer`, `Reply` |
| `client_disconnected` | `ClientDisconnected` |
| `write_all_clients` | `ToAll`, `Deliver`, `Killed` |

Choices worth knowing:

* A handler is one action. The server is the only process that changes the
  table, and what a peer does between two writes of one handler is the same as
  if it did it before or after, except for deliveries nobody can observe. The
  exception is the death of the server inside a handler: `Killed` stops the
  broadcast at the slot whose write raises SIGPIPE, after the slots before it.
* A write to a connection whose peer has closed succeeds (`"fin"`), and makes
  the peer answer RST; a later write finds the connection reset and raises SIGPIPE,
  which the server does not handle. When the RST arrives is a free choice.
* `read()` returns whole pieces, between one and `MaxRead` of those that have arrived: a short line
  is not split, two lines may come in one `read()`. A user name of 16 bytes or
  more (`Overlong`) leaves its tail (`Rest`) in the stream.
* `chatserver.c:191` looks for a newline in a buffer that may not hold one. In
  the committed binary the bytes after the buffer hold none, so a long name is
  cut at 15 bytes: that is `Stored`.
* `chatserver.c:251` writes `message_buffer[bytes_received]` before it tests
  `bytes_received`, so a failed `read()` writes `message_buffer[-1]`. That is
  undefined; `ReadError` chooses between the outcomes builds have: the
  disconnection is handled, or stale bytes are taken for a message.
* `write()` never blocks here. A member that does not read would fill its
  buffers and stop the server; that is in `ChatFlow`.
* The timeout of `select()` (one second) changes nothing and is left out.

### ChatRoom and ChatServerRoom

`ChatRoom` knows who is in the room under which name, who has gone, and what
each connection has heard. Its actions are `Enter`, `Speak`, `Leave` (only of
somebody who has gone), `Whisper` (an answer to one user), `Go` and `Close`, which may leave one
last event half told. `ChatServerRoom` maps the members and their slots to
`who` (`Who`), broken connections to `gone` (`Gone`), and `sent` to `heard`.

### ChatSystem

The peers of `ChatServer` become processes that run `chatclient.c`: `cst` is the
position (`read` of the answer, of the registration, the loop), `nick` the
argument and `rd` how many messages have been read. The second `read()` may return several messages and
only the first 20 bytes are looked at: the others are lost (`ReadReg`).

`SendName` and `SendLine` of `ChatServer` are guarded by what the server has said to the
peer. The clients do not use them: `ReadAck` and `TypeLine` are conditioned by what the
process has read and by its place only, and write (`Writes`) whatever the server
is doing. `typed[c] < MaxLines` is the one bound. That a client never
speaks out of turn is therefore a property of the two programs together,
`PeersAreClients`, which fails when a comparison of `chatclient.c` is left out or when the
server tells a client anything between its two answers. The first `read()`
asks for 18 bytes, one more than REQUEST ACCEPTED has: a message after it would lose a byte,
and `PeersAreClients` also says that there never is one.

### ChatFlow

`ChatServer` and `ChatSystem` keep the handlers whole; `ChatFlow` takes them apart
at every `write()`. All clients have their names. `tell` is the rest of the
lines the handler in progress has to write, each to one client, in the order of
`write_all_clients()`; `Write` writes the first when there is room for it. A socket holds `CAP` lines
each way (`up`, `down`). The client's `write()` waits for room in the same way.
Standard input is `keys`, `eof` and `stdio`, the lines `fgets()` has read ahead
from a file or pipe (`tty` is FALSE), which `select()` does not see. Lines are
counted, not told apart; a line may or may not be `/list`. `ReadAck`, `ReadReg` and what the lines
say are in `ChatSystem`.

### ChatUdp

`toServer` and `toClient` are the datagrams under way. They are sets, because
UDP promises no order: any of them may be received next. `repeats` counts the
datagrams that were received and are still in the network (`Repeats`, bounded
by `MaxRepeats`), and `lost` records that one has been lost (`Lose`). The
server's `clients[i]` are `addr`, `name` and `status`; one datagram is one
`recvfrom()` and one handler.

| code | definition |
|---|---|
| `main` of the server | `Server`, `Handle`, `SyscallFails` |
| `find_client_by_addr`, `find_free_slot` | `Find`, `FreeSlot` |
| `new_client` | `NewClient` |
| `receive_username`, `register_client_name` | `ReceiveUsername`, `RegisterName`, `RejectName` |
| `handle_massage`, `broadcast_message`, `all_username` | `HandleMessage`, `ToAll`, `NameList` |
| `main` of the client | `Start`, `ReadAck`, `ReadReg`, `TypeLine`, `ShowText`, `End`, `Refused` |

Choices worth knowing:

* An address is all the server knows of a peer. It looks it up in the table, and
  what a datagram means depends only on the slot's status: an unknown address is a
  first contact whatever it says, the next datagram is the name, all after that
  are lines. So a repeated HELLO becomes a name, a repeated name a line. The
  configuration gives one user the name `"/list"` to let a name be taken for
  the command.
* `client_disconnected` and `write_other_clients` are never called, and
  `addr` is only cleared when a name is rejected: members stay (`MembersStay`).
* What a client sent before its process ended is still received; what is sent
  to it afterwards is dropped. When the server has ended, its host answers a
  datagram with an ICMP error and the next `recv()` or `send()` of the client
  fails: `Refused`.
* `SyscallFails` is `select()` that fails: the server exits, and what waits in
  its socket is lost.

### BarrierSync

`mpc` and `i` are the parent, `cpc` the children, `sem` and `exists` the
semaphore set; one action per system call that matters. A child that is killed
leaves the semaphore as it is, since the code does not set SEM_UNDO. `MainFails` is a
call of the parent that fails (its own `semop()` included): `exit(1)`, the children stay. `arrived` and `resumed` record
who has decremented and who has passed, and are mapped to `here` and `through`
of `AbstractBarrier`.

### FileCounter

`mpc`, `i` and `reaped` are the parent, `cpc` and `count` the children. The file
is read, truncated and written in three steps, because other processes could
come between: `fopen("w")` truncates (`Empty`), `fclose()` writes the buffer. `fscanf()`
leaves `count` uninitialised if it finds nothing, so `Read` takes any value then;
under the semaphore that never happens. `written` records who has
incremented, and its cardinality is the value of `AtomicCounter`.

### MutualExec and Alternation

`ppc`, `pi` and `cpc`, `ci` are the places and loop variables of parent and child;
`toParent` and `toChild` count the numbers in the two pipes. The results of `read()` and
`write()` are not looked at: the end of a pipe lets a process go on as a
number does (`ParentRead`, `ChildRead`), and a write without a reader is SIGPIPE.
Either process may be killed at any point. `Turns` maps what has been
printed to `said` of `Alternation`, and calls a process gone when it has ended
or its next `write()` will kill it.

### Merge and MergeSort

`mem[p]` is the memory of a process: both arrays and the variables of the call of
`merge()` that runs. `Step` is one turn of one of the four loops of `merge()`.
Its last loop (`Copying`) turns `num_elements + 1` times and then writes
`numbers[left - 1]` from `temp[left - 1]`. At `left = 0` that is the cell
before both arrays. C says nothing about it; the arrays are global, and in the
committed executables there is padding before each of them, so it is a cell of its own (`-1`). The recursion of
`m_sort()` is the stack `todo` of calls that have still to begin.

`fork()` copies `mem`. The child sorts `LeftHalf` and writes it (`ChildWrites`), the parent sorts the right
half, reads (`ParentReads`) and merges. The half is at most a few bytes and goes
through the pipe in one piece. A `fork()` that fails returns -1, which the code takes for
the parent's case, and a killed child leaves the end of file: in both cases the
parent merges a left half that nobody has sorted. `conc_merge_sort.c` is `SortAlone`: the loop that would fork
does not turn, since `NUM_PROCS` is 0.

### Talk

`spc`, `cur` and `queue` are the server, which talks to one client at a time and
keeps the others in its backlog. `kind` says which of three programs a client
is: `kadai2/simple-talk-client.c`, `kadai3/simple-talk-client.c` with a timer,
or `alarm.c`, which has a timer and no server. `timers[c]` are the seconds left
to sleep for the child processes of `myalarm()`; `Rearmed` kills the newest and
forks another. `Fires` sends SIGALRM to whoever is the parent then (`stray`
counts those that were not): it sets the flag of the talk client, and ends the
others. `gap` is the time since the last input. `Check` is the test of the flag
at the end of the loop, where also a `select()` that found nothing leads.

* At the end of a file `fgets()` leaves `buffer[]` as it was, so what `write()` does
  is a question of what was in it: nothing, a blank line or a text (`Fetched`). The server
  skips the client after a blank line (`simple-talk-server.c:70`).
* The server dies of SIGPIPE when it writes to a connection that has been reset;
  a client that ends with texts unread resets it at once, otherwise the first
  text that reaches the closed end does.
* A client that has ended may be started again as any of the three programs.

## 3. Runs

Bounds of the chat server runs: three connections for a table of two slots (so
that the table is full, and the third connection is refused or takes a freed
slot), two user names (so that two users want the same one), one line per
connection (`MaxLines`), and `MaxRead` pieces per `read()`: 1 in `server_safety`, 2 in
`system` and `server_live`. The last has two connections, one
of which has a name of 16 bytes and more, so that a name's tail and a line come
together; failing system calls are in it too (`SyscallsFail`). A connection is used once; a client that
comes back is a new connection. Three connections are what the interesting
cases need: one to leave, one to take its slot or its name and one to watch.
`Running` cuts the state space where the server has stopped: after that only
peers move. It is used in safety runs only, as is the symmetry of connections. The
system can really stop (a killed server, no more connections), so deadlock is
not an error.

| run | shows |
|---|---|
| `server_safety` | counter, table, descriptors and what every peer is told stay coherent, whatever breaks when |
| `server_live` | that it implements `ChatRoom` (`RefinesRoom`); `ConnectionAnswered`, `SlotFreed`, `InputRead`; with names of 16 bytes and more, names stay unique |
| `system` | what the clients write, conditioned only by what they have read, is always in turn, as the server model assumes of its peers (`PeersAreClients`), both ends agree (`EndsAgree`), and no client hangs in its handshake, even when the server dies (`HandshakeEnds`) |
| `chat_flow` | a member that only listens, is at the end of its input or has gone never stops the server (`WritesEnd`); what was typed is sent (`TypedSent`) |
| `udp` | the table and its counter agree; one slot per address, one member per name; who chats is registered (`ChattersRegistered`), under the own name unless a datagram was repeated; members stay |
| `udp_live` | as long as nothing is lost, no client waits in its handshake, whatever is reordered or repeated |
| `barrier` | `barrier_sync.c` implements the barrier even when processes fail; the set is removed last; unless something fails all pass |
| `file_counter` | `count1()` is an atomic increment (`RefinesCounter`) wherever children fail; unless something fails the file counts all |
| `mutual_exec` | the lines alternate (`RefinesAlternation`), the parent ends last (`OrderlyEnd`), and nobody waits for ever, whoever is killed (`BothEnd`) |
| `merge_sort` | indices stay within the arrays and their margin, the turn too many is harmless (`OtherHalfKept`), the result is sorted; without the child at most one number is lost (`OnlyOneLost`) and the parent ends |
| `talk` | at most one timer, never early, which ends an idle client (`IdleEnds`) in whatever place of its loop the signal comes; the server turns to the next client (`ClientReleased`) |
| `rejected_only_when_full` | violated: a name rejection leaves `client_count` too high (`chatserver.c:206`), so that a connection is rejected while there are free slots. The claim is report4's, quoted in `PROJECT.json` |

Bounds of the others:

* `system`: three clients, two of which have the same name and the third may have it too, for two
  slots; one line each. Of the three, only one may be ended by its user
  (`MCNext`): one departure is what frees a slot and a name; all end when the server does.
* `chat_flow`: two members, one at a terminal and one with a pipe, two lines
  each, and one line of room each way: sockets are full all the time. Larger
  rooms only put off the moment at which both are.
* `udp`: three clients, two slots, one repeated datagram; one user is called `/list`.
* `barrier` and `file_counter`: four processes; `mutual_exec`: 0, 1, 2 and 5 lines.
* `merge_sort`: 1, 2, 5, 6 and 8 elements of two values: halves of equal and of
  unequal size, a child with one element, two and three levels of recursion.
* `talk`: one client at a time, started again without bound, two lines each way
  and a `TIMEOUT` of two seconds, so that time may pass between two inputs
  without the timer being due. `MaxLines` does not exceed `CAP`, which
  means that no `write()` waits (see `IdleEnds`).

Fairness. The server is one process, and the scheduler keeps running it: weak
fairness of `Server`, its loop taken as a whole. A step of the server is never disabled by a peer, except
that there is nothing to do. Clients that can read do so (`WF` of
`ClientReads`, per process). Nothing is assumed of the users, the connections
or failing calls. Finitely many connections arrive; an endless stream of them
would starve the members, since a pending connection takes precedence over all
input (`chatserver.c:121`), and the liveness runs do not contradict that.
UDP: the server and each client keep running. A datagram under way stays in
its set until it is received or lost, and since only finitely many are sent and
repeated it is received in the end; losing one is never obliged to happen.
Barrier and counter: every process that can go on is scheduled. Weak
fairness is enough for the semaphores: the zero of the barrier, once reached,
stays, and the counter's semaphore is taken only finitely often.
The other programs: every process that can go on is scheduled, time passes
(`Tick`) and sleepers wake; nothing is assumed of the users, of failures or of
who is killed.

## 4. Theorems

### The TCP server

`ChatServer_proofs` proves, for every set of connections, table size, names,
lines and bounds that satisfy `ChatAssumption`:

| theorem | property |
|---|---|
| `TypeCorrect` | `[]TypeOK` |
| `CountCorrect` | `[]CountCoversSlots` |
| `DescriptorsCorrect` | `[]DescriptorsKept` |
| `NamesCorrect` | `[]UniqueNames` |
| `ReadsCorrect` | `[]ReadNeverBlocks` |
| `SlotsStable` | `SlotStable`, which no run repeats |
| `ClientsKept` | `LiveClientKept` |
| `HandshakeCorrect` | `[]HandshakeOrder` |
| `StoryCorrect` | `[]StoryCoherent` |
| `ImplementsRoom` | `RefinesRoom`: the server implements `ChatRoom` |
| `IdleOnlyWhenDone` | when the server has nothing to do, every connection is closed, or open and all its input read |

The inductive invariant `IInv` is the conjunction of `TypeOK`,
`CountCoversSlots`, `DescriptorsKept`, `QueueOK`, `UniqueNames` and
`ReadNeverBlocks`. `QueueOK` is what has to be added: the backlog holds each
connection once, only ones that exist and that the server has not closed.
Without it an accepted connection could already own a slot, and
`DescriptorsKept` would not be inductive. `CountCoversSlots` needs
`DescriptorsKept` only through the table: a slot is taken and counted in one
handler, and freed and discounted in one, except for the rejected name, where
the count stays above. That `client_count - 1` stays a natural number is
`CountCoversSlots` at a disconnection: a slot is in use, so the count is at least 1. `ReadNeverBlocks`
is inductive because a handler changes only its own slot and takes it out of
`ready`. The proofs split `Next` into its actions, `Serve` into the four
outcomes of the handlers, with one lemma per outcome.

What peers are told takes three more steps, each on top of the one before.

* `HandshakeInv`. `HandshakeOrder` speaks of what has been said, and the next handler
  looks only at `status`. So the invariant ties them: nothing has been said to a
  connection that is not accepted, and a slot's status says what its connection
  has been told (`Told`): ACCEPTED and no more, or the three greetings and then
  only events (`Greeted`). That need not be so of a peer that is gone, to which a write may
  have failed, nor once SIGPIPE has cut a handler short; both are exempt, since
  nothing is said to them any more.
* `ImplementsRoom`. Each action is one step of the room or a stutter:
  registration is `Enter`, a broadcast `Speak`, the departure of a member `Leave`, an answer to one
  connection (acceptance, rejection, `/list`) `Whisper`, a connection that breaks
  `Go`, and a handler that SIGPIPE interrupts `Close`. All that a handler writes
  is a greeting for one connection and one event for a set of slots (`Spread`), which is
  what the room calls `Announce`. It needs `IInv` before and after the step:
  the descriptors are distinct, so a set of slots is a set of connections, and the names are too.
* `StoryInv`. `StoryCoherent` is not inductive: that the next event fits what a user has
  heard needs that user to know who is in the room (`Knows`). It is proved through
  the actions of the room instead of the server's, which `ImplementsRoom` permits: there
  are six of them, and only three are events.

`IdleOnlyWhenDone` is what `ConnectionAnswered`, `SlotFreed` and `InputRead` mean when
fairness is left aside: as long as somebody waits for the server, it has a step to take.

### The TCP system

`ChatSystem_proofs` extends this to the server with the processes of
`chatclient.c`:

| theorem | property |
|---|---|
| `PeersAreClientsHolds` | `PeersAreClients`: although no client looks at the state of the server, a user name is written once, when the server has said REQUEST ACCEPTED and nothing more, and lines only after USERNAME REGISTERED, so the composition is a behaviour of `ChatServer` |
| `EndsAgreeHolds` | `[]EndsAgree` |
| `HandshakeNeverStuck` | a client in its handshake has something to read or the end of its connection, or the server has its connection or its name to take |
| `ServedByChatServer` | so `HandshakeOrder`, `StoryCoherent`, `UniqueNames` and `RefinesRoom` hold of these clients |

The inductive invariant `SysInv` is `IInv`, `HandshakeInv`, `NamedInv`, `ClientsOK` (what the
place of a client says of its connection, of what it has read and of what it has
said) and, until
the server has stopped, `Agree`: a slot and the client at the other end are at
the same point of the handshake (`SlotAgrees`), a client that chats has a seat,
and one whose socket the server has closed was refused. `SlotAgrees` has to say
what is under way: while the client waits for its registration and the slot is not
yet a member's, exactly its name is in the server's buffer. That is what
makes the next step of either end restore the agreement, and it is also why
nobody waits in vain.

`PeersAreClientsHolds` needs `NamedInv`: a connection whose peer has not said its name has no
input, is no member's, and has been told nothing but whether it is accepted. The
handlers keep it because they write to members and to the client they serve, whether they end or
SIGPIPE interrupts them (`WrittenInside`, `ServerNamed`). So REQUEST ACCEPTED read
by a client is all that was said to it (`ClientSteps`), and what a client in the loop has read
stays said (`StaysRegistered`).

### The UDP pair

`ChatUdp_proofs` proves, for every set of users, names, table size and bounds
that satisfy `UdpAssumption`, any `MaxRepeats` and any losses:

| theorem | property |
|---|---|
| `TypeCorrect` | `[]TypeOK` |
| `CountCorrect` | `[]CountExact` |
| `SlotsCorrect` | `[]SlotsDistinct` |
| `ConversationsInTurn` | `[]InTurn`, see below |
| `ChattersCorrect` | `[]ChattersRegistered` |
| `NamesCorrect` | `[]NamesStand` |
| `MembersKept` | `MembersStay` |

`SlotsDistinct` needs that a new slot is made only for an address the table does not
hold. That a client that chats is a member needs an invariant of the network: every
REGISTERED answer under way is for an address that is a member, which stays so because
no datagram takes a member away. It holds whatever is repeated.

Whose name it is under depends on the network, because a repeated HELLO becomes a
name. So the second invariant, `InTurn`, says where each conversation stands as long as
nothing has been repeated. It has six phases (`NotStarted`, `Greets`, `TurnedAway`,
`Admitted`, `Introduces`, `IsMember`), each of which fixes three things: the
client's slot, the state of its process, and what may be under way between the two. A phase
allows for a loss by bounding what is under way from above only. The proof
goes through the actions and shows that each leaves a phase alone or leads to
the next one; `OneSeat` keeps the phases apart. `ChattersRegistered` is then read off
from `IsMember`, and `NamesStand` needs one argument more, about the names in the broadcasts.

### The barrier

`BarrierSync_proofs` proves, for every number of children, `TypeCorrect`,
`SemaphoreCorrect` (`[]SemaphoreCounts`), `RemovedCorrect` (`[]RemovedLast`)
and `Implements` (`RefinesBarrier`). The inductive invariant adds to
`SemaphoreCounts` what each place in the code implies: `ChildrenOK` (a
child has arrived and passed exactly when its place says so), `ForkOK` (the
children from `i` on are not forked yet; the sum of the semaphore and the
arrivals is right also before the first fork) and `ReapOK` (who has passed
implies that all have arrived; how many are reaped). The step of the proof that
carries the weight is `ZeroMeansAll`: a semaphore of zero means that all
children have arrived, by the cardinality of a subset of `Child`.
`StuckOnlyWithoutOne` is the part of `AllPass` that needs no fairness: while the parent
runs, some process is not blocked, unless a child was killed before its decrement.

### The counter

`FileCounter_proofs` proves, for every number of children, `TypeCorrect`,
`FileCorrect` (`[]FileConsistent`) and `Implements` (`RefinesCounter`). The
inductive invariant has `Exclusion` (one child at most between the two
`semop()` calls, none when the semaphore is 1) and `HolderOK`, which says what the
child inside knows: that the file counts the increments except between truncation
and write, and that its number is the next one. A child that fails inside keeps
both true, since nobody gets in after it. `StuckOnlyAfterFailure` is the part of
`AllCounted` that needs no fairness: while the parent runs, all are blocked only if a
child has failed. Its invariant `Accounted` says where the semaphore is: taken by a child
that is inside or has failed.

### The alternating processes

`MutualExec_proofs` proves, for every number of lines and every moment at which
one of the two is killed, `TypeCorrect`, `MutualExclusionHolds` (never both
between `read()` and `write()`), `OrderlyEndHolds` and `ImplementsAlternation`
(`RefinesAlternation`). The invariant that carries them is `TurnOK`: while both
live, the numbers that have been sent are in a pipe or have been read, so there
is exactly one on its way or at the process whose turn it is, besides the one
the child is ahead. `NeverBothWait` reads the part of `BothEnd` that needs no fairness
off from it: as long as one of the two lives, one of the two can go on.

### The merge sort

`MergeSort_proofs` proves, for every array size, every input and both programs:

| theorem | property |
|---|---|
| `IndicesInBoundsHolds` | `[]IndicesInBounds` |
| `OtherHalfKeptHolds` | `OtherHalfKept` |
| `SortedAtEndHolds` | `[]SortedAtEnd`: the output is a sorted permutation of the input unless the child is lost |
| `OnlyOneLostHolds` | `[]OnlyOneLost`: without the child the parent still prints its input, but for at most one number |

The argument is that of a recursive procedure, without induction over data: a process is a
memory and a stack of calls, and each turn either moves the call of `merge()`
that runs or replaces the first call of the stack by the calls it makes. So the
invariants speak about the calls that have still to begin, and the lemmas about
one turn (`ReadyKept`, `AgreeKept`) say what survives when the first call of a list is
replaced by calls within its range (`Moves`):

* `BoundsInv`: all calls lie in the array; the variables of `merge()` fit each
  other (`MergeOK`, in which `First` and `Final` are the ends of the call that runs).
* `TurnInv` adds, for every call of `merge()` on the stack, that both its halves
  are in order when it begins, or an earlier call sorts them (`Ready`), and that
  `temp[left - 1] = numbers[left - 1]` there (`Agree`). The second is what makes the turn too many
  harmless: it writes a value that is already there, provided that the element
  was merged before. That holds because `m_sort()` does the left half first and
  never makes it smaller than the right one (`MidBalanced`).
  And it counts: what `merge()` has taken, plus what it has still to take or to
  copy, are as many of each value as there were before (`Counted`, `Held`).
* `SortInv`, from `TurnInv` before and after the step: what the child sends is its half in
  order and complete, what is in the pipe is that, and the parent's last merge
  begins with both.
* `LostInv`, for the parent that lost its child. Its left half is as it was typed but for the
  last element, since the turn too many of the parent's own merges may copy `temp[Middle]`
  there, and that is still 0 (`LeftInv`). So the last merge counts the numbers of the input, or those of
  `Lost`, the input with a 0 in that one place (`RestInv`), and it loses none of them.

### The timer

`Talk_proofs` proves, for every number of clients, `TIMEOUT`, `MaxLines` and
`CAP`, `TypeCorrect`, `OneTimerHolds` (`[]OneTimer`) and `NoEarlyAlarmHolds`
(`NoEarlyAlarm`). Two facts have to be added. A running client is the parent of
its only timer, and the seconds that one has left and those since the last
input make up `TIMEOUT` (`TimerOK`). And a line `select()` has announced is
still there when `fgets()` comes, since nobody else reads it (`InputOK`),
without which the types would not be kept.

### Only model-checked

Every invariant and every action property that a passing run checks, and the
refinements, are proved. What is left to TLC is liveness: `ConnectionAnswered`, `SlotFreed`,
`InputRead`, `HandshakeEnds` (TCP and UDP), `AllPass`, `AllCounted`, `BothEnd`, `SortEnds`,
`IdleEnds`, `ClientReleased`, `WritesEnd` and `TypedSent`. The proof of a
leads-to property from fairness needs ENABLED and an induction over how much work is left, and
neither is within reach of the provers. The theorems named above prove the part of
`ConnectionAnswered`, `SlotFreed`, `InputRead`, the TCP `HandshakeEnds`, `AllPass`,
`AllCounted` and `BothEnd` that needs no fairness: nobody waits for somebody who waits for
him. That every process goes on, and that this leads to an end, is what TLC adds.

## 5. Behaviour worth knowing that no run reports

The models contain the following. No document of the repository says otherwise,
or saying it takes a program that is already lost, so there is no violated run for them.

* `chatserver.c:298`: SIGPIPE in the middle of a broadcast ends the server, and
  the others are not told of the departure. `RefinesRoom` allows one event to be half told, then.
* `chatserver.c:251`: after a failed `read()` the server writes `message_buffer[-1]`,
  and what it had read before may be broadcast again.
* `chatclient.c:67`: messages that arrive together with USERNAME REGISTERED are
  read and not printed.
* `chatclient.c:94` and `chatserver.c:298`: a member that types while it
  does not read can wait in `write()` for the server, which waits in `write()`
  for that member (`Stuck`): then the chat stands still for all.
* `chatclient.c:93`: a line that `fgets()` has read ahead from a pipe is sent
  only when there is more input or its end; at the end of input the loop never rests.
* `simple-talk-client.c` (kadai3): at the end of a file standard input is
  always readable, so the timer is restarted for ever; and an alarm does not end a `write()`
  to a full socket (`IdleEnds` names both).
* `simple-talk-server.c:70`: when the server's standard input has ended after a
  blank line, the client is never looked at again (`ClientReleased` names it).
* `barrier_sync.c:37`, `file-counter.c:25`: after a failure the others wait for ever.
* `mergesort.c:65`: without the child's half the output is not sorted, and one
  number of it may be replaced by 0.

Some sentences of the reports are loose. No property takes its statement from them; the
models follow the code:

* report4, line 91, says that a message is sent to the other clients: `broadcast_message()` writes
  to all members, the sender included (`ToAll(Members, ...)`), as the report's
  screenshots show.
* report3, line 82, has the parent sort the left half and the child the right one: in
  `mergesort.c:66-77` it is the other way round.
* report3, line 142, says that the server ends too when the client's time is up:
  `simple-talk-server.c:81-93` goes back to `accept()`. `ClientReleased` allows either.

## 6. Not modelled, and the plan

Not modelled:

* `two-way-pipe.c`, the echo programs, `udp_send.c` and `udp_receive.c`: one
  message, or one line at a time, between two processes that strictly
  alternate. There is no other order for a checker to find.
* `sem-wait.c`, `sem-signal.c`, `fork.c`, `pipe.c`, `signal.c`: one call each.
* `alt_exec_sem.c` ends after `semget()`.
* Child process numbers that the kernel hands out again (`simple-talk-client.c:23`
  may then kill a stranger), the tail of an older line in `buffer[]`
  (`simple-talk-server.c:78`), and buffered output that `fork()` copies when
  standard output is not a terminal (`mergesort.c:65`): effects outside the
  state the properties speak of.
* When standard output is not a terminal, `printf()` keeps the lines of the
  alternating processes (`mutual_exec`) until each ends. `RefinesAlternation` is about the
  order of the calls, which is the order of the visible lines on a terminal only.
* `fprintf()` and `fclose()` of `file-counter.c:30-31` are not checked by the code, and
  a write that fails there (a full disk) is not in the model: `Write` always succeeds.
* The signal of a timer between an input and the reset of the timer: `NoEarlyAlarm`
  counts from the last `myalarm()`, which is one action.

What is left, in this order: for the liveness properties that have no such theorem yet
(`SortEnds`, `IdleEnds`, `ClientReleased`, the two of `ChatFlow` and the handshake of
the UDP pair) the part that needs no fairness; a handshake and a flow model of the TCP pair in one.
