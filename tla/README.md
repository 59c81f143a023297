# Verification of playspace

playspace is the workbench of a robot soccer programmer: some 230 files of
libraries, trials, course work and contest solutions. Its core are the parts
that robots run on. The largest is the information sharing library of the CIT
Brains humanoid team (`devInfoshare/InfoShare`): every robot tells the others
what it sees and does in one UDP datagram, and keeps a table of what the others
said. Beside it stand the sockets that were written for it, and the
communication between an application and the walking program of a robot
(`my_project/hajime_cmd`), and two ways to hand protocol buffers from one
program to another: a queue in shared memory (`socket`) and a file (`pro`).

This directory holds TLA+ modules that model those parts, TLC configurations
that check them on small instances, and proofs that TLAPS checks.

Paths below are relative to `src/`; `IS/` stands for `devInfoshare/InfoShare/`.

## 1. The system

### What is modelled

| part | code | state | operations | talks to |
| --- | --- | --- | --- | --- |
| InfoShare | `IS/infoshare.{h,cpp}` | `already_setup`, `self_id_`, `our_color_`, `client_`, `server_` | `setup`, getters, `changeColor`, `sendCommonInfo`, `receivedDataHandler`, `terminate` | its table, the sockets, the dictionaries |
| Table of the other robots | `OtherRobotInfomation` in `IS/infoshare.h` | a row for every robot; a mutex for every field that is not atomic | `set...`, `get...` | written by the server thread, read by the application |
| Team network | `sendCommonInfo`, `receivedDataHandler`, modes and ports in `IS/infoshare.cpp` | processes, colours, datagrams on the way | send, receive, start, exit, change colour | several InfoShare processes |
| Datagram contents | `IS/infoshare.proto`, `sendCommonInfo`, the setters of `receivedDataHandler` | the datagram, the row it becomes | narrowing, encoding, cutting, widening | sender's arguments to receiver's getters |
| Behaviour names | `SerializeStringByDict` | the lines of a dictionary file, the scan | `serializeTextImpl`, `decodeTextImpl` | two copies of one file |
| UDP sockets | `IS/try/sUDPSocket.hpp` | sockets, `io_service`s, threads, `terminated_` | `send`, the receive loop, two `terminate`s | the kernel's buffers, the handler of InfoShare |
| TCP sockets | `IS/try/sAsyncSocket.hpp` | the same and an acceptor | connect, accept, `send`, the receive loop, two `terminate`s | the kernel's stream |
| First UDP sockets | `devInfoshare/try_old/{header.hpp,server.cpp}` | objects of three classes in one process, static flags of `terminate` | construct, `send`, receive, `terminate`, destroy | each other, through the flags and the ports |
| Walk communication | `my_project/hajime_cmd/classes.{hpp,cpp}` | `is_suspended_`, two pairs of ZeroMQ sockets | the `hajime...` commands, `hajimeSetSuspended`, the getters, `recv_command`, `send_state` | application and walking program, over ipc |
| Picture queue | `socket/{sender,receiver}.cpp` | a named message queue, the receiver's buffer | remove, create, wait, open, send, receive | two processes, over shared memory |
| File transfer | `pro/send/procpp.cpp`, `pro/rece/getproto.cpp` | `stream.dat`, two file streams | open, serialise, close; open, read, parse | two processes, over a file |
| Generated messages | `socket/proto`, `pro/proto` | fields, presence bits, unknown fields | accessors, `Clear`, serialise, parse, merge, copy, swap | the two above |

An application thread and an `io_service` thread meet in InfoShare: `setup`
constructs `UDPClient` and `UDPServer`, whose constructor starts a thread that
calls `receivedDataHandler` for every datagram. The handler writes the row of
the sender, field by field, while the application's getters read it.

### What is hard about it

* **Two threads, one row.** A row has no lock of its own: a getter can fall
  between any two fields, and a vector is cleared before it is refilled.
* **Starting and stopping.** The server's thread runs before `setup` has
  returned; `terminate` has to get a thread out of whatever it is doing, with a
  flag that is not atomic.
* **Memory.** Both sockets pass the asynchronous send a pointer to a local
  string. Whether that matters depends on whether the send can be done at once;
  when it cannot, the next message may already be where the string was.
* **Half a server.** A constructor that cannot start its thread, or set an
  option, reports that and goes on; a receive that fails is the last one.
* **The network.** Datagrams are lost, doubled by a broadcast's echo, overtake
  each other, come from the other team, and are cut at 1024 bytes. A stream has
  no message boundaries and ends with an `eof` that is taken for data.
* **Narrow numbers.** Bytes, signed characters, floats cut to integers.
* **Restarts.** Robots come back with the same number; the walking program
  comes back to a queue of commands that was meant for its predecessor; a
  receiver of pictures removes the queue somebody is still sending to.
* **Nothing in between.** The two programs of `pro` share a file without a lock:
  the reader may find it truncated, and a writer that is killed leaves it so. The
  receiver of `socket` parses its whole buffer, old tails included.
* **One flag for all.** The first sockets guard `terminate` with a static
  variable: what one object has done, another believes to have done.

### What makes each part correct

* A row is never torn: a getter returns what one datagram said, time never runs
  backwards, and the receive time covers every other field
  (`ReadsAreWhole`, `ReadsMoveForward`, `DataNotNewerThanRecvTime`).
* Between two datagrams the table is what the newest data of every robot say
  (`IdleTableIsLatest`).
* Rows are about others, team mates hear each other, and after a change of colour
  at most one datagram of the old team is still written
  (`RowsAreOthers`, `TeamMatesHearEachOther`, `OneStrangerAtMost`).
* What the getters return is what one call of `sendCommonInfo` said, as far as
  its figures are in their ranges (`RowIsOneCall`, `CutDatagramsAreDropped`).
* A name arrives as it was sent, or as the beginning of it, if the dictionary's
  numbers fit in a char (`RoundTrip`).
* A socket delivers what was sent, in order, as long as no send has to wait
  (`DeliveredAsSent`, `StreamArrives`); what waited may be gone or replaced by a
  later message, never by an earlier one (`OnlyLaterMessages`, `OnlyLaterBytes`).
  A server that has a thread goes deaf only by a failed receive
  (`DeafOnlyByError`), and its `terminate` returns and leaves nothing behind.
* Of the commands of a suspended robot one at most still leaves (`SuspendHolds`).
* Whoever takes messages, by UDP, from the queue of commands or from that of the
  pictures, takes one for each that was posted at most, in the order of the
  posts, through every loss and restart (`ImplementsChannel`).
* A picture that is shown is one that was sent, and whole, unless an earlier
  message was longer (`ShownIsSent`), and all arrive (`AllArrive`).
* A record that is shown is a whole one (`ShowsOneRecord`), in the end the last
  (`LastRecordIsShown`).
* The generated classes lose nothing and keep nothing back (`PictureLaws`,
  `PersonLaws`).
* Objects that are left to their destructors end, and end well
  (`CrashNeedsSecondCall`, `LeavingEnds`).

### What is not modelled, and why

| part | why |
| --- | --- |
| The oldest client (`devInfoshare/try_old/client.cpp`) | a send and a sleep, with nobody to answer |
| Programs and tests of the library (`IS/test`, `IS/try/test2.cpp`) | they drive the models: which calls an application makes, and one requirement that is not met |
| Message queue trial (`my_project/asio/mq.cpp`) | the shape of the UDP server's loop again |
| Protobuf worker (`my_project/protobuf_api`) | sequential reflection; its behaviour is the library's |
| Unix domain socket, ice, ZeroMQ, MQTT trials | one file each, no state of their own |
| Thread pool measurement, visibility graph | a measurement; unfinished (`graph.hpp:114` does not compile) |
| Python and Webots scripts | command line scripts; the generator of the dictionaries appears among the hazards |
| Numerical, graphics, contest and course programs | floating point, drawing, one-shot computations |
| Descriptors, reflection and arenas of the generated code | tables, and memory these programs never use |

Of the walking library's types (`hpl_types.h`, `hajime_command.h`) `Pos2DCf` is
modelled, and what `sendCommonInfo` reads; the changes of coordinates are
floating point, and nothing in the repository uses the map of white lines or the
bounding boxes. Of the hazards in `PROJECT.json`, those without
a property are of three kinds. A single line shows what happens, and no state
could tell (the float of the receive time, the range check of the id). The code
does what must not happen, or has nothing that would prevent it, so that there
is no promise to check: datagrams that overtake each other carry no number, a
list that became empty is kept, figures out of their ranges and numbers from 128
on change, a publisher drops commands. Section 5 lists those that contradict a
comment. Or they end in a library (a message without a required field).

## 2. The modules

| module | models | composes |
| --- | --- | --- |
| `InfoShare` | one process, both threads, field by field | implements `FieldRegisters` |
| `FieldRegisters` | the abstract promise: every field of every row an atomic register that only moves forward and never overtakes the receive time | |
| `MessageChannel` | the abstract promise of the ways that hand over messages: any post may be lost, none is taken twice, out of order or by a taker that is not there | implemented by `UdpSocket`, `WalkCommunication` and `PictureQueue` |
| `TeamNetwork` | several processes; the handler is two actions, its checks and its writes | stands on `InfoShare`: `IdleTableIsLatest` is what makes one action of all the writes a fair picture of a process between two datagrams |
| `SharingData` | the contents of one sender's datagrams | |
| `SerializeDict` | encoding and decoding of names | |
| `UdpSocket`, `TcpSocket` | client, server and kernel in one application | |
| `OldUdpSocket` | any number of the first clients and servers in one process | |
| `WalkCommunication` | application and walking program | |
| `WireFormat` | the protocol buffer library: bytes to fields and back | |
| `CameraMeasurement`, `Person` | the generated classes of `picture.proto` (proto3, no presence) and `pro.proto` (proto2, presence bits), as functions on a message | stand on `WireFormat` |
| `PictureQueue` | sender, receiver and the queues in shared memory | its messages are `CameraMeasurement`s |
| `FileTransfer` | writer, reader and the file | its records are `Person`s |
| `MC_*` | definitions for the constants of the runs | |
| `InfoShare_proofs`, `UdpSocket_proofs`, `TcpSocket_proofs`, `WalkCommunication_proofs` | theorems about the module of that name | |
| `TeamNetwork_proofs` | theorems about `TeamNetwork` and `OldUdpSocket` | |
| `Contents_proofs` | theorems about `SerializeDict` and `SharingData` | |
| `PictureQueue_proofs` | theorems about `PictureQueue` and `FileTransfer`, with what both stand on: the wire format and the two classes | |
| `SequenceLemmas` | induction over numbers and over sequences, functions defined by recursion, concatenations, folds, numbered messages that pass through queues | under the proofs of the sockets, the contents, the pictures and the walk communication |

Every module also holds *mutants*: operators named `X_Something` before an
operator `X`, which do what a plausible mistake in the code would do. None of
them is used by a specification; each exists to show that a property would
notice.

### InfoShare

`app` is the place of the application thread: `fresh`, inside `setup` (`rows`,
`client`, `server`), `up`, in a getter, inside `terminate` (`stopping`,
`joining`, `closing`), `terminated`, `destroyed` or `crashed`. `setup` takes a
step per row pushed and one per socket made; both sockets are made in one `try`
block, and each may throw: the client when the system refuses it a thread, the
server when its port is taken. A server that is refused a thread does not throw:
it is `threadless`, it hears nothing, and joining it ends the process
(`JoinServerCrashes`). `already_setup` is the static flag: a second object
of the process returns from `setup` with nothing made.

`pos` is the field the handler is about to write, in the order of the source
(`SourceFieldOrder`). A field is atomic (one step) or has a mutex (a step that
locks and starts writing, one that finishes and unlocks); an empty repeated
field is skipped, as in the code. The value of a field is the number of the
accepted datagram it came from; a field whose writing takes more than one
machine step is a pair `head`/`tail` that differ while it is half written. A
getter of such a field waits for the mutex, reads and releases.

`armed` and the states of `server` follow `UDPServer::terminate`: flag, close,
stop, join. A receive may end with an error, after which none is started
(`ReceiveFails`).

### TeamNetwork

A process has a robot id, a colour, a table of rows (the process the data came
from) and a port: its host's broadcast port, or in unicast mode the port of its id. A
process that finds its port taken stays without a server but sends (`deaf`):
the client is made first. The handler checks a datagram (`receivedDataHandler`)
and then writes it (`SetRow`); `hand` holds it in between, where `changeColor`, a
plain assignment of another thread, may fall. `strangers` counts what was
written for another team since the colour was last set. A process that ends loses
its memory. `net` is a set, so datagrams overtake each other;
those not taken into `reached` are lost. A process broadcasts to `toBroadcastIP`
of the address it was set up with: that of the network the address belongs to, or
255.255.255.255, on the own network, when the address has no dot. `Broadcast` is
who is on that network.

### SharingData

A call is a record of the arguments; coordinates are in tenths of the unit that
is sent, so that cutting shows. `Byte`, `FromChar`, `Cut`, `Casts` and
`ClampedConfidence` are the conversions of the source. The flag of a place is the
set of the values that a read of it may give: both, for a place whose constructor
leaves it uninitialised (`FromPos2D`). Fields are encoded in the
order of their tags (`TagOrder`); a datagram longer than `buffer_size_` is cut
and its fields that end inside the buffer are looked at: without `team_color`,
the last of all, the handler throws and drops it.

### SerializeDict

`itr`, `start`, `word_end_pos` and `found_word` are the variables of the loop of
`serializeTextImpl`; `Scan` is one turn. Words are sequences of letters;
`SCHAR_MAX` is the largest char, 127, and a file of more lines has numbers that
do not come back. That is so where `char` is signed, as on the robots' x86; the
properties of what arrives are about files of at most 127 lines, for which it
does not matter. The constructor takes every line `getline` gives for a word, a
blank one too: the empty word then has a number, and the loop puts it out where
it should give up. The properties of the parse are stated for files without a
blank line (`HasBlankLine`), and the dictionaries of the run have none.

### UdpSocket and TcpSocket

The application sends numbered messages and calls both `terminate`s. asio tries a
send at once when none is waiting; otherwise the operation is queued and the bytes
are released before the `io_service` thread sends them. A datagram, or a byte, is
therefore named by the send it stems from, and `content` says which message it
holds. `Leftovers` is what released memory may hold: the message itself, no
message (`Garbage`), or one that was sent since or is being made, since the next
`send` puts its string where the last one was. It holds no earlier one, on the
assumption that nothing else in the process copies an earlier message there: the
application keeps no copies, and the strings the handlers get are made by another
thread in memory of its own. `thread` follows the server's thread through a turn:
waiting, handling, checking `terminated_` (a plain bool: once it is set, the
thread may or may not see it), arming the next receive; or there is none, when the
constructor could not start it, and then `terminate` ends the process at the join
(`ServerJoinCrashes`). A receive may fail with any error (`ReceiveFails`);
`failed` remembers that none is started after it. In `TcpSocket` the `pipe` holds
bytes, each with its send and its place in it; a receive takes any part; when the
client has closed, every receive completes with nothing.

### OldUdpSocket

`app`, `client` and `server` say where the process and every object in it are.
An object that is gone stays `gone`. `already_called` is the static variable of
`Server::terminate`; that of `Client::terminate` is never set and therefore no
variable. The datagrams are only counted. The class `InfoShareServer` has no
work guard: its `io_service` may run out of work before the first receive is
started (`OutOfWork`), and its `terminate` has no flag at all.

### WalkCommunication

Commands are numbered by the calls. Each public function looks at
`is_suspended_`, then sends; `hajimeAccurateOneStep` looks twice, because it
calls `hajimeAccurateWalk`; `hajimeMotion` may ignore the flag. The queues are
ZeroMQ's as this code uses it: a publisher drops what nobody has subscribed to
and what does not fit, and its send succeeds. The walking program ends and
starts again at any time; connections follow by themselves.

### MessageChannel

Three components move numbered messages from one program, or thread, to another.
`MessageChannel` says what all three promise; what differs is how it is
implemented, and that each component's substitution says:

| | `UdpSocket` | `WalkCommunication` | `PictureQueue` |
| --- | --- | --- | --- |
| a message is posted | by `send`, on a closed socket too | by a call, a suspended one too | by a send to any queue |
| the channel is open | until the server's `terminate` has returned | while the walking program is up | while a receiver receives |
| a new taker | there is none | goes on with the old channel (`Reopen`) | gets a channel of its own (`Renew`) |
| a message may bring other bytes | once a send has waited | never | never |

A message is its place in the order of the posts. What it brings is not the
channel's business: for the UDP sockets `DeliveredAsSent` and `OnlyLaterMessages`
say it, and by the second a message that was sent later may come early and once
more. `TcpSocket` has no messages to take, only bytes; its promise is stated over
them (`StreamArrives`, `OnlyLaterBytes`).

### WireFormat, CameraMeasurement, Person

A message is a record: its fields, for proto2 the set `has` of presence bits, and
the unknown fields it was parsed with. Bytes are cut into fields by `Decode`
without a look at the message type, as the library does; `Stored` gives them to
the members. Groups, which neither message has, end the parse; numbers stay below
2^31, and names are ASCII. The setters, `Clear`, `MergeFrom`, `CopyFrom`, the
constructors, the swap and the sizes are those of the generated files, each with
its own conditions: `Clear` of a `Person` empties only the strings whose bit is
set, for instance, so that it is a law, not a definition, that it clears.

### PictureQueue

`queues` holds every queue that was ever made, `named` the one that has the name,
`msgq` the one the sender opened: a queue that was removed lives on for those who
have it open. The sender looks whether there is a queue (`Wait`), closes it and
opens it again (`Open`), outside its `try`: in between the name may have gone.
`received_data` is the buffer, and the picture shown is a parse of all of it.
A process that dies inside the critical section of the queue itself would leave
its mutex locked; that belongs to the library and is left out.

### FileTransfer

The writer's stream is open before its loop begins, so that the first `open` of
the loop fails, and closing writes what the constructor left in the buffer
(`Text`). A record is smaller than the stream's buffer: it reaches the file in
one write when the stream is closed. The reader takes what the file holds behind
its position, again and again, until a read gives nothing; between two reads the
writer may have truncated the file and written another record.

### What is external

asio, the kernel's buffers, the networks and ZeroMQ are not in the repository.
They are modelled from how the code uses them, and marked external in
`PROJECT.json` where a definition stands for nothing else.

## 3. The runs

| run | instance | shows |
| --- | --- | --- |
| `infoshare` | 3 robots, one field of each kind, 2 datagrams out of 7 kinds | the invariants and step properties of a process, that it implements `FieldRegisters`, and that `terminate` returns wherever it catches the handler and leaves the table quiet |
| `infoshare_stop` (violation) | 2 robots, all the fields of the source | `terminate` without a server dereferences null |
| `team_network` | 3 processes, two with one id, one set up without a dot in its address, both modes, 2 datagrams on the way | no echo, and one stranger at most after a change of colour, in any order of restarts, colour changes, losses; team mates that stay up hear each other, after the last restart too |
| `sharing_data` | 24 calls | a row is what one call said, within the ranges of the figures; cut datagrams change nothing |
| `serialize_dict` | all dictionaries of 1 or 2 words of up to 3 letters, many of 3, one of 200 words, none with a blank line; all texts of up to 5 letters | the loop is the greedy parse, it ends, nothing is skipped, doubled or changed |
| `udp_socket` | 4 messages, buffers of 2 | delivery, what a send that waited can bring, deafness only by an error, a clean end, and that the calls of the handler are a `MessageChannel` |
| `udp_socket_test` (violation) | 3 messages, send buffer of 1 | contents of a queued send are lost, or another message's |
| `tcp_socket` | 3 messages of 2 bytes, room for 3, receives of 3 | the same for a stream, and that `eof` for ever does not keep `terminate` from returning |
| `walk_communication` | 3 commands, queues of 2 | one command at most slips past a suspension; the commands are one `MessageChannel` over all restarts; getters return |
| `picture_queue` | 3 pictures of different sizes, a queue of 2, 4 sends, 2 starts of the receiver and any of the sender | what is shown was sent; every start of the receiver makes a `MessageChannel` of its own; all arrive; the class's laws |
| `file_transfer` | the strings and the 10 rounds of the source, 4 readings, an empty file or the repository's | one record or none is shown, in the end the last; the class's laws |
| `old_udp` | 2 clients, one of them broadcasting, 2 servers of the newer class and 1 of the older, two of the servers on one port | when a process crashes, and that one that leaves `main` ends |

### The bounds, and why they are enough

* `MaxAccepted = 2` (InfoShare): tearing and going back in time need two
  datagrams for one row; a third repeats the situation of the second. The
  proofs have no such bound.
* `ShortOrder`: one field of each kind (time, atomic, string, vector, struct)
  meets every shape of the handler's steps; the proofs hold for every order
  beginning with `recv_time`, that of the source among them.
* `MaxInFlight = 2`: two datagrams can overtake each other.
* Two processes of one id and one of another: echo, restart, a taken port and a
  robot of the other team with the same number all occur.
* The calls of `SharingData` lie on both sides of 127/128, 255/256, 0, the
  confidence's 100, and, with 59 and 60 poses, of the buffer's 1024 bytes.
* Words of up to three letters: the scan can overrun a word by a longer
  candidate and jump back by more than one letter.
* Four messages and a buffer of two: a message in every place of the way at
  once, and one that waits. In `tcp_socket` room for 3 bytes, and messages of 2,
  make partial writes and receives across message boundaries.
* Three commands and queues of two: a full queue, a dropped command and a
  suspension in between.
* `picture_queue`: three pictures of different lengths in a buffer that is longer
  than each, two of whose images read as the tag of the time when they are a
  tail; a second start of the receiver while the sender still has the first queue. Order,
  what is shown and the laws are proved without these bounds.
* `file_transfer`: four readings, two more than a change of the record in the
  middle of one needs.
* `old_udp`: two objects of a class are enough to find a flag set by another.

`CHECK_DEADLOCK FALSE` stands where the system may stop: after `terminate`, or
at a counter's bound (`MaxAccepted`, `Sends`, `MaxSends`, `Rounds`), or when the
process has crashed. `TeamNetwork`, `SharingData` and
`WalkCommunication` never stop and are checked for deadlock.

### Fairness

* InfoShare, sockets: the operating system runs each thread, so a handler, a
  getter, a `setup` or a `terminate` that has begun goes on, and a handler
  returns. Nothing makes the application call or a datagram arrive, and no
  receive has to fail.
* TeamNetwork: an application calls `sendCommonInfo` in every turn of its loop
  (`IS/test/main.cpp:42`), and a network that loses datagrams does not lose
  every one: strong fairness of sending to each port and of each receipt. A
  handler that has begun goes on: weak fairness of its writes.
* SerializeDict: the function waits for nothing.
* OldUdpSocket: the threads and the kernel run, a `terminate` goes on, and a
  process that has returned from `main` runs its destructors. An application that
  has not returned need not do anything.
* PictureQueue, FileTransfer: a process that runs goes on with its loop; nothing
  makes it start, and nothing keeps it from being killed. `AllArrive` is about
  the processes that stay.
* WalkCommunication: ZeroMQ reconnects by itself; the walking program is
  restarted when it ends and publishes in every turn of its loop. `GetterReturns`
  moreover assumes that it stops ending at some time.

## 4. The proofs

TLAPS proves, for all values of the constants:

**InfoShare** (`InfoShare_proofs`). The properties of the run are not
inductive; `IInv` has four layers, each inductive on those before it:

1. `TypeInv`: types, how far `setup` has come (`SetupProgress`), what the place
   in the handler and in the getter says about locks (`HandlerOK`, `GetterOK`).
2. `OwnersInv`: who holds which mutex, and that a field is torn only while the
   handler is inside its critical section. From it follows that a getter, which
   holds the mutex, reads something whole (`ReadsAreWhole`).
3. `DataInv`: every field is the latest datagram that carries it, counted up to
   the current one for the fields before `pos` and up to the one before for the
   others (`Settled`, `RowsLatest`). From it follow `IdleTableIsLatest`,
   `DataNotNewerThanRecvTime` (the receive time is the first field) and the
   monotonicity of reads.
4. `ResultInv`, `JoinedInv`: what the last getter returned is not newer than the
   field now, and a joined server is between two datagrams.

`Refinement` proves that a process implements `FieldRegisters`, with a field
counting as published when its critical section ends. Assumptions: at least one
robot; an order of distinct fields that begins with `recv_time`.

**TeamNetwork** (`TeamNetwork_proofs`). `NoEchoes` and `StrangersPass`, for any
number of processes in both modes. The inductive invariant of the first adds that
a datagram on the way, or in hand, carries the id of the process it came from: an
id is checked only at the receiver, so a row can be trusted only if every datagram
can. That of the second says that what is in hand is of the own team unless the
colour was changed since the check, and that then no stranger was written yet.
Assumption: every process has an id of the table.

**UdpSocket** (`UdpSocket_proofs`). Two arguments. About the threads:
`ThreadInv` adds to `DeafOnlyByError` and `NothingOutlivesServer` that a closed socket
has no receive outstanding, which is what keeps a thread that is about to start
one from doing harm; quietness after `terminate` follows. About the data:
`DataInv` follows the sends through queue, send buffer, receive buffer, hand
and handler, each place in order and holding earlier sends than the one
before it (`InOrder`, `HandInOrder`), never more of them than there were
(`Counted`), each with no message or one at least as late in its datagram, and
with its own as long as no send had to wait (`ContentInv`).
`Delivery` and `NothingLate` follow. `Refinement` needs both arguments: that the
datagram in hand is counted and newer than what was delivered makes the handler's
return a `Take` of the channel, that it is in hand only before the server is
joined makes the channel open.

**TcpSocket** (`TcpSocket_proofs`). `EmptyIsTheEnd` and `Quiet` follow from
`EndInv`: a client that has closed its end has no connection to write to, and a
turn that holds no byte has met the end of the stream. `NothingLate` follows the
bytes through pipe and hand (`StreamInv`): each place is in order (`Ordered`), each
is ahead of those behind it (`Ahead`), and all bytes are of older sends than all
that may still be written, those that wait and those that were not made yet
(`InFuture`); what they hold is no message or one at least as late
(`ContentInv`). Without the last part the invariant would not survive a queued
send that overtakes nothing only because `Send` queues behind it. `Arrival`
counts the bytes: while nothing was written in part or from released memory
(`intact`), what was delivered, what is in hand, what is in the pipe and what a
closed connection lost, one behind the other, are all the bytes of all that was
written (`ArrivalInv`), so that what was delivered is the beginning of them.

**OldUdpSocket** (`TeamNetwork_proofs`). `CrashHasCause`: the static variable
was set by a server that is terminating or terminated (`FlagHasCaller`), so that
a destructor which finds it set, and its own thread not joined, belongs to
another one.

**The wire format** (`PictureQueue_proofs`, first part). Decoding inverts
encoding, for any fields, wherever they stand in a buffer and whatever stands
behind them. The recursive functions are shown to exist (`RecursionExists`: a
measure falls with every call) before anything is said of what they compute. A
number is read back from where it stands (`Varint` against `ReadVarint`), by
induction over the number; a field by its tag and its body; a list of fields by
induction over the list. The size that is computed before is the number of bytes
that are written, for a number, a field and a list. A zero is no tag: zeros
behind a list end it and lose nothing of it.

**CameraMeasurement, Person** (same module). On a set of records that setters
and parses stay in (`Measurements`, `Persons`: fields of their types, unknown
fields that are none of the class, and for a `Person` the default value behind
every bit that is not set) the laws of `PictureLaws` and `PersonLaws` are
lemmas: storing the fields that were written of a message, one after the other,
is merging it. That needs that numbers tell fields apart, that zigzag is
inverted, and that what is not written is what merging leaves alone.

**PictureQueue** (`PictureQueue_proofs`). `InOrder`: numbers rise in every queue,
the newest queue holds only what is newer than its receiver and than all it has
received (`NumbersRise`), and between the removal of a queue and the making of
the next nobody has the name (`QueuesExist`), so that a new receiver starts with
an empty queue. That is also what `Refinement` rests on: the start of a receiver
is the `Renew` of the channel, and the head of its queue is one of the messages
since. `ShowsWhatWasSent` adds the buffer (`BufferInv`): it begins with
the message received last, and behind the longest message so far it is as zero
as it was made. Nothing weaker is inductive, for the next message may be shorter
or longer than the last; when none before was longer, zeros follow the message,
and the parse of the buffer is the parse of the message. `LawsHold` needs that
both programs' messages stay `Measurements`, the one shown included, which is
parsed from a buffer that may end in the tail of an older picture. Assumptions:
a picture is made by the setters and so has bytes, numbers and no unknown
fields (`socket/sender.cpp:41`), and it fits the buffer
(`socket/receiver.cpp:22`).

**FileTransfer** (`PictureQueue_proofs`). `FileLawsHold`: file, stream
and reader hold bytes, and both programs' messages stay `Persons`, whatever the
reader parsed (`FileInv`). Assumption: names and files are bytes.

`OneRecordShown` is about the two programs together: the reader shows no field,
or all fields of one record, wherever its reads fall between the truncations and
the writes. The invariant (`WriterInv`) says of every round of the writer what
the file can hold and what a reading can have got by then: what was there before,
the `Text` of the first round, a record, or the beginning that an earlier reading
made of one of these and the rest of a record that took its place
(`TornReadings`). A record is not continued in another, for both have the same
length and end together; that is where the hundred and more rounds count, since a
number from 128 on takes two bytes. What a reading that began in something else
makes of the rest depends on the strings: `TornAssumption` assumes of them, and of
the old file, that no such reading parses as other fields. TLC evaluates it for
the strings of the source, "inoue satoshi" and "s19c1012", and both files of the
run, and it is true of them; it is not of every name, since a name can be chosen
whose tail is a field. That a record comes back whole when it is read whole is
no assumption but the law of the class (`PersonBack`).

**WalkCommunication** (`WalkCommunication_proofs`). `SuspensionHolds` needs
`Slipping`: while the flag is set and a call that obeys it is under way, that
call began before the flag was set and nothing has slipped past the flag yet.
`CommandsOnce` needs the order of the queue, of what was received, and of the
command under way (`CommandsInOrder`). From the same order follows `Refinement`:
a command that is taken is above all that were taken before, and as they rise
there are fewer of them than calls (`RoomBelow`).

**SerializeDict** (`Contents_proofs`). `EncodingIsGreedy`: what was put out is
the parse of the text up to `start`, and what `found_word` and `word_end_pos`
hold is the longest word that begins there and ends before `itr` (`ScanInv`).
`TextsComeBack` follows from it and from what decoding makes of a sequence of
numbers that fit in a char (`WhatArrives`). It needs that a parse is a beginning
of its text (`ParseBegins`), and that in a dictionary in which no word begins
another one there is only one parse. The parse and the concatenation are
recursive functions: what holds of them is proved by induction over a set of
numbers (`SetInduction`), not over a formula, which the provers cannot do.

**SharingData** (`Contents_proofs`). `OneCall` and `CutDropped`, for
any calls (`DataAssumed`: a buffer of any size, poses of at least one byte,
figures that are integers). `OneCall`, a row is what one call said, within the
ranges of the figures, needs `WireIsACall`: a datagram on the way
is what `sendCommonInfo` makes of one call; `CutDropped` that a prefix of the
fields is not longer than all of them.

`SequenceLemmas` holds induction over numbers and over sequences, the existence
of functions defined by recursion, what concatenations of many sequences are,
what the library's folds compute, and the lemmas on `Head`, `Tail`, `Append` and
suffixes that the proofs about queues share.

### Only model-checked

* Liveness (`TerminateReturns`, `TeamMatesHearEachOther`, `Terminates`,
  `ServerTerminates`, `ArrivedIsHandled`, `GetterReturns`, `AllArrive`,
  `LastRecordIsShown`, `LeavingEnds`): out of the prover's reach.
* The two requirements that the code does not meet (`TerminateStops`,
  `AllArrivedMeansEqual`), which are refuted.

Every invariant and every step property of a passing run is a theorem.

## 5. Where the code disagrees with what is said of it

Two disagreements are shown by runs and listed in `PROJECT.json`:

* `IS/infoshare.cpp:117`: `terminate` dereferences `server_`, which is null
  after a `setup` that never ran, was refused, or threw (`TerminateStops`).
* `IS/try/sUDPSocket.hpp:118`: a queued send reads a string that is gone, or the
  one a later send put in its place (`AllArrivedMeansEqual`).

Others were met on the way and have no run, mostly because a single line shows
them:

* `IS/infoshare.cpp:232`: `self_pos_cf` is filled from the ball; the robot's own
  position, which the documentation at line 199 has it send, is never sent.
  `RowIsOneCall` says nothing of that place.
* `IS/infoshare.cpp:443`: an empty list is skipped, so that the row keeps the list
  of an older datagram beside the receive time of the new one. `RowIsOneCall` and
  `IdleTableIsLatest` count an empty list as one that says nothing.
* `IS/infoshare.cpp:154`: the assertion on the own id is a disjunction that every
  number satisfies; its comment says "1 or more and NUMPLAYERS or low".
* `IS/infoshare.proto`, at `command`: 256 indices in 8 bits; the decoder reads a
  signed char where `char` is signed, and words from number 128 on vanish. The
  properties of what arrives are about dictionaries of at most 127 words.
* `IS/infoshare.cpp:877`: a text is turned into "numbers, one per smallest unit";
  a blank line of the dictionary, which `python/scripts/parse_htn_name.py:11`
  makes of a `class` with two blanks behind it, has a number too. Where no word
  begins it is put out, and the loop goes back to the end of an older word, for
  ever when that is the last word there is (`infoshare.cpp:902`).
* `IS/infoshare.cpp:380`: bytes are read back through a signed char; values from
  128 on become negative. `RowIsOneCall` promises figures of 0 to 127. A
  `MotorVoltage` in millivolts is divided by 8 and cut to a byte
  (`infoshare.cpp:256`), so that those of a real battery are not among them.
* `IS/infoshare.proto`, at `confidence`: "clamped to 0-100"; the clamp comes
  after the cast to eight bits (`infoshare.cpp:223`), so that 300 arrives as 44.
  `RowIsOneCall` promises confidences of 0 to 100.
* `IS/hpl_types.h:103`: the constructor of `Pos2DCf` from a `Pos2D` leaves
  `is_detect` uninitialised, and `IS/test/main.cpp:30` sends such a place.
  `RowIsOneCall` promises its flag only for the others.
* `hajime_cmd/classes.hpp:193`: `send_command` returns the number of characters,
  says the comment; it returns 0 when they were sent, and every command that was
  sent is logged as failed. Nothing else comes of it: no command is sent twice (`CommandsOnce`).
* `hajime_cmd/hajime.proto:42,59`: `stridey` and `ignoresuspend` are required,
  `hajimeWalk` and `hajimeMotion` never set them: a receiver that parses the
  command refuses it.
* `hajime_cmd/classes.cpp:188`: the getters are `noexcept` around a receive that
  throws; there is no `try` as in the commands.
* `devInfoshare/try_old/header.hpp:200`: the destructor calls `terminate` too, says
  the comment; after the first server's it does nothing, and the destructor of the
  thread ends the process. `CrashNeedsSecondCall` says when.
* `devInfoshare/try_old/header.hpp:56`: a client that broadcasts sets the option
  before the socket is open; that throws, and the socket stays closed.
* `devInfoshare/try_old/server.cpp:26`: the thread starts 100 ms before the first
  receive, without a work guard, and may be gone by then.
* `pro/send/procpp.cpp`: the first record, number 123, is never written; the file
  holds "int" instead, which a reader takes for the beginning of an unknown field.
  `ShowsOneRecord` would admit that record and does not ask for it.
* `IS/try/sUDPSocket.hpp:207`: "waits for data from the call on", says the comment on
  the constructor of the server; when the thread cannot be started, it reports that
  (line 252) and the object waits for nothing.
* `pro/proto/pro.proto`: its last line, `optional repeated bytes picture`, is none a
  compiler accepts, and the generated code beside it has no such field; the model
  follows the generated code.
* `socket/sender.cpp:75`: the second `open` of the queue stands outside the `try`.

## 6. What is left

All the parts named in section 1 are modelled, and the theorems of the parts
whose properties the prover can reach are proved. What a later step could add:

1. The receive time: `float` seconds since 1970 have a step of 128 s
   (`IS/infoshare.h:101`); a module on the width of `recv_time` and what an
   application may conclude from it.
2. A composition of `InfoShare` with the receive loop of `UdpSocket`, so that
   the handler of the one is the turn of the other. Today they meet in one
   place: `InfoShare`'s `armed` and `server` are those of `UdpSocket`.
