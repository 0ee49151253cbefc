# The accessory bridge in TLA+

The repository connects Android applications to D-Bus services and data streams
of an embedded Linux device. This directory holds TLA+ models of its code, the
TLC configurations that check them, and proofs for TLAPS.

Paths below are relative to `src/`; `A` is `Accessory/AAP-Bridge/src`, `L` is
`Accessory/AndroidAccessory/src`, `J` is the package directory
`Android/AAPbridge/library/src/main/java/nl/bennyjacobs/aapbridge`.

## 1. The system

One connection (USB accessory protocol, or a Bluetooth socket) carries frames of
a port number, a size and a payload. Ports 0 to 2 always exist: port status
(EOF and CLOSE of other ports), service spawner (requests for new services) and
keepalive. All others are given away to services at run time: bulk transfers,
D-Bus calls, D-Bus signals. A port is two half-connections. EOF ends one's own
output, CLOSE one's own input; when both halves of a port are closed, its
service is cleaned up and the port can be given away again.

| Component | State | Operations | Hard parts |
|---|---|---|---|
| Message queues (`A/Message/*queue.c`) | ring, lazily wrapped positions, counter, two semaphores, mutex; static, initialised again for each connection | init, deInit, add, poll | lost wakeups, the "should never happen" branch, two threads in one body |
| Bridge core (`A/bridge.c`) | port table, `work`, `cleanupLock`, `lastAllocatedPort` | receiver and sender thread, `sendToCorrectService`, port status handler, `sendEof`, `sendClose`, `CleanupService`, `openNewPort`, `initServer`, `deInitServer` | main and service threads change the table, only the cleanup under a lock; tear-down with joins |
| Service spawner (`A/servicespawner.c`) | `startingLock` | one request handler | confirmation before data; failure half-way |
| Bulk transfer (`A/bulkTransfer.c`) | two fifos shared with a payload's process, a thread | init, onBytesReceived, onEof, cleanup, thread | blocking opens in two processes; eight ways to fail; the thread cleans up its own port while main does |
| D-Bus methods (`A/Dbus/method.c`) | D-Bus connection, a pointer into the message | call and reply, onEof | unmarshalling; replies are paired with calls by their order |
| D-Bus signals (`A/Dbus/listener.c`) | match rule, thread, `work` | init, thread, cleanup | strings put together without a look at the results; stopping the thread |
| Keepalive (`A/keepalive.c`, `J/bridge/Keepalive.java`) | a flag and a timer on Android | ping, pong | a pong between two looks at the flag; a silent accessory |
| Main loop (`A/main.c`) | configuration, the connection | start, accept, message loop, tear-down, signals | a lost connection has to end it |
| Accessory audio (`A/accessoryAudio.c`) | the index looked at last | PulseAudio callbacks | lists and events that overtake each other |
| libAndroidAccessory (`L`) | receive buffer, descriptors, handles, endpoints | next connection, mode switch, read and write all | reads that return less than asked, or nothing; devices that go away between two calls |
| AccessoryBridge (`J/bridge/AccessoryBridge.java`) | `activeServices`, half-closes | ports, port status, receiver thread | table shared without a lock; unread payload; ports used again |
| ServiceSpawner (`J/bridge/ServiceSpawner.java`) | request buffer, two semaphores, response queue | requestService, onDataReady | several requesting threads, connection lost while waiting |
| Services on Android (`J/dbus`, `J/bulk`) | pending calls, pipes | call, signal, streams | order of replies; the one receiver thread blocks |
| bStrLib (`Accessory/AAP-Bridge/bStrLib`) | managed strings | append, grow | memory that is refused, or just enough |

Threads of the accessory: *main* (handles all messages, waits for connections),
*receiver* (connection → receive queue), *sender* (send queue → connection), one
thread for each bulk and signals service (→ send queue), and PulseAudio's. The
first four meet in the two queues, in the port table and in `cleanupLock`; a
service's thread and main may both find that they have to clean up a port. On
Android: a *receiver* thread that calls every handler, the threads of the
application, the timer of the keepalive and the thread of its handler. They meet
in `activeServices`, in the flags of each port and in the two semaphores of the
service spawner.

What makes the components correct:

- the queues are bounded fifos, lose no message and no wakeup;
- a byte stream cut anywhere gives the frames that were written;
- every request is answered once and in order, and the confirmation precedes
  what the service sends;
- a port belongs to one service at a time, on both sides, both sides agree which
  one, and no byte of an old service is taken for one of the new;
- both halves closed leads to a cleanup, once, after which the port is as new;
- a lost connection, or an accessory that falls silent, ends every thread and is
  followed by the next connection;
- a phone that is plugged in gets into a session, whatever else is on the bus,
  and no handle is left behind;
- a service that fails half-way to its start leaves nothing behind.

The hazards behind these, each at its line, are listed in `PROJECT.json`.

## 2. The modules

| Module | Models |
|---|---|
| `BoundedFifo` | what a queue promises: blocking add and poll of a bounded fifo that take effect at one instant |
| `MessageQueue` | `sendqueue.c` and `receivequeue.c` (the same code twice), shown to implement `BoundedFifo` |
| `MessageQueueProofs` | its inductive invariant and safety theorems; the theorem that it implements `BoundedFifo` |
| `Bridge` | the accessory's threads, port table, locks, services and connections; its queues are the fifos of `BoundedFifo` |
| `BridgeProofs` | its theorems: types, the end of a connection and the port table; what is said to Android, in which order |
| `AccessoryLink`, `AccessoryLinkProofs` | bytes both ways: frames, USB buffer, read-all and write-all loops, receiver, sender, the port of a status; its theorems |
| `AccessoryConnect` | libAndroidAccessory up to a connection: udev's events, the search, the mode switch, Bluetooth |
| `Daemon`, `DaemonProofs` | extends it by `main.c`: configuration, start, one connection after the other, the signal handler; its theorems |
| `AccessoryAudio`, `AccessoryAudioProofs` | the PulseAudio client; its theorem |
| `BulkFifos`, `BulkFifosProofs` | the fifos of one bulk transfer, opened together with the payload's process; its theorems |
| `BString`, `SignalRule` | bStrLib's buffers, and the match rule of a signal service put together with them |
| `MethodCalls` | a D-Bus call from its arguments on Android to the reply's handler |
| `DbusServicesProofs` | the theorems of `SignalRule` and `MethodCalls` |
| `ServiceRequests` | `requestService` on Android with its threads, and the receiver thread |
| `AndroidBridge` | extends it by the ports, their status messages, reuse, and the keepalive |
| `AndroidBridgeProofs` | the theorems of both: the hand-over of answers, the keepalive, and that both ends agree on the ports |
| `MC*` | values for the constants; `MCDbusServices` puts `SignalRule` and `MethodCalls` side by side |

How they divide the system: `Bridge` and `AndroidBridge` are the two ends of the
protocol, each with the other as an environment. Below them lie the queues
(`MessageQueue`) and the connection (`AccessoryLink`), which they use at the level
of messages and frames; `Daemon` has what is around a connection, `BulkFifos`,
`SignalRule` and `MethodCalls` what is inside one service.

### MessageQueue

Its variables are the static variables of the file; `lock` is the mutex,
`message_sem` and `space_sem` are the values of the semaphores, `pc` and `msg` are
the program counter and the local message of each thread. `addSendQueue` is
`AddCall`, `AddWait` (`sem_wait`), `AddLock`, `AddBody` (everything under the mutex,
with the branch that drops a message), `AddUnlock`; `pollSendQueue` likewise.
`InitQueue` and `DeInitQueue` come between two connections; `DeInitQueue` requires
that no call is in progress, which `deInitServer` ensures by joining its threads
first. Only the thread that adds the last NULL and main are left, and they are the
same.

The refinement maps `Contents`, the `messages` slots from `readPosition` on, to
`fifo`; a call is "called" until its body has run. The abstract step of add and
poll is the body, all other steps of a call are stutters.

### Bridge

Each thread has a `pc`; `held` is the message it is handling or about to add, `at`
the port it is closing. A table entry has its `port` (-1 when free), the kind of
its service, which stands for the handlers and `service_data`, the two half-open
flags, and the number `inst` of the request it was opened for. `inst` is not in the
code: it is what a message's sender means, which the properties compare with
what the receiver takes it for. Threads are named by that number too.

A step ends where another thread could make a difference: before a lock, a queue
that may block, a join, and between a test and the use of what was tested
(`CheckPort` and the call of a handler or `OnClose` and `OnEof`, `StatusWrite` and
`CheckBothClosed`). `SendStatus` closes a half before the message is queued, as the
code does. `CleanupLock`, `CleanupJoin`, `CleanupReset` and `CleanupUnlock` are
`CleanupService` with the service's own cleanup inside; a thread that cleans up its
own port does not join itself. `DeInitPort` to `DeInitFree` are `deInitServer`.

Android is an environment: any request, data or ping at any time, on ports it
knows, one EOF and one CLOSE per port, nothing after them, and it forgets a port
when both its halves are closed (`AfterSending`, `AfterReceiving`). Payloads and
D-Bus are choices: data or not, a failing start, a failing write, an end of file.
`LinkDown` may come at any time; the receiver then gets a read error and the sender
a write error.

Undefined behaviour is a choice: a call through a NULL handler ends the process
(`crashed`); a `startingLock` destroyed early lets its thread go on or keeps it; an
unlock of freed memory releases the next connection's lock or does not.
`openNewPort` looks at `services[MAX_PORTS]` when the last port of the table was
given last; behind the table lies `portStatusService`, a pointer, and the model
takes the half-word there for a port in use, as it is unless it happens to be -1.

### AccessoryLink

Bytes are numbers, `wire` are those written and not read, `usb` the valid bytes of
the receive buffer. `readAllAccessory` is the repeated `UsbRead` or `BtRead` while
`size` is positive; `HeaderRead` and `PayloadRead` are the receiver's code after each
of its two calls. The other way, the sender takes a message (`PollSend`), writes its
header and then its payload, and `writeAllAccessory` is the repeated write of as much
of `rest` as the transport takes. The integer conversions keep their width:
`UnsignedShort` is the header's, of `uint8_t` bytes, `StatusPort` is the port status
handler's, of `int8_t` bytes. The queues are unbounded here. A Bluetooth read of 0
bytes changes nothing, so it is a step that stutters.

### AccessoryConnect and Daemon

`usb` is what each device is on the bus: away, a phone, changing, or in accessory or
audio mode; `plug` counts its appearances, so that a handle to a device that has gone
and come back is told from a new one. `events` are udev's events, `list` what is left
of libusb's device list, `handle` the device that is open, `endpoints` the two global
variables of `config.h`. `step` is where main is: the poll over both descriptors,
`tryGetNextUSB` (take an event), `findAndInitAccessory` (`Enumerate`, `openUsb`,
`checkAndroid`, `setupAccessory`, `OpenAccessory`, `determineEndpoints`), `Accept`, the
session, and `closeAndroidConnection`. `openUsb` looks for numbers of vendor and
product, and may therefore open another device than the one in the list. Phones are
plugged and unplugged between any two steps and every call on one that has gone
fails. `lost` counts the handles the code drops without closing them, so that
`HandlesAccounted` finds any that is dropped elsewhere.

`Daemon` adds the configuration file (the one in the working directory, else the
one in `/etc`, else none), the list of uuids with its bound and the malformed ones
Bluetooth drops, the start, and SIGINT. A session is one step: its inside is `Bridge`.

### AccessoryAudio

The daemon and the PulseAudio server exchange messages in two sequences; the server
numbers its sources upwards, answers a request for the list with all of them, and
tells of new ones once it has been asked to (`subscribed`). `on_new_context_state`,
`my_subscription_callback` and `on_new_source` are the callbacks. The server may fail.

### BulkFifos

`ends` are the four ends of the two fifos, each closed, waiting in `open` or open;
`main`, `thread` and `payload` are where the three are. `MakeFifos`, `notifyPayload`,
`checkPayloadResponse`, `OpenToAndroid` (non-blocking), `OpenToPayload` (blocking),
`StartThread` are `BulkInitInternal`, each with its failures, after which the cleanup
takes back what there is; `BulkCleanup` and `Join` are the cleanup by main (that a thread
which cleans up its own port detaches itself is in `Bridge`). A payload answers,
opens its fifos in the order its `first` says, closes them or dies at any moment.

### BString and SignalRule

A bstring is a buffer of `mlen` bytes of which `slen` are the string; a byte is a
number that tells which literal or argument it came from. `balloc`, `bconchar`,
`bcatblk`, `bcatcstr` and `bfromcstr` keep the code's order of stores and tests, and
each request for memory has its own outcome: what was asked for, just enough, or
none. The bits `snapUpSize` smears are those of an `unsigned int` (`Or`), and a result
that is negative as an `int` is not taken. `SignalRule` splits the request into four strings (`Split`), appends part by
part (`createRule`) and registers the result (`addSignalWatch`).

### MethodCalls

`methodCall` puts a call into one message; `MethodStarts` reads the four names and
the count, `MethodArgument` one argument with the pointer that walks over the bytes,
`MethodReply` makes the call and sends its reply. In `MethodNoReply` D-Bus has no pending
call or no reply to give: nothing is sent, and the service goes on or crashes; `noReply`
remembers which calls that were and is not in the code. `bytesToDbus` is the set of what
a value may be read as: it has the widths of D-Bus' types, and of a double, which the code
converts to a `uint64_t` and back, the fraction is lost and one that is negative or too
large may become anything (`AnyWhole`). A count is one signed byte, as the code
reads it; with a negative one the pointer leaves the message (`crashed`). `Sound` are
the calls that cannot go wrong: names D-Bus takes, fewer than 128 arguments, and each of
them `Plain`, which a double with a fraction, a sign or a size from 2^64 on is not, nor a
string with a zero in it.

### ServiceRequests and AndroidBridge

Each request has a thread: `Put` and `Flip` on the shared buffer, `WriteRequest`,
`Acquire` and `Take` on the semaphore and the queue of answers, `Register` in
`activeServices` and only then `AssignPort`, as the constructors of the services do.
The receiver (`rx`) reads frames: `ReadAnswer` hands an answer over and waits
(`AcquireDone`); `AnswerCutOff` is the connection lost in the midst of an answer, with
the 5000 permits the code releases then. For data, `Skip` finds nobody in the table
and skips; with `SkipWorks = FALSE`, as `skip()` of a USB stream may be, what it says it
has skipped may still be in the stream, and the receiver takes it for headers (`rx` is
"adrift"). `Lookup` finds a service (`target`), and `Deliver` uses it in a step of its own,
as other threads may close the port or empty its place in between: a service whose port
is not yet assigned stops the receiver, and data for a port whose input is closed is left
in the stream, so that the next header is read from the middle of it ("astray").
`Misread` is what a receiver without its place does: it skips some of what follows, or
stops at a port that is outside of the table. `ReadFails` tells nobody who waits. The
accessory answers requests in order or denies them.

`AndroidBridge` adds the flags `inputOpen` and `outputOpen` of each `Port`, with
`StartClose` or `StartEof`, `WriteStatus` and `Forget` as the steps of `close()` and
`eof()`, and on the accessory `halves` of each port, which is free again when both are
closed. A status received is three steps, `StatusOnDataReady`, `TestBothClosed` and
`Cleanup`, each of which looks the service up in the table again, as the code does;
`handling` is the port. `BothClosed` is the code's test, which looks at the input twice.

The timer is `Tick` and `sendKeepalive`. It is started by a field initializer, so the
first run may come before `Construct`, the body of the constructor, has got the streams
(`built`); it then fails like any other write, which is an alarm. `handleMessage` is the
handler that closes the connection. It runs on the looper of the thread that built the
bridge, and so only when that thread is in none of its requests (`Looper`) and in no
`close()` or `eof()`. The accessory may fall silent for good.
`Crossing` and `CloseLast` widen the environment to the cases in which the code goes
wrong (section 4).

## 3. The runs

| Run | Instance (distinct states) | Shows |
|---|---|---|
| `queue` | 2 threads that add, 2 that poll, 2 slots, 2 messages (53 thousand) | no drop, refinement of the fifo, no lost wakeup |
| `services` | D-Bus calls and signals, 3 requests, 4 messages, queues of 2 (405 thousand) | types, requests answered in order, ports reset, nothing outlives a connection, NULL is last |
| `bulk` | bulk services with payloads that fail, 2 requests, 4 messages (1.8 million) | confirmation first, no stale output, nothing after EOF; ports and threads at the end of a connection |
| `live` | D-Bus calls, 2 connections, 3 messages, queues of 4 (48 thousand) | closed ports are cleaned up, lost connections end, requests are answered |
| `link` | 2 frames each way, ports 143 and 300, sizes 0 and 3, a USB buffer of 5 bytes, USB and Bluetooth (129 thousand) | frames arrive intact and do arrive, both ways; statuses reach their port; a lost USB connection ends the receiver |
| `daemon` | 2 phones of one model with 3 and 2 appearances, a Bluetooth client, 2 lists of uuids (804 thousand) | handles, endpoints and modes of devices stay right; Bluetooth offers the configured uuids; phones and clients are served |
| `audio` | 3 sources beside the first (45 thousand) | each phone is heard, once |
| `fifo` | one transfer, payloads of both orders (288) | nothing is left after it, no early end, no deadlock, the cleanup ends |
| `dbus` | strings of 0 and 10 bytes with all outcomes of memory; 8 calls, 3 at a time (175 thousand) | the match rule is the one asked for and stays in its buffers; calls and replies are intact and paired |
| `android` | 2 requests, one of them made on the handler's thread, a port used twice, one frame on the way when a service sends, a `skip()` that may not skip (577 thousand) | both ends agree whose a port is and where a frame begins, but for that `skip()`; answers are handed over one at a time and returned; the keepalive gives up the silent, but for a handler that is blocked, and nobody who has answered, but for a timer earlier than the constructor |
| `join` | one bulk service | counterexample, section 4 |
| `request_overlap` | two requests at once | counterexample, section 4 |

**Bounds.** The queue's properties depend on the ring being full, empty and
wrapped, and on two threads in each call: two slots and two threads on each side
reach all of that, and the proofs lift it to any size. In `Bridge`, `MAX_PORTS = 4`
leaves one port to give away, so that it is always the next to be reused and a
second request finds the table full: the two cases the hazards are about. Two
requests are a service and its successor on the port, three add a denied one.
`MaxReceived` bounds Android's messages: four are a request, EOF and CLOSE, and one
more. Queues of 2 fill up; `live` has queues of 4, which it cannot fill (next
paragraph). `MaxEmits` bounds what service threads send, `MaxSessions` the
connections. In `AccessoryLink` the buffer of 5 bytes cuts headers and payloads at
any place, and one of the two ports has a low byte of 128 or more.

In `Daemon`, three appearances are a phone that is plugged in, comes back in
accessory mode and is plugged in again (`MaxPlugs`); two phones of one model are what
`openUsb` can confuse; the longer list of uuids is one too long for the array.
`MaxSources = 3` gives lists under way at once while a source comes and another goes.
`BulkFifos` has no bound: a transfer opens its fifos once. In `MCDbusServices` the
strings of 10 bytes cross the first two sizes bStrLib grows to; the calls have every
type, an empty string between two others, 130 arguments, a name D-Bus refuses, more bytes
than a message holds, a double with a fraction and a negative one; of the numbers such a
double may become, `AnyWhole` has the least and the greatest. In `AndroidBridge` two
requests are a service and its successor on a port, or two ports in use at once; services
send at any time but only when fewer than `MaxIncoming` frames are under way, while answers and pongs always fit.
The timer runs when fewer than `MaxWire` messages are on their way to the accessory, which
is the ping before or a request or status: a second ping behind the first says nothing
new. One of the two requests is made on the thread of the handler (`Looper`), and after
the other one (`Later`), so that a blocked handler meets a port that is in use, or used
before. With `Aftermath = FALSE` nothing new begins after an alarm, or after the receiver
has lost its place to `skip()`: no call, no frame of a service, no failing link. What was
begun goes on. The theorems hold for every value of the five.

**Deadlock.** It is checked in `queue` and `live`. In the other runs the system may
really stop: main blocks for ever on a full send queue after the sender has ended,
main and a bulk thread wait for each other, the process crashes or is ended (`daemon`),
the bounded number of frames, sources or calls is used up (`link`, `audio`, `dbus`), a
transfer is over (`fifo`), or the connection is closed (`android`).

**Fairness.** `MessageQueue`: a thread inside a call goes on, and a consumer calls
again, as the loops of `sender()` and `main()` do; weak fairness is enough because a
semaphore or mutex that is free is free for whoever waits. Nothing makes a
producer add. `Bridge`: receiver, sender, main and service threads each go on while
they can; messages, payloads, signals and the loss of the link need not happen.
`FairPayloadSpec` adds, for `join` only, that payloads close their end, so that what
is found is not a payload that reads for ever. `live` has no services with threads:
with them the tear-down can stop in the ways section 4 describes. `AccessoryLink`: the
receiver and main go on, and a USB transfer fails once the device is gone; a Bluetooth
read need not fail. `Daemon`: main goes on, the session of a lost USB connection
ends, and a phone told to switch comes back, as the accessory protocol has it; `accept`
with no client left is not enabled, as the call then blocks. `AccessoryAudio`: the
server answers and the main loop calls back. `BulkFifos`: main, thread and payload go
on, and a payload that finds that its fifo is no longer written closes the other, as
those in `Accessory/Payloads` do. `MCDbusServices`: handler and receiver run, and the
D-Bus daemon answers each call, with an error when nobody else does, or there is no
reply; `CallIsAnswered` excepts the calls from one without a reply on. `AndroidBridge`:
every thread inside a call goes on, the timer fires, the accessory answers what it
receives as long as it is not silent. The constructor goes on, and the handler runs when
its thread is free; nothing makes that thread free, so `RequestReturns` and
`SilentIsGivenUp` except, by name, a handler whose thread waits for an answer of a silent
accessory (`HandlerBlocked`). They also except a receiver that is "adrift", and
`RequestReturns` one that has stopped: nobody tells the threads that wait (section 4). The
timer may fire at any time, also while a pong is on its way; `NoFalseAlarm` calls an alarm
false when neither the ping nor its pong is under way. No application need ask for
anything or close anything.

## 4. Where code and documentation disagree

### Shown by a run

| Run | What happens |
|---|---|
| `join` | main cleans up a bulk port under `cleanupLock` and joins the thread (`A/bulkTransfer.c:247`), which has seen both halves closed and waits for `cleanupLock`. Both wait for ever. |
| `request_overlap` | `requestService` puts the request into a buffer all threads share (`J/bridge/ServiceSpawner.java:95`) before it takes the lock, and waits after it has released it. Two threads at once send one request twice or get each other's port; line 85 says that "any other thread" may call it. |

### Known disagreements

These are in the models too; the runs keep to the cases in which the code works, and
say so in the comment of the property or of the constant.

*The accessory's bridge* (for the first three set `Kinds <- OnlyBulk` and
`Payloads = TRUE` in `BridgeServices.cfg`):

- `A/bridge.c:261`: the status handler tests a port (242) and then closes a half
  without a lock. If the bulk thread cleans the port up in between, the free port
  stays half closed and its next service starts so; line 186 promises it "ready for
  reuse" (`FreePortIsReady`).
- `A/bridge.c:39`: `sendToCorrectService` tests the port (32) and calls its handler. If
  the bulk thread cleans it up in between, the pointer is NULL (`CallNull`).
- `A/bridge.c:388`: a bulk thread that cleans up its own port is detached. When it has
  set `port` to -1 (218), `deInitServer` skips it and frees the bridge whose
  `cleanupLock` the thread still has to unlock (`NothingOutlivesBridge`).
- `A/Message/sendqueue.c:57`: after a write error the sender ends. With a full queue
  main blocks in `addSendQueue(NULL)` and no further connection is accepted (queues of
  2 in `BridgeLive.cfg`, `LostConnectionEnds`).
- `A/bridge.c:240`: the port of a status is put together from signed bytes. Any port
  with a low byte of 128 or more becomes negative, cannot be closed by Android, and
  memory before the table is changed instead (`StatusReachesPort` without its condition).
- `L/accessory.c:19`: a read of 0 bytes, as of a closed Bluetooth socket, is taken for
  no error and repeated for ever (`LostUsbEnds` for Bluetooth).
- `A/bridge.c:242`: a status names a port and no service. When Android's CLOSE crosses
  the service's own EOF, the port is cleaned up and given to the next service, and the
  CLOSE is applied to that one; line 184 has it say "I will no longer expect bytes and
  will consider my input to be closed", of the service it was meant for. Data is handed
  over in the same way (32). (`StatusIsOwn` instead of `TypeOK` in `BridgeServices.cfg`.)
- `startingLock` is destroyed while a thread that has just started may still wait for it
  (`A/servicespawner.c:142`; `Bridge` has both outcomes). Not in a model: data queued
  before a CLOSE is handed to the service all the same (32).

*Services:*

- `A/bulkTransfer.c:37`: a payload that opens its fifo from Android first may be read
  before it has opened the other one: the read finds the end of the file and the
  transfer ends before it began. Line 158 says "This allows the payload to open the
  fifo's in any order"; `Payloads/testStub.py:237` opens them in the order that fails.
- `A/Dbus/method.c:114`: no reply is sent when libdbus refuses the names, and as Android
  counts calls and replies, all later replies are paired wrongly.
- `A/Dbus/method.c:116`: the count of arguments is one signed byte. 128 or more count
  down from a negative number and leave the message; 256 are none.
- `A/Dbus/method.c:139` and `181`: without a pending call or a reply, as when D-Bus is no
  longer connected, nothing is sent to Android ("TODO: Notify the Android application that
  no reply was received", 184), and all later replies are paired wrongly (`ReplyIsOwn` and
  `CallIsAnswered` without `noReply`).
- `A/Dbus/method.c:48`: a double goes through `le64toh` as a `uint64_t`. It loses its
  fraction; if it is negative or 2^64 and more the conversion is undefined.
- `A/Dbus/method.c:52`: a string ends at its first zero, also at one the application put
  into it; what is behind that is read as the type and value of the next argument.
- `A/Dbus/listener.c:60`: a signal of more than 4000 bytes, or 32767, is sent although
  the receiver and the header cannot hold it (not in a model).

*Daemon:*

- `L/accessory.c:182`: when USB and Bluetooth are ready in the same poll, the USB
  connection is overwritten and its handle lost; `L/initialize.c:129`:
  `setupAccessory` does not tell whether it failed, so the handle of a phone that went
  away meanwhile stays open. Both are counted in `lost`.
- `L/accessory.c:181`: `accept` blocks, and with it USB, when the client has given up.
- `L/bt.c:51`: whether two characters of a uuid are a number is not tested. Any text that
  is long enough is taken for a uuid, and a byte of it for what `result` happened to hold;
  line 88 says "Could not parse UUID" only of the others (`DaemonAssumption` has just
  those and proper uuids).
- `A/main.c:132`: a configuration with as many uuids as the array has room for leaves
  none for the generic one and the end mark (`crashed`).
- `L/initialize.c:84`: when a phone in accessory mode has gone away since it was listed,
  `libusb_open` fails and the code goes on with the handle NULL (`crashed`).

*Android:*

- `J/bridge/AccessoryBridge.java:506`: data for a port whose input has just been closed
  is not taken out of the stream, and the next header is read from the middle of it
  (`Crossing = TRUE`: `rx` goes "astray").
- `J/bridge/AccessoryBridge.java:488`: data for a port nobody serves is skipped with
  `InputStream.skip`, of which lines 171 to 177 say that with USB it does not skip; only
  `Port.skipRead` has the workaround. The next header is then read from the data. It needs
  no more than a service that still sends when it is forgotten, or before it is in the
  table (`SkipWorks = FALSE`: `rx` goes "adrift", which the properties except).
- `J/bridge/AccessoryBridge.java:352`: a field initializer starts the timer, with delay 0
  (`J/bridge/Keepalive.java:40`), before the constructor has assigned `outputStream` (392).
  When the timer is first, `Port.write` throws a NullPointerException, which
  `Keepalive.java:56` takes for a lost connection: an accessory that answers is given up
  (`NoFalseAlarm` without `built`).
- `J/bridge/AccessoryBridge.java:237`: the handler that closes the connection runs on the
  looper of the thread that built the bridge. `J/bridge/ServiceSpawner.java:85` lets that
  thread call `requestService`, and `MediaRemote` does both in `onCreate`. When the
  accessory is silent, the thread waits in `acquire()` (109), the handler cannot run, and
  the accessory is never given up (`SilentIsGivenUp` without `HandlerBlocked`).
- `J/bridge/AccessoryBridge.java:477`: when the read of a header fails, the receiver ends and
  tells nobody; a thread in `requestService` waits for ever, whereas
  `J/bridge/ServiceSpawner.java:90` promises an IOException. Only a connection that
  breaks inside an answer releases it (`RequestReturns` without `"stopped"`).
- `J/bridge/AccessoryBridge.java:307`: `onDataReady` of `PortStatus` reads
  `activeServices[port]` again for each use, up to 335. When the application empties the
  place in between (274, 293), the rest is lost in a NullPointerException or skipped, and
  with it `onEof` of the service; `TestBothClosed` has it.
- `J/bridge/AccessoryBridge.java:273`: the test for both halves is `!inputOpen &&
  !inputOpen`. A service is forgotten while its output is still open; its CLOSE finds no
  service, and the old `Port` can write to, or end, its successor on the accessory
  (`CloseLast = TRUE`; `J/bulk/BulkTransfer.java:50` says "Both streams must be closed").
  Correcting the test alone makes line 506 reachable, which is what the mutant
  `BothClosedOutput` shows.
- `J/bridge/AccessoryBridge.java:421`: a service is in the table before its constructor
  has assigned its port. Data for it then stops the receiver, and an EOF or CLOSE is
  lost (`Crossing = TRUE` for the status).
- A service that is forgotten a second time, by a thread that was still in `eof()`,
  takes the entry of its successor when calls of the application overlap (`Overlap =
  TRUE`). A write of the keepalive's timer that blocks keeps it from noticing that the
  accessory is silent, and a reader of a bulk stream that is slow blocks the receiver
  (`J/bulk/BulkTransfer.java:211`); neither is in a model.

## 5. The proofs

All are for every value of the constants under the assumptions named.

**MessageQueue** (`QueueMaxAssumption`: the capacity is a positive number;
`ThreadsAssumption`: the threads are finite disjoint sets). `MessageQueueProofs` proves

- `TypeCorrect`, `MutualExclusionHolds`, `SlotsAccountedHolds`, `RingConsistentHolds`,
- `NeverDropsHolds`: the branch marked "This should never happen" is unreachable,
- `PollFindsMessageHolds`: poll needs no test for an empty ring.

The last two are not inductive. A thread in the body of add finds a free slot
because it has taken a token from `space_sem` and holds it: `SlotsAccounted` counts
free slots as tokens in the semaphore, tokens held, and messages, and says they
add up to the capacity; so if somebody holds one, `messages` is less. The
inductive invariant `IInv` is `TypeOK`, `MutualExclusion`, `SlotsAccounted`,
`RingConsistent` and `DownIsQuiet` (no calls and no messages while the queue is
down). `OwnersCount` is the lemma that carries it: how the move of one thread
changes the number of tokens held. `MutexAfterMove` does the same for the mutex.
Each action has a lemma, and `NextIInv` puts them together.

It also proves `Refinement`, `Spec => ImplementsFifo`. `AddAppends`
and `PollTakesHead` are facts about the stretch of the ring between the positions:
with the slot at its end written, it is the old contents with the message
appended; without the slot at its beginning, it is the tail. They need
`RingConsistent` (the slot written is the one behind the last message) and
`NeverDrops`.

**Bridge** (`BridgeAssumption`: the table has a port to give away, the queues have room
for a message, the bounds are natural numbers, the kinds are those of the code). The
bounds `MaxReceived`, `MaxOpens`, `MaxEmits` and `MaxSessions` are constants like the
others: the theorems hold for each of their values. `BridgeProofs` proves

- `TypeCorrect`. `TypeInv` adds what the handlers need: what Android sends is addressed
  to a port of the table (`Addressed`), main calls and applies only such messages, and
  each service thread has a port (`PlacedInv`).
- `NullIsLastHolds`, from `NullInv`: NULL is added by the receiver alone, which then adds
  nothing more, and main takes down only what it has polled NULL for.
- `ConnectionOverHolds`, for all kinds of services. `OwnedInv` says that a thread which
  has still to do with its port finds it in use and its own, also while main cleans it
  up: main is at the reset of a port only after the join of its thread. `LoopInv` says
  what `deInitServer` has behind it at each port and each join.
- `FreePortIsReadyHolds`, `NothingOutlivesBridgeHolds` and, with payloads that do not
  fail, `NeverCallsNull` for systems without bulk services. `QuietInv` is the reason:
  then main alone changes the table, and what it tested stays so. With bulk services all
  three are false (section 4), so the hypothesis `"Bulk" \notin Kinds` is needed.

Its second half proves, for all kinds of services, `ConfirmationFirstHolds`,
`NothingAfterEofHolds`, `NoStaleOutputHolds` and `RequestsInOrderHolds`. `MayFollow(a, b)`
is the relation the first three have in common: `b` may be sent after `a`. The invariants
are

- `OrderInv`: each message on its way to Android may follow those before it, and speaks
  of the service Android takes its port for by then (`Told`, as long as the link is up);
- `HandsInv`: so may what a thread or main is about to queue (`Hand`), in whatever order
  these come, as nothing orders them; and `VoiceInv`: so may anything else an open
  service could say now (a CLOSE is the least restricted of it, hence `Voice`);
- `SilentInv`: nothing is said of a service whose request is not answered yet, which is
  what makes its confirmation the first;
- `DoneInv`: the thread of a service that has said EOF has left its loop, and a service
  without a thread is about to be cleaned up by main. So the EOF is the last.

They rest on `ShapeInv` (what main and the threads hold, by where they are; while main
holds a confirmation, `startingLock` keeps the new thread back), `RequestsInv` (the
requests under way are in the order of their numbers) and `ServicesInv` (no service
exists before its request is handled, none has two ports; what has a thread and what has
not). `OutputCases` reduces the actions of `Next` to what Android could hear: a step
queues what somebody has in hand (`Puts`), takes something in hand (`Takes`), lets
Android receive (`Drops`), ends the connection (`Clears`), or is `Quiet`; each of the
three invariants is then shown for these few cases. `NoStaleOutput` says nothing of what
is queued when the link is lost: nobody receives it, and Android forgets its ports at
that moment.

`RequestsInOrder` is about four parts of the way of a request (`Way`): the answers Android
has still to receive, main's hands, the queue, the receiver's hands. The proof splits its
requests into those that are answered (`Answered`) and those that wait (`Waiting`). In
`AnswersInv`, `AnswerOrder` and `AnsweredFirst` say that the answers are in the order of
the requests and before everything that waits, `NoneMissing` that from the first request
on the way to the last one made none is missing, and `ReadsInv` that the receiver reads
with empty hands. With `RequestsInv` for the order of those that wait, a step can do only
four things: leave the requests that wait as they are (`Stays`), bring the next number
(`Comes`), answer the first of them (`Leaves`, main in the spawner's reply), or end the
connection (`Ends`); `WaitingCases` shows this for every action, and `SaysNoAnswer` that
all other steps touch the answers only at the end Android receives from.

**AccessoryLink** (`LinkAssumption`: ports are those of the table but 0, and data is not
larger than the buffer of the receiver). `AccessoryLinkProofs` proves `FramesIntactHolds`
and `StatusReachesPortHolds`, for any number of frames and any size of the USB buffer.
`FramesIntact` compares what came out with what went in; to be kept it has to say where in
the stream everything else is. In `LinkInv`

- `StreamInv`: what the receiver has read of its part, what is in the USB buffer and what
  is on the wire are, one after the other, the bytes of Android's stream from `From` on,
  to its end unless the connection is lost. `From` is the length of the frames queued, and
  of a header when the receiver is behind it;
- `PartInv`: what has been read of a part and what has still to be read are its size, and
  behind a header there is a frame with that port and size;
- `SendInv`: what is written and what is left to write are the stream of the polled
  messages, up to the part the sender is at. When it ends in the middle of one, what is
  written is still a prefix.

A transfer or a read then moves bytes between the three sequences and leaves their
concatenation as it is (`CutFacts`, `SameStream`); a header or payload that is complete is
cut from its front and lies where the frame does (`RestsRead`, `Placed`). The stream is a
`FlattenSeq`, whose recursion is a function: that it exists, and that a frame appended
comes at its end (`FlattenAppend`), are shown by a least counterexample (`LeastNatural`)
instead of induction. `StatusPortFacts` is where the condition on the low byte is used.

**BulkFifos** (`FifoAssumption`). `FifoTypeCorrect`, `NothingLeftHolds` and
`EofAtEndHolds`. That a read finds no early end needs to know that the payload has the
fifo open for writing whenever the thread reads: main's blocking open of the *other*
fifo returned only because the payload had opened it, and a payload of this order had
then opened this one before. The invariant says so in its parts: `ThreadLate` (no
thread before `StartThread`, and a blocking descriptor after), `Removed` (nothing is
opened after the cleanup), `PayloadOrder` (what a payload holds, by its order),
`OpenedTogether` (main runs only when the payload has opened) and `ThreadHasWriter`.

**ServiceRequests** (`RequestsAssumption`: finitely many requests; what stands for nothing is
neither a service nor a port). `HandedOverHolds`, in `AndroidBridgeProofs`: for any set of requesting threads, whether they
overlap or not, the two semaphores hand over one answer at a time. The counts of the
property become inductive as four states of the hand-over, `Empty`, `Offered`,
`Taking` and `Taken`, of which exactly one holds while the connection is there; each
step of a thread or of the receiver leads from one to the next or stays.

**AndroidBridge** (`WireAssumption`: a ping or a status is neither a request nor
garbage). `BridgeHandedOverHolds`
lifts that theorem to the whole of `AccessoryBridge`: each further step leaves the
hand-over alone.

`NoFalseAlarmHolds`: while the accessory answers and the receiver has its place, a flag
that is not set when the timer waits belongs to a ping on the wire or to a pong on its way
back, or the alarm has been raised already (`KeepInv`). It needs no assumption on the
period: the property calls an alarm false when ping and pong are both gone. The lemmas
`AppendHas` and `TailHas` say what sequences keep, `KeepsHas` and `OtherKeeps` that all
other traffic keeps ping and pong, `FoundStays` that the frame a service was looked up for
is still the first when it is delivered, so that no pong is taken in its place. Two cases
are excepted, as the code raises a false alarm in them: a run of the timer before the
constructor has got the streams, and a receiver that has lost its place. `AlarmIsTimers`
shows that no other step raises one.

`EndsAgreeHolds`: for any number of requests, ports and frames
under way, while the connection is there, each half that is open on Android belongs to
the service the accessory has on the port or its end is on the way, and the receiver
knows where a frame begins - unless `skip()` has not skipped (`~SkipWorks`), which the
property excepts and of which the theorem says that nothing else is needed: a receiver
that has lost its place is "adrift", never "astray". With `SkipWorks`, as with Bluetooth,
the exception is empty. The hypotheses are those of the run `android`:
`~Overlap` (one call of the application at a time), `~Crossing` (no frame of a service
crosses the opening or closing of its port) and `~CloseLast` (no service stops reading
after the input of its port on Android was closed); without each of them section 4 has a
counterexample. The property speaks of Android's flags and of the presence of a frame; to
be kept it has to speak of what each frame under way means, and of their order. `PortsInv`
says so in parts:

- `CallInv`: one call is under way at a time; who closes a port is the only service still
  alive on it (`OneCloses`), so that the half it has closed is closed of the right one;
- `RequestInv`: a request is in exactly one place - on the wire (`AskedInv`), answered
  with the answer on its way (`AnsweredInv`), or in the queue or the thread's hands
  (`TakenInv`) - and its answer, `Given`, is a port of its own with both halves open;
- `ServedInv`: the accessory's table, and that a status on its way to the accessory
  concerns the service which is there, or none (`StatusInv`);
- `ReceiverInv`: what the receiver holds between two steps. The port of a status that is to
  be cleaned up is one nobody is about to open and nobody reads from (`StageInv`); the
  service found for data is the one the data is for, its input still open (`TargetInv`);
- `ActiveInv`: Android's table; a service stays in it with its input closed only while
  it closes it, and then no data of the port is under way, or while the receiver works on
  the status that closed it (`Ending`);
- `EndInv`: what each half lacks is on its way *before the answer that opens the port
  again* (`First`), of two services Android has known on a port one is closed entirely
  (`HalvesInv`); a CLOSE finds its service in the table, and no EOF before it
  (`ClosesInv`); no EOF of a service that is over comes behind the answer of the one
  that is there (`EofsInv`).

A status names a port and not a service, so the argument is one about order: the end of
one service is in the stream before the answer that gives its port to the next. `AppendFacts` and `TailFacts` say what `First`, `Behind`, `Loose` and
`Has` become when a frame is appended or read; the frame lemmas (`CloseFrame`, `ActiveFrame`,
`ServedFrame`, `EndFrame`, `RequestFrame`, `TrafficKeeps`) that a step which touches only some of
the variables keeps the parts about the others; then each action has a lemma. `FreePort`
is a pigeonhole: as a request that is not answered has no port, some port is free, so
the choice of `ServiceSpawnerOnBytesReceived` is one of a port.

**AccessoryConnect and Daemon** (`ConnectAssumption`: finitely many phones, none of which
has the numbers of vendor and product that Google gave accessories; `DaemonAssumption`: a
text in a configuration is a uuid, or too short or with too many dashes to be one).
`HandlesAccountedHolds`, `EndpointsOfPhoneHolds` and `NeverSwitchedTwiceHolds` follow from
`ConnectInv`, which adds to the three properties what main holds where: `BusInv` (a device
on the bus has appeared there), `SearchInv` (main has a handle of its own from `openUsb` to
what ends with it, and only then), `SessionInv` (outside the search for Bluetooth and the
session there is no connection). The bus moves between any two steps; `NeverRevived` says
why that does no harm: the handle of a device that has gone never comes to life again, not
even when the device comes back. `NeverSwitchedTwice` needs the assumption on the numbers:
`openUsb` may open another device than the one in the list, but one of the same numbers,
and those of a phone are not those of a device in accessory mode.

`CascadingUuidsHolds` is about lists of any length. The loop that leaves malformed texts
out is a function over the places of the list (`Parsed`), the property what came out as a
whole: an increasing map onto the places of all proper uuids. `ParsedExists` shows that the
function is there and `ParsedNames` that behind each text it has the names of those before
(`NamesStay`, `NamesGrow`), both by a least counterexample. `UuidInv` then needs only that
nothing but the start and the end of the process touches the record (`RecordStays`).

**AccessoryAudio** (`AudioAssumption`: the server has some source beside its first).
`AccessoryAudioProofs` proves `HeardOnceHolds` for any number of sources and of lists and
requests under way. `AudioInv` adds to the types three parts, none of which is inductive
without the others: `ListsInv` (a list under way, however old, is one of sources the server
has had, and right about those that are still there: a number is never given twice),
`AskedInv` (the requests to load that are under way are for different sources, none above
`lastIndexChecked`, phones if they are still there, and without a loopback) and `LoadedInv`
(what has a loopback has one, is there, is a phone, and is not above `lastIndexChecked`).
The index is what ties them together: `on_new_source` asks for sources above it only, so
for none that is in a request or has a loopback (`OnceMore`), and then moves it to the
greatest of the list (`GreatestNatural`), above all it asked for.

**MethodCalls** (`CallsAssumption`: names and values are bytes, a name is no zero, and a
value that is not a string has the width of its type). `DbusServicesProofs` proves
`ReplyIsOwnHolds`, for all calls, sound or not, any number of them under way, and any size
of a message. Android pairs replies with calls by counting, so there are two things to
show, and each needs the other:

- the counts agree. `QueueInv` says that the messages of the port are the last calls,
  `TurnInv` that of the calls handed over (`Handed`) as many have been replied to as the
  sound ones at their beginning, but for the one at work. A call libdbus refuses, or has no
  reply for, is handed over and not replied to, so what is said of call `i` is said only
  if the calls up to `i` are sound and have a reply (`SoundUpTo`). `NoReplyKeepsInv` is the
  step that ends this: from it on the invariant says no more of that call and those after;
- the call at work is the one that was made. `ParseInv` says that the pointer is behind the
  bytes of the first `m` arguments, and that the message has those. A service that crashes
  never replies, so `TurnInv` in turn needs that a sound call does not crash.

`MessageBytes`, `ArgumentPlace` and `StartsFound` say where in a message names, count and
arguments lie: `Compress` is a concatenation whose parts have different lengths.
`ArgumentRead` is the step that matters: what `bytesToDbus` reads there is what `Serialise`
wrote, for every type, and leaves the pointer at the next argument, whichever of its
values is taken (`ReadAs`). Strings end where `EndOfString` finds the first zero; of a
double the whole part is read, which is all of a plain one.

**SignalRule** (`FieldsAssumption`: lengths are numbers). `DbusServicesProofs` proves
`RuleExactHolds` for strings of any lengths and any outcomes of the requests for memory.
`RuleInv` says of a rule that is being built what its parts will make of it: unless an
append was refused, the text in the buffer, followed by what is left to append (`Spells`),
is the rule that is wanted; and the buffer is in order (`Buffer`). It rests on

- what each operation of bStrLib does to a buffer in order: the string is the old one with
  the bytes behind it, or the old one if there was no memory, and the buffer is in order
  again (`BallocFacts`, `bconcharFacts`, `bcatblkFacts`, `bcatcstrFacts`,
  `bfromcstrFacts`). For `bcatcstr` that means that the bytes it copied on trust and the
  tail it hands to `bcatblk` are together the string. All that is needed of
  `snapUpSize` is that it gives no less than it was asked for (`SnapsFar`), which holds
  also where its power of two is no `int`; that it is the *least* power of two is what TLC
  checks (`SnapsUp`);
- that `SignalsInit` finds the four strings in the bytes of the request
  (`SplitCompressed`): each lies where the NUL of the one before it ends (`Lies`,
  `SplitFound`), and a string without a NUL in it is found whole (`LyingFound`).

Only model-checked: liveness (fairness and ENABLED are out of the prover's reach). Every
safety property of a run that should pass is a theorem.

## 6. What is not modelled

- the rest of bStrLib: only the functions the bridge calls have callers here;
- `deInitaccessory`, which main cannot reach, and `removeSignalWatch`, which nobody
  calls; `dbus_mutex`, for which nobody contends;
- a NULL of `udev_monitor_receive_device` (`L/usb.c:101`), after which the code goes on
  with nothing: it takes a failure of udev itself;
- callbacks and functions that only print (`dbuslib.c`, parts of `accessoryAudio.c`);
- the pipe of a bulk transfer on Android and the parsing of replies and signals
  (`J/dbus/message`), which have no state beyond one call;
- the introspection of D-Bus objects (`J/dbus/introspection`), one thread that works off
  a queue of paths;
- the wrappers of connections on Android (`J/aap`), example applications, payloads and
  their user interfaces.

## 7. Plan

1. *Done:* the queues with their proofs and refinement; the accessory's bridge; the byte
   stream both ways; the daemon and its connections; audio; bulk fifos with proofs; the
   D-Bus services; requests, ports and keepalive on Android with proofs; `Bridge` with
   proofs of its table, the end of a connection and the order of its output; the proofs
   about the daemon's handles and uuids and the byte stream; the proofs that both ends agree on
   the ports, that a phone is heard once, that a reply is the one to its call, and that a
   match rule is the one asked for.
2. The pipe of a bulk transfer on Android, with a reader that is slow and the receiver
   that waits for it; `IntroSpector`.
