# Specifications of gdosc

gdosc is a Godot extension that sends and receives OSC messages over UDP. It wraps
oscpack in three classes: `OSCReceiver`, `OSCSender` and `OSCMsg`. This directory
holds TLA+ models of it, the TLC configurations that check them and TLAPS proofs
about them. Paths below are relative to the repository; line numbers of every
definition are in `PROJECT.json`.

## The system

A script of the game runs on the main thread. It owns a receiver and a sender, calls
their methods, and polls the receiver once per frame (`demo/godot/osc_receiver.gd`).
A started receiver has one more thread, the listener, which it detaches and never
joins. Nothing is persisted.

| Component | State | Operations | Talks to |
|---|---|---|---|
| Receiver, message path (`src/osc_receiver.cpp`) | two deques, `_queue_write`, `_queue_read`, `_qread_index`, `_qread_len`, `_swap_needed`, `_max_queue`, `_avoid_duplicate`, `_lmutex` | `ProcessMessage`, `check_queue` (listener); `has_message`, `get_next`, `max_queue`, `avoid_duplicate` (script) | listener and script share the deques |
| Receiver, lifecycle (same file) | `_port`, `_is_ready`, `_running`, `_lsocket`, the detached threads | `setup`, `start`, `stop`, destructor | creates and deletes sockets that threads use |
| Receive loop (`oscpack/ip/posix/UdpSocket.cpp`, `oscpack/ip/win32/UdpSocket.cpp`) | `break_`, the attached sockets and timers, the timer queue, the break pipe or event, the events of the sockets, the receive buffer | attach and detach, `Run`, `Break`, `AsynchronousBreak` | calls listeners for datagrams and timers |
| Dispatch (`oscpack/osc/OscPacketListener.h`) | the bundles being iterated | `ProcessPacket`, `ProcessBundle` | calls `ProcessMessage`, may throw in between |
| Parser (`oscpack/osc/OscReceivedElements.cpp`, `.h`) | pointers into the receive buffer | `Init` of packets, bundles and messages, iterators | input of the dispatch |
| Conversion (`src/osc_msg.h`) | `oscmsg_data` | its constructor | reads what the parser has accepted |
| Outbound packet stream (`oscpack/osc/OscOutboundPacketStream.cpp`) | the buffer, four pointers into it, one flag | `operator<<`, `Clear`, `Size`, `IsReady` | used by sender and OSCMsg |
| Sender (`src/osc_sender.cpp`) | `_socket`, `_running`, `_is_ready`, `_packet`, `_packet_closed` | `setup`, `start`, `stop`, `msg`, `add`, `send`, destructor | writes the stream, sends its bytes |
| OSCMsg (`src/osc_msg.cpp`) | `_packet`, `_buffer`, `_buffer_size`, `_packet_closed`, `_array` | `address`, `add`, `close`, `buffer_size` | writes the stream, copies its bytes |

What is hard here:

* two threads that share the deques, with a double buffer whose reader works outside
  the mutex, and limits that change while the queue is in use;
* a push and its overflow check that are two critical sections;
* a lifecycle in which `stop()` deletes what a detached thread may be using, and a
  loop whose flag is reset by the thread it is meant for;
* a packet that grows from both ends of its buffer and keeps the chain of its open
  elements inside the bytes it is writing;
* a parser whose iterators trust checks made earlier, on sizes that come from the
  network and are added in 32 bits, in a buffer that still holds earlier datagrams;
* blobs that do not fit and are not refused, so that the size of the next one is
  looked for outside the message or the buffer;
* a loop that waits for sockets, timers and a request to end, each of which can come
  between its test and its wait.

What makes each part correct:

* message path: no data race; per-address order and no duplicates; the limit; loss
  only by the limit or by a later message of the same address; a polling script gets
  what is kept;
* lifecycle: socket, queues and flags agree between calls; nothing undefined
  happens; a running receiver keeps listening; a stopped one stops;
* stream: nothing outside the buffer, tags and arguments never meet, elements nest,
  a ready packet can be parsed to its last byte, tags and arrays included;
* sender: no socket when stopped, a message is closed once, a datagram fits and can
  be parsed;
* receive loop: no read blocks, no wait misses what it is for, it ends soon and only
  when asked, nothing starves;
* parser, dispatch and conversion: what becomes a value lies where it was checked,
  exactly the messages up to the first fault are delivered, parsing ends. Two things
  the code does not keep, and the properties say how far: the size of a blob may be
  read outside the message, and one size of a slot makes parsing never end;
* OSCMsg: flag and packet agree, what is closed can be parsed, what is added is
  there.

## Modules

| Module | Role |
|---|---|
| `Mailbox` | abstract specification of the message path |
| `ReceiverQueue` | the message path, step by step under the mutex |
| `ReceiverLifecycle` | start and stop against the listener threads and `Run()` |
| `PacketStream` | the stream's operations, as functions of a packet |
| `OutboundPacket` | a client that applies them in any order |
| `OscSender` | the sender over the stream |
| `OscMsg` | `OSCMsg` over streams of changing size |
| `Multiplexer` | the receive loop of both builds |
| `ReceivedElements` | the bytes of a packet: words, strings, arguments |
| `PacketMeaning` | abstract specification of the parser: what a datagram says |
| `PacketListener` | a datagram from the receive buffer to the queue, step by step |
| `*_proofs` | theorems and their proofs |
| `MC*` | values of the constants for TLC, one `.cfg` for each run |

Definitions whose names begin with `Mutant` are plausible mistakes in the definition
that follows them. They belong to no specification. Each property has one that
breaks it, listed in `PROJECT.json`.

### Mailbox

Messages arrive in an inbox; the newest of them may be dropped; when the previous
batch has been taken, a prefix of the inbox is published, either as it is or
collapsed to the last message of each address in the order of the addresses; the
script takes messages one by one.

### ReceiverQueue

Each thread has a label for the code it executes next. Taking the mutex is one step
and the critical section with its release is another, except for the swap of the two
pointers, which is two steps, so that the moment between the assignments is visible.
`clear()`, outside the mutex, is a step of its own. The code that follows the swap,
`purge_duplicates()` included, touches only what the script owns (this is
`NoDataRace`) and is one step, `SwapIndex`.

| Code | Actions |
|---|---|
| `ProcessMessage` | `ProcessMessageLock`, `ProcessMessagePush`, then `CheckQueueLock`, `CheckQueueResize` |
| `max_queue` | `MaxQueueLock`, `MaxQueueSet`, then `check_queue` as above |
| `avoid_duplicate` | `AvoidDuplicateLock`, `AvoidDuplicateSet` |
| `has_message` | `HasMessage` without a swap; `HasMessageSwap`, `SwapClear`, `SwapLock`, `SwapWrite`, `SwapRead`, `SwapIndex` with one |
| `get_next` | `GetNext` |

A message is its number in the order of arrival and its address; addresses are
numbers in the order of their strings. `arrived`, `delivered` and `pending` are
history: the first two give the messages their identity, the last remembers that
`has_message()` was true and not yet followed by `get_next()`.

### ReceiverLifecycle

Every socket that `start()` opens has a number, and so has its thread. A thread
re-reads `_lsocket`, so it can come to run a later socket. `stop()` is split at each
statement another thread can observe: `Break`, `delete`, the assignment,
`purge_buffers`. Inside `Run()` a thread clears `break_`, tests it, blocks in
`select()`, tests again and receives; a packet is any number of messages and then an
end or an exception (`PacketEnds`), or an endless slot (`PacketNeverEnds`, see the
parser below). A message is pushed in one critical section and the limit checked in
the next, and a poll or a `stop()` may come between them. What C++ leaves undefined
ends a behaviour, and `fault` names it: a call through a null `_lsocket`, use of a
deleted socket, of a deleted receiver, of null or deleted queues, a poll of a
receiver without queues, an index past the end of a deque (there `at()` throws, and
nobody catches it).

Polls are one step each and messages are counted, since `ReceiverQueue` shows the
interleaving inside a poll of a running receiver to be harmless. `get_next()` at the
end of its batch changes nothing and is left out, and so are calls that only warn.

### PacketStream and OutboundPacket

Pointers are offsets in a buffer, whose size the packet keeps in `end`, as the code
does in `end_`. Tags are counted, and so are the arrays begun and not ended by them
(`depth`). Of the bytes, a packet keeps the words in the size slots and, where an
element begins, whether it is a bundle or how long its address is padded to; behind
an address, how many bytes the tags and arguments of the closed message take and
whether its brackets balance (`lists`).

`Reads` is what the parser makes of those bytes: `ReceivedBundle::Init` on every
bundle and `ReceivedMessage::Init` on every message. The tags the stream writes are
all known ones, each with its argument behind the last, so what can go wrong in a
list is where it ends and whether its arrays do (`TagsRead`). It is written from the
left: `Ends(p)[from]` is the set of offsets where a sequence of well-formed elements
that starts at `from` may stop, and a packet reads when its size is one of them.
Address patterns start with `/`, as OSC asks, so no message looks like a bundle.
Sizes are far below 2^32 here, so sums are plain ones.

`OutboundPacket` lets a client apply every operation whenever it does not throw,
including what the stream fails to refuse: arguments outside a message, a second
element at top level, and a message whose arrays are not closed, which the parser
refuses. `misused` remembers those.

### OscSender

One packet with a bundle and a message in it. A vector or colour is appended float
by float, since any of them can overflow. An uncaught exception and the null socket
of `send()` end a behaviour. `late` remembers that something was added to a message
after it had been sent; the stream accepts it, and the bytes sent then have a tail
no parser accepts.

### OscMsg

The size of the buffer changes between messages; the packet in the making keeps the
one it began with. `add()` of a vector is split as in the sender. `array` is what
`data()` returns: the packet as `close()` copied it and the length copied. `given`
counts the values added since `address()`. As in the sender, an overflow ends a
behaviour, and so does `close()` without a packet.

### Multiplexer

`build` chooses one of the two files; most steps are the same and the others have an
action each.

| Code | Actions, POSIX | Actions, Windows |
|---|---|---|
| beginning of `Run` | `EnterRun` | `EnterRunWin32` |
| `while`, timeout, wait | `LoopTest`, `Select`, `SelectInterrupted`, `SelectFails` | `LoopTest`, `Wait`, `WaitFails` |
| break pipe, test of the flag | `ReadPipe`, `BreakTest` | (in `LoopTest`) |
| sockets | `Receive`, `Skip` | `ReceiveWin32` |
| timers | `LookAtClock`, `TimerExpired`, `Resort` | the same |
| end | `LeaveRun`, `Throw` | `LeaveRunWin32`, `Throw` |
| `AsynchronousBreak` | `AsynchronousBreak` sets the flag, `Wake` writes the byte | the same, with an event |

A listener's call is one step in which it returns, calls `Break()`, or throws.
`asker` and `late` are history: who asked the loop to end and how many listeners it
called since. A wait that fails on Windows (`WAIT_FAILED`, which the loop takes for
the index of a socket) is undefined behaviour: the label `fault`, after which
nothing is said. A `select()` that fails throws instead. `std::sort` may return
entries of equal time in any order (`Sorts`). Times are relative to the clock; the
clock only goes on.

`ReceiverLifecycle` keeps a `Run()` of its own, since there the receiver deletes the
multiplexer under it; the two agree on the order of clearing, testing and waiting.

### ReceivedElements, PacketMeaning and PacketListener

These work on bytes. `ReceivedElements` defines a big-endian word, unsigned and
signed, the rounding to 4 in 32 bits, the two searches for the end of a string and
where each type of argument ends. How many values a byte has is a constant, `Radix`:
256, or 128 for TLC, whose own integers have 32 bits. All constants of the code that
depend on it are written in terms of it (`Wrap`, 2^32 in the code, is the number of
words, `Int32Max` half of it less one), so a word of 4 bytes, its sign and its
overflow are those of the code in either case, and everything is proved for both.
Pointers are taken to be wider than 32 bits.

`PacketListener` has one step per iteration: a bundle is checked slot by slot
(`BundleHead`, `Slot`, `SlotsEnd`), then iterated (`Element`, `BundleEnd`), its
elements being bundles again or messages; a message is checked tag by tag
(`MessageHead`, `CheckTag`, `TagsEnd`), converted argument by argument (`Convert`)
and queued (`Deliver`). `Throw` is the exception that ends the packet. The recursion
of `ProcessBundle` is `stack`. The slots that `Init` found and the places of the
arguments it checked are history.

Two things the parser does are easily missed.

* *Endless slots.* `p += OSC_SIZEOF_INT32 + elementSize` adds two 32-bit numbers
  before it adds to the pointer. A slot of size 2^32 - 4 is a multiple of 4 and
  moves `p` by nothing: the loop of `ReceivedBundle::Init` never leaves it, and the
  listener thread is lost. `NextSlot` adds as the code does, and `Slot` repeats.
* *Stray blobs.* The two errors of a blob that reaches beyond its message are
  constructed and not thrown. `argument` then points behind the message or behind
  the buffer. Numbers and strings are refused there; another blob is accepted, and
  its size is read wherever `argument` points, in `Init` and again in `Advance`.
  Inside the buffer that is an old byte of another datagram; outside
  (`OutsideTheBuffer`) it is any word of `Garbage`, chosen anew at each read, or the
  end of the program (`Crash`).

`PacketMeaning` is what the parser is compared with: `Meaning(b)` are the messages a
sequence of bytes holds up to its first fault, and how its parsing ends: `done`,
`malformed`, or `never` when it comes to an endless slot. It is a definition, not a
program: there are no iterators, no exceptions, no state and no bytes behind the
last; a message is well formed as a whole or not at all; brackets are counted, where
the code keeps an unsigned level; slots are added up without a limit, where the code
adds in 32 bits, and the endless size is a case of its own; a bundle speaks only if
all its slots lead to its end. The contents of bundles are one recursive function of
a span of the bytes (`Contents`), the places of the arguments another (`Places`).
The words, strings and sizes of `ReceivedElements` are common to both, and that an
oversized blob is no fault is a decision of the code which the meaning follows.
`MeaningIsWhatWasWritten` in the MC module checks it against an encoder that
composes datagrams together with what they should mean.

## Runs

| Run | What it asks | Result |
|---|---|---|
| `queue` | safety of the message path, refinement of `Mailbox`, no deadlock; a message kept is delivered or superseded | holds, 61,722 states |
| `queue_over_limit` | batches hold at most `max_queue` messages | **violated** |
| `queue_latest` | `avoid_duplicate` keeps the latest message | **violated** |
| `lifecycle` | agreement between calls; safety before the first stop; cursor and swaps; a receiver not stopped keeps listening, but for an endless slot | holds, 346,365 states |
| `lifecycle_thread_quits` | a stopped thread quits | **violated** |
| `lifecycle_restart` | an announced message can be read, restarts included | **violated** |
| `packet` | buffer, nesting, `Size()`, readability of a ready packet to its last byte | holds, 1,231,540 states |
| `sender` | closing, size and readability of what is sent | holds, about 95,000 states |
| `sender_enabled` | a running sender has a socket | **violated** |
| `oscmsg` | flag and packet, readability of `data()`, nothing dropped | holds, 106,479 states |
| `multiplexer` | blocking, missed wake-ups, prompt ends, starvation | holds, 286,814 states |
| `listener` | iterators and arguments, reads outside the message, delivery up to the first fault, termination but for endless slots | holds, 99,120 states |

### What the violated runs show

* `queue_over_limit`: the listener pushes a third message, `has_message()` swaps
  before `check_queue()` takes the mutex, and the check then looks at the other
  deque. The batch has `max_queue + 1` messages. `QueueBound`, which holds, says
  that it is never more than one.
* `queue_latest`: a full queue is cut from its newest end before duplicates are
  merged, so an older message of an address survives and its latest is lost.
* `lifecycle_thread_quits`: `stop()` uses `Break()`, which the header of the
  multiplexer reserves for listeners; the thread stays in `select()`.
* `lifecycle_restart`: `stop()` keeps the read cursor, so a receiver stopped with
  messages unread and started again announces messages of a queue that is gone, and
  `get_next()` throws out of the extension.
* `sender_enabled`: `start()` catches the exception of the socket, then sets
  `_running` and returns true.

The other undefined outcomes of stopping a receiver (`freed_socket`, `null_socket`,
`freed_receiver`, `null_queue`, `freed_queue`) are reachable in `ReceiverLifecycle`
as well. `SafeUntilStopped` states the boundary: none of them is reachable before
`stop()` has deleted a socket. About what follows it promises nothing, nor about a
poll of a receiver that does not run.

### Bounds

* `queue`: two addresses, `_max_queue` 2 at first and 1 when the script sets it (0,
  which the code ignores, is offered too), three arrivals. Three messages overflow a
  deque of two, or two deques with one message each and another to come; duplicates
  and distinct addresses both occur, and every interleaving with a change of the
  limit is there.
* `lifecycle`: two starts, so that a thread of the first can meet the socket of the
  second; two ports for `setup()` of a running receiver; one wake-up of a thread,
  with a packet of any number of messages of which one at a time is queued (the
  limit is one, which a push exceeds until its check), enough to have something
  unread. A thread wakes once and must come back. Behaviours end when the program
  does or when the bounds are used up, so deadlock is not checked.
* `packet`: a buffer of 50 bytes, which is not a multiple of 4 and holds a message
  in two nested bundles, or two messages in one; addresses of 3 and 4 bytes (4 and 8
  padded), strings of 4, blobs of 9, arguments of 0, 4 and 8 bytes, and brackets in
  any order.
* `sender`: a buffer of 62 bytes instead of 1024, with addresses of 3, 7 and 39
  bytes, the last of which does not fit. Behaviours end with the program, so
  deadlock is not checked.
* `oscmsg`: buffers of 54 bytes at first (1024 in the code) and 22, 29 or 46 when
  the script sets the size: too small for any message, room for an address only, and
  for a few arguments; two lengths of address and one of strings.
* `multiplexer`: two sockets and two timers, three of them attached at a time, so
  that two sockets meet one timer and two timers meet one socket. The periods, 2 and
  1 ticks, make the timers expire alone and together. The system keeps two datagrams
  per socket, enough for a read that leaves something; one byte in the pipe (the
  loop reads one at a time); timers are called in the tick they are due (`MaxLate`
  0: the clock does not pass a due timer while the loop is on its way, though any
  number of datagrams does).
* `listener`: 41 datagrams, of which any three come one after the other: bare
  messages and messages without tags, each type of argument, blobs whose size is
  wrong, missing, or rounded to 0, one stray blob after another, arrays, unknown
  tags, strings without an end, bundles in bundles, slots that are too long, too
  short or not a multiple of 4, that lead backwards, sizes beyond the highest signed
  word (the lowest signed one, -12, and -4, the endless one) before and behind
  faults, and a fault at each depth. The buffer has 78 bytes, 2 more than a multiple
  of 4 as 4098 is, so the longest datagram is cut. Bytes have 7 bits (`Radix` 128),
  so that a word fits TLC's integers with its highest values included. Memory
  outside the buffer holds 0, 9, the highest word, or is not there. After an endless
  slot nothing comes, and a behaviour ends with its datagrams, so deadlock is not
  checked.

### Fairness

`queue` assumes that the operating system schedules both threads, that a thread
waiting for the mutex gets it eventually though the other keeps taking it (strong
fairness of the lock steps), and that the script polls as the demo does in
`_process`: `has_message()` again and again whatever else it calls, and `get_next()`
after each true answer. Arrivals are not fair.

`lifecycle` and `lifecycle_thread_quits` assume that both threads run (weak fairness
of the steps of `stop()`, `start()` and of a thread that is not blocked) and that a
packet has finitely many messages: after them it ends, with or without an exception,
or turns on an endless slot (strong fairness of `PacketEnds` or `PacketNeverEnds`,
which of the two is left open). A datagram has at most 4098 bytes and a message at
least 4, and `PacketEnds` of the run `listener` shows that nothing else goes on for
ever. Datagrams and calls of the script are not fair: `select()` may block for ever.

`multiplexer` assumes that the thread inside `Run()` is scheduled while it can go on
(weak fairness of `Run`), that a thread inside `AsynchronousBreak()` gets to write
its byte (weak fairness of `Wake`), and that `select()` is not interrupted by
signals for ever (strong fairness of `Select`). Arrivals, requests, interrupts and
the clock are not fair, nor is the failure of a wait. `listener` assumes only that
the one thread goes on. `oscmsg`, `packet` and `sender` have no liveness: what
happens next is up to the script.

## Proofs

The proofs hold for every value of the constants, under the assumptions named in the
modules: `Capacity`, lengths and limits are natural numbers, the initial limit is
positive, addresses are numbers; a byte has 256 values or 128, and the receive
buffer has no more bytes than the highest int32.

* **`ReceiverQueue_proofs`**. `NoDataRace` and `CursorInBatch` are not inductive:
  whether the two deques in use differ depends on where the swap is. `IInv` adds who
  holds the mutex (`LockHeld`), how the two pointers and the local one are related
  at each label (`Pointers`), that the deque about to be handed to the listener is
  empty (`Cleared`), and that the cursor's length is exactly that of its deque
  (`CursorFits`). `NextIInv` treats each action. From `IInv` follow `TypeCorrect`,
  `RaceFree`, `CursorCorrect` and `QueueBounded`. `Implementation` proves the
  refinement: a push is an `Arrive`, a resize a `DropNewest`, the swap, when it
  indexes, a `Publish`, `get_next()` a `Take`, and all other steps stutter; its core
  is that what `purge_duplicates()` returns is the collapse of `Mailbox`. The
  mailbox has an invariant of its own, `OrderInv`, on four pairs of sequences: the
  inbox is in order of arrival, outbox and delivered messages are so address by
  address, and both precede the inbox. From it come `AddressOrder` and `BatchOrder`,
  and from these, through the refinement, `MessageOrder`; and so does the order of
  the inbox from which `NoMessageLost` proves `NoSilentLoss`, step by step: what a
  resize drops is newer than what it leaves, what a collapse leaves out is older
  than what it keeps.
* **`ReceiverLifecycle_proofs`**. The invariant has a part for each actor. `Control`
  ties the label of the main thread to socket, queues, flags and port inside the
  calls too, and counts deletions (`stops` is the number of sockets opened without
  the one still open). `Pushes` bounds the queues: what a thread has pushed and not
  yet checked, one message each, comes on top of the limit, and a swap hands it
  over. `Cursor` is what polls keep. `Quiet` says that until the first deletion a
  thread exists only while the receiver runs, and is in `Run()` on the receiver's
  one socket. They give `PortCorrect`, `StartedSafely` and `Drained`, for any number
  of starts and datagrams. After the first deletion nothing of the kind can be
  proved, as the violated runs show.
* **`PacketStream_proofs`** has the lemmas on the operations of a packet that the
  three modules after it share, in two halves. *Inside the buffer.* `PacketInv` says
  that the finished packet fits (`Fits`) and that some set of offsets contains the
  open slots, is closed under following them, and leads downwards (`Nested`): the
  innermost slot alone says too little to survive the closing of its element.
  *Readable.* `WellFormed` says what a reader would make of an unfinished packet: a
  ready one reads; and in one that is open the chain of slots leads down to the
  outermost bundle (`Stacked`, `InBundle`), where every open bundle reads up to the
  slot of the element open in it, and the innermost up to the cursor, or to the
  message in progress, behind whose address the list of its tags will fit. The list
  counts as balanced when `depth` is 0, which a client that keeps the protocol sees
  to. Closing an element turns the link in its slot into a size, and then the bundle
  around it reads up to the cursor. Every operation of a client that keeps the
  protocol preserves it, and at the end `ReadyReads` gives `Reads`. `Ends` is
  recursive, and the library's induction is out of reach (below). Two arguments
  replace it. `EndsExists`: consistent partial functions agree, so their union is a
  function that satisfies the equation of `Ends`; with it `EndsEquation` can unfold
  the definition. `Descent`: a set of offsets below the size in which each leads to
  a higher one is empty, since the distances to the size would have no minimum
  (`WFMin`). `EndsBounds`, `EndsConcat` (two readable stretches make one) and
  `EndsLocal` (what is written behind a stretch does not change how it reads) all
  show that the set of their counterexamples is such a set.
* **`OutboundPacket_proofs`**. The invariant is `PacketInv`, and `WellFormed` as
  long as the client has kept the protocol. `PacketTypeCorrect`, `PacketFits`,
  `PacketNests`, `SizeCorrect` and `PacketReadable` follow, for any capacity, any
  lengths and any depth of nesting.
* **`OscSender_proofs`**. The invariant adds to `PacketInv` that a message not yet
  closed is the one element of its bundle (`BeingBuilt`), well formed, and that
  nothing was added late to it. It gives `SenderTypeCorrect`, `SenderSocket`,
  `SenderClosed`, `SenderBounded` and, for each step of `send()`, `SenderReadable`.
* **`OscMsg_proofs`**. `PacketOK` relates flag and packet: an open message is the
  one element of its bundle and well formed, a closed one is ready. `ArrayOK` says
  what `data()` holds while the message is closed: nothing about the packet is
  enough, since it may have been appended to after `close()`. It gives
  `MsgTypeCorrect`, `MsgReadable`, `MsgOpenUntilClosed` and `MsgKeepsValues`, for
  any sizes of the buffer.
* **`Multiplexer_proofs`**. The invariant `Inv` has a part for each property, proved
  apart: `Blocking` (a socket found readable stays so until the loop comes to it,
  which needs that no socket is attached twice), `InOrder` (the earliest timer is
  first but for the moment after one was put off), `EventsSet` (the event of a
  socket with a datagram is set, or the loop is about to read it) and `Prompt` (who
  can have asked at which label, and how many listeners were called since). They
  give `NeverBlocks`, `MissesNothing`, `EndsPromptly` and `ReturnsWhenAsked`, for
  any sockets, timers, periods and bounds.
* **`PacketListener_proofs`**. For any datagrams, buffer and bound. The invariant
  `IInv` adds to the types: that the slots a bundle was checked for lead from its
  first to its end, for every bundle of the stack, and each bundle ends where the
  slot it sits in says (`Frames`); where the element being opened lies (`Opened`);
  the slots found so far (`Slots`); and that the places of the arguments found so
  far lead from one to the next (`Arguments`). The properties alone are not
  inductive, since a later step depends on slots and arguments not yet visited. The
  core is `NextIsNext`, that the signed and unchecked reading of a size takes the
  iterator where the check went: `TurnsOver` says when a sum turns over in 32 bits,
  and a size of 2^31 or more that passes the check could only lead back to its own
  slot, which is never left; and `FineArgument`, that the iterator, which searches
  strings without a bound, steps as `Init` does over any argument that `Init` let
  pass. Where memory outside the buffer is read, in the one loop and again in the
  other, the two need not agree any more (`SameOrOutside`): they are both outside,
  and stay there.

  `DeliversTheMeaning` (`DeliversUpToTheFault` for every datagram) has an invariant
  of its own, `Tells`, above `IInv`. `Arrived`: the buffer begins with the datagram,
  and behind it is anything. `Expected`: what was delivered, followed by what the
  element in hand says and by what is left of the bundles around it, innermost
  first, is the meaning of the datagram; it is what the recursion of `ProcessBundle`
  still owes, and each step moves a part of it to the left. `InBundle`, `InTags` and
  `InArguments` say how far the element in hand has been checked and converted, and
  `Strayed` that a program can end only at a stray blob; from it `StaysInMemory`. A
  slot in hand that is endless keeps the meaning what it is, `never`, and the step
  repeats. Three points carry the proof. `ContentsEquation` and `PlacesEquation`:
  the recursive functions satisfy their equations, shown by the least counterexample
  (`NatLessThanWellFounded`, `WFMin`) since the induction theorems are not
  available. `SameText`, `SameNext`, `SameValue`: the code searches strings and
  reads sizes in the buffer, the meaning in the datagram, and they agree as far as
  the checks reach, while behind an oversized blob both are past the end.
  `LevelTurns`: the unsigned level is the depth of the brackets, or that depth plus
  2^32, hence 0 only if they balance. It needs fewer type tags than levels
  (`BufferAssumption`: 4098 bytes against 2^32); with as many tags the code would
  accept brackets that do not balance.

Only model-checked: the liveness properties `KeptIsDelivered`, `KeepsListening`,
`BreakEndsRun`, `NobodyStarves` and `PacketEnds`, for which the provers have no
rules. Every invariant and every other action property of the passing runs has a
theorem. The library's theorems of induction take an operator as a parameter, which
none of the provers can instantiate; the arguments above take a least counterexample
instead.

## Not modelled

* `RunUntilSigInt()` and its signal handler, `MessageMappingOscPacketListener`,
  `ReceivedMessageArgumentStream`, `ComputeArrayItemCount` and the checked accessors
  `As...`: nothing in the extension calls them.
* Socket calls other than `ReceiveFrom`, end point names and address formatting,
  printing, registration of the classes, the demo: no state, or outside the program.
  That a socket's constructor may throw is in the models of its callers.
* A clock that is set back, or that wraps (`timeGetTime`, after 49 days).
* The lost request of an `AsynchronousBreak()` made before `Run()` clears the flag
  is a behaviour of `Multiplexer`; no property speaks of it.
* The receive buffer of `Run()`: an exception leaks it on Windows and not on POSIX.
* The values of the arguments a sender writes, and their byte order; a float that is
  received is given by its bits, and its sender's address is left out.
* In `add()` of the sender, values of types that are not sent (strings among them,
  and objects, of which the comments of the demo say that the name is sent) change
  nothing; calls that only warn are left out.
* The bytes of `data()` behind its packet, which `close()` copies though they were
  never written.

## Plan

Done, in this order: the message path with its abstract specification; the
lifecycle; the packet stream, the sender and OSCMsg over it; the receive loop of
both builds; parser, dispatch and conversion; what a datagram means, for any bytes.
All have their proofs.

Next:

1. `RunUntilSigInt()`: the global multiplexer, the handler and its restoration as
   one more actor of `Multiplexer`.
