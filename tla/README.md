# xdrpp: TLA+ specifications

xdrpp is a C++ implementation of XDR (RFC 4506) and of RPC over XDR (RFC 5531): a
compiler, `xdrc`, that translates `.x` files, and a library with marshaling, an event
loop, message sockets, and RPC clients and servers. This directory holds TLA+ modules
translated from that code, TLC configurations that check them on small instances, and
proofs, checked by TLAPS, that some of the properties hold for every instance.

`PROJECT.json` lists the components, the runs, the source lines of every definition,
the hazards the properties are aimed at, and what the runs found. Paths below are
relative to `src/`.

## 1. The system

### The event loop

Everything that waits in xdrpp does so in a `pollset` (`xdrpp/pollset.h`,
`xdrpp/pollset.cc`). A `pollset` is used by one thread. `pollset_plus` adds what comes
from elsewhere: callbacks injected by other threads, asynchronous tasks, and signals.

| Part | State | Operations | Who calls it |
|---|---|---|---|
| A. descriptor callbacks | `pollfds_` (the array for `::poll`), `state_` (descriptor to callbacks and index) | `fd_cb` (set, set empty, remove), `poll`, `consolidate` | the program and its callbacks; `msg_sock`, listeners |
| B. timeouts | `time_cbs_`, a multimap from time to callback | `timeout`, `timeout_at`, `timeout_cancel`, `timeout_reschedule(_at)`, `next_timeout`, `run_timeouts` | the program and its callbacks |
| C. injected callbacks | `async_cbs_`, `async_pending_`, `nasync_`, the self-pipe, `async_cbs_lock_` | `inject_cb`, `async`, `wake`, `run_pending_asyncs`, `inject_cb_vec`, `pending`, `run` | any thread; the pipe's read callback is an `fd_cb` of part A |
| D. signals | static `signal_owners`, `signal_flags`, `signal_owners_lock`; per object `signal_cbs_`, `signal_pending_` | `signal_handler`, `signal_cb` (add, steal, remove), `erase_signal_cb`, `~pollset_plus`, `run_subtype_handlers` | any thread; the handler interrupts any thread |

One call of `poll` does: `::poll` (sleeping no longer than `next_timeout` says), the
descriptor callbacks, `run_timeouts`, `run_subtype_handlers` (signals), `consolidate`.
User code runs in the middle of every one of those steps except the last, and may call
back into the pollset or throw. That is what makes the loop hard:

* positions, iterators, indices and `revents` read before a callback are used after it;
* an exception leaves `poll` in the middle of a round and skips what follows;
* a wake-up must not get lost between draining the pipe and taking the queue;
* the signal handler takes no lock and races with stealing, removing and destroying.

What makes each part correct is stated as properties: the two containers of A agree
and a round serves all that was ready; B never sleeps too long and runs what is due, in
order; C runs each injected callback once, in order, without losing a wake-up; D
notices and serves each signal, and never leaves one with a dead owner.

### On top of the event loop

| Part | State | Operations | Hard behaviour |
|---|---|---|---|
| E. `msg_sock` (`msgsock.cc/.h`) | read side `rdmsg_`, `rdpos_`, `nextlen_`; write side `wqueue_`, `wsize_`, `wstart_`, `wfail_`; `destroyed_` | `input`, `putmsg`, `output`, `pop_wbytes`, `setrcb`, destructor | messages in pieces, full socket buffers, destruction and `setrcb` inside the callback |
| F. `rpc_sock` (`msgsock.cc/.h`) | `xid_`, `calls_` | `get_xid`, `send_call`, `recv_msg`, `recv_call`, `abort_all_calls` | matching replies to calls, wrap of the xid, abort at end of file while callbacks issue calls |
| G. RPC server, asynchronous client (`server.h/.cc`, `arpc.h`) | registered services, listening socket, connections, reply closures | `register_service`, `dispatch`, `receive_cb`, `accept_cb`, asynchronous `reply` | one reply per call, replies after the connection is gone, handlers that throw |
| H. synchronous RPC (`srpc.cc/.h`, `server.cc`) | `xid_counter`; what is left in the stream | `read_message`, `write_message`, `invoke`, `srpc_server::run`, `dispatch`, `process` | blocking without a timeout, interrupted reads, late replies in the stream, limits on the length word |
| I. XDR types and marshaling (`types.h`, `marshal.h`, `marshal.cc`, `depth_checker.h`, `clear.h`) | the objects; cursor and end of the buffer, levels left | `serial_size`, `put`, `get`, `validate`, `check_xdr_depth`, `xdr_clear`, comparison, assignment | padding, limits, recursion depth, decoding into objects that are in use |
| J. generated unions (`xdrc/gen_hh.cc`) | discriminant and the active member | discriminant assignment, copy, move, decoding | the active member always agrees with the discriminant, also when a copy throws |
| K. the compiler `xdrc` | symbol tables, output state | parsing, code generation | bookkeeping of symbols and program numbers |
| L. `iniparse` | section, line, error state | line parser, dispatch to sinks | ends of lines and of files |
| M. `rpcbind` (`rpcbind.cc`, `server.h`) | `registered_services`; the table of the rpcbind server | `rpcbind_register`, the clean-up at exit, `tcp_connect_rpc`, `lookup_rpc` | several programs at once, crashes, calls that fail half-way |
| N. the rest | none | printing, cereal, autocheck, socket wrappers, message headers | formatting and thin wrappers |

Sections 3 to 6 describe what is modelled, section 7 what is not: of K only the code that
it prints, L, and N, which formats, adapts other libraries, or wraps one system call; what
other parts need of it is in their models as environment.

## 2. Modules

| Module | Models | Run by | Proofs |
|---|---|---|---|
| `Pollset` | A | `MCPollset` | `PollsetProofs` |
| `Timeouts` | B | `MCTimeouts` | `QueueProofs` |
| `SelfPipe` | the pipe of C | with `AsyncQueue` | `QueueProofs` |
| `AsyncQueue` | C | `MCAsyncQueue` | `QueueProofs` |
| `Inbox` | what `inject_cb` promises: the abstract specification `AsyncQueue` implements | as property `InOrderOnce` | `QueueProofs` |
| `Signals` | D | `MCSignals` | `SignalsProofs` |
| `MsgSock` | E | `MCMsgSock` | `WireProofs` |
| `Channel` | what two `msg_sock`s promise each other: the abstract specification `MsgSock` implements | as property `InOrderIntact` | with `MsgSock` |
| `Rpc` | F and G: both ends of one RPC connection | `MCRpc` | `RpcProofs` |
| `Calls` | what RPC promises a client: the abstract specification `Rpc` implements | as property `AnsweredAsCalled` | `RpcProofs` |
| `Padding` | the arithmetic of sizes in I | with `XdrTypes` | `XdrProofs` |
| `XdrKinds` | the descriptions of types, common to I and J | with `XdrTypes` | `XdrProofs` |
| `XdrBuffer` | what put and get of I do with numbers and bytes | with `Marshal` | `XdrProofs` |
| `XdrTypes` | I and J without archives: values, sizes, comparison, copying | with `Marshal` | `XdrProofs`, `MarshalProofs` |
| `Marshal` | the archives of I and J: put, get, depth check, clear | with `XdrObjects` | `XdrProofs`, `MarshalProofs` |
| `XdrObjects` | a program that uses two XDR objects | `MCXdr` | `XdrProofs`, `MarshalProofs` |
| `Srpc` | H: both ends of a connection | `MCSrpc` | `SrpcProofs` |
| `Rpcbind` | M: several programs, the rpcbind server as environment | `MCRpcbind` | `WireProofs` |

The parts of the loop are separate modules because they share no data but the time at
which they run: A keeps the place of B and D in a round as its step `"others"`, C keeps
the rest of `poll` as its steps `"poll"` and `"others"`. In each module `pc` (`phase` in
`AsyncQueue`) says which
point of the code has been reached, and a step ends where other code (a callback,
another thread, a signal handler) can run next.

Definitions that begin with the comment "Variant" are plausible bugs. No specification
uses them; each is there because putting it in the place of a definition must break a
property (`PROJECT.json`, "mutants").

## 3. How the models correspond to the code

**Pollset.** `pollfds_` and `state_` are the code's; indices begin at 1 and an
`fd_state` that is not in the map has `idx` 0. A callback is only its mode (none, every
time, once), because what it does is done by the actions that are enabled whenever user
code runs (`UserCode`): `SetCb`, `SetEmptyCb`, `RemoveCb`, `Close`, `Open`, then `Return`
or `Throw`. `PollReturns` chooses any set of reports the kernel can give for the
polled entries. `ReadSide` and `WriteSide` are the two halves of the loop body,
`PopUnused`, `PopDone`, `FillHole`, `KeepEntry` and `PollDone` the two loops of
`consolidate`. `Abort` is the failing `assert`. `due` is a history
variable. The program keeps the rule that callbacks of a descriptor are removed before
it is closed (as `~msg_sock` does).

**Timeouts.** `time_cbs_` is the multimap as a sequence in iteration order; `With` puts
an entry behind those of the same time, as `emplace` does. The live iterator of
`run_timeouts` is `i`, and `valid` says whether its node is still in the map. The clock
advances at any time (`Tick`). `IntMax` is the largest `int`; `ToInt` wraps as the
conversion in `next_timeout` would, so a missing clamp shows.

**AsyncQueue.** The lock is held across two steps only where that is visible: between
setting `async_pending_` and writing the byte, because the pipe is read without the
lock. `Take` is the locked block of `run_pending_asyncs`. `CallThrows` is followed by the
clean-up, `inject_cb_vec(i+1, cbs.end())`, as the code performs it: `std::move` writes
behind the end of `async_cbs_`, so the callbacks are dropped (`ReinjectLoses`) or the
program dies (`ReinjectCrashes`). `OtherByte` is `wake()` called for other reasons and
the bytes of signal handlers.

**Signals.** Each `pollset_plus` is driven by a thread of its own. A step of the handler is one
access to a shared variable. `signal_owners_lock` is explicit where a section under the lock is
visible in pieces. With `Interrupting` the handler interrupts the (only) thread, so the thread
waits for it; without it, as in the run, they run side by side. A handler that wakes an object
which is gone writes to a closed descriptor: `WakeOwner` then wakes nobody. `overtaken` and
`unguarded` are history variables: the signals whose removal undid what a handler had marked,
and those whose owner nothing protects any more from a handler at work (`Exposes`). `Unhook` is
`erase_signal_cb` up to the loop that waits for the handler, `Spun` and `Reraise` the rest. A
signal that is raised again gets its default action, which here does not end the process.

**MsgSock.** One `msg_sock` sends and one, in a process of its own, receives; the
kernel's `stream` between them holds at most `SockBuf` bytes. (The two directions of a
`msg_sock` share nothing but the descriptor, so a connection is two such pairs.) A frame is
its length word and its body; a byte carries its frame and its position, so that a byte
taken for another is noticed. `got` is what `rdpos_` counts: the bytes of the message being
read and of the next length word behind it. `putmsg` and `WriteReady` contain `output` with
its three results: some bytes written, refused (`EAGAIN`), failed. `Input` is the Read
callback up to the loop; the loop's body is `Read` (and the other results of `read`) at
`pc = "input"`, and the decision about a complete length word at `pc = "length"`
(`Fragment`, `EmptyMessage`, `StartMessage`, `NoMemory`, `TooLong`). `rcb_` runs at
`pc = "callback"`, where the program may call `setrcb`, destroy the receiver or throw;
`after` is the place to which the callback returns. Calling an empty `rcb_` throws
(`std::bad_function_call`), and the message that was moved into the call is gone: that is
`Skip` of `Channel`.

**Rpc.** A client, that is an `rpc_sock` and the calls an `asynchronous_client_base` sends
through it, and a server, that is one connection of an `rpc_tcp_listener` with methods
that get a `reply_cb`. Messages travel in two queues, as `Channel` says they do between
`msg_sock`s; `Break` ends the connection at any time, and what was on its way arrives up
to some message. `stack` holds the functions of the client's `rpc_sock` that wait for a
callback, because a callback may enter them again: `abort_all_calls` runs the callbacks one
by one (`AbortNext`), each may make calls (`Invoke`), destroy the `rpc_sock` (`Delete`, which
runs `abort_all_calls` again, on top), throw or return. The keys of `calls_` are xids as
`message_t::word` reads them (`Swap`), while `get_xid` looks for the number itself; a byte has
only `Byte` values, so that xids wrap. What the server makes of a call is fixed by its
`kind`: `dispatch` ignores, refuses or serves it, a message may be too long for the
connection, a result may be undecodable for the client. `ServeCall` has every way a method
can end: reply, keep or drop its `reply_cb`, and return or throw; the reply that `dispatch`
adds when a method throws makes some calls be answered twice. `LateReply` uses a kept
`reply_cb`. `FreeConnection` is `receive_cb(nullptr)`: `session_free`, in which the session
drops the `reply_cb`s that it holds, so that they are answered before the `rpc_sock` goes; any
others stay in `held`, and their `LateReply` has a pointer to an `rpc_sock` that was deleted.
Whether the client has a server callback is
decided when it matters (`EndDone`), since `set_servcb` can be called at any time.

**XdrKinds, XdrBuffer, XdrTypes, Marshal, XdrObjects.** A type is a record with its kind and
what the kind needs (`Types`, a small universe of types in `MCXdr` that nest in one another
and, through a pointer, in themselves); templates and generated code that `types.h`,
`marshal.h` and `xdrc` instantiate per type are operators with the type as a parameter. A value
is a sequence: of bytes, of a number, of components; a union is its discriminant, the number of
its live member, which the code does not store but every destructor and accessor computes from
the discriminant, and the member. Keeping the two apart is what lets `MembersAlive` and
`Usable` fail. An archive is a record that the operators hand on: what was written or how far a
message has been read, the levels left, the first error. An error stops everything behind it
(`Raise`, `Failed`), and the object keeps what was decoded before, as it does under an
exception. What a move leaves behind is `MovedFrom` (an `xarray` declares only copies, so an
array keeps what it held). Everything is bytes on the wire, so a length, a discriminant and a
padding can be anything a message holds. Copying takes a number of allocations that succeed
before one throws; an object that such a copy has left without the member that its discriminant
selects is not used again (`Step` asks for `Usable`). `XdrObjects` is the state machine: two
objects of one type, whose operations are decoding, assigning, moving, clearing and setting
discriminants and members; the properties compare the functions on the values these reach, not
on values chosen by hand. Numbers and bytes are the leaves of every value, and the only ones
that touch the buffer: they need no recursion and are modules of their own (`XdrKinds`,
`XdrBuffer`). What the code does with a value of any other type it does with each part of it by
a call of the same function template, for the part's type. Those calls are constants
(`SizePart`, `ArchivePart` and the others that end in `Part`), and `MCXdr.cfg` gives them the
operators themselves (`SizePart <- SizePartUsed`, which is `SerialSize`): that ties the
recursion for TLC, and leaves definitions without recursive operators, which the prover can
reason about.

**Srpc.** `ClientReads` is `read_message` where a message begins; it throws if the length is
bad (`BadLength`, the test of the word before its bytes are swapped) and otherwise consumes the
message. Any read or write may be interrupted by a signal, which `fullread` and
`write_message` take for an error (`pollset.cc:361` installs handlers without `SA_RESTART`):
the call fails, its reply stays in the stream, and if a part of it was read it is `torn`. So
is one whose length was refused, since the rest of it stays. In a torn message the
client takes bodies for lengths (`Misreads`): most words throw, but one whose first byte has
its highest bit set and its two lowest clear passes `srpc.cc:38-48`, and then the client is
`"astray"`: it waits for as many bytes as the word says. There may never be as many, and
nothing has to happen any more; if they come (`Swallows`) they are no reply, or look like one
that nobody sent (`Forgery`). After any of this the place where the client reads next may be
in the message, at its end or in the one behind it (`WordRead`, `BytesRead`): which words the
data are is left open, and so every outcome is possible. A write of only a part of a
message fails the assertion of `srpc.cc:66` and ends the program, as `SIGPIPE` does (`Invoke`,
`ReplyFails`). What a call leads
to is in its request: a program or version that is not registered, a procedure
that is absent, arguments or results that cannot be decoded, a method that returns,
throws an `xdr_runtime_error` (`refuses`) or something else (`dies`, which ends `run`).

**Rpcbind.** `entry` is the rpcbind server's table: which program's socket it names. A
registration is two steps, UNSET (`BeginSet`) and SET (`Registered`, `InUse`), between
which others act; `registered_services` is what the clean-up will remove, one call of it
a step (`CleanUp`). Any call may fail, before or after rpcbind acted on it, and any
program may crash at any time; such programs are `careless`, and nothing is claimed of
what they leave, except that it bars nobody. `Search`, `Ask` and `Connect` are
`tcp_connect_rpc`; `users`, `raced`, `steady` and `unreached` are history variables.

## 4. Runs

Every pass-run has deadlock checking off because the modelled program may really stop:
an assert that fails, a crash, a destroyed object, or a bound on the environment's
inputs.

| Run | Instance | Shows |
|---|---|---|
| `pollset` | 2 descriptors, all four kinds of callback; no other bound | `RegistryOK`, `EventsMatchCallbacks`, `PositionOK`, `NoReadyCallbackSkipped` |
| `timeouts` | 3 timeouts, times 0..3, `int` up to 1, 4 insertions | `NeverOversleeps`, `RunsInOrder`, `ExpiredAllRun`, `EveryTimeoutRuns` |
| `async` | 2 threads, 3 callbacks (1 throws, 1 task), pipe of 2 bytes, 2 other bytes | `NoLostWakeup`, `NasyncCounts`, `InjectedRuns`, `InOrderOnce` |
| `signals` | 2 objects in 2 threads, signals 1, 2 and a refused 9, a handler beside the threads, 2 deliveries, 3 calls (also from callbacks), throwing callbacks of signals and others | `OwnersAgree`, `OwnersAlive`, `WakesTheLiving`, `MarkedIsNoticed`, `MarkedIsServed` |
| `msgsock` | 4 frames (empty, of the largest size, too long, a fragment), 3 messages sent, length word of 2 bytes, `writev` of 2 messages, socket buffer of 3 bytes | `WsizeCounts`, `StreamIntact`, `NoUseAfterDestroy`, `WriteArmed`, `InOrderIntact`, `AllArrive` |
| `rpc` | 3 calls, of every kind (good, refused, malformed header, too long, undecodable result), xids of two one-bit bytes | `AnsweredOnce`, `NoneForgotten`, `AnsweredAsCalled`, `AllAnswered` |
| `xdr` | 4 roots over 18 types (two unions with void arms, one with a default arm, a recursive list, vectors, bytes, a checked enum); every sample's encoding, cut anywhere, with another word in each place, or longer; 3 operations; 0..2 allocations before memory runs out; levels up to 6 | `MembersAlive`, `RoundTrip`, `SizeExact`, `NeverReadsPast`, `DepthAgrees`, `OrderAgrees`, `ClearsToDefault` |
| `srpc` | 3 calls, each one of 9 requests, 2 interrupted reads or writes | `OwnResultOnce`, `InStep`, `CallsEnd` |
| `rpcbind` | 2 programs, 2 addresses (IPv6 before IPv4), 3 registrations, 2 failed calls or crashes | `NotesAgree`, `OnlyRacesRefuse`, `SearchFinds` |

Why the bounds are enough: two descriptors let an entry be a hole, the last entry, and
the one that fills a hole, and let a callback change another entry of the same round;
the proofs of section 6 remove this bound. Three timeouts are one that runs, one before
and one behind it, and 4 insertions let each be put in and one be rescheduled. A pipe of 2
bytes can be empty, partly full and full. Two signals let one wait while the other's
callback runs; two objects are a thief and its victim. A length word of two bytes can be
split; three bytes of buffer are less than the longest message and more than a length
word, so a read can end within a word, at its end, and within a body, and a write within a
message and behind one; the third message is queued behind two that one `writev` takes.
Three calls are one that runs, one that waits and one that a callback makes; with four xids
the search for a free one skips one that is in use and reaches 0, and no xid is used twice.
Three operations on two objects are: fill one, fill or change the other or the same, and
assign or decode over what is there; every property is evaluated after each. The first
two calls of `srpc` can both leave a reply in the stream before the third. Three
registrations are one that is displaced, one that displaces it, and one for the other
address; with two failures a program can crash and its successor's call fail too.

`MarkedIsNoticed` is checked with one handler (see below for two). In six modules the type
invariant is the first conjunct of a safety invariant (`RunsInOrder`,
`OwnersAgree`, `WsizeCounts`, `NoneForgotten`, `OwnResultOnce`, `NotesAgree`); those of `Pollset`
and `AsyncQueue` are proved only (section 6), and `MembersAlive` is the one of the XDR objects.

The violation runs show where the code departs from what it or its documentation says:

| Run | Property | What happens |
|---|---|---|
| `msgsock_stalls` | `NeverStalls` | the `writev` of `putmsg` is refused: no Write callback, and nothing ever writes again (`msgsock.cc:174`) |
| `xdr_torn` | `Usable` | the copy of a union's member runs out of memory: the old member is destroyed, and the discriminant, set to the largest number in between (`gen_hh.cc:523`), selects the default arm's, which does not exist |
| `rpc_end` | `SurvivesEnd` | at the end of the connection of a client without server callback `recv_call` dereferences a null message (`msgsock.cc:242`) |

These passing properties are stated with the exception that the code makes:

* A dropped callback (see below) counts as over in `InjectedRuns` and `Inbox`.
* `AllArrive` excuses a stalled sender; `WriteArmed` says that a sender can stall in no other way.
* `MarkedIsNoticed` accepts `signal_pending_` without a byte in the pipe, and
  `MarkedIsServed` then excuses the signals that a callback which threw left behind
  (`LeftBehind`): they wait until something else ends `::poll` (`pollset.cc:305`). Both excuse a
  signal that was removed while a handler was past its check (`overtaken`), and the latter a
  destructor that goes round for ever with the lock (`Stuck`, below).
* `WakesTheLiving` excuses a handler that nothing protects any more (`unguarded`): after it read
  the owner a thief took the signal, who does not wait (`pollset.cc:352`), or the mark it set
  was replaced, by `run_subtype_handlers` before a callback, by the end of a removal that it
  overtook, or by another handler of the same signal that has finished. Then the former owner may
  be destroyed before it is woken, what `pollset.cc:37-40` means to prevent. What remains is
  what the loop of `pollset.cc:391` achieves: removal, in `signal_cb` and in the destructor, waits
  for a handler that has marked the signal.
* `MembersAlive` allows a union to have no member and the largest number as its discriminant,
  which is what the assignment leaves when a copy throws. If no arm has that number the union
  is alive all the same; if the default arm has a member it is not (`xdr_torn`). The
  properties about marshaling and comparison speak of objects that are `Usable`.
* `OwnResultOnce` says nothing of a `Forgery`, and `CallsEnd` excuses a client that took a word
  inside a message for a length (`"astray"`).
* `NoneForgotten` and `AnsweredAsCalled` are checked with as many calls as there are xids other
  than 0, so that none comes up again.

Seen while modelling, and left without a run:

* Callbacks that are removed and whose descriptor is closed between two rounds (as
  `~msg_sock` does when it is destroyed outside `poll`): the entry is polled once more,
  `::poll` reports `POLLNVAL`, and the assert of `pollset.cc:230` fails. In `Pollset` that is
  the step `Abort`.
* The callbacks behind one that throws are dropped, or the program dies: `inject_cb_vec`
  moves them behind the end of the vector (`pollset.cc:123`; `ReinjectLoses`,
  `ReinjectCrashes`), although `pollset.cc:88-91` means to put them back.
* `read_message` tests `len & 3` before it swaps the bytes (`srpc.cc:38`): what is tested is
  the most significant byte, so a length that is no multiple of four passes, a message
  of 16 MiB to 64 MiB is refused and leaves its body in the stream, and in the middle of a
  message, where an interrupted read leaves the reader, a word that begins with 0x80 is a length.
  The next calls then wait for bytes that nobody sends, or are answered with bytes that
  nobody meant as an answer. `InStep` excludes such replies.
* A refusal that was left in the stream by an interrupted call is reported for the next
  call: `check_call_hdr` throws before the xids are compared (`srpc.h:63-64`).
* A reply that cannot be written is taken for garbage arguments and answered once more
  (`server.cc:113-116`).
* The clean-up stops at the first call that fails (`rpcbind.cc:21-24`), and UNSET removes an
  entry whoever made it: of two programs with the same service the first to exit
  unregisters the other. The listener's destructor does not unregister
  (`server.cc:133`: "XXX should clean up if use_rpcbind_").
* `tcp_connect_rpc` goes on to the next address after a `std::system_error` only: a call to
  rpcbind that fails throws an `xdr_system_error`, which is an `xdr_runtime_error`, and
  ends the search (`rpcbind.cc:115`; `AskFails`).
* A descriptor that an earlier callback of the same round closed and that was opened and
  registered again has its new callback run for the old file's `revents`
  (`pollset.cc:233`).
* `run` of a `pollset_plus` returns only by an exception: the Read callback of its own
  self-pipe (`pollset.cc:53`) keeps `num_cbs()` above 0 (`pollset.cc:196`), although
  `pollset.h:95-96` speaks of returning "when there is no more work to do".
* A callback that cancels or reschedules its own timeout: `run_timeouts` holds an iterator
  to its node and erases it again (`pollset.cc:271`). In `Timeouts` that is the step
  `EraseTwice`, after which nothing is claimed.
* An xid that comes up again, after 2^32 calls, while its first call is outstanding:
  `get_xid` looks for the number in host order and takes 0 without looking, `emplace` keeps
  the old callback, and the new call is forgotten (`msgsock.h:119`, `msgsock.cc:230`). With
  four calls and four xids `NoneForgotten` fails.
* A `reply_cb` that outlives its connection uses a deleted `rpc_sock`
  (`msgsock.h:136`; `tests/arpc.cc:29-31` keeps one for a second, without a session that
  could drop it). In `Rpc` it is in `held` when `conn` is false; what the call does to the
  server's memory is not modelled, and no property speaks of it.
* The refusal of an incoming call by an `rpc_sock` without server callback
  (`msgsock.cc:242`) passes `b->word(0)`, in the order of the wire, where
  `rpc_accepted_error_msg` expects the xid itself: on a little-endian machine the caller
  ignores the reply.
* After the end of the stream, or a message it rejects, a `msg_sock` stays registered
  and calls `rcb_(nullptr)` in every round, up to three times in one `input` for a message
  that is too long, until the callback destroys it or removes itself; after a failed
  `writev` the Write callback stays in the same way. `rcb_` is expected to destroy the
  `msg_sock`, as the callers in this repository do.
* A refused `sigaction` leaves an entry in `signal_cbs_` without owner; the destructor's loop
  never gets rid of it (`DestroyOne` is not enabled), and it has the lock.

Seen in experiments with other constants of the same modules, and not part of the runs:
with two handler threads for one signal `OwnersAlive` and `WakesTheLiving` hold, but not
`MarkedIsNoticed`: the one that finishes first stores 2 while the other is still waking, which
defeats the wait for 1, and a flag may stay 2 with nobody informed. Where one thread and its
handlers are all there is (`Interrupting`) this cannot happen, which is proved (section 6).

## 5. Fairness

* `Timeouts`: `WF(Loop)`, because a program calls `poll` again and again (the typical use
  given at `pollset.h:80-85`) and callbacks end; `WF(Tick)`, time passes. Nothing makes a
  descriptor ready (`WakeByDescriptor` has no fairness), so liveness rests on the
  sleeping time alone.
* `AsyncQueue`: `WF(Main)`, the main thread stays in `run` and callbacks end, and for each
  thread `WF(Wake)`, a thread that holds the lock goes on. Nobody has to inject.
* `Signals`: weak fairness of every started handler and of a thread's own steps. `::poll`
  has to return only when a byte is in the pipe; nobody has to call `signal_cb`.
* `MsgSock`: `WF(WriteReady)` and `WF(Receives)`: both programs poll, and callbacks end.
  Nobody has to send, destroy, throw or change a callback.
* `Rpc`: `WF(Client)` and `WF(Server)`: both programs poll, callbacks and methods end; and for
  each call weak fairness of `LateReply`: a `reply_cb` is used or dropped some day. Nobody
  has to call, to delete or to break the connection.
* `Srpc`: both sides go on reading what has arrived and answering what they have read
  (`WF` of `ClientReads`, `ServerReads`, `Dispatch`), and a reader of a closed stream notices
  (`WF` of `EndOfFile`). Nobody has to call, and no signal has to come.

`Pollset`, `XdrObjects` and `Rpcbind` state safety only.

## 6. Proofs

`PollsetProofs` proves for every set of descriptors and every set of uses: `TypeOK`,
`RegistryOK`, `EventsMatchCallbacks`, `PositionOK` and `NoReadyCallbackSkipped` as invariants,
`Compacts` and
`ErasedUnused` as action properties. The only assumption is that the uses are pairs of a
side and a mode (`UsesAssumption`). None of the invariants is inductive alone: that
consolidate's step keeps the registry needs the position (the last entry is above the
hole and is another descriptor's), and the position needs the registry (what is in use
stays in the array). `IInv` is their conjunction, with the entries' types. Each action
falls into one of few kinds of change (an entry's events and callbacks together, a pop, a
fill, nothing but scalars), and there is one lemma for each kind. `NoReadyCallbackSkipped` has
an invariant of its own, `DInv`, on top of it: within the loop every callback that is due has
its entry ahead of the loop, reported ready for it (`DueAhead`; the index of an entry does not
move before consolidate, and what user code registers or removes is no longer due: `Gentle`),
and `r` is the number of entries ahead that anything was reported for (`CountRight`). So when
`r` is 0, or `maxpoll` is reached, no callback that is due has an entry left to be at
(`LeaveLoopDue`).

Of `AsyncQueue`, `QueueProofs` proves for every set of threads, callbacks and tasks, every capacity:
`QueueTypeOK`, `NoLostWakeup`, `NasyncCounts`, and that `AsyncQueue` implements `Inbox`
(`InOrderOnce`), under `CbAssumption` (finitely many tasks, a pipe of at least a byte, `Free`
is not a thread). `QueueInv` adds to these `OnePlace` (a callback is ready, queued, taken, has
run, or is lost: one of these only, and no queue has it twice), without which `nasync_`
could be counted down twice, `CbsEmpty` (nothing is taken outside the calls) and `Woken`
(`async_pending_` implies a byte, a thread about to write it, or a main thread about to
take; a queue that is not empty implies `async_pending_`), of which `NoLostWakeup` is a
consequence.

Of `Timeouts`, `QueueProofs` proves for any set of timers, any bounds of time and of `int`:
`NeverOversleeps`, `RunsInOrder` and the action property `ExpiredAllRun`, under
`BoundsAssumption`. `IInv` says of the multimap that it is ordered and has a timer at most
once, which insertion at the upper bound and erasure of one entry keep (`WithKeeps`,
`WithoutKeeps`), and of the iterator that everything before it was inserted in this round
(`Passed`), through every change that a callback makes to the multimap. Where the
iterator is invalid (`valid` is false) nothing is claimed, as the code promises nothing.

`SignalsProofs` proves for every set of objects, signals and handler threads, under
`SignalAssumption`: `TypeOK`, `OwnersAgree`, `OwnersAlive` and `WakesTheLiving`, and, where a
handler interrupts the threads (`Interrupting`), `MarkedIsNoticed` and that `overtaken` stays
empty, so that it speaks of every signal. `OwnersAgree` speaks of the moments when the lock is
free and is not inductive; `Owned` is what holds all the time (an owner has the callback, also
within the critical section; a callback that `signal_cb` has not refused has its owner), and
the destructor's loop ends only when no callback is left (`ClosedEmpty`). `WakesTheLiving`
needs three facts more (`LInv`): what a handler has marked stays marked 1 until the handler is
done or excused (`Marked`); the owner that it has read still owns the signal, or else whoever
is removing the signal spins with the lock, and the former owner is not closed (`Protected`),
since closing takes the lock; and what is being removed has no owner (`Removing`). For
`MarkedIsNoticed` the question is by which way the owner will learn of the flag, and `NotedBy`
lists the five: a byte in the pipe, a handler about to write one, a `signal_cb` or a
`run_subtype_handlers` that is at this signal, the set of signals that the latter still goes
through, or `signal_pending_` before the next run. That needs what a handler knows (`Knows`:
nothing has changed the flag and the owner that it has read) and who holds the lock (`Locked`).

`RpcProofs` proves for any number of calls, xids of any width and whatever the server makes of
the calls, under `RpcAssumption`: `AnsweredOnce`; and, for behaviours in which `xid_` only
grows (`NoWrap`; once it comes round they can fail, section 4), `NoneForgotten` and that `Rpc`
implements `Calls` (`AnsweredAsCalled`). `IInv` says that a call waits in one place at most,
`calls_` or one `abort_all_calls` on the stack (`OnePlace`), that what waits has no answer
(`Unanswered`), and that the functions of `rpc_sock` nest only for the destructor (`Shape`).
`JInv` adds that the keys of `calls_` are the swapped forms of xids behind `xid_` (`Behind`),
so that `send_call`, which keeps what it finds under a key (`emplace`), finds nothing: swapping
the bytes is injective (`SwapInjective`). That `get_xid` ends its search at 0 at the latest is
`GetXid`. For `Calls`, `KInv` says of every message, on its way or kept, that if a call waits
under its xid it is the message's own (`Known`; a new call has an xid no message has), that
requests are of different calls, none of them executed, and results and kept requests of calls
that were (`Served`).

`SrpcProofs` proves for every set of services and requests, any number of calls and of
interrupted reads and writes: `OwnResultOnce`, under `SrpcAssumption`. `IInv` adds to it that
the messages on their way to the server are of different calls, none of them executed
(`Distinct`), and that a reply names its call and says `SUCCESS` only after the execution
(`Honest`). Also `InStep`, by a second invariant, `SInv`, with only `IInv` beside it: as long
as nothing has been disturbed, the connection is in one of four conditions. Nothing is under
way (`Quiet`), a request is on its way to the server (`Calls`), the server
has it (`Serves`), or a reply is on its way back, and what the client will
take from it is what was promised (`Tells`). What has been disturbed stays so (`Calm`), so a
step from a disturbed state need not be looked at; `dispatch` writes the reply that the promise
speaks of (`DispatchKeeps`).

Of `Rpcbind`, `WireProofs` proves for every set of programs, keys, addresses and failures:
`BindTypeOK`, `NotesAgree`, `OnlyRacesRefuse` and `SearchFinds`, under `RpcbindAssumption`.
`Registrations` adds that whoever has to do with a key is known to have registered it
(`Traces`), so that a key with one user has nobody else who could unset it; `Progress` says of
the search, for every address already passed, what `SearchFinds` says at the end of all of
them.

`WireProofs` proves of `MsgSock`, for every set of frames and every length word, maximum,
`maxiov` and socket buffer, under `MsgSockAssumption`: `WsizeCounts`, `StreamIntact`,
`NoUseAfterDestroy`, `WriteArmed`, and that it implements `Channel` (`InOrderIntact`).
`StreamIntact` is not inductive: it says nothing once the sender is gone, when what is left in
the kernel and in the receiver must still be the beginning of what was put. `Intact` says that
what is due is what was read, then what the kernel has, then a rest, and that while the sender
exists that rest is what it has still to write. The message that is being read is the first
that has not arrived (`Placed`): with `Intact`, a length word that is complete is that of the
next frame (`Announced`), and the bytes that complete a message are its body (`ReadWhole`). On
the other side `Sent` says what `output` leaves of a queue, all of it, some or nothing. The
rest is about cutting and joining sequences (`Cut`, `CutTwice`), and about `FlattenSeq`, a
function defined by recursion: that it exists and is unique is proved for every length with an
induction over sets (`EveryNat`), and then that appending a frame appends its bytes
(`FlatAppend`) and that a queue can be cut between two frames (`FlatSplit`).

Of `Padding`, `XdrProofs` proves for every length: room for the bytes of an opaque value in a buffer
of whole words is room for its padding (`CheckCoversPadding`), which `check(n)` before
`get_bytes` and `put_bytes` rests on; the size computed for it is what is written
(`SizeOfBytes`); and the lengths that still fit in 32 bits when padded are those up to
`XDR_MAX_LEN`, and no others (`MaxLenFits`). The constant is the one of `types.h`.

Of `XdrBuffer` it proves, for every table of types under `TypesAssumption` (a maximum or a
length is a natural number), every 32-bit number, every string of bytes and every buffer of
whole words: put writes what `serial_size` counts, just when it fits, and otherwise leaves the
buffer alone (`PutFills`); get never looks behind the message, whatever a length word says,
and what it accepts is a value within its maximum and its tags whose encoding stood there,
zero padding included (`GetStaysWithin`; a bool has more encodings than one and is the
exception); what was put comes back from its place whatever follows it (`LeafComesBack`), and
so does any number of values put one after another, after which get is at the message's end
(`LeavesComeBack`). `PutsWords` and `GetsWords` are what an archive keeps from one call to the
next: its place is the start of a word, and so is the buffer's end. Without the latter
`check(n)` would say nothing of the padding of n bytes. That four bytes and a number below
2^32 stand for each other (`WordOfNumber`, `NumberOfWord`) is division with remainder, a byte
at a time; that a copy of the bytes and a look at the padding find what `put_bytes` left is
`CopyReads` and `CopyBack`. `LeavesComeBack` needs three inductions with `EveryNat`: every put
kept the archive's invariant, each state of the buffer is the beginning of the message, and
each get starts where the put of the same number did.

Of the XDR objects, whatever their types, `XdrProofs` proves `MembersAlive`, `ClearsToDefault`
and the first half of `NeverReadsPast` (`ObjectsAlive`, `ObjectsClear`, `DecodingStays`), and
`MarshalProofs` proves `SizeExact`, `DepthAgrees`, `RoundTrip`, `OrderAgrees` and the whole of
`NeverReadsPast` (`SizesExact`, `DepthsAgree`, `ValuesComeBack`, `ObjectsCompared`,
`AcceptedIsCanonical`). The types may be nested and, through vectors and pointers, recursive in
any way that `NestedAssumption` allows: no object lies inside itself. The theorems have two
hypotheses. `Recursive` says that the `...Part` constants are the operators they stand for, on
the values of the types: that is how `MCXdr.cfg` defines them, and what the code's templates
are. `UsesObjects` says that what the program assigns are values of the object's type, and what
it decodes are bytes. Unions with a default arm are included: `ObjectsAlive` says of them what
`MembersAlive` does, and the others speak of objects that are `Usable`, since what is left of
one that is not may be taken for anything. `RoundTrip` moreover is proved for objects that are
no deeper than the limit that messages are made with (`LevelsSuffice`), since of a deeper one
the code throws `xdr_stack_overflow`.

The argument: `Objects` are the values of each type, level by level (`Level(n)` has those whose
nesting is at most n deep); a property that holds of a value whenever it holds of its parts
holds of all (`ByParts`, an induction over the levels that needs only the induction over sets,
`EveryNat`). That every type has a default value is an induction over the types that lie inside
it (`NestedAssumption`). The inductive invariant, `ObjInv`, is `MembersAlive` with the fact
that objects which can be used hold values of their type (`HoldValues`). It starts with values,
which are alive (every member of a value is a value, `ByParts`); no operation starts from
objects that are not; and only a copy can leave anything but a value. The rest is about the
operators. Every operator that writes to an object leaves a value there, with or without an
error: the loops of `load` by induction over the components. A copy, for any number of
allocations that succeed, gives the source, or leaves what is alive but for torn unions and is
a value if there are none (`CopiesTo`). For marshaling, `IsCode(t, v, c, K)` says of a value
what all archives make of it: put of it, with a number of levels in K, appends the bytes c, get
at a place where c stands gives the value back from any object and moves to the end of c, the
depth checker comes through, and with any other number of levels put and get stop at a stack
overflow and the checker says no; or else put or get refuses the value, and then it is not
valid. Each value whose size can be told has such a c and K (`CodesExist`), by `ByParts`: the
code of a value is that of its parts, one behind the other, and its levels are those of the
parts and one more. The theorems about the messages follow from this for the objects'
components (`MessagesExist`).

`OrderAgrees` compares any values of a type, not only the objects'. Two sequences are told
apart by the first component that differs or by their lengths (`LexIs`), so that signs that
order the components (`Tells`) order the sequences (`LexSigns`, `LexTurns`, `LexPasses`); by
`ByParts` the signs of all values do (`ObjectsOrdered`, `OrderPasses`; for two unions it is the
discriminants that decide, or the members). That two values have the same bytes only if they
are the same needs no validity: a value's bytes are not the beginning of another one's of the
same type (`CodesOwn`), since the length word or the discriminant says what follows, and each
part's bytes are the same as the other's before the next one is looked at (`PartsOwn`).

`RoundTrip` starts from a value, the second half of `NeverReadsPast` from bytes that came from
anywhere: when get of a type does not throw, what it consumed is the code of the value it gave
(`AllReadCode`). This is an induction over the levels the archive has left, and not over
values, since the value is known only when it has been read: a level is the code of the word in
front (`NumberRead`) and of the parts that the loop has read so far (`FirstRead`, `UnionRead`).
Only a bool is read from other bytes than those that put writes; `Alike` therefore lets a word
differ where the code's word ends in 1. `DoneKeeps` says that the code then covers the whole
message. The invariant `Canonical` keeps what follows for the message accepted last, until the
object changes.

Model-checked only: all liveness (`EveryTimeoutRuns`, `InjectedRuns`, `MarkedIsServed`,
`AllArrive`, `AllAnswered`, `CallsEnd`; liveness under fairness is beyond the prover). Every safety
property that a passing run checks is
the subject of a theorem.

## 7. What the models leave out

* A callback that calls `poll` on the same pollset, and a callback that is not one-shot
  and replaces or removes its own `std::function` while it runs.
* A `Timeout` handle used after its timeout has run: it is not null, but its iterator is
  invalid. The program is assumed not to use it.
* Loops that have no bound in the code: a timeout callback that adds a timeout already
  due, wake bytes that never cease. The models bound the inputs.
* A `pollset_plus` destroyed while an `async` task is out.
* An `rcb_` that `setrcb` replaces while it runs (the destruction of a running
  `std::function`); errors of `read` other than "would block" and end of file, which take
  the same path as end of file; `EINTR`, which takes that of "would block".
* Of RPC: accepting connections, the listener's own destruction (its connections keep a
  pointer to it), calls in both directions over one connection, credentials, and what is in
  arguments and results. `Rpc` builds on `Channel`, so a sender that stalls
  (`msgsock_stalls`) is not in it. `receive_cb`'s handler for an `xdr_runtime_error` is not
  reached by a method that throws, which `dispatch` answers, but by `xdr_get` of a message whose
  length is not a multiple of four (`server.cc:81`): what follows is what follows a message that is
  too long (`long`), the end of the connection, and `Rpc` has no kind of its own for it.
* Failures of `::poll` other than `EINTR`, which end the program.
* Of XDR: numbers beyond 2^31 - 1 (in the run), negative and floating-point ones (a number is its
  word's value); memory that runs out while a message is decoded, or in a move, which can
  allocate because arrays are copied; what becomes of an object that is used after
  a copy has torn it; assigning an object a
  part of itself; elements of no size; reads that are not aligned to words in the buffer,
  which `marshal_base` does not produce.
* Of synchronous RPC: what words the data of a message are, so that any body may be taken for a
  length, and what it is taken for is left open (a refinement of `Srpc` with real words would
  have fewer behaviours); calls that arrive at a client, replies that arrive at a server,
  malformed headers (`Rpc` has them), `xid_counter` beyond its range, two clients on one
  socket.
* Of rpcbind: programs of different users (UNSET of another's entry would fail), other
  registrants, UDP services; the text of universal addresses.
* `iniparse` keeps nothing between two lines but the section's name. `xdrc`'s parser and
  its printing of C++ text are a batch program without state worth a model; what it
  prints for enums, structs and unions is modelled (`XdrTypes`, `Marshal`). Printing, cereal and
  autocheck walk values as `Archive` does and format what they find.

## 8. Plan

The event loop (`Pollset`, `Timeouts`, `AsyncQueue`, `Signals`), the message socket
(`MsgSock`), RPC (`Rpc`, `Srpc`), marshaling (`Padding`, `XdrKinds`, `XdrBuffer`, `XdrTypes`,
`Marshal`, `XdrObjects`) and rpcbind (`Rpcbind`) are done. What would come next, in this order:

1. Nested `poll` in `Pollset` (a stack of rounds).
2. `rpc_sock` used in both directions; the listener's destruction while connections live.
3. A program that replaces its own callback while it runs.
