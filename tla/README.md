# A verification project for chops-net-ip

TLA+ specifications of the Chops Net IP library (asynchronous TCP and UDP on
top of Asio), the TLC configurations that model-check them, and proofs checked
by TLAPS. Paths below are relative to the repository; `detail/` is
`include/net_ip/detail/`, `component/` is `include/net_ip_component/`.

- [The system](#the-system): its parts, their state, how they interact
- [The modules](#the-modules): which models what, and how it corresponds to the code
- [The runs](#the-runs): what each checks, bounds, fairness
- [Divergences](#divergences): where code and documentation disagree
- [The proofs](#the-proofs)
- [What is not modelled](#what-is-not-modelled) and [the plan](#the-plan)

## The system

An application creates *net entities* (TCP acceptor, TCP connector, UDP
entity) through `net_ip`, starts them with two callbacks (state change,
error), and is handed a weak handle on an *IO handler* for each connection or
socket. Through that handle it starts and stops IO and sends. A `worker` runs
one thread, the *run thread*, which executes every completion handler and
every posted function; the application calls from any thread.

| Part | State | Operations | Called from |
|---|---|---|---|
| `detail/output_queue.hpp` | queue of buffers, byte count | `add_element`, `get_next_element`, `clear`, stats | `io_common`, under its mutex |
| `detail/io_common.hpp` | queue, `m_io_started`, `m_write_in_progress`, mutex | `set_io_started`, `set_io_stopped`, `start_write`, `write_next_elem`, `clear` | any thread, run thread |
| `detail/tcp_io.hpp` | socket, `io_common`, notifier | `start_io`, `stop_io`, `send`, `close`, `handle_read*`, `handle_write` | any thread; handlers on the run thread |
| `detail/net_entity_common.hpp` | `m_started` (0, 1, 2), callbacks | `start`, `stop` (block on a future), `set_stopped`, `call_*_cb` | application threads |
| `detail/tcp_connector.hpp` | `m_state`, resolver, socket, timer, `m_io_handler`, `m_conn_attempts` | `do_start`, `close`, `start_connect`, `handle_connect`, `notify_me`, `finish_close` | run thread; `notify_me` also on a thread that calls `stop_io` |
| `detail/tcp_acceptor.hpp` | acceptor socket, `m_io_handlers`, `m_shutting_down` | `do_start`, `start_accept`, `close`, `notify_me` | run thread (same remark) |
| `detail/udp_entity_io.hpp` | socket, `io_common`, `m_shutting_down` | `do_start`, `close`, `start_io`, `stop_io`, `send`, handlers | all threads: `stop_io` closes in its caller |
| `net_ip.hpp`, `net_entity.hpp` | containers of entities under `m_mutex` | `make_*`, `remove`, `stop_all`, visitors | any thread |
| `basic_io_interface.hpp`, `basic_io_output.hpp`, `detail/wp_access.hpp` | weak pointer | forwarders | any thread |
| `component/send_to_all.hpp` | collection of outputs, mutex | add, remove, send | any thread; as a state change callback |
| `component/io_output_delivery.hpp` | promises, wait queues | state change callbacks that deliver outputs | run thread |
| `component/worker.hpp` | io context, thread, work guard | `start`, `stop`, `reset` | application |
| `tcp_connector_timeout.hpp` | attempt counters | how long to wait before the next attempt | connector |
| `simple_variable_len_msg_frame.hpp` | header or body expected | bytes still to read | `tcp_io` |

How they interact:

- *Calls.* `start` and `stop` post a function to the run thread and wait for
  it. `start_io`, `stop_io` and `send` run in their caller.
- *Callbacks.* A `tcp_io` that closes calls its owner's `notify_me` at once, in
  the closing thread; this is where the run thread re-enters a connector or an
  acceptor in the middle of another of its methods, and where an application
  thread enters it without a lock.
- *Messages.* Completion handlers and posted functions, in one queue.
- *Shared state.* `io_common` is protected by a mutex, but only one method at a
  time: a sequence such as test the flag, then close, is not. `m_state`,
  `m_io_handlers` and `m_shutting_down` have no lock at all.

What is hard here: the order of posted and direct calls; methods entered again
from a callback; checks that are stale when acted upon; handlers of cancelled
operations that run later, in another state; close from several threads at
once; failure half way through a start. Correctness of each part means:

- *io_common*: buffers leave in the order of the send calls, none twice, none
  lost but by a stop, one write at a time, the byte count exact.
- *tcp_io, udp_entity_io*: one read, one write; close is done once and as a
  whole; everything drains; the owner is notified.
- *tcp_connector*: in every state the one operation that leaves it is
  outstanding; it reconnects until stopped and never after; it reports its end
  once; a stop takes its connection down.
- *tcp_acceptor*: the container is the set of live connections; each is
  reported created, then destroyed; stop closes all.
- *net_ip, worker*: every call returns, whoever waits for whom; `stop_all` stops
  all; handles tell the truth about entities that others close or remove.
- *framing*: however the stream arrives, the message handler gets the messages
  it consists of.
- *timeout functions*: a delay between the first one and the maximum, and the
  number of attempts that was asked for.
- *send_to_all, io_output_delivery*: everyone who is a member gets every buffer,
  in one order; the total of the statistics says what is left to send; everyone
  who waits for an output gets it.

`PROJECT.json` lists every part under `components` and every hazard, with its
line and the properties that watch over it, under `hazards`.

## The modules

```
SendStream <-refines- IoCommon --EXTENDS--> OutputQueue
                       ^   ^
              INSTANCE |   | INSTANCE
                   TcpIo   UdpEntityIo --EXTENDS--> NetEntityCommon, IoOutputDelivery

TcpConnector --EXTENDS--> NetEntityCommon, ConnectorTimeouts
TcpAcceptor  --EXTENDS--> NetEntityCommon, SendToAll
NetIp           the facade and the run thread, over entities of the three kinds
ReadFraming     the bytes behind TcpIo's "message"
```

Each `MC...` module extends one of them with the values of its constants or
another initial state; each `..._proofs` module extends one of them with the
theorems about it, and `Arithmetic` has the facts about numbers they rest on.

Operators whose name ends in `Fault` are the versions of an action that a
plausible bug would give; the mutants of `PROJECT.json` put them in the
action's place, and the property named there must then fail. Nothing else uses
them.

**OutputQueue** (`output_queue.hpp`). One action per method. A buffer is the
number of the `send` that it came from. `num_bytes` is modulo `ByteModulus`, as
a `std::size_t` is; two bits are enough to wrap.

**IoCommon** (`io_common.hpp`). Every method is one action since it holds
`m_mutex` throughout, including the call of the function object that starts
the asynchronous write. `Next` lets any method be called at any time. `writing`
stands for writes outstanding in Asio; `nsent` and `handed` are history.

**SendStream**. What a sender may rely on, without a queue: buffers are handed
over in order, at most once, or given up together. `IoCommon` implements it
with `lost` mapped to the buffers that were accepted, are not in the queue and
were never handed over.

**TcpIo** (`tcp_io.hpp`, with the weak pointers of the interface classes). Each
thread has a program counter, because `start_io`, `stop_io` and `close` are
sequences of critical sections of `io_common` with other code between them.
`CloseStop`, `CloseClear`, `CloseSocket` and `CloseNotify` are the statements of
`close`. The run thread takes completion handlers one at a time. Reads and
writes started on the open socket complete either way once the peer is gone;
those started on the closed one (`deadReads`, `deadWrites`) can only fail.
`Alive` is what locking the weak pointer tests.

**ReadFraming** (`tcp_io.hpp` `handle_read` and `handle_read_until`,
`simple_variable_len_msg_frame.hpp`, the overloads of `start_io` and the factories
of `io_state_change.hpp`). `TcpIo` knows that a read ends in a message or in a
part of one; this module has the bytes. `m_byte_vec` is resized and filled in
place, `mbuf` is the part of it that Asio fills, `m_hdr_processed` the memory of the
message frame. `async_read` fills the buffer, `async_read_until` appends, beyond
the delimiter too. A state change callback is known by the frame, the read
size and the delimiter it starts IO with; `chained` stands for a message frame
of the application's that asks for several chunks. `stop_io`, a handler that
returns false and a failing read end it at any point.

**NetEntityCommon** (`net_entity_common.hpp`). `start` and `stop` in three steps
each: the compare and exchange, the assignment of the callbacks (`start`), and
the post, after which the caller waits. `execq` is the queue of the run thread.

**TcpConnector** (`tcp_connector.hpp`). The handlers are the actions
`ResolveDone`, `ResolveFails`, `ConnectDone`, `ConnectFails`, `LateConnect`,
`TimerDone` and `IoFails`; the methods which many of them end in (`close`,
`start_connect`, `finish_close`, `notify_me`) are steps named by `pc`, with `ret`
naming where they return: to the run loop, to the posted function, or into the
state change callback that `handle_connect` is in the middle of. Each kind of
operation is a pair of counts, live and cancelled, as a cancelled one still runs
its handler. Of a `tcp_io` there remain its started flag, its socket and its
read, with `start_io`, `stop_io` and `close` in the steps that `TcpIo` has for them:
`stop_io` reads the flag and acts on it in a later step (`StopIo`, `StopIoMark`),
`close` stops IO, closes the socket and notifies in three (`IoClose`, `IoShut`,
`Notify`). So a `tcp_io` may be closed twice, and tell the connector twice.
The state change callback is atomic for a connection that ends, and a step of
its own, in which the application may call `start_io` or `stop_io`, for a new
one. A thread of `Users` may call both at any time and then executes
`notify_me` itself. The connector is made with one of `TimeoutFuncs` and with or
without `m_reconn_on_err`.

A `stop_io` that finds IO stopped by a close under way sets it started again;
`again` counts that. `ClosedOnce` (`again = 0`) is the condition of what the run
`connector` checks, but for `TypeOK` and `DelayInRange`: it holds until that happens.
What can happen then is among the [divergences](#divergences).

**ConnectorTimeouts** (`tcp_connector_timeout.hpp`). The four function objects on
integers of a given width, -`TickLimit` to `TickLimit` - 1: the products wrap as `std::size_t` does, the cast of a
`double` that does not fit is undefined and yields the least value or a
saturated one. A fifth, the application's own, answers at will. They are asked
by the connector, so that the attempt counts are those it really passes.

**TcpAcceptor** (`tcp_acceptor.hpp`). The same way as the connector, with the
queue `execq` holding completion handlers of accepts and the posted reports of
new connections as well: their relative order matters. `StopNextIo` and
`Notify` are the loop of `close` over a copy of the container while `notify_me`
changes the container. The application's callback is `send_to_all`.

**SendToAll** (`send_to_all.hpp`, `basic_io_output.hpp`). `io_outs` under `m_mutex`.
`send` (to all, or all but one) and `get_total_output_queue_stats` visit one output
after the other in steps of their own while connections start, close and
write; the state change callback waits for the mutex. Of an output's `io_common`
there remain the write in progress (`writing`) and the length of the queue behind
it (`queued`): a buffer sent while nothing is being written never enters the
queue, and the statistics are of the queue alone. `taken` and `skips` are
history: what each connection took, and whom each send left out.

**UdpEntityIo** (`udp_entity_io.hpp`). Net entity and IO handler in one;
`NetEntityCommon` is extended and `IoCommon` instantiated. `close` is five steps
of whichever thread is in it, and its test of `m_shutting_down` is separate from
the assignment. Its callbacks are those of `IoOutputDelivery`; `StartReturns` is
what that does when `start` has answered.

**IoOutputDelivery** (`component/io_output_delivery.hpp`). The wait queue and the
promises. A promise is unset, a value or an exception, and `thrown` records
that one was set again.

**NetIp** (`net_ip.hpp`, `net_entity.hpp`, `wp_access.hpp`, `worker.hpp`). Threads
with program counters: at the lock guard (`lock`), before the post (`post`), at
the future (`wait`), in the loops of `stop_all` (`next`), joining the worker
(`join`). `Alive` is what a handle's `lock()` finds: an entity lives as long as a
container, an operation or a call refers to it. The run thread executes `execq`
and handlers; during each it is in a callback, which may make one call. An
entity is reduced to new, open, closing, closed, which is what the other
modules show of it, and `m_started`: a UDP entity that closes by itself sets it, a
connector does or does not, depending on what ended it, and an acceptor does not
close by itself. The two calls of `start` and `stop` are `NetEntityCommon`'s with
the assignment of the callbacks left out. `worker` is the state of the thread
and its work guard; `WorkerStop` abandons what is posted, `WorkerReset` waits
for it.

`map` in `PROJECT.json` gives the lines of every definition. Code outside the
repository (Asio's sockets, resolver, timer and queue) is modelled from how the
library uses it, and is marked external there.

## The runs

All use `tlc -workers 2 -config X.cfg M`; `connector`, `acceptor` and `net_ip` take
one to three minutes, the others less. `io_common` checks for deadlock; in the others the
system may stop (everything is closed and nobody calls), so that the check is
off and the liveness properties say what must have been reached.

| Run | Shows |
|---|---|
| `io_common` | Any order of method calls from any thread: a buffer waits only behind a write (`QueueWaitsForWrite`); the queue is exactly the latest buffers in order (`QueueIsBacklog`); the byte count is right even after wrapping (`BytesMatchQueue`); the class implements `SendStream` (`SendOrder`). |
| `tcp_io` | An application thread and the run thread in `start_io`, `stop_io`, `send` and `close` at once: one write, one read, buffers in the order of the sends (`SendOrder`), at most one message after the end was told, every `stop_io` ends in a notification, all drains. |
| `framing` | Every stream of up to six bytes, in every segmentation: the messages delivered are the ones the stream consists of, whole and in order (`CutsStream`), each as soon as its last byte is there (`AllDelivered`). |
| `connector` | A stop at any moment of resolving, connecting, waiting, callback and connection loss, `start_io` and `stop_io` by the callback and by another thread, each timeout function. As long as no `tcp_io` is closed twice: the state always has its one operation (`StateHasItsOperation`); connections are reported in turn; a counted timeout gives up when it should, and not early (`GivesUp`); the end is reported once and last; a stop always ends drained; reconnecting never gets stuck. Always: delays stay in range. |
| `acceptor` | Connections refused, closed by the peer, by the callback, or by a stop, with two threads using the `send_to_all`: the container is the set of live connections and the counts given are right (`HandlersAreLive`), at most one connection is unreported, all members get the same buffers (`SameForAll`), when a total is zero each connection has at most one buffer, the one being written, left of all that was sent (`ZeroLeavesOne`), everyone is told in the end. |
| `udp` | `close` from the run thread and an application thread at the same time, and starts that fail half way: a stop ends closed, a closed entity drains, and whoever waits for a future or the queue gets what it waits for (`Delivered`). |
| `net_ip` | Two application threads and callbacks that make, start, stop, visit and remove entities while `stop_all` runs and the worker is started, stopped and reset: `stop_all` skips nothing (`StopAllStops`); with no call under way what is open is started, and an acceptor or UDP entity that is not open is not started, nor a connector that has not run (`IsStartedAgrees`); every call and `worker::reset` returns. |
| `tcp_io_twice`, `connector_resolve`, `connector_delay`, `udp_futures`, `net_ip_callback` | Each finds the violation of one documented promise; see the next section. |

Bounds, each a constant that a guard uses and that names what it cuts off:

- `MaxSends` (5 in `io_common`, 3 in `tcp_io`, 2 in `udp`): buffers accepted. Three
  give one being written, one at the front of the queue and one behind it. With
  `ByteModulus` 4 and sizes from 1 to 3 the counter wraps several times.
- `MaxStarts`, `MaxStops`, `MaxMsgs` (1, 2, 2): successful `start_io`
  calls, `stop_io` calls, messages. Two stops race with each other and with an
  error; a message before the end and one after.
- `MaxTries` (4; 5 in `connector_delay`): no connection *fails* once there were so
  many attempts, which leaves the last one to succeed. Four allow a failed attempt,
  a connection lost in its callback and one lost later, in any order, and a
  `counted_timeout` that forgives no failure or one to give up after each of
  these.
- `MaxAgain` (0): nobody calls `stop_io` on a `tcp_io` that was closed before, once so
  many closes were undone. It does not keep a `stop_io` that has begun from undoing
  one, so that this happens in `connector` and the properties' condition is both
  met and not met. More of it adds no state in which the condition is met.
- `TickLimit` (128): ticks of eight bits, from -128 to 127, so that five attempts are enough for a
  power not to fit. With 64 bits and the 1000 ms that is `simple_timeout`'s
  default it takes seven.
- `MaxConns` (2): a connection alive and one being accepted, or unreported.
- `MaxTold` (2): a callback may call `stop_io` or `start_io` on a closed
  connection, which is reported again, until that many reports.
- `MaxSends` (2) calls of `send`, `MaxCalls` (3) of `send_to_all`'s methods in all: two
  sends that could overtake one another, with one buffer waiting behind the other,
  and a total, asked for once both have begun; an earlier one has less to miss.
- `MaxEnts` (2 of the three entities): one for `stop_all` to wait for while the
  other changes. Each entity can be made, started and stopped once, so that
  nothing else in `NetIp` needs a bound.
- `Callers`: each calls `start` or `stop` once. Calls that lose the
  compare and exchange change nothing, so more threads add nothing.
- `Streams`: six bytes with three values give three messages of a header and a
  body, or three delimiters; empty bodies, several chunks, and a prefix of the
  delimiter that is not continued.

Restrictions on the application, also constants or named guards:

- `Overlap`, `OverlapStop` = FALSE: `stop` is called after `start` has returned, and
  not while another thread's `stop_io` closes the connection (`net_ip.hpp:116`
  asks for this). `CallStop` and `StopAll` of `NetIp` have the same in their guards
  (`Starting`).
- In `TcpAcceptor`, `stop_io` of a connection is called on the run thread only.
- `AnyStartIo` = FALSE: nobody calls `start_io` on a UDP entity that was or is
  being closed.
- The state change callback of a connection that ends calls no method of it
  (`net_entity.hpp:300`), and error callbacks call nothing.
- `start_io` is not called after `stop_io` (`basic_io_interface.hpp:524`); it may be
  called by several threads, and while another's `stop_io` begins.
- `ClosedOnce`, in what the connector's properties say: see above. This is not a
  restriction of the application that a document asks for, but the condition
  that the first divergence makes necessary.
- `Programs`: in `net_ip`, callbacks make no call that waits for the run thread,
  and call nothing of `net_ip` in a program where a thread calls `stop_all`. What is
  left out by the second is what `net_ip_callback` checks.
- `ReadFramingAssumption`: a read size and a delimiter are not empty (with
  either empty, a read completes at once, without a byte, for ever), and a header
  decoder returns a `std::size_t` for whatever header a stream may hold.
- `ResolveMayFail`, `AcceptMayFail`, `StartMayFail`, `KnownEndpoints`, `HasLocal` choose
  features and failures of the environment.
  `connector` has `ResolveMayFail` = FALSE, as a failing resolve is what
  `connector_resolve` shows.

Fairness. Weak fairness of the run thread's steps (the thread is running as
long as the worker is), of each thread that is inside a method (methods
contain no waiting but the future and the mutex), and of the callback's return
(the application must not block there, says `net_entity.hpp`). In `TcpIo` and
`UdpEntityIo` a read or write on an open socket need not ever complete: only what
a *closed* socket makes ready is fair, since Asio completes operations on a
closed socket with an error. In `TcpConnector` resolves, connects and timers are
assumed to end, which the operating system's timeouts ensure; a connection
need not fail. In `NetIp` the steps `Execute` and `Drained` are strongly fair: they
are disabled while the run thread is in another handler, and Asio's queue of
ready handlers is a FIFO, so that no stream of messages keeps them out. In
`ReadFraming` what was sent arrives. No call by the application and no event at
the peer is fair.

The properties under a violated promise are the same ones, where possible,
that a passing run checks with the offending circumstance excluded. So the
passing runs say when the promise does hold.

## Divergences

Found while modelling; `findings` in `PROJECT.json` has the first five with the
lines of code and documentation, and their runs print the steps.

1. `tcp_io_twice`: `tcp_io::stop_io` that finds IO stopped because an error close
   is under way takes it for never started, starts it again and closes a
   second time. The owner is notified, and the application told, twice.
2. `connector_resolve`: when the name does not resolve, `m_state` is set to
   stopped before `close` tests it; no error is reported and `is_started()`
   stays true.
3. `connector_delay`: `exponential_backoff_timeout` converts the power to its tick
   type before it takes the minimum. Once it does not fit (1000 ms at the
   seventh attempt) the delay is negative: the connector retries at once, for ever.
4. `udp_futures`: a UDP entity that fails to start has set the promise of its end
   already, in `close`; `make_io_output_future_pair` sets it again, which throws.
5. `net_ip_callback`: `stop_all` holds `m_mutex` while it waits for the run thread,
   where a callback that calls `make_...` or `remove` waits for `m_mutex`.

Further ones that no run is kept for, with the circumstance to set and the
property that then fails where there is one:

- *Timeout functions.* `counted_timeout` compares with `>`, so that it waits once
  more than the "Maximum number of connect attempts" of line 106; `GivesUp`
  allows for that. `handle_connect` zeroes `m_conn_attempts` after the callback: if
  the connection ended inside the callback, the next attempt was already
  counted, and the function is asked about attempt 0, which line 18 rules out
  ("always greater than zero") and of which `backoff_timeout` makes a negative
  delay; hence `asked > 0` in `DelayInRange`. The connector asks
  the member `m_timeout_func`, not the copy passed along, although line 28 says
  that each series of attempts starts from a copy of the initial function.
- *Connector.* After the first divergence (`ClosedOnce` false, and more of it with
  `MaxAgain` = 1): a second notification of one `tcp_io` reaches a connector that is
  connecting or connected again. Its end is reported twice, two connects are
  begun, `tcp_connector_closed` is reported and followed by a connection, or
  `m_io_handler` of the new connection is released, so that a stop returns and
  leaves that one open. Without their condition `ConnectionsInTurn`, `ClosedIsLast`
  and `StateHasItsOperation` fail.

  `Overlap` = TRUE: `notify_me` on an application thread tests `m_state`, the run
  thread closes, `notify_me` reconnects a connector reported closed (`ClosedIsLast`). Without `m_reconn_on_err` a lost connection ends the
  connector through `finish_close`, which does not call `set_stopped`, so that
  `is_started()` stays true; `StartedIsActive` is stated for the other case, and
  `IsStartedAgrees` says of a connector only that an open one is started.
- *Start and stop.* `Overlap`, `OverlapStop` = TRUE: a `stop` overlapping `start` can
  have its close executed before `do_start`, or before `have_cbs` is true (`close`
  then calls an empty `std::function` on the run thread).
- *Acceptor.* An accept that fails is dropped without a report and the chain of
  accepts ends; the acceptor stays started. It happens in the run `acceptor`
  (`AcceptMayFail`), whose properties hold in spite of it. On a stop the end of
  a new connection can be reported before its creation, because the first is
  direct and the second posted; the dead output then stays in `send_to_all`
  (`OutputsAreLive` therefore stops at `m_shutting_down`).
- *Send to all.* The statistics leave out the buffer being written, so that a
  total of zero can be reported with one buffer per connection still to be
  written; the tests (`tcp_acceptor_test.cpp:256`, `udp_entity_io_test.cpp:89`) wait for
  zero and then stop. No document says what the total means, so that there is
  no run for it; `ZeroLeavesOne` is what can be relied upon.
- *UDP.* `AnyStartIo` = TRUE: after `stop_io` of a UDP entity `start_io` succeeds, and
  what is sent then waits for ever (`ClosedDrains`). Two threads can pass the
  test of `m_shutting_down` together: the end is told twice. A `do_start` that
  fails reports the end of a socket whose opening was never reported.
  `stop_io` returns the negation of what `tcp_io::stop_io` does, so that
  `basic_io_interface` reports `io_already_stopped` for IO that was running.
- *Output delivery.* When the end is told twice, or a TCP entity whose callback
  is `make_io_output_future`'s gets a second connection, the promise is set again
  inside a callback; the exception leaves `io_context::run` and ends the run
  thread, and `worker` prints it (`worker.hpp:63`).
- *Facade.* `stop_all` does not wait for an entity that another thread is already
  stopping: it returns while that one is open (the exception in `StopAllStops`).
  `start`, `stop` or `visit_io_output` from a callback waits for itself. Once the
  worker's thread has ended, what is posted is never executed and its caller
  never returns (the exception in `CallsReturn`). `operator<` compares what the weak
  pointers lock at the moment, so that an entity's death moves its handles below
  the others: an ordered container filled before is no longer sorted, although
  `net_entity.hpp:74` offers the comparison for associative containers. The
  condition in `net_ip.hpp:281` names the trait `std::decay<...>` itself and not its
  `type`, so that it never holds and the overload cannot be used.

## The proofs

Every invariant that a passing run checks is also proved, for every value of the
constants; so are the one action property (`ClosedIsLast`)
and the refinement of `SendStream` in its three layers. Each proof has the same
form: an inductive invariant, which TLC checked on the run's instance before it
was proved; one step per action of `Next`; the property from the invariant.
The assumption of each module (`QueueAssumption`, `TcpIoAssumption`, ...) says no
more than that the bounds are natural numbers, that flags are flags, and that
threads, callers and the values that stand for "nobody" differ.

**`IoCommon_proofs`**, for every number and size of buffers and every width of
the counter:

- `TypeCorrect`: `Spec => []TypeOK`
- `NothingOvertakes`: `Spec => []QueueWaitsForWrite`
- `BacklogKept`: `Spec => []QueueIsBacklog`
- `BytesCounted`: `Spec => []BytesMatchQueue`
- `ImplementsSendOrder`: `Spec => SendOrder`, the refinement of `SendStream`

`TypeOK` is inductive. `QueueWaitsForWrite` is inductive given `TypeOK`: the only
method that resets the flag and keeps the queue is `write_next_elem` with the
queue empty. `QueueIsBacklog` is the invariant that carries the rest: the queue
is the interval of the last `Len(outq)` numbers and nothing in it was handed
over, so that appending the next number and taking the head both keep it, and
clearing makes it empty. For the refinement the conjunction of the three is
needed: `start_write` may hand over at once only if nothing is pending, and that
is so because the flag is false, hence the queue empty, hence every accepted
buffer handed over or given up. One lemma per method maps it to a step of
`SendStream` or to a stutter.

`BytesCounted` needs an induction, over the queue. The library's induction
theorem takes an operator and cannot be used, but `Least` (in `Arithmetic`) can:
a set of numbers that is not empty has a least element, proved from the
library's theorem that strict inclusion of finite sets is well founded. With
it `SumExists` shows that the recursion inside `FoldLeft` defines a function,
`BytesAreSum` that its value is a running sum, and `BytesOfLonger` and
`BytesOfRest` how that changes at either end. `AddAfterMod` is why it does not
matter when the counter wraps.

**`TcpIo_proofs`**, for any number of threads and any bounds:

- `UsesIoCommon`: `Spec => IC!Spec`; `QueueIsSound`, `SendsInOrder`: what is proved of
  `IoCommon` carries over. One lemma for the methods, one for the handlers.
  `SameIoCommon` relates the two instances (of `IoCommon` in the component, of
  `IoCommon_proofs` here).
- `TypeCorrect`: `[]TypeOK`, io_common's part by the instance.
- `WritesDoNotMix`: `[]OneWriteAtATime`. `clear` resets `m_write_in_progress` while a
  write may be outstanding, so that neither flag tells of it. The invariant
  `WriteInv` says how long they do: while the socket is open and no close is
  between stopping IO and closing it, stopped IO or an idle flag means that
  nothing is being written, and all that is being written is one buffer.
- `ReadsDoNotOverlap`: `[]OneReadAtATime`, and `OneLateMessage`:
  `[]AtMostOneLateMessage`, both if `StartsOnce`, as in the run `tcp_io`: `start_io`
  finds IO stopped once. Without that they are false, which is the divergence
  `tcp_io_twice`. `ReadChain` says who may start the next read: the one `start_io`
  under way, the handler of the outstanding read, or the message handler, and
  never two of them. `LateInv`: a late message was read before the socket closed.

**`UdpEntityIo_proofs`**: `UsesIoCommon`, `QueueIsSound` and `SendsInOrder` in the same way,
with one lemma more for `start` and `stop`, and `TypeCorrect`. For the last one
`InPosted` is needed: while the run thread is in a posted function, which the
places of two program counters say, that function is at the head of the queue.

**`TcpAcceptor_proofs`** has two invariants. `QueueInv` is about the run thread and
its queue. `Control` says what each step is in the middle of; `StartOnce` that
`do_start` is posted once and nothing is accepted before it; `OneAccept` that one
accept at most is outstanding or completed and not handled; `Reports` that every
connection not yet reported has its report in the queue, ahead of the next
accept; `Containers` that `m_io_handlers` is the live connections, but for the one
whose `notify_me` is about to erase it. Nothing of this needs `start` and `stop` not
to overlap. From it come

- `ContainerIsLive`: `[]HandlersAreLive`
- `NewConnectionsToldInTurn`: `[]ToldBeforeNextAccept`

`SendInv` is about `send_to_all`. `Locking` says that only who holds the mutex is
midway in a method; `Members` relates `io_outs` to what was reported; `Increasing`
and `NoneMissed` say what each connection took, also while a `send` has not got to
its output yet; `SumSoFar` that a total which is zero so far has found every queue
it looked at empty, and that writing since has not changed that. From both come

- `NoOutputOutlives`: `[]OutputsAreLive`
- `SameOrderForAll`: `[]SameForAll`
- `TotalZeroLeavesOne`: `[]ZeroLeavesOne`
- `TypeCorrect`: `[]TypeOK`

**`TcpConnector_proofs`**. `Types` is inductive without any condition, and
`TypeCorrect` and `DelaysInRange` follow from it however calls overlap and however
often a `tcp_io` closes. The others have the hypothesis `NoOverlap` (no `stop` overlaps a
`start` or a `stop_io`; `net_ip.hpp:116` leaves that to the caller, and every run
has it), and their properties the condition `ClosedOnce`. The invariant is
therefore `InvOnce == ClosedOnce => Inv`: as `again` never decreases, a step that
ends with `ClosedOnce` began with it. `Inv` has a dozen parts. Its centre is `Alone`:
although the connector has no lock, at most one thread is midway in its methods,
and an application's thread only in those of the live connection. It is what the
second close breaks. `Ios` relates flag, socket and read of each `tcp_io`;
`Operations` says which operation is outstanding in each state at most, `AtSteps`
what a thread finds at each step of a method, `Waiting` which operation is
outstanding while nobody is midway, `Ended` what is left when the end was told.
From it:

- `TypeCorrect`: `[]TypeOK`
- `NothingForgotten`: `[]StateHasItsOperation`
- `ConnectionsOneByOne`: `[]ConnectionsInTurn`
- `NothingAfterClosed`: `ClosedIsLast`, `[][...]_vars`
- `GivesUpInTime`: `[]GivesUp`, with the invariants `Counting` (`m_conn_attempts` is the
  failures in a row, or one off when the connection before them ended in its
  callback) and `GivingUp` (how many failures there can be before and after the
  function has given up)
- `DelaysInRange`: `[](Fits(m_timeout_func) => DelayInRange)`. `Fits` says that the
  function does not leave its width within `MaxTries` attempts: the first delay
  is at most the maximum, `scale * initial * MaxTries` is below `TickLimit`, the powers
  are between the first and `TickLimit` - 1 (so put because the provers know
  nothing of `^`). Every function of the run `connector` fits; the one of
  `connector_delay`, which violates the property, does not.

**`NetIp_proofs`**, for any number of threads and entities. The parts of `Inv`:
`CallShape` says, for each thread, which step belongs to which call and which
entity; `QueueShape` that the queue has exactly one function for each thread
that waits for the run thread; `Lifecycle` and `StartBeforeStop` how an entity's
state, `m_started` and the calls on it under way fit together; `StopAllInv` what the
loops of `stop_all` are past.

- `TypeCorrect`: `[]TypeOK`
- `StopAllIsComplete`: `[]StopAllStops`
- `IsStartedIsTrue`: `[]IsStartedAgrees`, with what a connector's own end leaves in
  `m_started` taken into account

These hold for any programs of the threads and callbacks, those that wait for
each other included.

**`ReadFraming_proofs`**, for all streams, header decoders, delimiters and ways of
starting IO:

- `FramingIsRight`: `[]CutsStream`

`InOrder` and `Filling` say that what was delivered and what `m_byte_vec` holds of
the next message are together the bytes received, in their order; `Filled` is how
much of `m_byte_vec` that is, as the vector is resized before it is filled.
`Part` says which part of a message is being read: the header or the body, or
for a chained frame where the chunks so far ended. `Fresh` is needed for the
first read alone. A message is then a statement about one buffer, which
`FrameIsRight` proves of the message frames and `FirstDelimiter` of the
delimiter, and a read is one about bytes and their places (`Spliced`, `Resized`,
`ReadOn`). Two recursive functions occur, `FlattenSeq`'s over the messages and
`ChainEnds`' over the chunks; `Least` shows of both that they exist
(`FlattenExists`, `FollowsExists`) and what they yield (`FlattenLonger`,
`ChainOfChunks`).

Only model-checked:

- all liveness, as fairness and `ENABLED` are out of the prover's reach for good;
- the violations, which are facts about single behaviours.

## What is not modelled

- Contents of messages beyond framing, addresses, destinations of datagrams: no
  property of the parts modelled depends on them.
- A data race on `m_io_handlers` (a connection's `stop_io` on an application
  thread changes the acceptor's vector): its outcomes are not states of the
  program. The acceptor's model keeps such calls on the run thread.
- Exceptions that leave a handler and end the run thread.
- `visit_socket`, which calls the application at once and keeps nothing; the
  comparisons of `basic_io_interface` and `basic_io_output`, the same as
  `net_entity`'s; the sum of statistics over net entities and `accumulate_until`,
  which loop over `visit_io_output`.
- `error_delivery`, the error category, aliases: no state of their own.
- Examples and tests, which were read for what they expect of the library.

## The plan

Done: every part of the library that keeps state, one passing run for each
component, five divergences, and every invariant that holds as a theorem.

Left, in order of importance:

1. That the `tcp_io` steps of the connector, and the acceptor's life cycle of a
   connection (none, new, started, closed), are abstractions of `TcpIo`, as a
   refinement.
2. An entity of `NetIp` (new, open, closing, closed) in the same way as an
   abstraction of `UdpEntityIo`.
