# Verification of the LinkEdge websocket client SDK

TLA+ modules that model the SDK under `src/protocol-implementation-demo/sdk`, TLC
configurations that check them on small instances, and proofs, checked by TLAPS,
that hold for every instance. The code is the reference: every definition is a
translation of the lines `PROJECT.json` names for it.

## The system

A device program links the SDK and talks through it to a gateway (LinkEdge) over one
websocket. The device calls `leda_online`/`leda_offline` (they block for the gateway's
verdict) and `leda_report_properties`/`leda_report_event` (they return at once; the
verdict comes to `report_reply_cb`); the gateway calls the device (get and set
properties, call a service) and gets a response.

| part | source | state it keeps | operations |
|---|---|---|---|
| request and answer registry | `leda.c` 62-112, 343-499, 656-686, 877-1093 | `g_msg_id`, the list of `ws_msg_reply_t` (id, code, semaphore), two locks | draw an id; insert, look up, remove, answer an entry; wait with a time-out |
| inbound requests | `leda.c` 501-849 | none of its own; a parsed message per task | parse, hand to the pool, call the application, send the response |
| data codec | `leda.c` 114-341 | none | structures to JSON and back |
| connection state | `leda.c` 851-875 | `g_conn_state` | connected, disconnected, and the application's callback |
| lifecycle | `leda.c` 1095-1373, `ws_client.c` | `g_has_init`, the copied strings, the pool, the buffer, `force_exit` | init, exit |
| send buffer | `wsc_buffer_mgmt.c` | ring of 1024 slots, `wr_index`, `rd_index`, one lock | push, pop, clear |
| network thread | `ws_client_network.c`, `ws_client_callback.c` | `g_wsi`, the fragment being assembled | connect, service; callbacks: established, writable, receive, error, closed |
| thread pool | `threadpool.c` | ring of tasks, counters, shutdown mode, a lock and a condition variable | create, add, destroy, the threads |
| demo | `demo/linux/demo.c` | list of devices, connected flag, a lock | keep devices online, report, exit |
| cJSON | `cJSON.c` | the buffer a text is printed into | parse, build, print |
| log, os, list macros | trivial | | |
| libwebsockets | external | | calls the callbacks |

How they interact: an application thread draws an id, lists an entry, pushes the request
into the send buffer and asks the network thread for a writable callback; the network
thread pops and writes. What the network thread receives it adds to the thread pool; a
worker either posts the entry the answer belongs to, or runs a callback of the application
and pushes the response. Shared state: the list and the semaphores (application threads
and workers), the ring of the send buffer (application threads, workers, network thread),
the pool's queue (network thread and workers), `g_wsi`, `g_conn_state`, `force_exit`
(written by one thread and read by others without a lock).

What is hard: lock sections that end before what was found in them is used; time-outs
against late answers; messages queued across reconnects; a ring that is never checked for
space; wake-ups sent after unlocks; shutdown against everything else. `PROJECT.json` lists
these hazards at their lines.

What makes each part correct: a call gets its own verdict and leaves nothing behind
(registry); accepted messages leave in order, once, on their connection (send buffer);
accepted tasks run once and in order, graceful shutdown runs them all, the pool is freed
when nobody uses it (pool); every request of the gateway gets exactly one response with
its id (inbound); converted data keeps its meaning (codec); nothing is used before it
exists or after it is freed (lifecycle); devices the demo believes online are online
(demo).

## The modules

    SendFifo <- SendBuffer <- SlotMemory         TaskQueue <- ThreadPool
    ReplyRegistry <- Leda                        JsonPrint <- DeviceData
    Lifecycle                Inbound             Demo

`A <- B`: B implements A (`SendFifo`, `TaskQueue`) or extends it by more of the system.
`MC...` are the instances for TLC and `...Proofs` the theorems.

### `ReplyRegistry` (with `MCReplyRegistry`, `ReplyRegistryProofs`)

One process per call of the four functions and one per worker. Each lock section is one
action, and so is each piece of code between two lock sections, because other threads can
come in between:

| code | actions |
|---|---|
| `_ws_get_msg_id` | `IncMsgId` (in the lock), `ReadMsgId` (the return, after it) |
| `_ws_insert_reply` | `InsertReply`; its failure is `Refuse` |
| `wsc_add_msg` | `AddMsg`, `AddMsgFails` |
| `_ws_get_reply_result` | `GetReply` (looks the entry up and keeps the pointer), `Acquire` / `GiveUp` (`sem_timedwait`), `ReadCode` |
| `_ws_remove_reply` | `LookupToRemove`, `FreeReply` (two lock sections) |
| `leda_asyn_send_method`, after the push | `ReportReturns` |
| `threadpool_recv_proc`, answers | `DropEmpty`, or `TakeAnswer` (finds the entry, or calls `report_reply_cb`), then `SetResult`, `PostReply` |

Memory is explicit: `Addrs` are the addresses `malloc` may return, `listed` those that hold
a live entry, and a freed address keeps its fields, can be written through an old pointer
and can be allocated again. `at` records the order of insertion, because the list is
searched newest first. The verdict the gateway sends for a request is represented by the
request itself, so that a property can ask whose verdict a call returned. `raced` records
that two calls were inside `_ws_get_msg_id` together; `aborted` that a freed entry was
freed again, where the C library ends the process.

An id has three forms, and the conversions between them are modelled. The counter is an
`unsigned int` that wraps (`NextMsgId`, `MsgIds`); the list holds and is searched for its
conversion to `int` (`AsInt`, `KeyOf`); and the id of an answer is the `valueint` of the
number in it, which cJSON lets end at `INT_MAX` (`ValueInt`, `leda.c:767`). The three agree
up to `INT_MAX` only. The counter may begin anywhere in `FirstIds`, as the calls that have
returned before can have left it, so that few calls reach the limits.

The gateway (`Answer`) answers a request it was sent at most once, at any later time, with
or without a payload, or never. An answer lost on the way, or dropped because the pool's
queue is full, is an answer that never comes. A call of the application is one request; a
program that calls again is another element of `SyncCalls` or `ReportCalls`; there are no
more of them than ids (`FewCalls`), so that the counter does not come round to an id of the
same calls. Left out:
`clock_gettime` failing, and `sem_timedwait` failing with anything but a time-out (the
deadline it gets is well-formed because the time-out is a multiple of 1000 ms).

### `Leda` over `ReplyRegistry` (with `MCLeda`, `ReplyRegistryProofs`)

In `ReplyRegistry` every call has a thread to itself and workers are always there. `Leda`
adds the threads: calls are made by the application's own threads (`APP`), and also inside
the callbacks that the SDK runs, on a worker (`report_reply_cb` and the callbacks for
properties and services) or on the network thread (`conn_state_change_cb`).

| code | actions |
|---|---|
| the beginning of a call, and its other steps | `Begin(c, t)`: call c on thread t; `Continue` |
| `cb_ws_recv` | `AnswerReceived`, `TaskReceived`: only while the network thread is in its loop |
| `cb_ws_estab`, `cb_ws_close` | `TellState`, `StateTold`: in between the thread is inside the callback |
| `threadpool_recv_proc` | `ServeAnswer` (the steps of `ReplyRegistry`), `TakeTask` and `CallbackReturns` for requests of the gateway; only by a worker that is not inside a callback |

`thread` says who makes a call, `cb` what callback a worker is in, `net` whether the
network thread is in its own. A callback returns when the calls made in it have returned.
Steps of the registry are taken as they are, so `Leda` implements `ReplyRegistry`
(`RefinesRegistry`) and all that is proved there holds. The order in which the pool gives
out tasks is left open; it is in `ThreadPool`. That a disconnection clears the send buffer
is a request that is never answered.

### `SendBuffer` over `SendFifo` (with `MCSendBuffer`, `SendBufferProofs`)

The ring with both indices as the code keeps them (wrapped at the next use, so that
`max_buf_cnt` itself is a value they take), the network thread's callbacks that touch it,
and the connection. Messages are numbers in the order of their push. A push is its lock
section (`Push`, `PushFails`) and the notification after the unlock (`Notify`); a pop is
one action for each outcome of `lws_write` (`PopWritten`, `PopError` for -1, `PopShort`)
or of an empty slot (`PopEmpty`); the CLOSED callback is two actions (`Closed` clears
`g_wsi`, `ClearMsg` the buffer) since pushes come in between. `want` is libwebsockets'
promise of a writable callback. Three variables are history: `broken` is set when a push
overwrites a message, and by a clear when and only when it leaves one in the ring;
`stalled` is set where the code relies on a later push to get the queue moving (a short
write, a connection established over a queue that is not empty); `pushedOn`/`sentOn`
record connections.

`SendFifo` says what a send buffer promises, as a queue given by two counters. `SendBuffer`
implements it (`ImplementsFifo`) under the mapping "accepted = pushed, taken = pushed minus
what is in the ring". The promise is explicitly given up in the two cases where the code
breaks it, and made again by a clear that leaves the ring empty.

### `SlotMemory` over `SendBuffer` (also `MCSendBuffer`, `SendBufferProofs`)

The memory behind the ring: `length` of each message, `size` allocated to each slot,
`buf_len` of what is in it. A push of a message that is longer than what a slot begins
with reallocates the slot to what this message needs (which may be less than it had), then
clears as many bytes as the *old* message was long, and copies. `MemPush`, `MemPushFails`
(realloc), `MemPop` and `MemClear` are the steps of `SendBuffer` with these three added;
the other steps leave them alone.

### `ThreadPool` over `TaskQueue` (with `MCThreadPool`, `ThreadPoolProofs`)

`threadpool_create` thread by thread and its failure, `threadpool_add`, the threads, and
`threadpool_destroy` by the owner or by a task that runs in the pool, down to
`threadpool_free`. `pthread_cond_wait` leaves a thread in `waiting`; a signal moves one
waiting thread, if there is one, to `ready`, a broadcast all of them, and a thread may
move by itself (spurious wake-up). Everything between locking and unlocking the pool is
one action; `pthread_join` is one action per thread. Tasks are numbers in the order they
are accepted. A refused call (queue full, shutting down) changes nothing and is no step.
When the pool, its threads or its queue find no memory (`AllocationFails`), what there is of
the pool is freed; a queue whose threads found none stays allocated (`threadpool_free` looks
at the threads only), which is not followed. Left out: failing mutexes and condition
variables, and calls on a freed pool.

`TaskQueue` says what a pool promises: accepted tasks begin in order, once, none is
accepted after shutdown, and a gracefully shut down pool is gone only after all have
ended. `ThreadPool` implements it (`ImplementsTaskQueue`) with "begun = accepted minus
count".

### `Lifecycle` (with `MCLifecycle`, `LifecycleProofs`)

One application thread calls `leda_init` and `leda_exit` in any order: `leda.h` demands
none. It may try `leda_init` again after one that failed, and call `leda_exit` before any
`leda_init` or a second time. `app` is its program counter, with one action for each thing
that is created or released and one for each failure:

| code | actions |
|---|---|
| `leda_init` | `LedaInit`, `CreatePool` / `CreatePoolFails`, `CopyInfo` / `InfoFails`, then `wsc_init`, then `InitReturns` |
| `wsc_init` | `AllocCbs`, `InitBuffer` (`client_buf_mgmt_init`), `CreateThread`, each with its failure |
| `leda_exit` | `LedaExit`, `DestroyPool`, `JoinPool`, then `ws_client_destroy`, then `ExitReturns` |
| `ws_client_destroy` | `StopNetwork` (`force_exit`), `WaitOver`, `FreeCbs`, `FreeBuffer` |
| `thread_wsc_network` | `NetStart`, `Connect`, `Serve`, `LeaveLoop`, `NetExit` |
| `callback_dumb_increment` | `Served`, `Established`, `Lost`, `Receive` (which adds a task, also to a pool that was freed) |
| `threadpool_recv_proc` | `TaskEnds` |

Each `leda_init` has its own pool and network thread, named by the number of the call, so
that one that outlives its `leda_exit` can meet the next. The second `ws_client_destroy`
waits is a delay, no join: `WaitOver` may happen at any time, and `late` records that the
network thread was still alive then. The pool is reduced to what its owner sees; its
inside is `ThreadPool`.

What such orders lead to is kept by three history variables. `g_threadpool` is never reset,
so a `leda_exit` with nothing to undo (`unpaired`) hands the freed pool to
`threadpool_destroy`, which reads and locks freed memory: undefined, and either refused (the
memory still says that it is shut down) or the end (`crashed`). A `leda_init` after one that
failed overwrites `g_threadpool`, and a pool that is still open there is out of everybody's
reach (`lostPools`). `wsc_init` only prints that TLS has no `ca_path`, and the network thread
then reads the first character of NULL (`ParametersMissing`, `ws_client_network.c:106`).
`g_wsc_conn` has the strings that are allocated and whether the url asks for TLS: a `ca_path`
may also be there from an earlier call that failed. After `crashed` nothing happens any more.

Left out: a `leda_init` on top of a successful one (it returns at once), the leak of the
strings a second try copies over (which strings there are is the same afterwards), the
process ending itself when libwebsockets gives no context, and the initialisation
of the lock of the replies. What a late network thread reads after the check of `g_cbs` is
not followed further: the properties except it as a whole.

### `Inbound` (with `MCInbound`, `InboundProofs`)

From the fragments on the network thread to the response. `recvframeAppend` is `Appended`
(a fragment that finds no memory is left out, and the text goes on without it), the receive
callback is `Fragment` or `FinalFragment`, `cb_ws_recv` is `Received` or `Dropped`, and
`threadpool_recv_proc` is `Take` and then `Ignore`, `Respond` or `RespondFails`. A handler
(`leda_rsp_get_properties`, `leda_rsp_set_properties`, `leda_rsp_call_service`) with its
call of the application and its push is one action: nothing another thread does in
between changes what it does.

A message is a `Shape`: what `leda_parse_receive_msg` and the branches look at (the id, the
kind of `code`, the method, which fields of the payload are there, whether
`json_data_to_struct_data` accepts the data). A text that lacks a fragment may parse as any
shape or not at all. `heap` is the set of allocated `parsed_msg_t`; those the pool refuses
stay in it for ever (`refused`), as in the code. Ids pass through `valueint` here as well.
The per-connection memory in which
fragments collect comes from libwebsockets and is cleared with each connection; a text that
is not complete at the end of a connection goes with it. That `lws_is_final_fragment` is
true exactly at the last fragment of a message is taken from libwebsockets. Each
handler pushes a response here; the cases in which memory is short and there is none, what the callbacks
return and how their data is converted are in `DeviceData`. Which pointer a callback is given
as user data is not modelled.

### `JsonPrint` (with `JsonPrintProofs`)

Printing in `cJSON.c`: `ensure` with its checks, growth and failure (`Piece`),
`update_offset`, and one action per piece of text that `print_value` and the functions under
it print. `Begin`, `ReturnBuffer`, `ReturnText` and `ReturnNothing` are `cJSON_Print`,
`cJSON_PrintUnformatted`, `cJSON_PrintBuffered` and `cJSON_PrintPreallocated`. A document is
the sequence of its nodes in the order they are printed, with an "end" behind the children
of a container, so that the recursion of the code is `open`, the stack of open containers.
Memory is a sequence of bytes, those not yet written being `Junk`; `outside` is history: a
byte outside was written, or a search for the zero ran past the end. A byte is a string and
a numeral counts as one byte; one control character ("BEL") stands for all that are printed
as six bytes. `Rendered` is the reference: the text of a document node by node, without a
buffer. Left out: hooks without `realloc` (the branch that copies by hand), locales with
another decimal point, and the choice between 15 and 17 digits.

### `DeviceData` over `JsonPrint` (with `MCDeviceData`, `DeviceDataProofs`)

One exchange from beginning to end: a report of the application, or a request of the gateway
with its decoding, callback, response. Every allocation on the way may fail (`Fail`,
`MaxFailures`), and each step says what the code does then.

| code | actions |
|---|---|
| `leda_asyn_send_method` | `BeginReport`, then encoding and printing |
| `threadpool_recv_proc` | `BeginRequest`, ..., `Finish` |
| `json_data_to_struct_data`, for names alone and for whole data | `DecodeBegins`, `DecodeItem`, `DecodeEnds` |
| `leda_rsp_get_properties`, `leda_rsp_set_properties`, `leda_rsp_call_service` | `HandleGet`, `HandleSet`, `HandleService`, `Encoded` / `NotEncoded` |
| `struct_data_to_json_data` | `EncodeBegins`, `EncodeItem`, `EncodeEnds` |
| `leda_send_rsp` and the end of `leda_asyn_send_method` | `Respond`, `PrintMessage`, `Printed`, `Push` |

A datum is a key, a type and a value: a number (its whole part, and whether it has more
decimals than six), a text, or a tree. Conversions do what the code does: `valueint`
saturates, `atoi` wraps, `%f` loses decimals, `snprintf` cuts. `heap` is what is allocated, by
the pointer that has it in the code; `lost` the fields a message goes without because there
was no memory for a key. `Push` gives a response to the websocket client with its terminating
zero and a report without (`Ending`; `leda.c:537`, `leda.c:1058`); the zero that
`client_buf_mgmt_push` puts behind every message on top of that, and sends, is not in here. A
service's output (`Output`) is what its callback puts into the cleared room, counted up to the
first empty key or the end of the room (`Counted`, `OutputMax`); without a callback a request
gets an error and, for a service, an empty output. Logging an unknown type with `%s` (`leda.c:237`, `leda.c:332`) is
undefined, and one outcome is that the program ends (`at = "crashed"`). `PrintForOthers` lets
any other document be printed in any of the four ways. Parsing is reduced to whether it
succeeds.

### `Demo` (with `MCDemo`, `DemoProofs`)

The program that uses the SDK, from the return of `leda_init` to the call of `leda_exit`.
Three threads matter: `thread_online` brings every device online while there is a
connection and marks it as not online when there is none, once in five seconds and with
`g_conn_state_locker` held over the blocking calls; `cb_state_changed` runs on the network
thread and needs the lock to set `g_is_connected`; `main` waits for the signal and takes
the devices offline without the lock.

| code | actions |
|---|---|
| `thread_online` | `Wake` (the loop's condition), `Begin` (has the lock), then for each device `Skip`, `Clear`, `OnlineFails`, or `CallOnline` and `OnlineReturns` / `OnlineTimesOut`; `Sleep`; `End` |
| `cb_ws_estab`, `cb_ws_close` | `Established`, `Closed`, `ConnectionError`: `g_conn_state` is set and the callback is called |
| `cb_state_changed` | `ToldConnected`, `ToldDisconnected`: it has the lock; after CLOSED the buffer is cleared (`ClearMsg`) |
| `main` | `StartThreads` / `StartFails`, `Leave`, `SkipOffline`, `OfflineFails`, or `CallOffline` and `OfflineReturns` / `OfflineTimesOut`; `Exit` |
| `sigint_handler` | `sigint_handler`; a second signal ends the process and is left out |

`net` is what the network thread is in: while it waits in `cb_state_changed` nothing is
written or received (`Decide` and `Answer` need it idle), so that a call `thread_online`
makes with the lock held ends by its time-out. `known` are the devices the gateway has
online: by what it decided, until the connection breaks (this reading is the one of
`leda.h:44`, devices have to be brought online again after a reconnection). A connection
may have broken without the network thread having seen it (`link = "broken"`). A request
whose call has timed out stays in the send buffer (`stray`) and may be written and granted
later. `unnoticed` is history: the devices marked as online when a connection was
reported; those of them that `thread_online` did not clear before stay online for the demo
and unknown to the gateway.

The SDK is reduced to what a call can return. That a verdict is the one on the call's own
request is assumed here; `ReplyRegistry` proves it until a call times out or ids pass `INT_MAX`, and the finding
`reply_stale` is what can happen then.

## The runs

Deadlock is checked in `device_data`, where an exchange that is neither over nor able to go
on would be one; `Over` is the step of one that is. The other instances are finite (calls
return; pushes, tasks, messages and initialisations are bounded) and end in states without a
successor; that nothing waits for ever is what their liveness properties say instead.

| run | instance | shows |
|---|---|---|
| `reply_registry` | 2 blocking calls, 1 report, 2 workers, 2 addresses, an `INT_MAX` of 3 and first ids 0, 2 and 6, with symmetry | ids are unique unless draws overlap; no double free; the pointer a call waits on is its own live entry; nothing stays listed; verdicts are the caller's own and `report_reply_cb` hears of reports only, as long as no call has timed out and no id is beyond `int`; a call whose id is never returns its own verdict |
| `leda` | 1 blocking call, 1 report, 1 request of the gateway, 1 worker, 2 addresses, ids within and beyond `int`, fair | calls made inside callbacks: one on the network thread is never answered; every call returns all the same, an answered report reaches `report_reply_cb` if its id is an `int`, a queued request is served; no report is heard of whose call failed |
| `reply_ids`, `reply_stale` | as `reply_registry` | two findings below |
| `send_buffer` | 3 slots of 4 bytes of which a clear empties 2, 5 pushes of growing and shrinking messages, 2 connections, fair | the layout of the ring; no push beyond the memory of its slot; no lost wake-up; order; the queue is implemented; over a connection that lasts it drains, unless it stalled |
| `send_stale` | the same | a finding below |
| `thread_pool` | 3 threads, 3 slots, 6 tasks, fair | the pool is freed when and only when unused; one signal per task suffices; no task lost or run twice; the queue is implemented, so that graceful shutdown runs everything; accepted tasks run and destroy returns |
| `lifecycle` | 3 calls of `leda_init`, `leda_exit` at any time outside them, 2 tasks at a time, fair | nothing is left after `leda_exit`, whatever failed, but a pool that a second try forgot; the network thread and the tasks use what is there, unless the thread was late; only three uses can crash, so that a `leda_exit` with something to undo never destroys a freed pool; `leda_exit` returns; the network thread ends |
| `pool_used_alive` | 2 calls of `leda_init` | a finding below |
| `inbound` | 3 messages of 4 shapes in 1 or 2 fragments, 2 workers, a queue of 2, with symmetry | a worker sees what was sent, and never parts of two messages, also across connections; a parsed message is freed once unless the pool refuses it; each request gets its call and its response, with its id if that is an `int` |
| `demo` | 2 devices, fair | a device marked as online is online at the gateway, except for a reconnection nobody saw; `cb_state_changed` returns; a loss that was told is acted on |
| `device_data` | 6 reports and 17 requests with data of every type, some beyond its limits, with an empty key or without a callback, up to 2 failing allocations; 8 documents in 3 ways, formatted and not, buffers of 0 to 50 bytes, any failing `realloc` | no byte outside the buffer; texts are complete; five bytes more are enough, as `cJSON.h:152` says; data arrives as it was given, in a response with the zero behind it; nothing stays allocated but what the code forgets |

Type invariants, and the invariants that matter only as parts of an induction (the layout of
the pool's queue, the accounts of tasks, the text being collected), are not run: they are
proved. Symmetry is used only where no liveness is checked.

Bounds. The registry's conflicts need a call that gives up, one that takes over its address
and a third id in flight, two workers for two answers under way, and two addresses so that
one can be reused while the other is live. With an `INT_MAX` of 3 the unsigned ids end at 7:
three calls after 0 stay within `int`, after 2 they draw `INT_MAX` and ids beyond it, and
after 6 they draw the last id and wrap. With one worker, a blocking call inside
any callback leaves no worker for its answer, for the report's or for the request: the case
of all five workers inside callbacks. The ring needs one slot more than a clear
empties (8 of 1024 in the code, 2 of 3 here), enough pushes to wrap and to overfill it
(5 > 3), and a second connection to see what the first left behind; the messages' lengths go
up and down around what a slot takes at first. The pool needs a thread that waits, one that works and one on its way between, a queue that fills while
tasks run (3 slots, 6 tasks: it fills, empties and wraps), and one thread to run destroy.
Of the lifecycle, a late network thread needs a second `leda_init` to meet the next one, and a
third to be met by one that is itself late; two are enough to fail, try again and forget a
pool. Three inbound messages are one more than there
are workers to overtake each other or places in the queue (so the pool refuses one when both
workers are idle), and two fragments suffice for a message that is cut in the middle. An
`int` ends at 2 here, so that the id of one shape is beyond it. `MaxPush`, `MaxConns`,
`MaxTasks`, `MaxInits`, `MaxMsgs` and `MaxFrags` bound the number of steps only; the proofs
hold for all their values. Two devices let one be granted while another waits, is lost or
times out; the demo's counters are bounded by the number of devices, and nothing else in it
grows. In `device_data` a buffer begins with 16 bytes, so that texts outgrow it more than
once; an `int` ends at 127, a service's output at 2 data, a key at 4 bytes and a value at 8, so that data at each limit
and beyond it is small; two failing allocations are one that makes the code go another way
and one more there.

Fairness. `Leda!LedaFairSpec`: a call that has begun is a running thread
(`sem_timedwait` returns at its deadline at the latest), and so is each worker; a callback
returns when the calls in it have, `conn_state_change_cb` too; nothing makes the application
call or the gateway answer. That callbacks return is an assumption about the application.
`SlotMemory!MemFairSpec`, the fairness of `SendBuffer`: a thread that has
pushed goes on to notify, the network thread finishes its callbacks, libwebsockets delivers
a callback it promised while the connection lasts; connecting is not fair.
`ThreadPool!FairSpec`: threads run, tasks return, and the destroyer goes on; adding,
destroying and spurious wake-ups are not fair. `Lifecycle!FairSpec`: a call of `leda_init`
or `leda_exit` that has begun goes on, the network thread is running code (`lws_service`
returns after its time-out) and tasks end; nobody is made to call, and no connection is
made to come or go. Tasks that return are an assumption about the application's callbacks.
`Demo!FairSpec`: `thread_online` and `main` go
on and their calls return by their time-out at the latest; `cb_state_changed`, which competes
for the lock with a thread that leaves it free for five seconds at a time, gets it in the end
(strong fairness); no connection, verdict or signal is made to come. `Inbound` and
`DeviceData` state no fairness, and no liveness is claimed of them.

## What the code does not keep

* `reply_ids`: `_ws_get_msg_id` reads the counter after the unlock, so overlapping calls
  draw the same id (`leda.c:349`).
* `reply_stale`: a worker writes and posts an entry through a pointer it looked up before
  the call timed out; when the address has been reused, another call returns a verdict
  that is not its own (`leda.c:440-447`).
* `send_stale`: closing a connection empties 8 of the 1024 slots, so older messages can be
  written to a later connection (`wsc_buffer_mgmt.c:142`).
* `pool_used_alive`: `leda_exit` destroys the pool before it stops the network thread and
  keeps the pointer, so a message that arrives in between is added to a freed pool
  (`leda.c:1326`).

The invariants of the passing runs are stated so as to hold in all other cases, and say in
their text which case they except. More cases are in the models and excepted or
described there, without a run of their own:

* the late answer to a blocking call that timed out is given to `report_reply_cb`
  (`leda.c:676`; excepted in `ReportCbOnlyForReportsUnlessLate`);
* a blocking call made in `conn_state_change_cb` can never succeed, since only the thread it
  blocks could receive the answer (`leda.c:871`; `NetworkCallUnanswered` in `Leda`);
* when the text of a struct or array is no JSON, the item in hand is never freed, and a
  response goes out with code 0 and without its data (`leda.c:227`); when there is no memory
  for a key, what was to be added under it is never freed and the message goes without it
  (`leda.c:526`; `heap` and `lost` in `DeviceData`);
* the warnings about an unknown type print a number with `%s` (`leda.c:237`, `leda.c:332`;
  `crashed` in `DeviceData`);
* a push into a full ring overwrites an accepted message (`wsc_buffer_mgmt.c:86`; `broken`
  in `SendBuffer`);
* `leda_exit` can return, and free what it uses, while the network thread is alive
  (`ws_client.c:84`; `late` in `Lifecycle`), and a `leda_init` that follows can take back its
  request to stop (`ws_client.c:40`; the disjunct in `NetworkEnds`);
* a message whose task the pool refuses is never freed (`leda.c:846`; `refused` in
  `Inbound`);
* ids beyond `int`: by `protocol-design-description.md:49` a messageId is a 32-bit unsigned
  number and comes back as it was sent. From the 2^31st call on an answer is looked up under
  `INT_MAX` while its call waits under a negative number (`leda.c:767`): blocking calls time
  out or are woken with a verdict that is not theirs (`BeyondIntNeverOwn` in
  `ReplyRegistry`), answers go to `report_reply_cb` or to the call that drew `INT_MAX`; a
  request of the gateway with such an id is answered with `INT_MAX` (`ValueInt` in
  `Inbound`). `VerdictIsOwn`, `ReportCbOnlyForReportsUnlessLate`, `ReportAnswersDelivered`
  and `ResponsesAreDue` except these ids;
* a second `leda_exit` in a row destroys the pool that the first one freed, since
  `g_threadpool` is not reset (`leda.c:1324`; `unpaired` in `Lifecycle`); a `leda_init` tried
  again after a failure forgets the pool of the first try (`leda.c:1113`; `lostPools`); TLS
  without a `ca_path` ends in a NULL pointer (`ws_client_network.c:106`): the cases of
  `CrashesExplained` and of `ReleasedAfterExit`;
* a response is sent with its terminating zero as a part of the message, a report without
  (`leda.c:537`, `leda.c:1058`; `Ending` in `DeviceData`);
* when its threads find no memory, the queue of a pool stays allocated (`threadpool.c:253`;
  not followed in `ThreadPool`);
* `report_reply_cb` can hear of a report before `leda_report_properties` has stored its id for
  the caller (`leda.c:1069`; in the model, and promised by nobody);
* `set_properties_cb` is given itself in place of `usr_data_set_property`, against
  `leda.h:154` (`leda.c:584`; not modelled);
* a connection that is lost and made again within five seconds leaves the devices online
  for the demo only (`demo.c:217`; `unnoticed` in `Demo`), and `main` does not count the
  devices it takes offline (`demo.c:444`); it frees the list of devices without waiting for the
  threads that read it (`demo.c:451`, which is beyond the end of `Demo`).

## The proofs

The theorems hold for all values of the constants under the assumptions of the modules:
blocking calls and reports are different calls, NULL is neither a call nor an address,
`INT_MAX` is positive, the first id is an `unsigned int`, and there are finitely many calls and
no more than there are ids (`ReplyRegistry`); the threads are different ones (`Leda`); a slot has more than the bytes for
libwebsockets, and messages have a length (`SlotMemory`); a C string has no zero in it, what
the printer writes are bytes, the first buffer is not larger than an `int`, and who prints gives
a tree, that is nodes in which every container that begins ends (`JsonPrint`: it is a tree of
`cJSON` structures, and `c.size` is an `int` that is not negative); lengths are numbers, the
words of a message are bytes, what is reported, asked and given are sequences of keys and
values, what an application gives as a text is one, and it gives no more output than it has room for
(`DeviceData`; it is an array of
`leda_device_data_t`, and an item in a request has the value its JSON has); the ring has a slot and a clear empties at most the ring
(`SendBuffer`); a pool has a thread and a slot (`ThreadPool`); there is a call of
`leda_init` and room for a task (`Lifecycle`); the queue has a place, messages have at least
one fragment, shapes are shapes, and NULL is neither a shape nor a text (`Inbound`); the
list has a device (`Demo`, as `load_device_list` sees to).

* **`ReplyRegistryProofs`.** `IInv` is inductive. Its parts: `IdsInv` (without overlapping
  draws the ids drawn are among the last `Draws` values of the counter, counted back over the
  wrap by `Age`, and the value a call is about to read is not among them, so ids are unique); `EntriesInv` (live entries and registered calls
  correspond one to one by id, hence a call's pointer is its own entry until it frees it,
  and the entry that the second lookup of `_ws_remove_reply` finds is still there when it
  is freed); `ReturnsInv`; `BeyondInv` (the answer to an
  id beyond `int` is on its way to an entry that is not its caller's, so it is never what the
  caller reads); and `AnswersInv`, which holds until a call times out or draws an id beyond
  `int`: an answer
  is outstanding only while its call is between push and return, a worker holds the entry
  its call waits on, at most one worker serves an answer, and a semaphore is posted at
  most once and after the verdict was written. None of the properties is inductive by
  itself: that no entry is freed twice, say, needs the correspondence of entries and
  calls, which needs unique ids. The safety invariants of the run follow.
* **`Leda`** (also in `ReplyRegistryProofs`). Every step of `Leda` is one of `ReplyRegistry` or none (`StepRefines`),
  so that `Leda` implements the registry (`RefinesRegistry`) and its `IInv` can be used. The
  two invariants of the run need, beside its part `RequestInv` (nothing of an answer is
  anywhere before a worker has taken it), `ThreadsInv` (a call that is going on keeps its
  thread inside the callback it was made in, and while that is the network thread its
  request gets no further than being sent).
* **`SendBufferProofs`.** `RingLayout` is the core: the messages in the ring are
  consecutive numbers from the read index on and end where the write index stands. With
  it, and with the bound of `lastSent` by the messages that left the ring, every step maps
  to a step of `SendFifo` or a stutter (`RefinesFifo`), and order and wake-ups follow.
  For the memory, `MemInv` is inductive beside it: a slot never has less than it had at
  first, what is in it fits, and an empty slot has no length, so that the bytes a push clears
  are those of a message it overwrites (`PushesAlwaysStayInside`), although a slot may shrink.
* **`ThreadPoolProofs`.** `IInv` is inductive: `CreateInv` (which threads exist while the
  pool is being created), `ShutdownInv` (nobody waits in a pool that shuts down, nobody
  leaves a gracefully shut down one before its queue is empty), `JoinInv` (how far destroy
  is, and that the threads joined without an error have exited), `StartedCountsThreads` (by
  the cardinality of the threads alive), `QueueLayout` and `TasksAccounted`. That the pool
  is freed only when unused needs three of them together: all threads joined, those beyond
  `thread_count` never born. `OneSignalPerTask` compares cardinalities (threads on their
  way against queued tasks) and is inductive beside `IInv`. With both, every step maps to a
  step of `TaskQueue` or a stutter (`RefinesTaskQueue`).
* **`LifecycleProofs`.** `IInv` is inductive: `StageInv` says what is allocated at which
  step of the two functions, `PoolInv` that only the pool `g_threadpool` points at can be
  open (or a forgotten one), and that it is open until `leda_exit` destroys it and freed or
  none before the next `leda_init`, whence `CrashesExplained`, `RunInv` that a network thread
  that has not been late lives only between its creation and the end of the wait, with all
  it uses. The last one needs the first two: what is freed after the wait is freed at
  stages that exclude a live thread. The properties of the run follow.
* **`InboundProofs`.** `IInv` is inductive: the properties of the run and two facts they
  rest on, `FreshInv` (only the last message of the gateway can be arriving, it is not
  parsed yet, and what is allocated was parsed) and `TextInv` (the text is the fragments so
  far, also before the first). The steps are grouped by what they touch: the text, the
  allocated messages with the queue and the workers, and what is given out. That nothing is
  answered twice rests on `MessagesAccounted`, by which a message a worker is done with is in
  no other place, and so was not handled before (`HandledNow`).
* **`DemoProofs`.** `IInv` is inductive. Beside the properties it has `HolderInv` (who holds
  the lock and why a call in flight means a connection that was told and a device not yet
  online), `LinkInv` (what the network thread is about to tell fits the connection),
  `StartInv` (nobody asks for offline before `main` does), `GrantedInv` (a verdict that has
  been granted but not returned is known on this connection: the lock keeps a reconnection
  from being told before the call is over) and `NumberInv` (the number exceeds the count by
  at most the devices `main` has been through; `NumberIsRight` is the case of none).

* **`JsonPrintProofs`.** The reference, `Rendered`, is folded over a document, and the printer
  writes pieces of it; `PrintingInv` says which piece is where. `Shown(doc, format, stage,
  next)` is the part of the text that has been printed when the printer is at a stage of a
  node, and `TextInv` that the buffer begins with it, that a zero ends it where the code looks
  for one, that `offset` is its length or (`Pending`) at most that with no zero in between, so
  that `update_offset` finds the end, and that `open` is the stack of the containers around the
  next node. `BufferInv` is the type of the memory and that nothing outside has been touched;
  `FailureInv` that a buffer that was given failed only because it was too small, by at most
  the bytes `ensure` asks for beyond what is written. None of the three properties is
  inductive alone: that a write stays inside needs `offset` to be the length of what is there,
  this needs the zero behind a key or a value, and this needs every piece to be one of the
  text. Each action adds its piece to `Shown`, a lemma for each stage (`ShownKey`, ...), and
  keeps the invariant, a lemma for each action (`PrintKeyKeeps`, ...). What is folded over a
  document is unfolded by one element (`FlattenStep`, `CountStep`) and by induction, which is
  stated for sets of numbers (`NatSetInduction`): a set that has 0 and with each number the
  next is `Nat`, from the least element of its complement. `Documents` are the sequences of
  nodes in which every container ends; a leaf is one, and documents in a container are one
  (`ContainerIsDocument`), whatever the key of their first node (`Rekeyed`).
* **`DeviceDataProofs`.** Three invariants, each inductive with those before it.
  `DataInv` says what is held at every point of an exchange, for `HeapReleased`: `OwnedInv` what
  the code itself frees and until when, `LooseInv` what has been made to be added to something
  else and, as long as no allocation fails, where that happens, `PrinterInv` that an exchange
  has the printer between `PrintMessage` and `Push` only, `JobInv` what is being worked on.
  `TypesInv` says that data has its types and items are documents, so that the message is one
  (`MessageIsDocument`) and `PrintingInv` is kept (`PrinterIsSound`): no byte outside, whole
  texts, five bytes more. `ArrivalInv` follows the data: as long as items are read the data are
  those of the items, there are as many items as data unless the message goes without, what is
  printed is the message and what is sent is its text, and without a failed allocation
  (`Flawless`) the data are those delivered and the items those wanted. Its core is two facts
  about one datum: one that fits is encoded as it is (`GivenArrives`), and an item decoded and
  encoded again comes back the same, with its number brought to the nearest `int`
  (`EchoArrives`: `valueint` saturates, and `atoi` does not wrap what is saturated). That a
  service's output is encoded whole needs that no key in it is empty and that there is room
  for it (`WholeOutput`). With it
  `DataDoArrive` holds for any number of data, keys, values and trees.

Only model-checked: liveness under fairness, which is out of the prover's reach. Every
invariant and every other action property of the passing runs is a theorem. TLC was asked
about each inductive invariant on the instance of its run before it was proved. The violation
runs are counterexamples and need no proof. No definition is recursive.

## Not modelled yet, and the plan

1. An abstract specification of `Inbound` ("each accepted request, one response") and the
   refinement that shows it is implemented.
2. The rest of the demo: `thread_report`, which reads the devices without the lock, against
   the end of `main`, which frees them; the loading of the list; the callbacks for
   properties, which look a device up and change it without a lock.
3. What a datum that does not fit becomes (a key or a text that is cut, a fraction beyond six
   decimals), stated and proved as exactly as what fits.

Not going to be modelled: parsing, duplication, comparison and minifying in cJSON (vendored,
and the SDK sees of them only whether they succeed; what is in a message is a `Shape` in
`Inbound` and a datum in `DeviceData`), `log.c` (formatting), `os.c` and the list macros (thin
wrappers), libwebsockets (external; its callbacks are environment actions).
