# erishttp in TLA+

erishttp is an HTTP application server in C. A master process forks slaves; in
a slave one thread watches sockets and hands those with data to a pool of
worker threads; a worker reads the request, looks for a module that serves its
path, runs it, sends the answer and closes the connection. This directory holds
TLA+ models of the parts in which threads, sockets and clients meet, of the HTTP
library, of the configuration, and of the containers and texts all of it is
built on, the TLC configurations that check them, and TLAPS proofs for every
value of the constants.

File names without a directory are under `src/` of the repository (`event.c` is
`src/event/eris.event.c`, `slave.c` is `src/eris/eris.slave.c`, and so on).
`PROJECT.json` maps each definition to the lines it stands for.

## 1. The system

| Part | State it keeps | Operations | Talks to |
|---|---|---|---|
| master and slave processes (`erishttp.c`, `signal.c`) | one global context: attributes, event table, queue, task list, modules, pids | start, fork slaves, handle signals, destroy everything | all others |
| configuration (`cftree.c`, `erishttp.c`) | a tree of values | parse the file, copy into attributes | read once at start |
| event table and loop (`event.c` + one of `poll.c`, `select.c`, `epoll.c`, `kqueue.c`, `devpoll.c`) | `nodes` (hash table of watched sockets with their time), `nodes_count`, `over`, the I/O type's array | add, modify, delete, dispatch, filing (timeouts), accept, over, destroy | calls back `erishttp_slave_event_exec` |
| event queue (`event_queue.c`) | ring of (socket, event), `count`, `front`, `near`, a mutex, one condition variable | put, get, destroy | put by the dispatcher, got by the workers |
| tasks (`task.c`) | list of threads | create, terminate, destroy | cancels workers |
| worker (`slave.c`) | the state of its loop, one HTTP context it reuses | get, parse, answer, send, close | queue, HTTP library, modules, files |
| HTTP library (`http.c`) | request and response of one context | parse a request, parse chunks, pack a response, clean up | calls back for input and output |
| module table (`module.c`, `spinlock.c`) | list of elements by pattern length, lock, `update`, `used` | exec, exec_eris, add, erase, update, destroy | walked by workers |
| list (`list.c`) | doubly linked list, priorities, size | push, push_back, append, pops, find, remove, erase, iterators | module table, tasks, log |
| log (`log.c`) | list of log files | dump with a file lock, truncate | every part |
| data (`string.c`, `buffer.c`, `urlencode.c`, `xform.c`, `regex.c`, `petree.c`) | none shared | copy, append, split, decode, match | HTTP library, modules |
| operating system (`os/unix`, `daemon.c`, `cpuset.c`, `time.c`, ...) | none | system calls | everyone |

A connection passes through them like this:

    accept -> event table -> (readable) -> callback -> queue -> worker -> close
                  |              |
               timeout       hung up
                  v              v
                close          close

Sockets are plain descriptor numbers everywhere. The kernel reuses a number as
soon as it is closed, and nothing but the order of calls keeps the table, the
dispatcher, the queue and a worker from holding the same number.

### What is hard to test

* *Interleavings.* The dispatcher and the workers share the queue; the event
  table may be used by any thread; the module list is walked without its lock.
* *Stale numbers and contexts.* Descriptors are reused, poll's answer is worked
  off slot by slot while sockets leave, and a worker's HTTP context serves one
  client after the other.
* *Limits.* Ring, poll array and event table are bounded, and each has a gate
  with an off-by-one that must be the right one.
* *Cuts.* The HTTP parsers get their bytes in pieces and keep their place in the
  context, in local variables and in a buffer between two receives; each place
  where a cut falls is a case of its own.
* *Copies.* String, list and tree operations exist in two to four copies that
  ought to do the same, and edit texts in place while they go through them.
* *Ends.* Cancelled workers, timeouts, clients that stop in the middle, and the
  two destroy functions.

`PROJECT.json` lists each hazard at its line with the properties that guard it.

### What makes each part correct

* Queue: it is a FIFO of `max - 1` elements; no wakeup is lost although both
  sides sleep on one condition variable; a cancelled worker leaves the mutex free.
* Event table: every descriptor has one owner, unless a modify enters it behind
  its owner's back; a reported socket is still watched when its turn comes; the
  gate of accept leaves every node a poll slot;
  no socket stays for ever.
* Worker: a client gets its own answer, once, with a header that fits; every
  connection ends.
* Module table: the list stands still while it is read; the longest pattern
  that matches serves.
* HTTP library: what one side packs the other reads as it was meant, however it
  is cut and whatever the context served before; what is no request is refused
  with the status due; limits hold; a parser that begins ends.
* Configuration: the two automata that read a file agree on its structure, a tree
  that is printed is read as the same tree if it can do without quotes, what is set
  is what is got, and the
  server starts with options it can use.
* Strings, buffers, forms, URL coding: text and NUL lie inside the allocation,
  edits change what they say and nothing else, encodings are undone by decodings.
* List: both chains, the size and the order agree after any sequence of calls.

## 2. The modules

| Module | Models | Lines are from |
|---|---|---|
| `BoundedFifo` | abstract: what the queue promises | - |
| `EventQueue` | put, get, destroy between mutex operations, with cancellation | `event_queue.c`, `task.c` |
| `EventQueueProofs` | theorems | - |
| `ConnectionLife` | abstract: who is responsible for a descriptor | - |
| `EventLoop` | table, poll loop, timeouts, accept, other threads' calls | `event.c`, `poll.c`, `erishttp.c` |
| `EventLoopProofs` | theorems | - |
| `LinkedList` | list operations as functions on links, as they are in memory | `list.c` |
| `PriorityList` | abstract: the sequence a list stands for | - |
| `EList` | any sequence of list calls | `list.c` |
| `ListProofs` | lemmas: what each operation on the links does to the sequence they hold | - |
| `ModuleRegistry` | exec, add, erase, update over `LinkedList` with the spinlock | `module.c`, `spinlock.c` |
| `ModuleRegistryProofs` | theorems | - |
| `Slave` | dispatcher, queue, workers, clients together | `slave.c`, `http.c`, `erishttp.c` |
| `SlaveProofs` | theorems | - |
| `EString` | eris strings as values, and the calls on them as operators | `string.c` |
| `StringLife`, `EBuffer`, `XForm` | any sequence of calls on a string, a buffer, a form | `string.c`, `buffer.c`, `xform.c` |
| `Bytes` | the string and the buffers side by side | - |
| `UrlCode` | both directions of the URL coding | `urlencode.c` |
| `PeTree` | key paths: parser, printer, iterator | `petree.c` |
| `CfTree` | the text of a file with its includes, the tree, and its calls | `cftree.c` |
| `Options` | the options of a process, taken from any answers | `erishttp.c`, `util.c` |
| `Config` | the life of a configuration: files, set values, options, media types | `erishttp.c`, `cftree.c` |
| `DataProofs` | theorems on list, string, buffer and options | - |
| `Typing` | a user typing paths, texts and configuration files | - |
| `HttpMessage` | the HTTP context, its header lists, setters, packing | `http.c`, `http.h` |
| `HttpHead`, `HttpChunk` | the automata for heads and for chunked bodies | `http.c` |
| `HttpExchange` | requests and replies between a client and a worker, in pieces | `http.c`, `slave.c` |
| `HttpProofs` | theorem on the limits, lemmas on heads, chunks and refusals | - |
| `ReadingProofs` | theorems that requests and replies are read as meant | - |
| `MC...` | the small instances TLC runs | - |

`Slave` composes the others on the level of what they promise: its queue is the
FIFO `EventQueue` is shown to implement, its dispatcher does to a descriptor
what `EventLoop` is shown to do, and `Slave` in turn is shown to give every
descriptor the life `ConnectionLife` states, which is what `EventLoop` assumes
of the receivers of its callback. `ModuleRegistry` uses the list operations of
`LinkedList` directly.

The HTTP library is a chain: `HttpExchange` extends `HttpChunk`, that `HttpHead`,
that `HttpMessage`, that `EString`, as the code calls its parts. `Config` extends
`CfTree`, that `PeTree`, that `EString`, and `Options`; `Typing` takes from `CfTree` and
`UrlCode`, `XForm` from `UrlCode`. `Slave` keeps of the parser its outcomes only
and has real connections, threads and descriptors; `HttpExchange` has every
character and one exchange at a time. The parts that run in one thread are
checked side by side by `MCData`, in which a behaviour is that of one `subject`.

### How state and actions correspond to the code

**EventQueue.** `count`, `front`, `near`, `events` are the fields of
`eris_event_queue_s`. A thread has a program counter with one point per place
where another thread may run: before the lock, under it, asleep in
`pthread_cond_wait`, woken, after the unlock and before the broadcast. Work
under the mutex is one step. `Cancel` is the `pthread_cancel` of
`eris_task_terminate`; it takes effect in `pthread_cond_wait` (which first takes
the mutex back, then runs the cleanup handler) or between calls. Destroy is two
steps, since it resets `front` and `near` before it takes the mutex. The slot
that stays free is that of `max <= count + 1` (`event_queue.c:223`);
`eris_event_queue_isfull` tests `max <= count` instead and nobody calls it.

**EventLoop.** `nodes`, `nodes_count`, `over` are the fields of `eris_event_t`;
`muted` are the nodes whose event mask is NONE; `fds` and `revents` are the poll
array. The dispatcher's points are those between two takings of the mutex, which
is therefore no variable. Chains of a bucket are sets, since no operation looks
at their order, and a node's time is kept as its age, which stops at
`Keepalive + 1`. Which nodes fit in the poll array when there are more than
slots is left open (`Register`), which allows more than the order of the buckets
does. `GiveBack` is the state CONN_KEEPALIVE of the worker, compiled out by
`#if 0` in `slave.c`, and is enabled by the constant `ReAdd`. `Modify` is
`eris_event_modify` by any thread with any descriptor: a socket that is in the
table gets other events, and one that is not is entered, whoever has it
(`event.c:351`). Such a descriptor is kept in the history variable `stray`: two
receivers may have it at a time, each may close it, and accept may return its
number again while an old node watches it. What is open is therefore a variable
of its own, `open`, and `Close` and `Remove` say what becomes of a client's bytes
and of a node. `entered` counts the nodes that a modify or `GiveBack` entered
(bound `MaxEntered`). The callback is
one step: that it may wait for the queue is modelled in `Slave`.

**LinkedList / EList.** A list is a record of `head`, `tail`, `size`, the two
link functions, the priorities and the set of allocated nodes; an operation is a
function from list to list. A link that leads to a freed node is kept, as in
memory, and the state machine stops there.

**ModuleRegistry.** A worker's points are those between two accesses to the
shared fields: spin, test `update`, count, unlock, each element of the walk, the
service, and signing off. The release of the spinlock stores 0 whoever holds it,
because all threads compare with the pid of the process. An update is an erase
and an add with the lock released between them. What a service does is a choice
of its result.

**Slave.** A worker is in one of the states of the loop of `eris_slave_handler`
(get, out-of-band, parse, header, body, 100 Continue, execute, file, reply,
error, pack, close). `http[w]` are the fields of its context that later states
look at: whom the request is from, method, whether a URL was found, the "shake"
flag, whose parameters and fragment it holds (`kept`), status, reason phrase, body,
Content-Length. `Cleaned` is `eris_http_cleanup`: the shake flag, the parameters and
the fragment stay; the next parse resets the first and appends to the other two
(`WithTarget`), for the connections in `Targeted`. A service may put what it finds
there into its answer (`Bodies`): such a piece of a body is tagged, and is the one
thing of another connection's that `OwnAnswer` lets a client see. Request kinds
stand for the ways through the parser: GET, HEAD, POST with Content-Length,
chunked POST, `Expect: 100-continue` with and without a body, a method that is
not served, and a malformed request. A client sends its request in three parts,
may stop anywhere, and may shut its socket down or reset it. A client that stays
silent is found by the timeout: `ReceiveFails` while nothing new has come.

**EString.** An eris string is a record of its allocation, its size, its type
and the bytes up to the end of the allocation, so that what lies behind the text
is part of the state. A call is an operator from strings to a string. `Limit8` is
the allocation from which on a string has the wider type, `IntBits` and
`LongBits` are the widths of numbers: small in the runs, so that they are met. `Loop` folds a loop of the code over a
text, and `Local` binds what the code has in a local variable. Where the code
has two or more copies of a call (for C strings and eris strings, with and
without a length) and they differ, each copy is an operator.

**PeTree, CfTree, Config.** An automaton over characters is one operator per
state of its `switch`; a record holds its local variables. `Content` is the
first pass of `eris_cftree_parse` (comments, includes, the count of braces) with
the files as a function from names to texts; `TreeOf` is the second. A tree is a
sequence of elements with their children. The four functions that walk a path
(`Get`, `ESize`, `Existed`, `Set`) are translated one by one, as the code does
not share them. `Config` reads files and sets values in any order, then takes
all options from the tree once, in the order of `erishttp_attrs_init`, and gives
them up again. What each option is set to is `Options`, a module of its own,
since it depends on the tree only by what `erishttp_config_get` answers: in
`Options` the answers are any, in `Config` those of a tree. Numbers keep their
widths: `IntBits` for an `eris_int_t`, twice as many for an `eris_int64_t`, of
which the sizes of the socket buffers keep the low half.

**HttpExchange.** `call[side]` holds the local variables of the parser of a
request and of that of a response, with the context each fills. An action takes
one character from the wire; where a cut between two pieces matters (behind the
head, in a body, in the line with a chunk's size) the action chooses whether
the piece ends there, and `cut` remembers that it fell on a size. `Ask` cleans
the contexts as the worker does and packs a request with
`eris_http_request_pack`, or sends bytes that are none; `Answer` is what the
worker does with the result, packed with `eris_http_response_pack`; `HangUp`
ends or breaks the stream at any time. Contexts are kept from round to round. A
word of letters may be one symbol, as the automata append letters without
looking at them.

## 3. The runs

| Run | Instance | What it shows |
|---|---|---|
| `queue_safety` | 1 dispatcher, 2 workers, ring of 3, both wait modes, one worker may be cancelled, destroy | types, ring shape, mutex, no lost wakeup, refinement of `BoundedFifo` |
| `queue_progress` | the same, blocking calls, no destroy, fair | the oldest element is taken, a waiting dispatcher proceeds, also after a cancellation |
| `queue_destroy` | blocking, destroy | **violation**: destroy closes slots from 0 on, not the queued ones |
| `loop_safety` | 3 descriptors in 2 buckets, max 3, one node entered by a modify that did not find it, any number of mask changes | one owner, reported sockets are watched, the count is exact and accept leaves a slot, refinement of `ConnectionLife` |
| `loop_progress` | 3 descriptors, max 3, one socket given back, over, fair | no node stays, a full backlog is served, over stops the dispatcher |
| `loop_destroy` | 2 descriptors, over and destroy by another thread | **violation**: destroy frees the context before dispatch returned |
| `registry_safety` | 2 workers, 1 changing thread, 3 elements, 2 paths | exclusion, counting, live elements, the longest pattern serves, calls return |
| `slave_answers` | 2 connections, 2 descriptors, 2 workers, queue of 1, 4 pairs of kinds | one holder, own answer, one answer, fitting header, refinement of `ConnectionLife` |
| `slave_ends` | the same with a POST and a chunked upload, fair | every connection ends but those in whose body a worker is stuck |
| `slave_timeout` | 1 worker, a POST and a GET, fair | **violation**: a worker stays in a body whose client ended the stream |

| `http` | 6 requests, 16 texts that are none, 2 replies, 2 rounds, cut in every way, the stream ending anywhere; fair | requests are read as meant or refused as due, limits hold, replies arrive, parsers end |
| `data` | list, string, buffer, form, typed texts, configuration, one per behaviour | chains and size agree, the list is the sequence its users think of; NUL inside the allocation; edits, searches and copies agree; round trips of forms, URLs, paths and numbers; braces, walks, printed trees, set values, usable options |

Types of `queue_safety`, `loop_*` and `slave_*` are proved (`TypeCorrect` in the
proof modules) and no run repeats them.

### Bounds, and why they are enough

* A ring of 3 holds 2 elements and wraps; 2 elements distinguish order; 2
  workers and 1 dispatcher are the smallest set in which a wakeup can reach the
  wrong thread. The proofs remove the bounds.
* 3 descriptors in 2 buckets are the smallest table in which the timeout scan
  stops between buckets (`event.c:676`). `Max = 3` puts the gate of accept below
  the number of descriptors; a socket that is given back makes the third node,
  which has no slot in the poll array. `Keepalive` is 0 or 1 second. `MaxEntered`
  is 1: one stray is enough to see whether the other descriptors suffer.
* 4 list nodes allow an insertion at both ends and in two inner places.
* 3 modules with the names hello, test, hello allow replacement and ordering;
  n2 has the longest pattern, so that no erase meets a middle element (see 6).
* In `Slave`, two connections and two workers are the smallest instance in which
  a descriptor changes hands while another is served and in which a worker
  serves a second client with a used context. With a queue for one socket the
  dispatcher has to wait. The pairs of kinds put each kind in both positions.
  `ServiceStatus` has one status of each branch: 100 (as it is), 404 (error) and
  600 (no status). In `slave_answers` one of the two connections is `Targeted`, so
  that the other is served before it and after it.

* `http`: `UrlMax = 4`, `HeaderMax = 52` and `BodyMax = 20` are as small as the
  requests allow, so that each limit is met by a text that exceeds it by one and
  by texts that do not; chunks of 1 and 17 bytes have sizes of one and two
  digits; the malformed texts are one for each way the parser refuses. Two rounds
  are enough for a context to be used, and every request and text follows every
  other. A cut may fall behind each character.
* `data`: strings of up to 3 characters with sizes of 3 bits pass through each
  type of string, grow and wrap; buffers of up to 7 bytes grow twice; forms have
  two pairs, so that one may hide the other. Typed texts are complete up to 5
  characters (paths, configuration files) and 4 (URLs) over alphabets with one
  member per case of the automata. The list is that of 4 nodes and 3 priorities.
  The configuration has three files: one includes the second, and the third has
  quoted values, one that can do without its quotes and one that cannot (`#`). Four
  paths with indices of both signs are set to values that begin like `include` and
  hold a `#` or do not; a tree has at most 10 elements. With integers of 10 bits `1k`
  is a socket buffer of 0 bytes and `510`, read as 5100, one of -20.

Deadlock is checked where the system runs for ever (`queue_progress`,
`loop_safety`). It is off where it really stops: after a
destroy or `eris_event_over`, when all connections or rounds of an instance are used up, when a
module change waits for readers that wait for its lock (6), and when a text,
a string or a tree has reached its bound.

### Fairness, and why the code justifies it

* Threads inside put and get run; a mutex is granted in the end (weak fairness
  of the thread's step). Workers call get again, since their handler is an
  endless loop. Nothing makes the dispatcher put. Spurious wakeups stop some time.
* The dispatcher runs, poll returns at its timeout at the latest, time passes,
  and a receiver is done with its socket some time. The last is an assumption
  here, and is what `Ends` examines in `Slave`.
* In `Slave` the dispatcher and each worker run; a service returns and sending
  ends. That sending ends is not guaranteed by the code for a client that never
  reads: on EAGAIN the output callback tries again without waiting (`slave.c:621`).
* Clients owe nothing: there is no fairness for connecting, sending or hanging up.
* In `http` only the thread that parses is fair, and only while it has bytes or an
  end of them. Nobody has to ask, to answer or to hang up.
* Module table: threads inside a function run, services return. The spinlock is
  not fair, so `ExecsReturn` promises that some worker returns, not each.

## 4. What is proved

The modules with theorems extend the component's module, so they speak of the
very definitions TLC checks. Proofs use only the assumptions on the constants
stated in those modules, unless said otherwise.

* **EventQueueProofs**, for any threads, elements and ring size: `TypeCorrect`,
  `RingShape`, `MutexCorrect`, `WakeupsCorrect`. Types and shape go together,
  because the slots stay in range only as long as `near` is `count` behind
  `front`; `WakeupsCorrect` is inductive given the types: who makes a condition
  true is at "unlock" or "broadcast" until it has woken everybody.
  `QueueImplementsFifo` is the refinement of `BoundedFifo`. Its invariant adds that
  queued slots hold elements; a Store appends to the contents, a Fetch takes
  their head (both by arithmetic on ring positions), the beginning of destroy is
  the Close, everything else stutters.
* **EventLoopProofs**, for any descriptors, buckets and sizes: `TypeCorrect`
  (with what each point of the dispatcher implies) and `SlotsSuffice`:
  `nodes_count` is the cardinality of the table, and at most `max - 1` and one
  more for each node that a receiver or a modify entered; the socket between
  accept and add is the reason why the gate must be strict.
  `OwnersAreExclusive`, `ReportedStaysWatched` and `LoopImplementsLife` are under
  the assumption that no other thread calls `eris_event_over`; it may call
  `eris_event_modify`. They are about each descriptor that no modify entered in
  the table without finding it there: `ConnectionLife` calls the others shared
  and promises nothing of them, so the theorems say that such a call costs its
  own descriptor and no other. The invariant `Owners` says besides that `over` is
  0, the poll array holds watched sockets while poll runs, and the callback is
  for a reported socket.
* **ModuleRegistryProofs**, for any workers and changing threads: `LockExcludes`,
  `UsedIsReaders`, `UpdateNeverSeen`, `ReadersUndisturbed`. The four need each
  other: the list stands still because `used` counts the readers, it counts them
  because it changes under the lock, and the lock excludes although its release
  does not know the holder because only a holder releases. The inductive
  invariant `IInv` adds that past the wait there is no reader left.
  On top of it, `ElementsStayLive` and `LongestIsServed` say what a worker has in
  hand: an element that is allocated, and no matching one has a longer pattern.
  Both are about behaviours in which what is erased is at an end of the list
  (`ErasesAtEnds`, which holds in `registry_safety`): `eris_list_erase` of an
  element in the middle does leave its neighbours pointing to freed memory. The
  invariant `TableInv` is that the list holds a sequence, sorted by the size of
  the patterns; that a worker that searches has passed a part of it in which
  nothing matched; and that what a thread is about to add is not in it. A change
  keeps it because then nobody reads (`IInv`), and the lemmas of `ListProofs` say
  what it makes of the sequence.
* **ListProofs**: lemmas. A list `Holds` a sequence of distinct nodes if head, tail,
  size and both chains of links are those of the sequence. Then walking it in
  either direction meets just these nodes (`WalksOfList`); a push puts the node
  between those that are not lower and those that are (`PushSplices`), and pops
  and erasing at an end take it out (`PopsAreCuts`, `EraseIsCut`); what results
  holds the sequence with the node put in or taken out (`SplicedIsList`,
  `CutIsList`). A walk is a recursion over the links; that it computes what it
  should is an induction over numbers, made from the well-foundedness of `<` and
  given as a statement about sets (`Induction`), which needs no operator as parameter.
* **DataProofs**, four parts.
  * *List*, for any nodes and any integer priorities: `ListStaysWhole` and
    `ListImplementsSequence`, for the operations that keep a list whole
    (`WholeOps`: pushes, pop, cleanup, and pop_back and erase of a node at an end;
    not pop_back of the only node and erase of one in the middle, see 6). The
    second is the refinement of `PriorityList`: the abstract sequence is what an
    iterator meets, each call on the links is the abstract call or a stutter, and
    erase takes out the node its search from the tail found.
  * *Strings and buffers*, for texts of any length over any characters, any
    capacities and any order of the calls: `TerminatorsFit`. The invariant of a
    string (`Good`) is stronger than what the property asks: there is a text `t`
    without NUL and an allocation `a` longer than it such that the string is
    exactly `Held(a, t)`, the text and NULs from there to the end. Each of the
    seventeen operations takes such a string to one; where the code goes through the
    text in place (strip, reverse, rotation, replace and replace_all, erase) a
    lemma says what the loop leaves. *Hypothesis:* nobody sets a NUL into the
    string (`~Truncates`, as in the run): after `eris_string_set_at_c` with NUL
    there are remains behind the terminator.
  * *Search.* `SearchesFindFirst`: `eris_string_find` skips to the next place of
    the character it missed and never goes back, which is only right if what it
    skips cannot be a match. `SearchIsFirst` proves that it is, by induction over
    the places from the end of the string to the front. It needs `Good`: a
    mismatch with the NUL itself is passed by the code, and only because nothing
    but NULs follow does the search then end.
  * *Options.* `OptionsAreUsable`, for any answers of the configuration and any
    `--prefix`, of all counts, limits and sizes but those of the two socket buffers,
    for which it does not hold (6). That the map of cpus has the length of the workers is an invariant
    of the loop of `eris_util_cpuset_parse` (`CpusetMaps`); that numbers are numbers
    whatever text is given, one of `eris_string_atoi` (`NumberInt`).
* **SlaveProofs**, for any connections, descriptors, workers and queue capacity:
  `TypeCorrect`, `HeldByOne`, and on top of them `AnswersAreOwn` and
  `AnswersComeInOrder`. `Holding` says that a connection is open exactly when
  table, dispatcher, queue or one worker has its descriptor, and that these
  exclude each other; `HeldOnce` alone is not inductive, because accept reuses a
  descriptor number as soon as it is closed. From it follows that the client
  behind a worker's descriptor is the same from the first byte to the close, and
  with this `Own` carries a context with an empty body from the reset of the worker
  to the answer: each piece of the body is the client's, or tagged and of a connection
  in `kept`, which only grows. `Order` needs that a connection sits at one descriptor, so that no two
  workers write to it, and says for each state of the worker how much has been
  written. In the same module are `SlaveImplementsLife` and `HeadersFit`. In the
  terms of `ConnectionLife` a descriptor is closed without a connection, watched
  in the table, accepted or delivering at the dispatcher and out at the queue or
  a worker (`Where` of `Slave`); each step moves at most one, which needs that
  these exclude each other (`HeldByOne`). The invariant behind `HeadersFit`
  (`Fits`) says for each state of a worker what of the header is there: nothing
  until the parser notes something, the reason phrase of 100 kept from the
  handshake on, and the length taken last, after the page.
* **HttpProofs**: `RequestsAreBounded`, for any requests, malformed or not, and any
  pieces, given that `UrlMax` is positive and the other two limits are numbers
  (`HeadAssumption`, `ChunkAssumption`; that the configuration leaves no others is
  `OptionsAreUsable`). The invariant `HInv` is that the limits hold, the
  query being no longer than the size counted for the header, that the URL is empty
  as long as the automaton is before it, and that a body with a length is only read
  when the context is not marked as chunked. There is a step for each state of the two automata.
* **ReadingProofs**, on top of `HttpProofs`: `RequestsAreReadAsMeant`. A request
  that `eris_http_request_pack` wrote is read by `eris_http_request_parse` as it
  was meant: command, target, version, headers (the newest of each name), body.
  It is about texts of any length over any characters, wherever they are cut,
  and about contexts that served anything before; `ReadAsMeant` names the two
  exceptions, the cut in the line with a chunk's size and what a used context
  has left of parameters and fragment.
  * *Hypothesis.* What clients mean can be read back (`Sendable` in
    `HttpExchange`): no part of the target has the character that ends it, the
    command is one of those whose number and name agree (PROPFIND and VIEW do
    not), head and body are within the limits, a header is there, a body has its
    length or is chunked, a chunk has 1 to 255 bytes and no carriage return, an
    extension and a trailer line have values of name characters, and nobody asks
    for 100 Continue before a body. Each clause is a thing the code does wrong
    or refuses (see 6), or a limit. `MCHttp` assumes the same formula of its
    requests, so TLC evaluates it, chunked and extended ones included. What is
    malformed is only supposed to be bytes, and may be any.
  * *Assumptions.* The limits as for `HttpProofs`; every character has one code
    (`CodeAssumption`); a word, which is one symbol for several letters, is none
    of the characters the parsers look for (`WordsAssumption`).
  * *Invariant.* `ReadAsMeant` speaks of the end of reading only. `RInv` says
    for each point on the way what is still to come: the wire holds just the
    rest of the packed text, the automaton is in the state that rest belongs to,
    and the context holds what was read before it (`OnTheWay`). It needs `HInv`,
    whose limits say that no refusal comes in between; that the client's context
    still holds a request, as reading a reply fills the response only
    (`Client`); and that before the first request the server's context is as
    `eris_http_init` left it. For each state of the automata a lemma takes one
    character from the wire and puts one into the context; `HeadReads` and
    `ChunkReads` put them together.
  * *Operators.* `NewestSame`: what the parser keeps of a list of headers has
    the same values as the list. `HexSizeReads`: the size of a chunk, written in
    one or two hex digits, is read as that number. Texts that are joined of
    pieces are taken apart by the pieces that are left (`Left`), so that no
    recursion over the text is needed.

  In the same module is `RepliesArrive`: what `eris_http_response_pack` wrote is
  read by `eris_http_response_parse` with the status, the reason, the version, the
  headers and, if they say so, the chunked body that the worker's context holds;
  for any services, pages for errors included, any pieces but for the cut in the
  line with a chunk's size, and contexts that served anything before.
  * *Hypothesis.* What services answer can be read back (`Answerable` in
    `HttpExchange`): the status is in the table, the headers have names and no
    carriage return, and a body that the headers call chunked is in chunks, which
    are as those of a request. The names the worker sets of its own are words of
    the model (`OwnWords`), so that they are told from other names. `MCHttp`
    assumes both, and TLC evaluates them.
  * *What is left out.* The answer to a request that shakes: its parser leaves
    the reason phrase of 100 in the context, `eris_http_response_set_status` does
    not touch it, and the reply gives the service's status with the phrase of 100.
    The theorem says so (`~shake => ReplyArrives`); in the run, the request that
    asks for 100 Continue is refused for want of a length, and `HeadersFit` has the
    same exception.
  * *Invariant.* `SInv` follows the answer while a request is read: the response is
    as cleanup left it, or shakes, or holds a status of the table with its phrase
    and nothing else (`Says`); so a worker adds to a context that says nothing
    else. `AInv` says from `Answer` on that the response in the server's context can
    be read back (`GoodReply`), and for each phase of the client's parser what is on
    the wire and what was heard (`ReplyWay`).
  * *Operators.* The line with version, status and reason has lemmas of its own
    (`InReply`). From the first header on no step is proved again: the parser of
    a request in the same state (`Twins`) would read the same, so what it would do
    to a request with these headers (`Sample`) and these chunks is what the parser
    of the response does to the response. The length that the worker prints is
    digits, for every number (`DigitsFree`).

Only model-checked: everything about liveness (`HeadIsTaken`,
`BlockedPutReturns`, `NodesLeave`, `BacklogServed`, `OverStops`, `ExecsReturn`,
`Ends`, `ParseEnds`), which is out of the prover's reach; `RefusedAsDue`, a
statement about the sixteen texts of the run and their status; of `data`, the parts
of `EditsAreTextual` about replacing and about the calls that come in several copies
(its third part, searching, is proved), `PlainFormsRoundTrip` and `ReadsBack`, which
speak of what loops over a text compute; and `WalksAgree`, `DumpReadsBack` and
`SetIsGot`: the modules of the configuration use RECURSIVE operators for trees, which
the prover does not reach.

## 5. What is not modelled, and why

* *Processes and signals* (`signal.c`, `main`, fork, the supervision of slaves,
  `erishttp_destroy`, the list of tasks): the next module of the plan. The order
  in which a slave takes itself apart is where the hazards without a property
  are: the handler runs on the dispatcher's own thread (`signal.c:112`), and
  cancelled workers are not joined (`erishttp.c:2283`).
* *Other event backends.* The same contract over other system calls.
* *The log.* One file lock per process, taken by threads that each open and close
  the file; what it excludes is a rule of the operating system.
* *Allocation that fails* is modelled in `EventLoop` (an add may fail) and left out
  elsewhere; so are the errors of system calls on files.
* *Strings:* of the directives of `eris_string_vprintf`, those that are used.
* *HTTP:* that the nodes of headers are kept in a queue for later use.
* *Modules:* creating an element, cleanup and destroy. Regular expressions: which
  paths a pattern matches is a constant relation.
* *System calls and small wrappers* of `os/unix`, `daemon.c`, `proctitle.c`,
  `cpuset.c`, `time.c`, `errno.c`; the sample modules and the build.
* `eris_event_over`, `eris_event_modify`, `eris_module_update`,
  `eris_module_erase`, `eris_list_erase` of a middle node are offered by the
  headers and called by nothing in the repository. They are modelled, and the
  properties say when they hold without them.

## 6. What came up

Shown by a run (`findings` in `PROJECT.json`): `queue_destroy`, `loop_destroy`,
`slave_timeout`. The rest was seen while modelling; where a property excludes a
case of it, its comment says so.

Event table, list, modules, worker:

* `event.c:445`, `poll.c:244`: after `eris_event_over` a delete is refused and
  its answer ignored, so a socket is delivered and stays in the table. `OneOwner`
  and its theorem are about runs without it.
* `event.c:351-395`: `eris_event_modify` enters a socket that it does not find. A
  modify that comes just after the dispatcher has delivered the socket puts it
  back in the table while a worker has it: it is delivered to a second worker,
  and closed under one of them. `OneOwner` and `ImplementsLife` except the
  descriptor (`stray`), and hold for all others. Nothing in the repository calls it.
* `event.c:676`: the timeout scan stops when it has seen more buckets' nodes than
  are left. `NodesLeave` holds nevertheless: a later scan takes the rest.
* `poll.c:229`: POLLERR counts only together with POLLNVAL. `socket.c:328`: FD_SET
  for descriptors of 1024 and more.
* `list.c:343`: `pop_back` of the only node leaves `head` pointing to it.
  `list.c:520`: erasing a middle node frees it without linking its neighbours.
  `list.c:733`: the backward iterator goes forward.
* `module.c:85` and `module.c:298`: a change waits for readers with the lock
  held, and a reader needs the lock to sign off: with a reader inside both wait
  for ever. `module.c:128`: an update is an erase and an add, and a request
  between them finds no module. `module.c:383`: `eris_module_exec_eris` reports
  OK and SERVICE the other way round.
* `erishttp.c:1785`: the default language is written into the pattern.
* `slave.c:413`: an error reply with a body made by the service has no Server,
  Date, Connection and Allow headers. `slave.c:621`: see fairness.
* `signal.c:112`: a slave told to quit destroys the event table on the thread that
  dispatches, which waits for itself. `log.c:121`: the file lock is the process's.

HTTP library (`http.c`):

* 1240: the reason phrase of 100 Continue stays: the final status line is "200
  Continue" or "400 Continue"; `HeaderFits` states the exception. 1231: the test
  for Expect compares the value of Transfer-Encoding.
* 224: the header size counts the first byte of a body received with it, so that a
  head of just the limit is refused or not by where it is cut. 1187: a request
  that ends inside its head is executed.
* 2813: the digits of a chunk's size are lost when two receives split them; a size
  of three digits or more is read wrong (`string.c`, `eris_string_hextov`). A
  chunk that begins with a carriage return, or has one inside, ends there; an
  extension without a value and a trailer whose value has a blank are refused.
  1299: whatever is wrong with chunks is answered with 408. 1290: an error of the
  receive callback is overwritten by the parser's result, so the loop goes on.
* Content-Length is compared as an unsigned number, so that the branch for a
  negative one (1247, 1356) is not reached and 413 is the answer. What comes with
  the head is kept as body even beyond the length.
* 2342: the length of a response is looked for in the headers of the request. The
  answer to a HEAD is waited for if it announces chunks.
  `eris_http_request_set_body` and `_append_body` change the response's body.
* The table of commands has no place for number 16: PROPFIND is packed as VIEW, and
  VIEW as CMAX.
* 4203, 4298: `eris_http_cleanup` keeps parameters, fragment and the shake of the
  request before, and 497 and 589 append the next request's to the first two. A
  service that answers with them answers with another client's: `OwnAnswer` and
  `AnswersAreOwn` except such a piece, and nothing else; `ReadAsMeant` compares the
  two in a new context only. A HTTP/0.9
  request line is refused with 400, its carriage return being waited for twice; only
  a line that ends behind the url, and not behind parameters, query or fragment, gets
  the version.

Configuration:

* `erishttp.c:1389`, `1409`: `header_max_size` and `body_max_size` are stored in the
  sizes of the caches, so that the limits keep their defaults.
* `erishttp.c:1269`, `1289`: the size of a socket buffer is tested as an
  `eris_int64_t` and stored as an `eris_int_t`, so that `send_buffer_size 4G` is 0
  and `2G` negative; `OptionsUsable` excepts the two. `event.c:52` takes the size
  of the send buffer for that of the receive buffer too.
* `cftree.c:1996`, `2059`: `dump` and `dumpout` write keys and values without the
  quotes they were read with, and `eris_cftree_set` takes any text. A `#` is read
  back as a comment, a `;`, a brace or a line feed as the end, and a key that begins
  with `inc` loses letters (a value that does so is read back, being in the middle
  of a line). `DumpReadsBack` is about the other trees. 507: a character directly
  behind a quoted value is put into the next key, which 526 then clears.
* `util.c:52`, `162`: a number of three digits or more is read wrong; the last pair
  of a `cpuset` is not stored, and the second digit of a cpu counts for the worker.
  A group of one letter is lost by the split.
* `cftree.c`: a quoted key works for the first element only; a word that begins
  like `include` loses the brace behind it; a file that begins with '{' makes no
  element for it, and its '}' leaves the tree; a last key without an end is dropped;
  an `include` at the end of a file is ignored; the error of an included file is
  overwritten if another character follows, and its message is then read as
  configuration. A negative index sets the first element and gets the last
  (comment at 2278); a new `a[0]` becomes the second element. `eris_cftree_set`
  returns 0 whatever happened, and does not count new elements.

Strings, forms, URLs:

* `string.c`: `eris_string_vtohex` writes letters from 'A' plus the digit;
  `compare_n` compares one character more; `toupper_n` changes capitals; `find`
  reads behind the NUL on a late mismatch; `find_at_eris` and `rfind_at` miss a
  match that fills the string, so that `erase_eris` of "a" in "aa" leaves one;
  `split` drops a last field of one character; a rotation by 0 is one by 1;
  `atol` notices only some overflows, and `ltoa` of the least number is garbage;
  `vprintf` runs past a '%' at the end.
* `xform.c`: `eris_xform_pack` encodes each text and then writes the plain one; the value
  of a new pair is cut to the length of its key and stored encoded, that of an old
  one is not; a key without a value makes the form empty; a form with an
  empty key or value is not packed at all. `PlainFormsRoundTrip` is
  about texts that encoding does not change.

## 7. The plan

The order is by importance to the server. Done:

1. `EventQueue` with `BoundedFifo`, and its theorems.
2. `EventLoop` with `ConnectionLife`, and its theorems.
3. `LinkedList`, `EList` with `PriorityList`, and their theorems.
4. `ModuleRegistry` over `LinkedList`, and its theorems.
5. `Slave`, which composes them, and its theorems.
6. `HttpMessage`, `HttpHead`, `HttpChunk` and `HttpExchange`: the HTTP library, and the
   theorems on its limits and on reading requests and replies.
7. `EString` and what is built on it: buffer, form, URL coding.
8. `PeTree`, `CfTree`, `Config`: the configuration.

Left:

9. `Lifecycle`: master, slaves, signals, tasks, `erishttp_destroy`: a told slave
   exits, contexts are freed after the threads that use them. The two runs about
   destroy may go into it.
10. `Log`: processes and threads over one file lock.
