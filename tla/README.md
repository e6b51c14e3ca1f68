# TLA+ models of ms_server

ms_server is a small HTTP server in the manner of nginx: a master process forks
workers that share one listening socket, and each worker is a single thread that
runs an epoll event loop with timers. This directory holds models of it, the TLC
runs that check them and TLAPS proofs about them.

## The system

| component | state it keeps | operations | who calls it | modelled in |
|---|---|---|---|---|
| event loop (`ms_eventloop.c`, `ms_epoll.c`) | `files[]` by descriptor, `events[]`, tree of timers, free list of nodes, `stop`, the epoll instance | `file_add/mod/del`, `timer_add/del`, `main`, `timer_process`, `stop`, `create`, `destory` | worker cycle, handlers, signal handler (`stop`) | `EventLoop` |
| connection handlers (`ms_server.c`, handlers of `ms_server_test.c`) | one `conn` per descriptor: two timer pointers, two buffers, `sendsize` | accept, readable, writeable, `conn_close`, read and send timeout, request handler | the loop, by callback | `Server` |
| sockets (`ms_socket.c`) | kernel state | `accept`, `read`, `write`, `close`, options, listening socket | handlers, start-up | `Server`, `Master`, as they use them |
| master and signals (`ms_server_test.c`, `ms_signal.c`) | `workers_pid[]`, signal masks, pending signals | start-up, fork loop, wait loop, exit and reopen handlers | operator (`sh-stop.sh`, `sh-reopen.sh`) | `Master` |
| pid file (`ms_daemon.c`) | a file all starts share | get, set, clean | master | `Master` |
| logs (`ms_errlog.c`, `ms_acclog.c`) | one descriptor each | write a line, reopen, close | everybody; signal handlers | `LogReopen` |
| red-black tree (`ms_rbtree.c`) | nodes, colours, one sentinel | insert, delete, min, max, next up and down | event loop | `RBTree` |
| memory pool (`ms_mem.c`) | chain of blocks, current block, list of large memory | create, small and large requests, reset, destory | event loop | `MemPool` |
| configuration (`ms_config.c`) | table of items with their values | parse a file, check a value, get a value | start-up | `Config` |
| formatting, errno strings, time stamps, rlimit, scripts | none | | everybody | no |

How they interact: `main()` reads the configuration, looks at the pid file, forks;
each worker creates an event loop out of a memory pool and a tree, registers the
listening socket, and from then on everything in it is a callback of the loop.
Signals connect the processes: the operator's to the master, the master's to the
workers, where a handler sets `stop` of the loop or replaces the log descriptors.

What is hard to test here:

- the client acts between any two kernel calls of a handler, and edge-triggered
  epoll reports a change once;
- descriptor numbers and timer nodes are reused at once, while `files[]`, the kernel,
  the timer tree and `conn` are four records of the same connection, changed one
  after the other on a dozen error paths;
- signals arrive anywhere, are merged while they are pending, and their handlers
  replace descriptors and call `kill()` on a table that is still being filled;
- processes are killed, and what they leave is a pid in a file and orphaned workers;
- the tree, the chain of blocks and the parser's table go through long sequences of
  legal calls, with boundaries (padding, overflow of the clock, digits) on the way.

`PROJECT.json` lists the hazards by line, with the properties about each.

What makes each part correct: the worker never mixes up connections, never loses a
wake-up and never lets a client hold a slot (`ServerProps`); the pid file names who
serves and every process is told to end and is waited for (`Master`); a rotation
loses no descriptor and leaves no old file open (`LogReopen`); the tree is a sorted
set (`RBTree`, `TimerSet`); memory handed out is apart and inside (`MemPool`); the
program starts on well-formed files, with what they say (`Config`).

## Modules

- `EventLoop`: the loop and the epoll instance. `pc` is where the thread is. `mask`
  is `files[].mask`, `interest` what the kernel watches, `ready` its ready list,
  `batch` what `epoll_wait()` returned and was not dispatched yet. `tree`, `free`,
  `used` are the timer nodes that run, wait for reuse, were allocated. `left[t]` is
  `key - now`, cut off at 0. The clock is read in one step (`SetTimeout`) and
  `epoll_wait()` entered in another (`EnterWait`), with the line of the log between
  them; `lag` records the time that passes there, for the property about it. A pass of
  `timer_process()` ends after `TimersPerRound` timers, which is
  `MS_MAX_PROCE_TIMEOUT_EVENTS_PER_LOOP` + 2: the count is compared by `>` and before
  its increment. Operators with parameters (`FileAdd`, `TimerAdd`, ...)
  are the loop's interface, used by the handlers of `Server`.
- `Server`: one worker, with its clients. `open` is the set of descriptors it has
  open, `rtimer` and `stimer` the pointers in `conn`, `rx`, `fin`, `err`, `full` the
  kernel's side of each socket, `backlog` the queue of the listening socket. A
  handler is split where it calls into the kernel (`Read` then `Reply`, `Write` then
  `Rearm`, `Accept` then `Register`, and `Close` for the code after `end:`), and every
  client action can come in between. `Faults` says which calls may fail:
  `accept()` with another error than EAGAIN, a socket option, the pool, `epoll_ctl()`.
- `ConnService`: what a worker promises each connection, with no loop, no nodes and
  no epoll: phases with deadlines, and only the deadline closes a connection that is
  waited for.
- `ServerProps`: the properties of `Server`, the inductive invariant, and the
  refinement mapping to `ConnService` (the clock of a connection is the timer its
  `conn` points to).
- `ServerProofs`, `ServerRefinement`: the theorems about it.
  `MCServer`: small sets for TLC.
- `Master`: several starts of the program, numbered in their order, with one
  configuration and so one pid file and one port. `pc[m]` is where a master is in
  `main()`: `check` (is an instance running), `listen`, `daemon`, `record` and
  `write` (the two steps of `ms_daemon_set_pid()`), `fork` and `forked` (a worker is
  there, its entry of `workers_pid[]` not yet), `register` (the mask), `wait`,
  `clean`, `end`. `forked` and `waited` are its two loop counters, `mpend` and
  `wpend` the pending signals, sets because signals do not queue. `Forward` is the
  loop both handlers of the master have around `kill()`: an entry that is still 0
  makes it a signal to the process group. `WorkerMain` is `Server` seen from here:
  no loop yet, a loop, told to stop, a loop destroyed.
- `MasterProofs`: the theorems about it.
- `LogReopen`: the two logs of one process, master or worker, while the operator
  rotates them. `file` and `gen` are the descriptor table (what a number is open on,
  and which of the files of that name), `fd` the two variables of the program. The
  program and its two signal handlers are contexts: `run` is the one that runs,
  `under` what a handler has interrupted, `step` where each is, `held` the descriptor
  each has in a register. A write is two steps, the load of the descriptor and the
  call; a replacement is three, `open()`, `close()`, the assignment, with a handler
  able to run between any two. The program also opens and closes clients, which take
  the same numbers. `MoveErr`, `MoveAcc`, `SignalReopen` are sh-reopen.sh.
- `LogReopenProofs`: the theorems about it.
- `RBTree`: the tree of timers. `tree` holds the root and the pointers and colours of
  all nodes, those out of the tree and the sentinel included (their stale pointers
  are state too); `loop` and `cur` are the rebalancing loop under way and its node.
  An operation's part outside the loop is one step and each pass of the loop another,
  so the properties say what every pass leaves behind. Code that is a mirror image is
  one operator with the side as argument (`Rotate`, `Furthest`, `Neighbour`, `Mend`).
  `Fire` is the test of `timer_process()`, `Tick` the clock, which overflows.
- `TimerSet`: what the event loop expects of the tree, a set of nodes with keys and
  an earliest one; `EventLoop` uses its timers in just this way. `RBTree` refines it,
  the set being the nodes that can be reached from the root. `MCRBTree`: symmetry.
- `RBTreeShape`, `RBTreeProofs`: the theorems about it. The first holds the lemmas on
  shapes (subtrees, paths, what a rotation, a new leaf, a bridged and an exchanged
  node do to them), the second those on colours, counts and order, the invariant and
  the refinement. All ways through the tree (`Below`, `Above`, the search for a place,
  the climb of `ms_rbtree_next_up()`) are one operator, `Reach`, so one set of lemmas
  serves them.
- `MemPool`: the pool in bytes. `blocks` is the chain with `last` (an offset) and
  `failed` of each block, `current` the block a search starts at, `large` the list of
  large memory with the place of its nodes, `heap` what is in use of the heap for it,
  `grants` what callers and nodes hold, which the code does not record. `Enough` is
  the unsigned comparison, `FromNewBlock` what `ms_mem_pool_pcalloc_block()` does to
  the counts of all blocks on the way.
- `MemPoolProofs`: the theorems about it.
- `Config`: the parser, line by line. `vals` is `t->val` of the table, `error` the
  count, `row` the line. `Word` and `Skip` are `strcspn()` and `strspn()`; `Ipv4`,
  `Port`, `Num`, `Level`, `Dir`, `FileName` the `check_` functions; `TakeValues` is
  `main()`, with `atoi()` as `Number`. `opened` are the descriptors `check_file()`
  has opened, which it never closes.
- `ConfigFile`: what a file means, stated without a parser: what a line says by the
  places of its symbols (`Says`), what is a valid value (`Valid`, numbers compared as
  they are written, an address having exactly four parts), and which files are
  well-formed (`WellFormed`). `NearlyWellFormed` also tolerates an address that goes on
  after its fourth part (`LongAddress`), the one thing `check_ipv4()` does not see.
  `MCConfig`: the files for TLC.
- `ConfigProofs`: the theorems about them.

Operators commented "Seeded fault" are not used by the specifications; each is a
plausible bug of the operator below it, with which the property it belongs to
fails. They show that the property says something about the code.

### Abstractions

`Server`. Sizes are counted in units, with `Limit` for `MS_MAX_BUF_SIZE - 1` and
`Head` for the printed header. The request handler echoes up to the first NUL, so the
length of the answer is any between the header and header plus request, cut at
`Limit`. Due timers fire in any order: their keys differ by less than the unit of
time. The free list is a set: its order cannot be seen. A descriptor is any free one
rather than the lowest. The value a call leaves in `errno` is taken to be what the
caller reads. Log calls are left out.

`Master`. One configured number of workers, clamped to its range from the start (the
two lines run before the first fork). Calls of start-up that only may fail are one
fault each. Pids are not reused: an orphaned worker never has the pid of a dead
master. The operator's scripts read the pid file and signal in one step. Log calls
are left out, and so is what handlers do to `errno`.

`LogReopen`. A write to a file is not interrupted, so the loop around `write()` runs
once. The level filter is left out: a line that is not written does less. Handlers
write one line and then do their own work; the signals the master's handlers send on
are in `Master`. Descriptor 0 is taken, as it is after `ms_daemon()`.

`MemPool`. Blocks start aligned, so an address is an offset; the headers are those of
a build with 8-byte pointers (64, 32, and 16 for a node). That memory is zeroed is left
out. After destory the pool can be created again.

`Config`. A line is a sequence of characters, in which a key and the name of a log
level are one symbol: the parser compares them as a whole. Values are spelled out,
because the properties are about the ends of their ranges; `atoll() > 2147483647` is
computed without numbers that large. Which paths can be opened is a constant. The
keys of a table are assumed not to be white space, a comma or `#` (`InputAssumption`):
those of `ms_server_test.c` 37-56 are words.

## Runs

| run | instance | shows |
|---|---|---|
| `ServerSafety` | 2 descriptors, 3 nodes, 3 clients, all faults | all safety properties, `IndInv`, `KeepsPromise` (refinement of `ConnService`) |
| `ServerLiveness` | 2 descriptors, 2 nodes, backlog 2, 2 clients, all faults but `accept` | `ListenDrained`, `NeverStuck`, `StopObeyed`, `BacklogServed`, `ClientHeard` |
| `ServerAcceptError` | `accept` may fail | violation of `ListenDrained` |
| `Master` | 2 starts, 2 workers each, 2 signals, all faults, starts do not overlap | `MasterInv`, `Reachable`, `WaitsForAll`, `ServeAlone`, `ExitCompletes` |
| `MasterStop` | 1 start, 2 workers, 1 signal, no faults | violation of `StopsALoop` |
| `LogReopen` | 4 descriptors, 2 rotations | `LogsOpen`, `OnePerLog`, `NoLineToClient`, `RotationComplete`, `RotationTakes`, `LogInv` |
| `LogInterrupted` | 4 descriptors, 1 rotation | violation of `LineInItsLog` |
| `RBTree` | 6 nodes, 2 bits of time | `TypeOK`, `Linked`, `Ordered`, `NoTwoReds`, `EvenPaths`, `Walk`, `LoopsClimb`, `KeepsTimers` (refinement of `TimerSet`) |
| `MemPool` | blocks of 48 bytes, sizes 8, 48, 49 | `PoolInv`, `Inside`, `Apart`, `LargeKept`, `GivenUp` |
| `MemPoolOverrun` | blocks of 40 bytes | violation of `Inside` |
| `Config` | 11 tables, all files of up to 2 of their lines | `Verdict` |
| `ConfigAddress` | the same | violation of `StartsOnWellFormed` |

Deadlock is checked in the runs of `Server`, `LogReopen` and `RBTree`. A start that is
over, a pool at its bounds and a parser that is done have nothing left to do, so it is
not checked in the others.

### Bounds

`Server`: two descriptors are enough for a reused number next to a live connection,
one node more than descriptors shows that the pool is not asked for it. `Clients` 3
makes a descriptor serve a second connection. `Limit` 2 and `Head` 1 give a request
whose answer just fits, one whose answer does not and one that does not fit itself.
`TimersPerRound` 1 ends a pass of `timer_process()` after one timer, so that with two
connections due at once one is left over for the next round, in the runs for safety
and for liveness; the theorems are for every number. Timeouts of 1 and 2 make the
deadlines of two phases differ, and `MaxEpollTimeout` less than or equal to them makes
either one the minimum. A negative `MaxEpollTimeout` stands for no maximum, which the
loop supports and the program never asks for (`check_num()` takes no sign): it is left
to the theorems. `ServerLiveness` has both descriptors in use at the same time, by two
connections whose deadlines coincide; that a descriptor serves a third client is left
to the run for safety. Symmetry over descriptors and nodes is used where only
invariants and `KeepsPromise` are checked, which TLC checks step by step, and no
property names a member.

`Master`: `Starts` 2 gives every pair of an older and a newer instance, among them a
second start while the first serves, and one after it was killed in any state.
`Configured` 2 puts a signal between two forks and makes the wait loop go round.
`Requests` 2 lets an exit and a reopen signal, or two exit signals, meet.
`OneAtATime` makes a start wait until the one before has recorded its pid or is over,
as it is when a person or a script starts the program; `SingleInstance`, without it,
is stated in the module and not claimed (see below).

`MemPool`: 48 is the size of the largest small request, a multiple of the alignment;
8 leaves padding, 48 fills a block alone, 49 goes to the heap and takes a node.
A block is given up after six refusals, which takes requests of 48 into eight
blocks; with ten blocks and ten requests the current block moves more than once.

`Config`: the tables have one item of each of the seven kinds, or one of four pairs;
every value a `check_` function could get wrong at a boundary is among `Texts`,
and the nine `Layouts` put delimiters and comments everywhere, with a line
that ends in CRLF and one with a form feed among them. Two lines are enough
for duplicates, missing items and a wrong line next to a right one. `BuffSize` 21
stands for the buffer of a line: the last layout of one item just fills it.

`LogReopen`: `MaxFd` 4 leaves room for both logs, the second descriptor of the one
being replaced, and a client; a full table, where `open()` fails, is reached too.
`MaxRotations` 2 lets a second rotation start while the handler of the first runs.

`RBTree`: `HalfRange` is half the range of a key. With six nodes, and no fewer, every branch of `Mend` is taken on both sides,
a red sibling with a red grandchild being the one that needs six. Two bits of time,
with keys `now` and `now + 1`, are enough for equal keys, for insertion before,
between and after the others, and for the overflow. `MaxDelay + MaxLate` stays below
half the range, as it does for timeouts of seconds in any width of `uintptr_t`.

### Fairness

`Server`: `WF(Worker)`, one thread the kernel schedules. Nothing is assumed of clients,
other workers or signals. That time passes (`TimePasses`) is an assumption of the two
properties that rest on a timeout, `NeverStuck` and `StopObeyed`; `BacklogServed` and
`ClientHeard` hold even if time stands still, when no timer can repair a lost wake-up.
Clients are finite in number: with endless arrivals the accept loop has no bound.

`Master`: `WF` of each process, that it runs a handler of a signal that is pending and
not blocked, or else goes on with `main()`. Nothing is assumed of starts, of the
operator and of who kills processes. A master that waits has no step of its own until
a worker has ended: `ExitCompletes` therefore rests on the workers obeying.

`LogReopen`: each handler makes progress even if it is interrupted again and again
(`SF`, the process is scheduled and every handler is a finite sequence of calls), and
the kernel delivers a pending signal that is not blocked (`WF`). Nothing is assumed of
the program or the operator.

## What the checks found

- `ServerAcceptError`: the accept loop ends on every error, not only on EAGAIN, with
  an edge-triggered listening socket. The connections behind the failed one stay in
  the queue until another client connects.
- `LogInterrupted`: a reopen signal between the load of `ms_errlog.fd` and the
  `write()` moves the line to the access log, whose new descriptor has the number
  the error log has just freed; or the line is lost, when the number is closed.
  `NoLineToClient` shows that it gets no worse: the program opens no client between
  the two, and a handler that is interrupted is still run before the program.
- `MasterStop`: SIGQUIT comes between the `fork()` of the first worker and the
  assignment of its pid. The master's handler calls `kill(0, SIGUSR2)` for the entries
  that are still 0, and the signal is about to run the exit handler in a worker that
  has not created its loop: it writes through a null pointer.
- `MemPoolOverrun`: in a pool whose size is not a multiple of 16 the aligned address
  can lie behind the end of the block, and the unsigned difference then passes the
  test for enough memory. The theorems `PoolInside` and `PoolApart` show that an
  aligned size is all it takes.
- `ConfigAddress`: `check_ipv4()` looks at the first four parts and not at what comes
  after them, so the program starts with 1.2.3.4.5 for its address, against the comment
  in the function and the one in `test.conf`. `inet_addr()` (`ms_socket.c:335`) then
  finds it invalid, a result that is not tested. `Verdict` shows that this is all: no
  other text that is not valid is taken, and no valid one refused.

Read on the way, and not the subject of a run: README.md:98 promises the cut-off above
`MS_MAX_BUF_SIZE - 1`, `ms_server.c` cuts off at it (lines 182 and 195); two starts that overlap can
both pass the check of the pid file (`SingleInstance`), and `SO_REUSEPORT` lets both
listen; `timer_process()` compares keys without the regard for overflow that the tree
has, which matters where `uintptr_t` has 32 bits; the signal of `MasterStop` reaches the
master as well, which is in the group and has no loop (`MasterStops`; `ExitCompletes`
shows that the instance still ends, if not as it should); a worker that is signalled
after it has destroyed its loop writes into freed memory (`WorkerStops`); `check_file()`
does not close what it opens; `ms_eventloop_create()` uses the tree before it tests it for NULL
(line 93); the hour of the log's time stamps is the hour of GMT plus 8, with no carry
into the date (`ms_time.c:130`).

## Proofs

All theorems are for every value of the constants that the modules' assumptions allow.

`ServerProofs`: type correctness, `Registration`, `NoStaleEvent`, `TimerOwnership`,
`Deadlined`, `NoLeakAtExit`, `NoLostEdge`, `OversleepBounded`, for any set of descriptors
and timer nodes and any timeouts, limits and faults. The argument is the invariant
`IndInv` of `ServerProps`. `Registration` is not inductive by itself: that a handler
finds its connection open, with the mask of its direction, is `ControlInv`; that it
was called with an event of that connection is `BatchInv`, which also says that the
batch is empty when timers run, the reason why a timeout can close a connection
safely; and `TimerInv` says that the pointers in `conn` and the `data` of the nodes
are inverse to each other, and which pointer is null at which step. Each has a lemma
with one step per action. `NoLostEdge` and `OversleepBounded` are inductive relative to
`IndInv`; the second because between the reading of the clock and `epoll_wait()` a timer
comes nearer by no more than `lag` grows, and afterwards both count down together.

Also in `ServerProofs`: `PoolBounded`, if the slots are finite in number: a node is allocated
only when no free one is left, and then the running ones belong to other connections,
one to each (`OneTimerEach`), so that there is an injection into the slots. And
`ListenDrained`, if `accept()` fails for want of a connection only; the run
`ServerAcceptError` shows that the assumption is needed.

`ServerRefinement`: `Spec => KeepsPromise`. `PhaseIs` says what each connection is to
`ConnService`; a step of a handler that touches one connection only (`Others`) is an
`Enter` of it (`Entered`), and there is one lemma for each. All other steps change no
phase and no deadline, except time, which is `Tick`, and the end of the worker.

`MasterProofs`: `Reachable`, `WaitsForAll`, `ServeAlone` for any number of starts,
workers and signals and any faults, and that no two masters serve at the same time if
starts do not overlap (`MasterSingleInstance`). The invariant is `MasterInv`:
`Counted` (the wait loop's counter is the number of workers reaped), `Stages` (what
each place in `main()` says about the counters) and `Orderly` (of masters whose starts
do not overlap, one is starting, or one serves and is the one in the pid file, which
nobody but itself then writes). `WaitsForAll` follows from `Counted` by counting.

`MemPoolProofs`: for any set of request sizes and any bounds, if the size of the pool
is a multiple of 16, `Inside`, `Apart`, `GivenUp` and `LargeKept`. `Stacked` says
that grants of one block lie one behind the other below `last`; with an aligned size
the padding never leaves the block, which is where the assumption enters. `Aged` says
that from the current block on older blocks have refused at least as often, the
reason why the loop that moves `current` skips no block that was not tired.

`LogReopenProofs`: `LogsOpen`, `OnePerLog`, `NoLineToClient` and `RotationComplete`
for any number of descriptors and rotations. `LogInv` says that the contexts form a
stack over the program (`StackInv`), whose steps therefore cannot come in the middle
of a handler; who is open on what during a replacement (`TableInv`); and that every
descriptor the handler under way is done with is as new as the last signal asks
(`GenInv`), which is why signals that merge lose nothing: the later one is still
pending, or the handler has not opened that log yet. Each has a lemma, and steps that
touch no replacement share one (`Quiet`).

`RBTreeShape` and `RBTreeProofs`: for any finite set of nodes and any width of the keys,
`TypeOK`, `Linked`, `Ordered`, `NoTwoReds`, `EvenPaths`, `Walk`, `LoopsClimb` and
`KeepsTimers`. The assumption on the constants is that of the comment in the code: timers
in the tree are less than half the range of the clock apart.

- The invariant, `IInv`. The properties name the nodes below and above a node, which
  are recursions over the tree; what they add up to after a rotation cannot be
  computed by the prover. The invariant says instead that *there is* a description of
  the tree: a map `B` from each node to the set of nodes of its subtree (`Describes`:
  a node and the sets of its two children, which share nothing), and a number `h` of
  each node, the blacks on any path down from it (`Even`). Each primitive of the code
  has a lemma that gives the new `B` (`Turned`, `Grown`, `Without`, `Swapped`) and `h`.
  That `B` is what `Below` computes (`BelowIs` and its like) is proved once, by choosing
  least elements of finite sets instead of by induction.
- The one defect. Between two passes the tree is a red-black tree but for one thing,
  which `Colours` and `At` name by the node of the loop: two reds at `cur`, or one
  black too few below the side of `cur`. `NoTwoReds` and `EvenPaths` alone are not
  inductive: that `cur` of an insertion is red and in the tree, that the sibling of
  a `cur` short of a black is a node and never the sentinel (`SiblingIs`), and that a
  red one leaves a black one in its place (`RedSiblingGone`), come from `Sound` as a whole. One lemma per branch of the loops
  (`RecolourSound`, `RebalanceSound`, `MendSound`) shows that the defect is gone or has moved.
- The order. `InWindow` says that every key is the clock plus a delay from `-MaxLate` to
  `MaxDelay`. On such keys the signed difference is an order (`WindowOrders`), which it
  is not on all numbers, and it stays one when the clock overflows (`TickWindow`).
- `KeepsTimers`. A pass of a loop must not change what `ms_rbtree_min()` returns, also
  where keys are equal. The lemmas on passes hold for any numbers in place of keys
  that order the tree, so they are used a second time with the rank that only tells
  the first node from the others (`RankSound`): it is still first.
- `LoopsClimb`. The lemma of each branch also says where its loop goes on: at the
  grandparent or the parent, and then no pointer has changed (`SameAbove`), or nowhere.
- `Walk`. The next node up is the least of the right subtree, or the node at which the
  climb turns right (`NeighbourIs`); `Follows` is symmetric, so down undoes up.

`IInv` itself speaks of maps from nodes to sets of nodes, far too many for TLC to
choose from. What it implies, which is all that is seen of it from outside, is the
invariants of the run `RBTree`.

`ConfigProofs`: `Verdict` (the program starts on exactly the files that are
`NearlyWellFormed`, with the values they give), for any finite table, any number of lines of any length, any
size of the buffer and any sets of paths that can be opened.

- Lines. `Cut` says where a run of symbols that `strspn()` or `strcspn()` counts ends,
  and there is one such place (`CutOnce`). `LineIs` gives the five places at which the
  parser cuts a line; `SaysOf` and `SaysIs` show that a line says of item `k` exactly
  the text between the last two of them, if its key is `k`.
- Numbers. `Counts` lists the numbers of the prefixes of a text of digits. That the
  first digit that differs decides (`FirstDecides`), and that a number is 0 only if all
  its digits are, is shown with `Upwards`, induction over an interval with a set in place
  of a predicate. So `atoi(text) <= limit` is the comparison of `NotAbove`, which looks
  at the digits only (`NotAboveIs`), and `TooBig` the test for more than 31 bits
  (`NumIs`). `Ipv4Is` follows the loop of `check_ipv4()` from dot to dot (`PartTaken`).
  `FourPartsAre` says what it has seen after four of them, which is an address or the
  beginning of a long one. `ValidIs` puts the check functions together.
- The invariant, `ConfigInv`. Neither half of `Verdict` is inductive, for it says nothing
  of a file half read. As long as `error` is 0, every line read was good and each value
  in the table is empty, when no line read so far gave it, or the copy of what the only
  such line says (`Filled`). An error means that the file is not even `NearlyWellFormed`, whatever
  follows: a bad line stays one (`NotGood`), a second line for an item stays a second
  (`Twice`), and an item that no line of the whole file gives is missing (`Never`). The
  test for missing items is left out after an error, which the invariant shows to be
  harmless: the file is rejected already.

The provers cannot use the induction theorems of the library, whose parameter is an
operator. `RBTreeShape` and `ConfigProofs` choose the least element of a set instead, and
`Number` is a recursive function rather than a fold for the same reason.

Every invariant that a run checks is a theorem. Only model-checked are the liveness
properties `NeverStuck`, `StopObeyed`, `BacklogServed`, `ClientHeard`, `RotationTakes`
and `ExitCompletes`: liveness under fairness is beyond the provers.

## Not modelled

- `ms_str.c`: bounded formatting without state. `Server` keeps of it what the handlers
  rely on, that the length of what is written never exceeds the limit.
- How a log line is put together, its time stamp and level filter; `ms_errno.c`,
  `ms_time.c` apart from being the clock of `EventLoop`, and `ms_rlimit.c`: wrappers
  of single calls, which appear as one fault of start-up where they may fail.
- The functions of `ms_socket.c` that the program does not call (clients, UDP), and
  the options of the sockets beyond their success.
- Handlers that change `errno` under the code they interrupt: the models take the value
  a call leaves for what the caller reads.
- A wall clock that jumps, and endless arrivals of clients (see the hazards).
- Scripts and build files.

What could come next: pids that are reused, and liveness with a descriptor that serves
several clients.
