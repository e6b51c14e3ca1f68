----------------------------- MODULE EventLoop -----------------------------
(***************************************************************************)
(* The event loop of ms_eventloop.c, with the epoll instance it drives.    *)
(*                                                                         *)
(* One loop owns a table files[] indexed by file descriptor, a red-black   *)
(* tree of running timers, a free list of timer nodes to reuse, and an     *)
(* epoll instance.  Its thread repeats: compute a timeout, epoll_wait(),   *)
(* run the handlers of the harvested events, run the timers that are due.  *)
(* The handlers themselves belong to the user of the loop (module Server). *)
(*                                                                         *)
(* Time is relative: left[t] is key - now of timer t, cut off at 0, the    *)
(* point from which "key <= now" holds; Tick is one unit of time.  Timers  *)
(* that are due are therefore not ordered among each other.  Time may pass *)
(* between any two steps of the loop, so the timeout it has computed may   *)
(* be too long by the time it enters epoll_wait().  The free list is a     *)
(* set: which free node is reused first is not observable.                 *)
(***************************************************************************)
EXTENDS Integers

CONSTANTS
    Slots,             \* descriptors a client can get below evlop->size
    Listen,            \* the listening descriptor
    Timers,            \* timer nodes the memory pool can provide
    MaxEpollTimeout,   \* maxtimeout, here cycle->max_epwt_timeout; none if negative
    TimersPerRound,    \* MS_MAX_PROCE_TIMEOUT_EVENTS_PER_LOOP + 2: the limit is
                       \* compared with the count before its increment, by ">"
    Faults             \* what may fail: "accept", "setup", "alloc", "ctl"

ASSUME ListenAssumption == Listen \notin Slots
ASSUME TimeoutAssumption == MaxEpollTimeout \in Int /\ TimersPerRound \in Nat \ {0}
ASSUME FaultAssumption == Faults \subseteq {"accept", "setup", "alloc", "ctl"}

Files == Slots \cup {Listen}

VARIABLES
    pc,        \* where the thread of the loop is
    mask,      \* evlop->files[f].mask
    interest,  \* what the kernel watches descriptor f for
    ready,     \* the kernel's list of descriptors with an edge to report
    batch,     \* evlop->events: the harvested events not dispatched yet
    tree,      \* evlop->timer->tree: the running timers
    free,      \* evlop->free: the nodes kept for reuse
    used,      \* the nodes allocated from the pool so far
    left,      \* time until timer t is due
    owner,     \* timer->data: the connection timer t was started for
    wake,      \* the timeout computed for epoll_wait(); once it is under way, the
               \* time until it gives up; -1 for never, else 0
    lag,       \* history: time passed since the clock was read for wake and until
               \* epoll_wait() was entered, counted up to wake, else 0
    fired,     \* timers run by the ms_eventloop_timer_process() under way, else 0
    stop       \* evlop->stop

files  == <<mask, interest, ready>>
timers == <<tree, free, used, left, owner>>
loop   == <<wake, lag, fired, stop>>

Events == {"IN", "OUT"}
NoEvents == [f \in Files |-> {}]

Control == {"boot", "check", "arm", "enter", "wait", "dispatch", "timers", "destroy", "exited",
            "accept", "register", "read", "reply", "write", "rearm", "close"}

LoopTypeOK ==
    /\ pc \in Control
    /\ mask \in [Files -> SUBSET Events]
    /\ interest \in [Files -> SUBSET Events]
    /\ ready \subseteq Files
    /\ batch \in [Files -> SUBSET Events]
    /\ tree \subseteq Timers
    /\ free \subseteq Timers
    /\ used \subseteq Timers
    /\ left \in [Timers -> Nat]
    /\ owner \in [Timers -> Files]
    /\ wake \in Nat \cup {-1}
    /\ lag \in Nat
    /\ fired \in Nat
    /\ stop \in BOOLEAN

LoopInit ==
    /\ pc = "boot"
    /\ mask = NoEvents
    /\ interest = NoEvents
    /\ ready = {}
    /\ batch = NoEvents
    /\ tree = {}
    /\ free = {}
    /\ used = {}
    /\ left = [t \in Timers |-> 0]
    /\ owner = [t \in Timers |-> Listen]
    /\ wake = 0
    /\ lag = 0
    /\ fired = 0
    /\ stop = FALSE
-----------------------------------------------------------------------------
(* Descriptors.  "now" is the set of events descriptor f is ready for.     *)

\* epoll_ctl(ADD or MOD) that succeeds: an event that is already there is an
\* edge; an older entry of the ready list stays and is looked at again later.
Watch(f, events, now) ==
    /\ mask' = [mask EXCEPT ![f] = events]
    /\ interest' = [interest EXCEPT ![f] = events]
    /\ ready' = IF events \cap now # {} THEN ready \cup {f} ELSE ready

\* ms_eventloop_file_add()
FileAdd(f, events, now) == Watch(f, mask[f] \cup events, now)

\* ms_eventloop_file_mod()
FileMod(f, events, now) == Watch(f, events, now)

\* Seeded fault for FileDel: the kernel forgets f, files[f].mask does not.
FileDelKeepsMask(f) ==
    /\ UNCHANGED mask
    /\ interest' = [interest EXCEPT ![f] = {}]
    /\ ready' = ready \ {f}

\* ms_eventloop_file_del(MS_EVENTLOOP_ALL), which the callers follow by close(f)
FileDel(f) ==
    /\ mask' = [mask EXCEPT ![f] = {}]
    /\ interest' = [interest EXCEPT ![f] = {}]
    /\ ready' = ready \ {f}

\* The kernel reports an edge on f: it counts if it is one f is watched for.
Edge(f, events) ==
    ready' = IF interest[f] \cap events # {} THEN ready \cup {f} ELSE ready
-----------------------------------------------------------------------------
(* Timers.                                                                 *)

\* The node timer_add() takes: off the free list, or else a new one.
NextNode(t) == IF free # {} THEN t \in free ELSE t \in Timers \ used

\* ms_eventloop_timer_add() that succeeds with node t
TimerAdd(t, ms, f) ==
    /\ NextNode(t)
    /\ tree' = tree \cup {t}
    /\ free' = free \ {t}
    /\ used' = used \cup {t}
    /\ left' = [left EXCEPT ![t] = ms]
    /\ owner' = [owner EXCEPT ![t] = f]

\* The pool has no memory for a new node.
TimerAddFails == "alloc" \in Faults /\ free = {}

\* Seeded fault for TimerDel: the node is not put on the free list.
TimerDelLeaks(T) ==
    /\ tree' = tree \ T
    /\ left' = [t \in Timers |-> IF t \in T THEN 0 ELSE left[t]]
    /\ owner' = [t \in Timers |-> IF t \in T THEN Listen ELSE owner[t]]
    /\ UNCHANGED <<free, used>>

\* ms_eventloop_timer_del() on each node of T.  The key and the data of a node
\* are dead from here to its next timer_add(): the model forgets them.
TimerDel(T) ==
    /\ tree' = tree \ T
    /\ free' = free \cup T
    /\ left' = [t \in Timers |-> IF t \in T THEN 0 ELSE left[t]]
    /\ owner' = [t \in Timers |-> IF t \in T THEN Listen ELSE owner[t]]
    /\ UNCHANGED used

\* Seeded fault for Due: off by one, "key <= now + 1".
DueEarly == {t \in tree : left[t] <= 1}

\* key <= now
Due == {t \in tree : left[t] = 0}
-----------------------------------------------------------------------------
(* The loop of ms_eventloop_main().                                        *)

\* while (!evlop->stop)
CheckStop ==
    /\ pc = "check"
    /\ pc' = IF stop THEN "destroy" ELSE "arm"
    /\ UNCHANGED <<files, batch, timers, loop>>

\* The times epoll_wait() may not sleep past, if there are any.
Timeouts == {left[t] : t \in tree} \cup ({MaxEpollTimeout} \cap Nat)

\* Seeded fault for SetTimeout: the timers are not looked at.
SetTimeoutBlind ==
    /\ pc = "arm"
    /\ pc' = "enter"
    /\ wake' = MaxEpollTimeout
    /\ UNCHANGED <<files, batch, timers, lag, fired, stop>>

\* The clock is read and the timeout computed: to the earliest timer or the
\* maximum, whichever is nearer; for ever without either.
SetTimeout ==
    /\ pc = "arm"
    /\ pc' = "enter"
    /\ \/ Timeouts = {} /\ wake' = -1
       \/ \E w \in Timeouts : wake' = w /\ \A x \in Timeouts : w <= x
    /\ UNCHANGED <<files, batch, timers, lag, fired, stop>>

\* After the line in the log: epoll_wait() begins to count.
EnterWait ==
    /\ pc = "enter"
    /\ pc' = "wait"
    /\ UNCHANGED <<files, batch, timers, loop>>

\* Descriptors of the ready list whose event is still true.
Reportable(now) == {f \in ready : interest[f] \cap now[f] # {}}

\* epoll_wait() moves the ready list into evlop->events.  It leaves out what is
\* not true any more, and goes on waiting if nothing is left.
Harvest(now) ==
    /\ pc = "wait"
    /\ ready # {}
    /\ ready' = {}
    /\ IF Reportable(now) = {}
          THEN UNCHANGED <<pc, batch, wake, lag>>
          ELSE /\ pc' = "dispatch"
               /\ batch' = [f \in Files |-> IF f \in ready THEN interest[f] \cap now[f] ELSE {}]
               /\ wake' = 0 /\ lag' = 0
    /\ UNCHANGED <<mask, interest, timers, fired, stop>>

\* Seeded fault for WaitTimesOut: with no timer running epoll_wait() blocks for
\* ever, as it would with max_epwt_timeout < 0.
WaitForEver ==
    /\ pc = "wait"
    /\ ready = {}
    /\ wake = 0 /\ tree # {}
    /\ pc' = "timers"
    /\ lag' = 0
    /\ UNCHANGED <<files, batch, timers, wake, fired, stop>>

\* epoll_wait() returns 0
WaitTimesOut ==
    /\ pc = "wait"
    /\ ready = {}
    /\ wake = 0
    /\ pc' = "timers"
    /\ lag' = 0
    /\ UNCHANGED <<files, batch, timers, wake, fired, stop>>

\* A signal handler returns: epoll_wait() fails with EINTR, unless there are
\* events to return; nowhere else does it divert the loop.
Interrupted(now) ==
    IF pc = "wait" /\ Reportable(now) = {}
      THEN pc' = "timers" /\ wake' = 0 /\ lag' = 0
      ELSE UNCHANGED <<pc, wake, lag>>

\* if (file->mask & mask & EPOLLIN) ... if (file->mask & mask & EPOLLOUT):
\* the event whose handler runs next, for a descriptor of the batch
Runs(f, event) ==
    /\ pc = "dispatch"
    /\ event \in batch[f] \cap mask[f]
    /\ event = "OUT" => "IN" \notin batch[f] \cap mask[f]
    /\ batch' = [batch EXCEPT ![f] = @ \ {event}]

\* The batch is done; an event f is no longer registered for is passed over.
DispatchDone ==
    /\ pc = "dispatch"
    /\ \A f \in Files : batch[f] \cap mask[f] = {}
    /\ batch' = NoEvents
    /\ pc' = "timers"
    /\ UNCHANGED <<files, timers, loop>>

\* Seeded fault for TimerFires: due timers run among the events, not after them.
TimerFiresInBatch(t) ==
    /\ pc = "dispatch"
    /\ t \in Due
    /\ TimerDel({t})
    /\ UNCHANGED <<pc, batch, wake, lag, fired, stop>>

\* One round of ms_eventloop_timer_process(): the node goes to the free list
\* before its handler runs.  TimersPerRound of them end the pass: what is due
\* and left over waits for the next.
TimerFires(t) ==
    /\ pc = "timers"
    /\ t \in Due
    /\ TimerDel({t})
    /\ IF fired + 1 >= TimersPerRound
          THEN pc' = "check" /\ fired' = 0
          ELSE pc' = "timers" /\ fired' = fired + 1
    /\ UNCHANGED <<batch, wake, lag, stop>>

TimersDone ==
    /\ pc = "timers"
    /\ Due = {}
    /\ pc' = "check"
    /\ fired' = 0
    /\ UNCHANGED <<files, batch, timers, wake, lag, stop>>

\* ms_eventloop_stop()
Stop == stop' = TRUE

\* ms_eventloop_destory(): closes what is registered, frees the pool.
Destroy ==
    /\ pc = "destroy"
    /\ pc' = "exited"
    /\ mask' = NoEvents
    /\ interest' = NoEvents
    /\ ready' = {}
    /\ batch' = NoEvents
    /\ tree' = {}
    /\ free' = {}
    /\ used' = {}
    /\ left' = [t \in Timers |-> 0]
    /\ owner' = [t \in Timers |-> Listen]
    /\ UNCHANGED loop

\* One unit of time, for the timers and for the epoll_wait() under way.  Before
\* that one is entered, the timeout computed for it does not shrink.
Tick ==
    /\ left' = [t \in Timers |-> IF t \in tree /\ left[t] > 0 THEN left[t] - 1 ELSE left[t]]
    /\ wake' = IF pc = "wait" /\ wake > 0 THEN wake - 1 ELSE wake
    /\ lag' = IF pc = "enter" /\ lag < wake THEN lag + 1 ELSE lag
    /\ UNCHANGED <<pc, files, batch, tree, free, used, owner, fired, stop>>
=============================================================================
