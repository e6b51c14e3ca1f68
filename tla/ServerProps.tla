----------------------------- MODULE ServerProps -----------------------------
(***************************************************************************)
(* What makes the worker of module Server correct.                         *)
(***************************************************************************)
EXTENDS Server, FiniteSets

\* The connection whose handler is between two of its steps.
InHandler(s) == cur = s

\* The fd table, the epoll instance and the open descriptors agree: files[].mask
\* is what epoll watches; a closed descriptor is not registered; an open one
\* is, for one direction, or else is just being accepted.  So close() never
\* leaves an entry behind for the next owner of the number, and no path of the
\* handlers leaks a descriptor that nothing watches.
Registration ==
    /\ mask = interest
    /\ \A s \in Slots \ open : mask[s] = {}
    /\ \A s \in Slots : mask[s] = {} => s \notin ready
    /\ \A s \in open :
          \/ mask[s] \in {{"IN"}, {"OUT"}}
          \/ mask[s] = {} /\ pc \in {"register", "close"} /\ InHandler(s)

\* A harvested event that still waits for its turn is of a connection that
\* is open and registered: descriptor numbers are reused at once, and an
\* event of the former owner must never reach the next one.
NoStaleEvent ==
    \A s \in Slots : batch[s] # {} => s \in open /\ batch[s] \cap mask[s] # {}

\* Running timers and the pointers in open connections match one to one, and
\* a node is never both running and free: no timer fires for a connection that
\* is gone or for the next one on its slot, none is deleted twice, although
\* the timeout handlers leave their pointer in conn.
TimerOwnership ==
    /\ tree \cap free = {}
    /\ \A t \in tree :
          /\ owner[t] \in open
          /\ t \in {rtimer[owner[t]], stimer[owner[t]]}
    /\ \A s \in open : TimersOf(s) \subseteq tree
    /\ \A s, r \in open : s # r => TimersOf(s) \cap TimersOf(r) = {}

\* A connection that waits for its client has the one timer of its direction
\* running, if that timeout is on: no client can hold a slot for ever.
Deadlined ==
    \A s \in open : ~InHandler(s) =>
        /\ (rtimer[s] # NULL) <=> (mask[s] = {"IN"} /\ ReadTimeout > 0)
        /\ (stimer[s] # NULL) <=> (mask[s] = {"OUT"} /\ SendTimeout > 0)

\* Edge-triggered epoll reports a change once.  Whenever a registered
\* connection could make progress, its event is on the ready list, in the
\* batch, or its handler is running: no interleaving of client and handler
\* loses the wake-up.
NoLostEdge ==
    \A s \in open :
        interest[s] \cap Pending[s] # {} => s \in ready \/ batch[s] # {} \/ InHandler(s)

\* The same of the listening socket: as long as connections wait, its event
\* is on its way, or the accept loop runs.
ListenDrained ==
    (interest[Listen] # {} /\ backlog > 0) =>
        \/ Listen \in ready
        \/ batch[Listen] # {}
        \/ pc \in {"accept", "register"}
        \/ pc = "close" /\ mask[cur] = {}

\* The loop sleeps past the earliest timer by no more than the time it was held up
\* between reading the clock and entering epoll_wait(), whatever clients, signals
\* and handlers did before; and with a timer running it never sleeps for ever.
OversleepBounded ==
    pc \in {"enter", "wait"} => \A t \in tree : wake \in 0 .. left[t] + lag

\* Every timer node the pool gave out is running or kept for reuse, and there
\* is never more than one per connection: however many requests a worker
\* serves, timers cost it no more memory than its table of connections.
PoolBounded ==
    /\ used = tree \cup free
    /\ Cardinality(used) <= Cardinality(Slots)

\* When the worker is gone it has closed every connection.
NoLeakAtExit == pc = "exited" => open = {}
-----------------------------------------------------------------------------
(* The inductive invariant behind the properties above: what each step of a *)
(* handler knows of the connection it works on, and when the batch is empty. *)

\* The steps of the handlers that work on connection cur
OnConnection == {"register", "read", "reply", "write", "rearm", "close"}

ControlInv ==
    /\ pc \in OnConnection => cur \in open
    /\ pc \notin OnConnection => cur = Listen
    /\ pc = "register" => mask[cur] = {}
    /\ pc \in {"read", "reply"} => mask[cur] = {"IN"}
    /\ pc \in {"write", "rearm"} => mask[cur] = {"OUT"}
    /\ pc \in {"boot", "exited"} => open = {}

BatchInv ==
    /\ \A s \in Slots : batch[s] \subseteq mask[s]
    /\ pc \in OnConnection => batch[cur] = {}
    /\ pc \notin OnConnection \cup {"dispatch", "accept"} => batch = NoEvents

TimerInv ==
    /\ used = tree \cup free
    /\ tree \cap free = {}
    /\ \A t \in tree : owner[t] \in open /\ t \in TimersOf(owner[t])
    /\ \A s \in open : \A t \in TimersOf(s) : t \in tree /\ owner[t] = s
    /\ Deadlined
    /\ pc = "register" => TimersOf(cur) = {}
    /\ pc \in {"read", "reply", "rearm"} => stimer[cur] = NULL
    /\ pc \in {"write", "reply", "rearm"} => rtimer[cur] = NULL

\* The inductive invariant: it implies Registration, NoStaleEvent,
\* TimerOwnership, Deadlined and NoLeakAtExit.
IndInv == TypeOK /\ ControlInv /\ Registration /\ BatchInv /\ TimerInv

-----------------------------------------------------------------------------
(* The promise of ConnService: the deadline of a connection is the timer    *)
(* its conn points to.                                                     *)

PhaseOf(s) ==
    CASE s \notin open                          -> "free"
      [] pc = "register" /\ cur = s             -> "opening"
      [] pc = "reply" /\ cur = s                -> "working"
      [] pc = "rearm" /\ cur = s                -> "resuming"
      [] pc = "close" /\ cur = s                -> "ending"
      [] OTHER -> IF mask[s] = {"IN"} THEN "reading" ELSE "replying"

ClockOf(s) ==
    CASE PhaseOf(s) = "reading"  /\ rtimer[s] # NULL -> left[rtimer[s]]
      [] PhaseOf(s) = "replying" /\ stimer[s] # NULL -> left[stimer[s]]
      [] OTHER -> 0

Abstract == INSTANCE ConnService WITH
    phase   <- [s \in Slots |-> PhaseOf(s)],
    clock   <- [s \in Slots |-> ClockOf(s)],
    serving <- pc # "exited"

\* The worker keeps the promise of ConnService: only its own deadline, in
\* full, closes a connection that is waited for.
KeepsPromise == Abstract!Spec
-----------------------------------------------------------------------------
(* Liveness: []<>~P says that P does not last for ever, as P ~> ~P does.     *)

\* No connection stays in a phase for ever if the timeout of that phase is on,
\* whatever the connections on the other slots do, and although a pass over the
\* due timers may leave some of them to the next.
Reading(s) == s \in open /\ mask[s] = {"IN"}
Replying(s) == s \in open /\ mask[s] = {"OUT"}
NeverStuck ==
    TimePasses => \A s \in Slots :
        /\ ReadTimeout > 0 => []<>~Reading(s)
        /\ SendTimeout > 0 => []<>~Replying(s)

\* What a client has sent, and its shutdown or reset, is noticed even if time
\* stands still: no timeout is needed to repair a lost wake-up.
ClientHeard == \A s \in Slots : []<>~(Reading(s) /\ Readable(s))

\* Waiting connections are accepted, without any timeout to help.
BacklogServed == []<>(pc \in {"boot", "exited"} \/ backlog = 0)

\* The exit signal ends the worker, even if it arrives between the test of
\* the flag and epoll_wait(), which then lasts as long as its timeout.
StopObeyed == TimePasses => []<>(~stop \/ pc = "exited")
=============================================================================
