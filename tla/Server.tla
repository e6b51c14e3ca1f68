------------------------------- MODULE Server -------------------------------
(***************************************************************************)
(* One worker process: the handlers of ms_server.c and the timeout and     *)
(* request handlers of ms_server_test.c, run by the loop of EventLoop,     *)
(* with the clients, the kernel's sockets and the other workers around it. *)
(*                                                                         *)
(* A handler is split where it calls into the kernel, so that a client can *)
(* act between its read() and its epoll_ctl(), as it can in the program.   *)
(* Sizes are in units: Limit stands for MS_MAX_BUF_SIZE - 1, the most one  *)
(* read() asks for, Head for the header proce_handler puts in front.       *)
(***************************************************************************)
EXTENDS EventLoop

CONSTANTS
    NULL,         \* the null pointer
    ReadTimeout,  \* cycle->max_read_timeout, 0 for none
    SendTimeout,  \* cycle->max_send_timeout, 0 for none
    Limit,        \* conn->buffsize - 1
    Head,         \* length of http_head as printed
    Backlog,      \* bound: connections waiting at a time
    Clients       \* bound: connections in all

ASSUME NullAssumption == NULL \notin Timers
ASSUME PeriodAssumption == ReadTimeout \in Nat /\ SendTimeout \in Nat
ASSUME SizeAssumption == Limit \in Nat \ {0} /\ Head \in Nat \ {0}
ASSUME ClientAssumption == Backlog \in Nat /\ Clients \in Nat

VARIABLES
    cur,      \* the descriptor whose handler is running, else Listen
    rtimer,   \* conn->rtimeout_timer
    stimer,   \* conn->stimeout_timer
    open,     \* client descriptors the worker has open
    backlog,  \* connections waiting for accept()
    clients,  \* connections made so far
    rx,       \* received by the kernel and not read yet
    fin,      \* the client has shut down its side
    err,      \* the connection is reset
    full      \* no room to send: the client does not read

conns   == <<rtimer, stimer, open>>
sockets == <<rx, fin, err, full>>
arrival == <<backlog, clients>>
vars == <<pc, files, batch, timers, loop, cur, conns, sockets, arrival>>

TypeOK ==
    /\ LoopTypeOK
    /\ cur \in Files
    /\ rtimer \in [Slots -> Timers \cup {NULL}]
    /\ stimer \in [Slots -> Timers \cup {NULL}]
    /\ open \subseteq Slots
    /\ backlog \in Nat
    /\ clients \in Nat
    /\ rx \in [Slots -> Nat]
    /\ fin \subseteq Slots
    /\ err \subseteq Slots
    /\ full \subseteq Slots

Init ==
    /\ LoopInit
    /\ cur = Listen
    /\ rtimer = [s \in Slots |-> NULL]
    /\ stimer = [s \in Slots |-> NULL]
    /\ open = {}
    /\ backlog = 0
    /\ clients = 0
    /\ rx = [s \in Slots |-> 0]
    /\ fin = {}
    /\ err = {}
    /\ full = {}

\* What the kernel would report of descriptor f; a reset is reported as both.
Readable(s) == rx[s] > 0 \/ s \in fin \/ s \in err
Writable(s) == s \notin full \/ s \in err
Pending == [f \in Files |->
    IF f = Listen
      THEN IF backlog > 0 THEN {"IN"} ELSE {}
      ELSE (IF Readable(f) THEN {"IN"} ELSE {}) \cup (IF Writable(f) THEN {"OUT"} ELSE {})]

\* close(s): the kernel drops the socket with all that is queued in it.
CloseSocket(s) ==
    /\ open' = open \ {s}
    /\ rx' = [rx EXCEPT ![s] = 0]
    /\ fin' = fin \ {s}
    /\ err' = err \ {s}
    /\ full' = full \ {s}

TimersOf(s) == {rtimer[s], stimer[s]} \ {NULL}

\* ms_server_conn_close()
ConnClose(s) ==
    /\ TimerDel(TimersOf(s))
    /\ rtimer' = [rtimer EXCEPT ![s] = NULL]
    /\ stimer' = [stimer EXCEPT ![s] = NULL]
    /\ FileDel(s)
    /\ CloseSocket(s)

Return(to) == pc' = to /\ cur' = Listen
-----------------------------------------------------------------------------
(* The worker.                                                             *)

\* ms_server_worker_cycle() up to ms_eventloop_main().  If the listening socket
\* cannot be registered the loop is destroyed, if it cannot be created the
\* worker is done.
Boot ==
    /\ pc = "boot"
    /\ \/ /\ FileAdd(Listen, {"IN"}, Pending[Listen])
          /\ pc' = "check"
       \/ /\ "ctl" \in Faults
          /\ pc' = "destroy"
          /\ UNCHANGED files
       \/ /\ "alloc" \in Faults
          /\ pc' = "exited"
          /\ UNCHANGED files
    /\ UNCHANGED <<batch, timers, loop, cur, conns, sockets, arrival>>

\* The loop calls the handler registered for an event.
CallAccept ==
    /\ Runs(Listen, "IN")
    /\ pc' = "accept"
    /\ UNCHANGED <<files, timers, loop, cur, conns, sockets, arrival>>

CallRead(s) ==
    /\ Runs(s, "IN")
    /\ pc' = "read"
    /\ cur' = s
    /\ UNCHANGED <<files, timers, loop, conns, sockets, arrival>>

CallWrite(s) ==
    /\ Runs(s, "OUT")
    /\ pc' = "write"
    /\ cur' = s
    /\ UNCHANGED <<files, timers, loop, conns, sockets, arrival>>

\* accept() finds nothing, or fails: the handler returns.  A connection that
\* was aborted is gone then; one there was no descriptor for is still waiting.
AcceptEnds ==
    /\ pc = "accept"
    /\ \/ backlog = 0 /\ UNCHANGED backlog
       \/ backlog > 0 /\ "accept" \in Faults /\ backlog' \in {backlog, backlog - 1}
    /\ Return("dispatch")
    /\ UNCHANGED <<files, batch, timers, loop, conns, sockets, clients>>

\* Seeded fault for AcceptRejects: break instead of continue.
AcceptRejectsEnds ==
    /\ pc = "accept"
    /\ backlog > 0
    /\ open = Slots \/ "setup" \in Faults
    /\ backlog' = backlog - 1
    /\ Return("dispatch")
    /\ UNCHANGED <<files, batch, timers, loop, conns, sockets, clients>>

\* The connection is closed at once: its descriptor is not below evlop->size,
\* or it cannot be made non-blocking, tcpnodelay or keepalive.
AcceptRejects ==
    /\ pc = "accept"
    /\ backlog > 0
    /\ open = Slots \/ "setup" \in Faults
    /\ backlog' = backlog - 1
    /\ UNCHANGED <<pc, files, batch, timers, loop, cur, conns, sockets, clients>>

\* Seeded fault for Accept: conn is not wiped.
AcceptKeepsConn(s) ==
    /\ pc = "accept"
    /\ backlog > 0
    /\ s \notin open
    /\ backlog' = backlog - 1
    /\ open' = open \cup {s}
    /\ pc' = "register"
    /\ cur' = s
    /\ UNCHANGED <<files, batch, timers, loop, rtimer, stimer, sockets, clients>>

\* The conn of the descriptor is wiped and set up for the new connection.
Accept(s) ==
    /\ pc = "accept"
    /\ backlog > 0
    /\ s \notin open
    /\ backlog' = backlog - 1
    /\ open' = open \cup {s}
    /\ rtimer' = [rtimer EXCEPT ![s] = NULL]
    /\ stimer' = [stimer EXCEPT ![s] = NULL]
    /\ pc' = "register"
    /\ cur' = s
    /\ UNCHANGED <<files, batch, timers, loop, sockets, clients>>

\* Start the timer of s with the given timeout, if there is one.
StartTimer(s, ms, ptr) ==
    IF ms > 0
      THEN \E t \in Timers : TimerAdd(t, ms, s) /\ ptr' = [ptr EXCEPT ![s] = t]
      ELSE UNCHANGED <<timers, ptr>>

\* accept handler, second part: the read timer, then the registration
Register(s) ==
    /\ pc = "register" /\ cur = s
    /\ StartTimer(s, ReadTimeout, rtimer)
    /\ FileAdd(s, {"IN"}, Pending[s])
    /\ Return("accept")
    /\ UNCHANGED <<batch, loop, stimer, open, sockets, arrival>>

\* Seeded fault for RegisterNoTimer: the descriptor is not closed.
RegisterNoTimerLeaks(s) ==
    /\ pc = "register" /\ cur = s
    /\ ReadTimeout > 0 /\ TimerAddFails
    /\ Return("accept")
    /\ UNCHANGED <<files, batch, timers, loop, conns, sockets, arrival>>

\* No memory for the timer: the descriptor is closed, conn is left as it is.
RegisterNoTimer(s) ==
    /\ pc = "register" /\ cur = s
    /\ ReadTimeout > 0 /\ TimerAddFails
    /\ CloseSocket(s)
    /\ Return("accept")
    /\ UNCHANGED <<files, batch, timers, loop, rtimer, stimer, arrival>>

\* file_add() fails: on to conn_close(), which takes the timer back.
RegisterNoFile(s) ==
    /\ pc = "register" /\ cur = s
    /\ "ctl" \in Faults
    /\ StartTimer(s, ReadTimeout, rtimer)
    /\ pc' = "close"
    /\ UNCHANGED <<files, batch, loop, cur, stimer, open, sockets, arrival>>

\* Seeded fault for Read: after one short read() the handler waits for the
\* next event, although it has not read up to EAGAIN.
ReadOnce(s) ==
    /\ pc = "read" /\ cur = s
    /\ TimerDel({rtimer[s]} \ {NULL})
    /\ rtimer' = [rtimer EXCEPT ![s] = NULL]
    /\ \/ /\ rx[s] > 1 /\ s \notin err
          /\ rx' = [rx EXCEPT ![s] = @ - 1]
          /\ Return("dispatch")
       \/ /\ rx[s] <= 1 \/ s \in err
          /\ pc' = "close"
          /\ UNCHANGED <<rx, cur>>
    /\ UNCHANGED <<files, batch, loop, stimer, open, fin, err, full, arrival>>

\* readable handler, first part: stop the read timer, read, have the request
\* answered.  proce_handler echoes up to the first NUL: e of the n units.
Read(s) ==
    /\ pc = "read" /\ cur = s
    /\ TimerDel({rtimer[s]} \ {NULL})
    /\ rtimer' = [rtimer EXCEPT ![s] = NULL]
    /\ LET n == IF s \in err THEN 0 ELSE rx[s] IN
       \/ /\ n > 0 /\ n < Limit
          /\ \E e \in 0..n : Head + e < Limit
          /\ pc' = "reply"
          /\ rx' = [rx EXCEPT ![s] = 0]
       \/ /\ n = 0 \/ n >= Limit \/ \E e \in 0..n : Head + e >= Limit
          /\ pc' = "close"
          /\ UNCHANGED rx
    /\ UNCHANGED <<files, batch, loop, cur, stimer, open, fin, err, full, arrival>>

\* Seeded fault for Reply: the send timer is not started.
ReplyUntimed(s) ==
    /\ pc = "reply" /\ cur = s
    /\ FileMod(s, {"OUT"}, Pending[s])
    /\ Return("dispatch")
    /\ UNCHANGED <<batch, timers, loop, conns, sockets, arrival>>

\* readable handler, second part: wait for room to send
Reply(s) ==
    /\ pc = "reply" /\ cur = s
    /\ FileMod(s, {"OUT"}, Pending[s])
    /\ \/ /\ StartTimer(s, SendTimeout, stimer)
          /\ Return("dispatch")
       \/ /\ SendTimeout > 0 /\ TimerAddFails
          /\ pc' = "close"
          /\ UNCHANGED <<timers, stimer, cur>>
    /\ UNCHANGED <<batch, loop, rtimer, open, sockets, arrival>>

\* writeable handler, first part: stop the send timer, send; a short write
\* is not continued
Write(s) ==
    /\ pc = "write" /\ cur = s
    /\ TimerDel({stimer[s]} \ {NULL})
    /\ stimer' = [stimer EXCEPT ![s] = NULL]
    /\ \/ /\ s \notin full \cup err
          /\ pc' = "rearm"
          /\ full' \in {full, full \cup {s}}
       \/ /\ pc' = "close"
          /\ UNCHANGED full
    /\ UNCHANGED <<files, batch, loop, cur, rtimer, open, rx, fin, err, arrival>>

\* Seeded fault for Rearm: the read timer is not started again.
RearmUntimed(s) ==
    /\ pc = "rearm" /\ cur = s
    /\ FileMod(s, {"IN"}, Pending[s])
    /\ Return("dispatch")
    /\ UNCHANGED <<batch, timers, loop, conns, sockets, arrival>>

\* writeable handler, second part: wait for the next request
Rearm(s) ==
    /\ pc = "rearm" /\ cur = s
    /\ FileMod(s, {"IN"}, Pending[s])
    /\ \/ /\ StartTimer(s, ReadTimeout, rtimer)
          /\ Return("dispatch")
       \/ /\ ReadTimeout > 0 /\ TimerAddFails
          /\ pc' = "close"
          /\ UNCHANGED <<timers, rtimer, cur>>
    /\ UNCHANGED <<batch, loop, stimer, open, sockets, arrival>>

\* file_mod() fails in either handler
ModFails(s) ==
    /\ pc \in {"reply", "rearm"} /\ cur = s
    /\ "ctl" \in Faults
    /\ pc' = "close"
    /\ UNCHANGED <<files, batch, timers, loop, cur, conns, sockets, arrival>>

\* end: of the two handlers, and the accept handler giving s up
Close(s) ==
    /\ pc = "close" /\ cur = s
    /\ ConnClose(s)
    /\ Return(IF mask[s] = {} THEN "accept" ELSE "dispatch")
    /\ UNCHANGED <<batch, loop, arrival>>

\* A timer is due: both timeout handlers close the connection and leave
\* the pointer in conn.
Timeout(t) ==
    /\ TimerFires(t)
    /\ FileDel(owner[t])
    /\ CloseSocket(owner[t])
    /\ UNCHANGED <<cur, rtimer, stimer, arrival>>

\* The rest of ms_server_worker_cycle()
Exit ==
    /\ Destroy
    /\ open' = {s \in open : mask[s] = {}}
    /\ rx' = [s \in Slots |-> IF s \in open' THEN rx[s] ELSE 0]
    /\ fin' = fin \cap open'
    /\ err' = err \cap open'
    /\ full' = full \cap open'
    /\ UNCHANGED <<cur, rtimer, stimer, arrival>>

HandlerUnchanged == UNCHANGED <<cur, conns, sockets, arrival>>

Loop ==
    /\ \/ CheckStop
       \/ SetTimeout
       \/ EnterWait
       \/ Harvest(Pending)
       \/ WaitTimesOut
       \/ DispatchDone
       \/ TimersDone
    /\ HandlerUnchanged

Handler(s) ==
    \/ CallRead(s) \/ CallWrite(s)
    \/ Accept(s) \/ Register(s) \/ RegisterNoTimer(s) \/ RegisterNoFile(s)
    \/ Read(s) \/ Reply(s)
    \/ Write(s) \/ Rearm(s)
    \/ ModFails(s) \/ Close(s)

Worker ==
    \/ Boot \/ Loop \/ Exit
    \/ CallAccept \/ AcceptEnds \/ AcceptRejects
    \/ \E s \in Slots : Handler(s)
    \/ \E t \in Timers : Timeout(t)
-----------------------------------------------------------------------------
(* Everything else: clients, other workers, signals, time.                 *)

\* A client connects.
Connect ==
    /\ backlog < Backlog /\ clients < Clients
    /\ backlog' = backlog + 1
    /\ clients' = clients + 1
    /\ Edge(Listen, {"IN"})
    /\ UNCHANGED <<pc, mask, interest, batch, timers, loop, cur, conns, sockets>>

\* Another worker, which shares the listening socket, accepts a connection.
Stolen ==
    /\ backlog > 0
    /\ backlog' = backlog - 1
    /\ UNCHANGED <<pc, files, batch, timers, loop, cur, conns, sockets, clients>>

\* A client sends a part of a request, or a whole one; Limit is "too much".
Send(s) ==
    /\ s \in open \ (fin \cup err)
    /\ \E n \in (rx[s] + 1)..Limit : rx' = [rx EXCEPT ![s] = n]
    /\ Edge(s, {"IN"})
    /\ UNCHANGED <<pc, mask, interest, batch, timers, loop, cur, conns, fin, err, full, arrival>>

\* A client shuts down its side.
ShutDown(s) ==
    /\ s \in open \ (fin \cup err)
    /\ fin' = fin \cup {s}
    /\ Edge(s, {"IN"})
    /\ UNCHANGED <<pc, mask, interest, batch, timers, loop, cur, conns, rx, err, full, arrival>>

\* A connection is reset; what was received is lost.
Reset(s) ==
    /\ s \in open \ err
    /\ err' = err \cup {s}
    /\ rx' = [rx EXCEPT ![s] = 0]
    /\ Edge(s, Events)
    /\ UNCHANGED <<pc, mask, interest, batch, timers, loop, cur, conns, fin, full, arrival>>

\* A client reads what was sent to it.
Drain(s) ==
    /\ s \in full
    /\ full' = full \ {s}
    /\ Edge(s, {"OUT"})
    /\ UNCHANGED <<pc, mask, interest, batch, timers, loop, cur, conns, rx, fin, err, arrival>>

\* SIGUSR2 while the loop exists: worker_exit_signal_handler()
ExitSignal ==
    /\ pc \notin {"boot", "exited"}
    /\ Stop
    /\ Interrupted(Pending)
    /\ UNCHANGED <<files, batch, timers, fired, cur, conns, sockets, arrival>>

\* SIGUSR1: worker_reopen_signal_handler() touches no state of this module.
ReopenSignal ==
    /\ Interrupted(Pending)
    /\ UNCHANGED <<files, batch, timers, fired, stop, cur, conns, sockets, arrival>>

Time == Tick /\ HandlerUnchanged

Environment ==
    \/ Connect \/ Stolen
    \/ \E s \in Slots : Send(s) \/ ShutDown(s) \/ Reset(s) \/ Drain(s)
    \/ ExitSignal \/ ReopenSignal
    \/ Time

Next == Worker \/ Environment

Spec == Init /\ [][Next]_vars

\* The worker is one thread the kernel schedules.
FairSpec == Spec /\ WF_vars(Worker)

\* An assumption of the properties that rest on a timeout.
TimePasses == WF_vars(Time)
=============================================================================
