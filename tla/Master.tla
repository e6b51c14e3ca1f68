------------------------------- MODULE Master -------------------------------
(***************************************************************************)
(* The program as processes: main() of ms_server_test.c with the pid file  *)
(* of ms_daemon.c, the signal set-up of ms_signal.c, and the signal        *)
(* handlers.  Every start of the program is a master with workers of its   *)
(* own; all use one configuration, so one pid file and one port.  The      *)
(* event loop of a worker is module Server: here it runs until stopped.    *)
(***************************************************************************)
EXTENDS Naturals, FiniteSets

CONSTANTS
    Starts,       \* how often the program is started
    Requests,     \* bound: signals the operator sends
    Configured,   \* the item "workers" of the configuration
    MaxWorkers,   \* MS_MAX_WORKERS
    OneAtATime,   \* an assumption: the operator waits for a start to be over
                  \* (the pid is recorded, or the program has ended)
    Faults        \* what may happen: calls that fail ("listen", "daemon",
                  \* "pidfile", "fork", "loop"), processes killed ("kill")

ASSUME BoundAssumption == Starts \in Nat /\ Requests \in Nat
ASSUME WorkerAssumption == Configured \in Nat /\ MaxWorkers \in Nat \ {0}
ASSUME OneAtATimeAssumption == OneAtATime \in BOOLEAN

\* cycle->workers once main() has clamped it.
NWorkers == IF Configured < 1 THEN 1
            ELSE IF Configured > MaxWorkers THEN MaxWorkers ELSE Configured
Index == 1 .. NWorkers
\* A master for every start, in their order; 0 is what an empty pid file names.
Masters == 1 .. Starts

VARIABLES
    pc,       \* where each master is in main()
    forked,   \* entries of workers_pid[] it has filled in; the others are 0
    waited,   \* workers that wait() has given it
    mpend,    \* signals a master has not handled yet
    worker,   \* where the workers of each master are
    wpend,    \* signals a worker has not handled yet
    pidfile,  \* the master the pid file names, 0 for none
    requests  \* signals the operator has sent

masters == <<pc, forked, waited>>
workers == <<worker, wpend>>
vars == <<masters, mpend, workers, pidfile, requests>>

Starting == {"check", "listen", "daemon", "record", "write"}
Serving == {"fork", "forked", "register", "wait", "clean"}
\* Ended by return from main(), by SIGKILL, by its own null pointer.
Over == {"gone", "killed", "crashed"}
Points == {"off"} \cup Starting \cup Serving \cup {"end"} \cup Over
\* "boot" has no event loop yet; "loop" runs it, "stopping" has been told to
\* stop, "ended" has destroyed it.
Live == {"boot", "loop", "stopping", "ended"}
WorkerStates == {"none", "zombie", "reaped"} \cup Live
\* signals_st[], for which ms_signal_init() installs handlers
Signals == {"INT", "QUIT", "USR1", "USR2"}

TypeOK ==
    /\ pc \in [Masters -> Points]
    /\ forked \in [Masters -> 0 .. NWorkers]
    /\ waited \in [Masters -> 0 .. NWorkers]
    /\ mpend \in [Masters -> SUBSET Signals]
    /\ worker \in [Masters -> [Index -> WorkerStates]]
    /\ wpend \in [Masters -> [Index -> SUBSET Signals]]
    /\ pidfile \in 0 .. Starts
    /\ requests \in 0 .. Requests

Init ==
    /\ pc = [m \in Masters |-> "off"]
    /\ forked = [m \in Masters |-> 0]
    /\ waited = [m \in Masters |-> 0]
    /\ mpend = [m \in Masters |-> {}]
    /\ worker = [m \in Masters |-> [i \in Index |-> "none"]]
    /\ wpend = [m \in Masters |-> [i \in Index |-> {}]]
    /\ pidfile = 0
    /\ requests = 0

Alive(m) == pc[m] \notin {"off"} \cup Over
Go(m, to) == pc' = [pc EXCEPT ![m] = to]

\* What ms_signal_register(master_signals) blocks.  Until then nothing is blocked.
\* A worker is only sent the two signals that it never blocks.
MasterBlocked(m) ==
    IF forked[m] = NWorkers /\ pc[m] # "register" THEN Signals \ {"INT", "QUIT"} ELSE {}

\* A process handles the signals it has not blocked before it goes on.
Calm(m) == mpend[m] \subseteq MasterBlocked(m)
At(m, point) == pc[m] = point /\ Calm(m)
In(m, i, state) == worker[m][i] = state /\ wpend[m][i] = {}
-----------------------------------------------------------------------------
(* main(), a step for every part that another process can tell apart.      *)

Start(m) ==
    /\ pc[m] = "off"
    /\ \A n \in 1 .. m - 1 : pc[n] # "off"
    /\ OneAtATime => \A n \in Masters : pc[n] \notin Starting
    /\ Go(m, "check")
    /\ UNCHANGED <<forked, waited, mpend, workers, pidfile, requests>>

\* ms_daemon_get_pid() finds a number in the file, and kill(pid, 0) a process.
Running == \E m \in Masters : pidfile = m /\ Alive(m)

Check(m) ==
    /\ At(m, "check")
    /\ Go(m, IF Running THEN "end" ELSE "listen")
    /\ UNCHANGED <<forked, waited, mpend, workers, pidfile, requests>>

\* A part that may fail, and with which main() then ends.
Attempt(m, call, next) ==
    /\ \/ Go(m, next)
       \/ call \in Faults /\ Go(m, "end")
    /\ UNCHANGED <<forked, waited, mpend, workers, pidfile, requests>>

\* SO_REUSEPORT is set before bind(): another instance's socket is no obstacle.
CreateListenfd(m) == At(m, "listen") /\ Attempt(m, "listen", "daemon")

\* The child of ms_daemon() goes on as the master.
Daemon(m) == At(m, "daemon") /\ Attempt(m, "daemon", "record")

\* ms_daemon_set_pid(): fopen() empties the file, fclose() writes it.
Record(m) ==
    /\ At(m, "record")
    /\ \/ Go(m, "write") /\ pidfile' = 0
       \/ "pidfile" \in Faults /\ Go(m, "end") /\ UNCHANGED pidfile
    /\ UNCHANGED <<forked, waited, mpend, workers, requests>>

Write(m) ==
    /\ At(m, "write")
    /\ Go(m, "fork")
    /\ pidfile' = m
    /\ UNCHANGED <<forked, waited, mpend, workers, requests>>

\* fork() and the assignment to workers_pid[i] are two steps.
Fork(m) ==
    /\ At(m, "fork")
    /\ \/ /\ Go(m, "forked")
          /\ worker' = [worker EXCEPT ![m][forked[m] + 1] = "boot"]
       \/ /\ "fork" \in Faults
          /\ Go(m, "end")
          /\ UNCHANGED worker
    /\ UNCHANGED <<forked, waited, mpend, wpend, pidfile, requests>>

KeepPid(m) ==
    /\ At(m, "forked")
    /\ forked' = [forked EXCEPT ![m] = @ + 1]
    /\ Go(m, IF forked[m] + 1 = NWorkers THEN "register" ELSE "fork")
    /\ UNCHANGED <<waited, mpend, workers, pidfile, requests>>

Register(m) ==
    /\ At(m, "register")
    /\ Go(m, "wait")
    /\ UNCHANGED <<forked, waited, mpend, workers, pidfile, requests>>

\* Seeded fault: a wait() that a signal has interrupted counts as one.
WaitOnce(m) ==
    /\ At(m, "wait")
    /\ \/ \E i \in Index :
            /\ worker[m][i] = "zombie"
            /\ worker' = [worker EXCEPT ![m][i] = "reaped"]
       \/ UNCHANGED worker
    /\ waited' = [waited EXCEPT ![m] = @ + 1]
    /\ Go(m, IF waited[m] + 1 = NWorkers THEN "clean" ELSE "wait")
    /\ UNCHANGED <<forked, mpend, wpend, pidfile, requests>>

\* Seeded fault: the loop ends one worker too early.
WaitForAllButOne(m) ==
    /\ At(m, "wait")
    /\ \E i \in Index :
        /\ worker[m][i] = "zombie"
        /\ worker' = [worker EXCEPT ![m][i] = "reaped"]
    /\ waited' = [waited EXCEPT ![m] = @ + 1]
    /\ Go(m, IF waited[m] + 2 >= NWorkers THEN "clean" ELSE "wait")
    /\ UNCHANGED <<forked, mpend, wpend, pidfile, requests>>

\* One wait() that returns a pid; one that a signal interrupts is called again.
Wait(m) ==
    /\ At(m, "wait")
    /\ \E i \in Index :
        /\ worker[m][i] = "zombie"
        /\ worker' = [worker EXCEPT ![m][i] = "reaped"]
    /\ waited' = [waited EXCEPT ![m] = @ + 1]
    /\ Go(m, IF waited[m] + 1 = NWorkers THEN "clean" ELSE "wait")
    /\ UNCHANGED <<forked, mpend, wpend, pidfile, requests>>

\* ms_daemon_clean_pid()
CleanPid(m) ==
    /\ At(m, "clean")
    /\ \/ pidfile' = 0
       \/ "pidfile" \in Faults /\ UNCHANGED pidfile
    /\ Go(m, "end")
    /\ UNCHANGED <<forked, waited, mpend, workers, requests>>

\* Seeded fault: every way to the end cleans the pid file.
EndCleans(m) ==
    /\ At(m, "end")
    /\ Go(m, "gone")
    /\ pidfile' = 0
    /\ UNCHANGED <<forked, waited, mpend, workers, requests>>

\* The label end:, where nothing is told to the workers.
End(m) ==
    /\ At(m, "end")
    /\ Go(m, "gone")
    /\ UNCHANGED <<forked, waited, mpend, workers, pidfile, requests>>

Main(m) ==
    \/ Check(m) \/ CreateListenfd(m) \/ Daemon(m) \/ Record(m) \/ Write(m)
    \/ Fork(m) \/ KeepPid(m) \/ Register(m) \/ Wait(m) \/ CleanPid(m) \/ End(m)
-----------------------------------------------------------------------------
(* The master's signal handlers.                                           *)

Handles(m, signal) == Alive(m) /\ signal \in mpend[m] \ MasterBlocked(m)

\* Seeded fault: entries that are still 0 are skipped.
ForwardToKnown(m, from, signal) ==
    /\ mpend' = [mpend EXCEPT ![m] = @ \ {from}]
    /\ wpend' = [wpend EXCEPT ![m] = [i \in Index |->
                    IF worker[m][i] \in Live /\ i <= forked[m] THEN @[i] \cup {signal} ELSE @[i]]]
    /\ UNCHANGED <<masters, worker, pidfile, requests>>

\* The loop over workers_pid[] of both handlers.  An entry that is still 0 makes
\* kill() reach the whole process group, the master itself included.
Forward(m, from, signal) ==
    LET group == forked[m] < NWorkers IN
    /\ mpend' = [mpend EXCEPT ![m] = (@ \ {from}) \cup (IF group THEN {signal} ELSE {})]
    /\ wpend' = [wpend EXCEPT ![m] = [i \in Index |->
                    IF worker[m][i] \in Live /\ (group \/ i <= forked[m])
                      THEN @[i] \cup {signal} ELSE @[i]]]
    /\ UNCHANGED <<masters, worker, pidfile, requests>>

ExitHandler(m) == Handles(m, "QUIT") /\ Forward(m, "QUIT", "USR2")
ReopenHandler(m) == Handles(m, "INT") /\ Forward(m, "INT", "USR1")

\* A worker's handlers, when the master runs them.  It has no event loop:
\* ms_eventloop_stop() writes through a null pointer.
MasterReopens(m) ==
    /\ Handles(m, "USR1")
    /\ mpend' = [mpend EXCEPT ![m] = @ \ {"USR1"}]
    /\ UNCHANGED <<masters, workers, pidfile, requests>>

MasterStops(m) ==
    /\ Handles(m, "USR2")
    /\ Go(m, "crashed")
    /\ mpend' = [mpend EXCEPT ![m] = {}]
    /\ UNCHANGED <<forked, waited, workers, pidfile, requests>>

MasterHandler(m) ==
    ExitHandler(m) \/ ReopenHandler(m) \/ MasterReopens(m) \/ MasterStops(m)
-----------------------------------------------------------------------------
(* A worker.                                                               *)

Become(m, i, state) ==
    /\ worker' = [worker EXCEPT ![m][i] = state]
    /\ UNCHANGED <<masters, mpend, wpend, pidfile, requests>>

\* The child of fork(): the event loop is created, runs (Server), is destroyed,
\* and the process exits.
WorkerMain(m, i) ==
    \/ In(m, i, "boot") /\ Become(m, i, "loop")
    \/ In(m, i, "boot") /\ "loop" \in Faults /\ Become(m, i, "zombie")
    \/ In(m, i, "stopping") /\ Become(m, i, "ended")
    \/ In(m, i, "ended") /\ Become(m, i, "zombie")

\* cycle->evlop is null before the loop is created and dangles after it is
\* destroyed: the write through it ends the worker, or, into freed memory, may
\* go unnoticed.
WorkerStops(m, i) ==
    /\ worker[m][i] \in Live /\ "USR2" \in wpend[m][i]
    /\ \E state \in CASE worker[m][i] = "boot" -> {"zombie"}
                      [] worker[m][i] \in {"loop", "stopping"} -> {"stopping"}
                      [] worker[m][i] = "ended" -> {"ended", "zombie"} :
          /\ worker' = [worker EXCEPT ![m][i] = state]
          /\ wpend' = [wpend EXCEPT ![m][i] = IF state = "zombie" THEN {} ELSE @ \ {"USR2"}]
    /\ UNCHANGED <<masters, mpend, pidfile, requests>>

WorkerReopens(m, i) ==
    /\ worker[m][i] \in Live /\ "USR1" \in wpend[m][i]
    /\ wpend' = [wpend EXCEPT ![m][i] = @ \ {"USR1"}]
    /\ UNCHANGED <<masters, mpend, worker, pidfile, requests>>

Worker(m, i) == WorkerMain(m, i) \/ WorkerStops(m, i) \/ WorkerReopens(m, i)
-----------------------------------------------------------------------------
(* The operator and the kernel.                                            *)

\* sh-stop.sh and sh-reopen.sh send a signal to the pid in the pid file.
Operator(signal) ==
    \E m \in Masters :
        /\ pidfile = m
        /\ Alive(m)
        /\ mpend' = [mpend EXCEPT ![m] = @ \cup {signal}]
    /\ requests < Requests
    /\ requests' = requests + 1
    /\ UNCHANGED <<masters, workers, pidfile>>

\* SIGKILL, or a crash.  The workers of a killed master live on.
KillMaster(m) ==
    /\ "kill" \in Faults
    /\ Alive(m)
    /\ Go(m, "killed")
    /\ mpend' = [mpend EXCEPT ![m] = {}]
    /\ UNCHANGED <<forked, waited, workers, pidfile, requests>>

KillWorker(m, i) ==
    /\ "kill" \in Faults
    /\ worker[m][i] \in Live
    /\ worker' = [worker EXCEPT ![m][i] = "zombie"]
    /\ wpend' = [wpend EXCEPT ![m][i] = {}]
    /\ UNCHANGED <<masters, mpend, pidfile, requests>>

Next ==
    \/ \E m \in Masters :
        \/ Start(m) \/ Main(m) \/ MasterHandler(m) \/ KillMaster(m)
        \/ \E i \in Index : Worker(m, i) \/ KillWorker(m, i)
    \/ \E signal \in {"QUIT", "INT"} : Operator(signal)

Spec == Init /\ [][Next]_vars

\* The kernel schedules every process, which runs a handler of a signal it has not
\* blocked, or goes on.  Nothing is assumed of starts, of the operator or of who
\* kills processes.
FairSpec ==
    /\ Spec
    /\ \A m \in Masters :
        /\ WF_vars(Main(m) \/ MasterHandler(m))
        /\ \A i \in Index : WF_vars(Worker(m, i))
-----------------------------------------------------------------------------
(* Properties.                                                             *)

Reaped(m) == {i \in Index : worker[m][i] = "reaped"}

\* The inductive invariant of the proofs: the loop around wait() counts the
\* workers it has reaped, where main() is says how far it has come with them,
\* and starts that do not overlap keep each other out.
Counted == \A m \in Masters : waited[m] = Cardinality(Reaped(m))

Stages ==
    \A m \in Masters :
        /\ pc[m] \in {"off"} \cup Starting
             => forked[m] = 0 /\ \A i \in Index : worker[m][i] = "none"
        /\ pc[m] \in {"fork", "forked"} => forked[m] < NWorkers
        /\ pc[m] \in {"fork", "forked", "register"} => waited[m] = 0
        /\ pc[m] = "wait" => waited[m] < NWorkers
        /\ pc[m] = "clean" => waited[m] = NWorkers
        /\ pc[m] \in {"end", "gone"} => forked[m] < NWorkers \/ waited[m] = NWorkers

Orderly ==
    OneAtATime => \A m, n \in Masters :
        /\ pc[m] \in Serving => pidfile = m
        /\ pc[m] \in Starting /\ pc[n] \in Starting => m = n
        /\ pc[m] \in Starting \ {"check"} => pc[n] \notin Serving

MasterInv == TypeOK /\ Counted /\ Stages /\ Orderly

\* If starts do not overlap, a master that has, or is about to have, workers is
\* the one the pid file names: no second instance passes the check of main(),
\* whatever ends or is killed meanwhile, and the scripts reach the one that
\* serves.
Reachable == OneAtATime => \A m \in Masters : pc[m] \in Serving => pidfile = m

\* The loop around wait() calls it once for every worker: it never waits when
\* there is none left, which would be for ever (every wait() then fails and is
\* called again), and the pid file is emptied after the last has ended.
WaitsForAll ==
    \A m \in Masters :
        /\ pc[m] = "wait" => \E i \in Index : worker[m][i] # "reaped"
        /\ pc[m] = "clean" => \A i \in Index : worker[m][i] = "reaped"

\* Two generations of workers never share the port, unless the older master was
\* killed, crashed or could not fork all of its own.
ServeAlone ==
    OneAtATime => \A m, n \in Masters : \A i \in Index :
        (m # n /\ pc[m] \in Serving /\ worker[n][i] \in Live)
            => pc[n] \in {"killed", "crashed"} \/ forked[n] < NWorkers

\* Whenever the exit signal comes after the pid is recorded, in the middle of the
\* fork loop too, the whole instance ends, unless somebody kills the master.
Ended(m) == pc[m] \in Over /\ \A i \in Index : worker[m][i] \notin Live
ExitCompletes ==
    \A m \in Masters : "QUIT" \in mpend[m] ~> Ended(m) \/ pc[m] = "killed"

\* ms_server_test.c:122, "is an instance running already": two instances do not
\* serve at the same time, however their starts overlap.
SingleInstance ==
    \A m, n \in Masters : pc[m] \in Serving /\ pc[n] \in Serving => m = n

\* ms_server_test.c:269, "worker recv ..., stop eventloop": a worker that is about
\* to run the exit handler has an event loop.
StopsALoop ==
    \A m \in Masters, i \in Index :
        "USR2" \in wpend[m][i] => worker[m][i] \in {"loop", "stopping"}
=============================================================================
