------------------------------ MODULE LogReopen ------------------------------
(***************************************************************************)
(* The two log files of one process, ms_errlog.c and ms_acclog.c, while    *)
(* the operator rotates them: sh-reopen.sh renames both files and signals  *)
(* the process, whose handler opens them anew.  The handler runs between   *)
(* any two instructions of the program, in particular between the load of  *)
(* ms_errlog.fd and the write() it is an argument of.                      *)
(*                                                                         *)
(* A process has two handlers, one that reopens (SIGINT in the master,     *)
(* SIGUSR1 in a worker) and one that asks for its end (SIGQUIT, SIGUSR2).  *)
(* sa_mask is empty: each blocks only itself, so each can interrupt the    *)
(* other.  open() returns the lowest free descriptor.                      *)
(***************************************************************************)
EXTENDS Integers

CONSTANTS
    MaxFd,         \* descriptors 1..MaxFd for logs and clients
    MaxRotations   \* bound: rotations in all

ASSUME FdAssumption == MaxFd \in Nat /\ MaxFd >= 2
ASSUME RotationAssumption == MaxRotations \in Nat

Fds == 1..MaxFd
Logs == {"err", "acc"}
Handlers == {"reopen", "exit"}
Contexts == {"main"} \cup Handlers

VARIABLES
    file,     \* what descriptor f is open on: a log, "other", or "none"
    gen,      \* which of the files of that name, counted from 0
    fd,       \* ms_errlog.fd and g_ms_acclog_t.fd
    run,      \* the context that runs: the program or a handler
    under,    \* the context a running handler has interrupted
    step,     \* the next step of a context; "off" for a handler not entered
    held,     \* the descriptor a context has in a register
    target,   \* the log a context is writing or reopening
    kept,     \* logs whose last open() failed: the old file is kept
    pending,  \* signals on their way
    script,   \* the next step of sh-reopen.sh
    path,     \* the file the path of a log names, as in gen
    asked     \* path at the time of the last signal

table == <<file, gen>>
frames == <<run, under, step, held, target, kept>>
operator == <<script, path, asked>>
vars == <<table, fd, frames, pending, operator>>

Steps == {"off", "run", "log", "write", "open", "close", "set"}

TypeOK ==
    /\ file \in [Fds -> Logs \cup {"other", "none"}]
    /\ gen \in [Fds -> Nat]
    /\ fd \in [Logs -> Fds]
    /\ run \in Contexts
    /\ under \in [Handlers -> Contexts]
    /\ step \in [Contexts -> Steps]
    /\ held \in [Contexts -> Fds]
    /\ target \in [Contexts -> Logs]
    /\ kept \subseteq Logs
    /\ pending \subseteq Handlers
    /\ script \in {"mv err", "mv acc", "kill"}
    /\ path \in [Logs -> Nat]
    /\ asked \in [Logs -> Nat]

\* ms_errlog_init() and ms_acclog_init() have opened both files.
Init ==
    /\ fd = [l \in Logs |-> IF l = "err" THEN 1 ELSE 2]
    /\ file = [f \in Fds |-> IF f = 1 THEN "err" ELSE IF f = 2 THEN "acc" ELSE "none"]
    /\ gen = [f \in Fds |-> 0]
    /\ run = "main"
    /\ under = [h \in Handlers |-> "main"]
    /\ step = [c \in Contexts |-> IF c = "main" THEN "run" ELSE "off"]
    /\ held = [c \in Contexts |-> 1]
    /\ target = [c \in Contexts |-> "err"]
    /\ kept = {}
    /\ pending = {}
    /\ script = "mv err"
    /\ path = [l \in Logs |-> 0]
    /\ asked = [l \in Logs |-> 0]

\* The descriptor open(), accept() and the like return.
Lowest(f) == file[f] = "none" /\ \A g \in Fds : g < f => file[g] # "none"

At(c, s) == run = c /\ step[c] = s
GoTo(c, s) == step' = [step EXCEPT ![c] = s] /\ UNCHANGED <<run, under>>

\* A handler returns to what it interrupted.
Leave(h) ==
    /\ step' = [step EXCEPT ![h] = "off"]
    /\ run' = under[h]
    /\ under' = [under EXCEPT ![h] = "main"]
-----------------------------------------------------------------------------
(* Writing a line: ms_errlog_core(), ms_acclog().                          *)

\* Seeded fault for Load: the descriptor of the last line is used again.
LoadCached(c, l) ==
    /\ \/ At(c, "run")
       \/ At(c, "log") /\ l = "err"
    /\ GoTo(c, "write")
    /\ target' = [target EXCEPT ![c] = l]
    /\ UNCHANGED <<table, fd, held, kept, pending, operator>>

\* The arguments of write() are evaluated.
Load(c, l) ==
    /\ \/ At(c, "run")
       \/ At(c, "log") /\ l = "err"
    /\ GoTo(c, "write")
    /\ held' = [held EXCEPT ![c] = fd[l]]
    /\ target' = [target EXCEPT ![c] = l]
    /\ UNCHANGED <<table, fd, kept, pending, operator>>

\* Seeded fault for Write: tried again on any error, not only on EINTR.
WriteRetries(c) ==
    /\ At(c, "write")
    /\ file[held[c]] # "none"
    /\ CASE c = "main"   -> GoTo(c, "run")
         [] c = "reopen" -> GoTo(c, "open")
         [] c = "exit"   -> Leave(c)
    /\ UNCHANGED <<table, fd, held, target, kept, pending, operator>>

\* write(): the line goes to whatever held[c] is open on now.  A write to a
\* file does not end with EINTR, so the loop around it runs once.  The handlers
\* go on to their own work.
Write(c) ==
    /\ At(c, "write")
    /\ CASE c = "main"   -> GoTo(c, "run")
         [] c = "reopen" -> GoTo(c, "open")
         [] c = "exit"   -> Leave(c)
    /\ UNCHANGED <<table, fd, held, target, kept, pending, operator>>

\* The program opens or closes a descriptor of its own, a client's.
OpenOther(f) ==
    /\ At("main", "run")
    /\ Lowest(f)
    /\ file' = [file EXCEPT ![f] = "other"]
    /\ UNCHANGED <<gen, fd, frames, pending, operator>>

CloseOther(f) ==
    /\ At("main", "run")
    /\ file[f] = "other"
    /\ file' = [file EXCEPT ![f] = "none"]
    /\ UNCHANGED <<gen, fd, frames, pending, operator>>
-----------------------------------------------------------------------------
(* The signal handlers.                                                    *)

\* A handler starts, unless it is running already, with a line of its own.
Deliver(h) ==
    /\ h \in pending
    /\ step[h] = "off"
    /\ pending' = pending \ {h}
    /\ run' = h
    /\ under' = [under EXCEPT ![h] = run]
    /\ step' = [step EXCEPT ![h] = "log"]
    /\ UNCHANGED <<table, fd, held, target, kept, operator>>

\* After ms_errlog_reopen() comes ms_acclog_reopen(), then the handler ends.
NextLog(l) ==
    IF l = "err"
      THEN GoTo("reopen", "open") /\ target' = [target EXCEPT !["reopen"] = "acc"]
      ELSE Leave("reopen") /\ UNCHANGED target

\* The new descriptor of log l
Opened(f, l) ==
    /\ Lowest(f)
    /\ file' = [file EXCEPT ![f] = l]
    /\ gen' = [gen EXCEPT ![f] = path[l]]

\* Seeded fault for OpenLog: the new descriptor is stored at once and the
\* old one is not closed.
OpenLogLeaks(l) ==
    /\ At("reopen", "open") /\ target["reopen"] = l
    /\ \E f \in Fds : Opened(f, l) /\ fd' = [fd EXCEPT ![l] = f]
    /\ NextLog(l)
    /\ UNCHANGED <<held, kept, pending, operator>>

\* open() of the path, which creates the file if it was renamed.  If it fails
\* the old descriptor is kept.
OpenLog(l) ==
    /\ At("reopen", "open") /\ target["reopen"] = l
    /\ \/ \E f \in Fds :
             /\ Opened(f, l)
             /\ held' = [held EXCEPT !["reopen"] = f]
             /\ kept' = kept \ {l}
             /\ GoTo("reopen", "close")
             /\ UNCHANGED target
       \/ /\ kept' = kept \cup {l}
          /\ NextLog(l)
          /\ UNCHANGED <<table, held>>
    /\ UNCHANGED <<fd, pending, operator>>

\* Seeded fault for CloseLog: the new descriptor is closed, not the old one.
CloseLogNew(l) ==
    /\ At("reopen", "close") /\ target["reopen"] = l
    /\ file' = [file EXCEPT ![held["reopen"]] = "none"]
    /\ GoTo("reopen", "set")
    /\ UNCHANGED <<gen, fd, held, target, kept, pending, operator>>

\* ms_errlog_close(), ms_acclog_close(): the descriptor is above 0, which is
\* stdin's or, after ms_daemon(), /dev/null's.
CloseLog(l) ==
    /\ At("reopen", "close") /\ target["reopen"] = l
    /\ file' = [file EXCEPT ![fd[l]] = "none"]
    /\ GoTo("reopen", "set")
    /\ UNCHANGED <<gen, fd, held, target, kept, pending, operator>>

\* Seeded fault for SetLog: the handler ends with the error log.
SetLogErrOnly(l) ==
    /\ At("reopen", "set") /\ target["reopen"] = l
    /\ fd' = [fd EXCEPT ![l] = held["reopen"]]
    /\ Leave("reopen")
    /\ UNCHANGED <<table, held, target, kept, pending, operator>>

\* ms_errlog.fd = temp
SetLog(l) ==
    /\ At("reopen", "set") /\ target["reopen"] = l
    /\ fd' = [fd EXCEPT ![l] = held["reopen"]]
    /\ NextLog(l)
    /\ UNCHANGED <<table, held, kept, pending, operator>>

Process ==
    \/ \E c \in Contexts : Write(c) \/ \E l \in Logs : Load(c, l)
    \/ \E f \in Fds : OpenOther(f) \/ CloseOther(f)
    \/ \E h \in Handlers : Deliver(h)
    \/ \E l \in Logs : OpenLog(l) \/ CloseLog(l) \/ SetLog(l)
-----------------------------------------------------------------------------
(* The operator: sh-reopen.sh, sh-stop.sh.                                 *)

MoveErr ==
    /\ script = "mv err"
    /\ path["err"] < MaxRotations
    /\ path' = [path EXCEPT !["err"] = @ + 1]
    /\ script' = "mv acc"
    /\ UNCHANGED <<table, fd, frames, pending, asked>>

MoveAcc ==
    /\ script = "mv acc"
    /\ path' = [path EXCEPT !["acc"] = @ + 1]
    /\ script' = "kill"
    /\ UNCHANGED <<table, fd, frames, pending, asked>>

\* A signal that is pending already is not queued a second time.
SignalReopen ==
    /\ script = "kill"
    /\ pending' = pending \cup {"reopen"}
    /\ asked' = path
    /\ script' = "mv err"
    /\ UNCHANGED <<table, fd, frames, path>>

SignalExit ==
    /\ pending' = pending \cup {"exit"}
    /\ UNCHANGED <<table, fd, frames, operator>>

Operator == MoveErr \/ MoveAcc \/ SignalReopen \/ SignalExit

Next == Process \/ Operator

Spec == Init /\ [][Next]_vars

\* The process is scheduled.  A handler that is interrupted again and again goes
\* on in between.  A pending signal is delivered.
HandlerStep(h) ==
    \/ Write(h) \/ Load(h, "err")
    \/ h = "reopen" /\ \E l \in Logs : OpenLog(l) \/ CloseLog(l) \/ SetLog(l)

FairSpec ==
    /\ Spec
    /\ \A h \in Handlers : SF_vars(HandlerStep(h))
    /\ WF_vars(Deliver("reopen"))
-----------------------------------------------------------------------------
(* Properties.                                                             *)

\* The log between the close of its old descriptor and the store of the new one
Replacing(l) == step["reopen"] = "set" /\ target["reopen"] = l

\* The descriptor in use for a log is open on that log, always, except in
\* the handler between close() and the assignment.
LogsOpen == \A l \in Logs : ~Replacing(l) => file[fd[l]] = l

\* No number of rotations costs a descriptor: each log has one, and a second
\* one only in the handler between open() and close().
OnePerLog ==
    \A l \in Logs : \A f, g \in Fds :
        (file[f] = l /\ file[g] = l /\ f # g) =>
            step["reopen"] = "close" /\ target["reopen"] = l

\* A context that was interrupted with a descriptor in hand may find it
\* closed or open on the other log, but never on a client: a line of a log
\* is not sent to one.
NoLineToClient == \A c \in Contexts : step[c] = "write" => file[held[c]] # "other"

\* Once the signal of a rotation has been handled nothing is open on a
\* renamed file, which sh-reopen.sh will remove, so no line can go there:
\* signals that arrived together are handled as one, yet none is forgotten.
RotationComplete ==
    ("reopen" \notin pending /\ step["reopen"] = "off") =>
        \A f \in Fds : file[f] \in Logs \ kept => gen[f] >= asked[file[f]]

\* The signal is handled in the end.
RotationTakes == "reopen" \in pending ~> ("reopen" \notin pending /\ step["reopen"] = "off")

\* ms_errlog.c:172 and ms_acclog.c:51: a line is written to the file of its
\* log.  If it is written at all, that is where it goes.
LineInItsLog ==
    \A c \in Contexts : At(c, "write") => file[held[c]] \in {target[c], "none"}
-----------------------------------------------------------------------------
(* The inductive invariant behind the safety properties.                   *)

Other(h) == IF h = "exit" THEN "reopen" ELSE "exit"

\* The handlers that were entered form a stack over the program.
StackInv ==
    /\ step["main"] \in {"run", "write"}
    /\ step["exit"] \in {"off", "log", "write"}
    /\ step["reopen"] \in {"off", "log", "write", "open", "close", "set"}
    /\ run = "main" => \A h \in Handlers : step[h] = "off"
    /\ \A h \in Handlers :
          /\ run = h => /\ step[h] # "off"
                        /\ under[h] = IF step[Other(h)] = "off" THEN "main" ELSE Other(h)
          /\ (run # h /\ step[h] # "off") => under[h] = "main"
    /\ step["reopen"] = "write" => target["reopen"] = "err"

\* Who is open on what
TableInv ==
    /\ LogsOpen
    /\ \A f \in Fds : file[f] \in Logs =>
          \/ f = fd[file[f]]
          \/ f = held["reopen"] /\ step["reopen"] \in {"close", "set"} /\ target["reopen"] = file[f]
    /\ step["reopen"] \in {"close", "set"} => file[held["reopen"]] = target["reopen"]
    /\ step["reopen"] = "close" => held["reopen"] # fd[target["reopen"]]
    /\ step["reopen"] = "set" => file[fd[target["reopen"]]] = "none"
    /\ NoLineToClient

\* The handler under way is done with log l.
Done(l) ==
    \/ step["reopen"] = "off"
    \/ step["reopen"] \in {"open", "close", "set"} /\ target["reopen"] = "acc" /\ l = "err"

GenInv ==
    /\ \A l \in Logs : asked[l] <= path[l]
    /\ "reopen" \notin pending =>
          /\ \A f \in Fds : (file[f] \in Logs \ kept /\ Done(file[f])) => gen[f] >= asked[file[f]]
          /\ step["reopen"] \in {"close", "set"} => gen[held["reopen"]] >= asked[target["reopen"]]

LogInv == TypeOK /\ StackInv /\ TableInv /\ GenInv
=============================================================================
