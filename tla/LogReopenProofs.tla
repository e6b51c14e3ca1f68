-------------------------- MODULE LogReopenProofs --------------------------
(***************************************************************************)
(* Proofs about module LogReopen, for any number of descriptors and of     *)
(* rotations.                                                              *)
(***************************************************************************)
EXTENDS LogReopen, TLAPS

\* The names of contexts and of logs
LEMMA Names ==
    /\ Handlers \subseteq Contexts /\ "main" \in Contexts
    /\ "reopen" \in Handlers /\ "exit" \in Handlers
    /\ "err" \in Logs /\ "acc" \in Logs
  BY DEF Handlers, Contexts, Logs

\* A context leaves a step, a handler returns: the frames keep their types.
LEMMA Moves ==
    ASSUME TypeOK
    PROVE  /\ \A c \in Contexts, s \in Steps : GoTo(c, s) =>
                  run' \in Contexts /\ under' \in [Handlers -> Contexts] /\ step' \in [Contexts -> Steps]
           /\ \A h \in Handlers : Leave(h) =>
                  run' \in Contexts /\ under' \in [Handlers -> Contexts] /\ step' \in [Contexts -> Steps]
           /\ \A l \in Logs : NextLog(l) =>
                  /\ run' \in Contexts /\ under' \in [Handlers -> Contexts] /\ step' \in [Contexts -> Steps]
                  /\ target' \in [Contexts -> Logs]
<1>1. run \in Contexts /\ under \in [Handlers -> Contexts] /\ step \in [Contexts -> Steps]
      /\ target \in [Contexts -> Logs]
  BY DEF TypeOK
<1>2. ASSUME NEW c \in Contexts, NEW s \in Steps, GoTo(c, s)
      PROVE  run' \in Contexts /\ under' \in [Handlers -> Contexts] /\ step' \in [Contexts -> Steps]
  BY <1>1, <1>2 DEF GoTo
<1>3. ASSUME NEW h \in Handlers, Leave(h)
      PROVE  run' \in Contexts /\ under' \in [Handlers -> Contexts] /\ step' \in [Contexts -> Steps]
  <2>1. h \in Contexts /\ "main" \in Contexts /\ "off" \in Steps
    BY Names DEF Steps
  <2> QED
    BY <1>1, <1>3, <2>1 DEF Leave
<1>4. ASSUME NEW l \in Logs, NextLog(l)
      PROVE  /\ run' \in Contexts /\ under' \in [Handlers -> Contexts] /\ step' \in [Contexts -> Steps]
             /\ target' \in [Contexts -> Logs]
  <2>1. "open" \in Steps /\ "reopen" \in Handlers /\ "reopen" \in Contexts /\ "acc" \in Logs
    BY Names DEF Steps
  <2>2. CASE l = "err"
    BY <1>1, <1>2, <1>4, <2>1, <2>2 DEF NextLog
  <2>3. CASE l # "err"
    BY <1>1, <1>3, <1>4, <2>1, <2>3 DEF NextLog
  <2> QED
    BY <2>2, <2>3
<1> QED
  BY <1>2, <1>3, <1>4

\* Every step keeps every variable within its type.
LEMMA TypeStep == TypeOK /\ [Next]_vars => TypeOK'
<1> SUFFICES ASSUME TypeOK, [Next]_vars PROVE TypeOK'
  OBVIOUS
<1> USE Names DEF table, frames, operator
<1>1. ASSUME NEW c \in Contexts, Write(c) PROVE TypeOK'
  <2>1. run' \in Contexts /\ under' \in [Handlers -> Contexts] /\ step' \in [Contexts -> Steps]
    <3>1. CASE c = "main"
      BY <1>1, <3>1, Moves DEF Write, Steps
    <3>2. CASE c = "reopen"
      BY <1>1, <3>2, Moves DEF Write, Steps
    <3>3. CASE c = "exit"
      BY <1>1, <3>3, Moves DEF Write, Steps
    <3> QED
      BY <3>1, <3>2, <3>3 DEF Contexts, Handlers
  <2> QED
    BY <1>1, <2>1 DEF Write, TypeOK
<1>2. ASSUME NEW c \in Contexts, NEW l \in Logs, Load(c, l) PROVE TypeOK'
  BY <1>2 DEF Load, GoTo, TypeOK, Steps
<1>3. ASSUME NEW f \in Fds, OpenOther(f) PROVE TypeOK'
  BY <1>3 DEF OpenOther, TypeOK
<1>4. ASSUME NEW f \in Fds, CloseOther(f) PROVE TypeOK'
  BY <1>4 DEF CloseOther, TypeOK
<1>5. ASSUME NEW h \in Handlers, Deliver(h) PROVE TypeOK'
  BY <1>5 DEF Deliver, TypeOK, Steps
<1>6. ASSUME NEW l \in Logs, OpenLog(l) PROVE TypeOK'
  <2>1. CASE \E f \in Fds :
             /\ Opened(f, l)
             /\ held' = [held EXCEPT !["reopen"] = f]
             /\ kept' = kept \ {l}
             /\ GoTo("reopen", "close")
             /\ UNCHANGED target
    <3>1. PICK f \in Fds :
             /\ Opened(f, l)
             /\ held' = [held EXCEPT !["reopen"] = f]
             /\ kept' = kept \ {l}
             /\ GoTo("reopen", "close")
             /\ UNCHANGED target
      BY <2>1
    <3>2. run' \in Contexts /\ under' \in [Handlers -> Contexts] /\ step' \in [Contexts -> Steps]
      BY <3>1, Moves DEF Steps
    <3>3. file' \in [Fds -> Logs \cup {"other", "none"}] /\ gen' \in [Fds -> Nat]
      BY <3>1 DEF Opened, TypeOK
    <3>4. held' \in [Contexts -> Fds] /\ kept' \subseteq Logs
      BY <3>1 DEF TypeOK
    <3> QED
      BY <1>6, <3>1, <3>2, <3>3, <3>4 DEF OpenLog, TypeOK
  <2>2. CASE /\ kept' = kept \cup {l}
             /\ NextLog(l)
             /\ UNCHANGED <<table, held>>
    <3>1. /\ run' \in Contexts /\ under' \in [Handlers -> Contexts] /\ step' \in [Contexts -> Steps]
          /\ target' \in [Contexts -> Logs]
      BY <2>2, Moves
    <3> QED
      BY <1>6, <2>2, <3>1 DEF OpenLog, TypeOK
  <2> QED
    BY <1>6, <2>1, <2>2 DEF OpenLog
<1>7. ASSUME NEW l \in Logs, CloseLog(l) PROVE TypeOK'
  BY <1>7 DEF CloseLog, GoTo, TypeOK, Steps
<1>8. ASSUME NEW l \in Logs, SetLog(l) PROVE TypeOK'
  <2>1. /\ run' \in Contexts /\ under' \in [Handlers -> Contexts] /\ step' \in [Contexts -> Steps]
        /\ target' \in [Contexts -> Logs]
    BY <1>8, Moves DEF SetLog
  <2> QED
    BY <1>8, <2>1 DEF SetLog, TypeOK
<1>9. ASSUME MoveErr PROVE TypeOK'
  <2>1. path \in [Logs -> Nat] /\ path["err"] + 1 \in Nat
    <3>1. path \in [Logs -> Nat]
      BY DEF TypeOK
    <3>2. path["err"] \in Nat
      BY <3>1
    <3> QED
      BY <3>1, <3>2
  <2>2. path' \in [Logs -> Nat]
    BY <1>9, <2>1 DEF MoveErr
  <2> QED
    BY <1>9, <2>2 DEF MoveErr, TypeOK
<1>10. ASSUME MoveAcc PROVE TypeOK'
  <2>1. path \in [Logs -> Nat] /\ path["acc"] + 1 \in Nat
    <3>1. path \in [Logs -> Nat]
      BY DEF TypeOK
    <3>2. path["acc"] \in Nat
      BY <3>1
    <3> QED
      BY <3>1, <3>2
  <2>2. path' \in [Logs -> Nat]
    BY <1>10, <2>1 DEF MoveAcc
  <2> QED
    BY <1>10, <2>2 DEF MoveAcc, TypeOK
<1>11. ASSUME SignalReopen PROVE TypeOK'
  BY <1>11 DEF SignalReopen, TypeOK
<1>12. ASSUME SignalExit PROVE TypeOK'
  BY <1>12 DEF SignalExit, TypeOK
<1>13. ASSUME UNCHANGED vars PROVE TypeOK'
  BY <1>13 DEF vars, TypeOK
<1> QED
  BY <1>1, <1>2, <1>3, <1>4, <1>5, <1>6, <1>7, <1>8, <1>9, <1>10, <1>11, <1>12, <1>13
     DEF Next, Process, Operator

\* What a context that goes on leaves alone, and what a handler that returns.
LEMMA Effects ==
    ASSUME TypeOK
    PROVE  /\ \A c \in Contexts, s \in Steps : GoTo(c, s) =>
                  /\ run' = run /\ under' = under
                  /\ step'[c] = s /\ \A d \in Contexts \ {c} : step'[d] = step[d]
           /\ \A h \in Handlers : Leave(h) =>
                  /\ run' = under[h]
                  /\ under'[h] = "main" /\ \A g \in Handlers \ {h} : under'[g] = under[g]
                  /\ step'[h] = "off" /\ \A d \in Contexts \ {h} : step'[d] = step[d]
  BY Names DEF TypeOK, GoTo, Leave

\* The contexts stay a stack.
LEMMA StackStep == TypeOK /\ StackInv /\ [Next]_vars => StackInv'
<1> SUFFICES ASSUME TypeOK, StackInv, [Next]_vars PROVE StackInv'
  OBVIOUS
<1> USE Names DEF table, frames, operator
<1>0. /\ run \in Contexts
      /\ \A c \in Contexts : c = "main" \/ c = "reopen" \/ c = "exit"
      /\ \A h \in Handlers : h = "reopen" \/ h = "exit"
  BY DEF TypeOK, Contexts, Handlers
<1>1. ASSUME NEW c \in Contexts, Write(c) PROVE StackInv'
  <2>0. run = c /\ step[c] = "write"
    BY <1>1 DEF Write, At
  <2>1. CASE c = "main"
    <3>1. /\ run' = run /\ under' = under
          /\ step'["main"] = "run" /\ \A d \in Contexts \ {"main"} : step'[d] = step[d]
      BY <1>1, <2>1, Effects DEF Write, Steps
    <3>2. target' = target
      BY <1>1 DEF Write
    <3> QED
      BY <1>0, <2>0, <2>1, <3>1, <3>2 DEF StackInv, Other
  <2>2. CASE c = "reopen"
    <3>1. /\ run' = run /\ under' = under
          /\ step'["reopen"] = "open" /\ \A d \in Contexts \ {"reopen"} : step'[d] = step[d]
      BY <1>1, <2>2, Effects DEF Write, Steps
    <3>2. target' = target
      BY <1>1 DEF Write
    <3> QED
      BY <1>0, <2>0, <2>2, <3>1, <3>2 DEF StackInv, Other
  <2>3. CASE c = "exit"
    <3>1. /\ run' = under["exit"]
          /\ under'["exit"] = "main" /\ under'["reopen"] = under["reopen"]
          /\ step'["exit"] = "off" /\ \A d \in Contexts \ {"exit"} : step'[d] = step[d]
      BY <1>1, <2>3, Effects DEF Write, Steps
    <3>2. target' = target
      BY <1>1 DEF Write
    <3> QED
      BY <1>0, <2>0, <2>3, <3>1, <3>2 DEF StackInv, Other
  <2> QED
    BY <1>0, <2>1, <2>2, <2>3
<1>2. ASSUME NEW c \in Contexts, NEW l \in Logs, Load(c, l) PROVE StackInv'
  <2>1. /\ run = c /\ step[c] \in {"run", "log"}
        /\ step[c] = "log" => l = "err"
        /\ target' = [target EXCEPT ![c] = l]
    BY <1>2 DEF Load, At
  <2>2. /\ run' = run /\ under' = under
        /\ step'[c] = "write" /\ \A d \in Contexts \ {c} : step'[d] = step[d]
    BY <1>2, Effects DEF Load, Steps
  <2>3. target'["reopen"] = IF c = "reopen" THEN l ELSE target["reopen"]
    BY <2>1 DEF TypeOK
  <2> QED
    BY <1>0, <2>1, <2>2, <2>3 DEF StackInv, Other
<1>3. ASSUME UNCHANGED frames PROVE StackInv'
  BY <1>3 DEF StackInv
<1>4. ASSUME NEW f \in Fds, OpenOther(f) \/ CloseOther(f) PROVE StackInv'
  BY <1>3, <1>4 DEF OpenOther, CloseOther
<1>5. ASSUME NEW h \in Handlers, Deliver(h) PROVE StackInv'
  <2>1. /\ step[h] = "off" /\ run' = h /\ target' = target
        /\ under'[h] = run /\ \A g \in Handlers \ {h} : under'[g] = under[g]
        /\ step'[h] = "log" /\ \A d \in Contexts \ {h} : step'[d] = step[d]
    BY <1>5 DEF Deliver, TypeOK
  <2> QED
    BY <1>0, <2>1 DEF StackInv, Other
<1>6. ASSUME NEW l \in Logs, NextLog(l), run = "reopen", step["reopen"] \in {"open", "set"} PROVE StackInv'
  <2>1. CASE l = "err"
    <3>1. GoTo("reopen", "open")
      BY <1>6, <2>1 DEF NextLog
    <3>2. /\ run' = run /\ under' = under
          /\ step'["reopen"] = "open" /\ \A d \in Contexts \ {"reopen"} : step'[d] = step[d]
      BY <3>1, Effects DEF Steps
    <3> QED
      BY <1>0, <1>6, <3>2 DEF StackInv, Other
  <2>2. CASE l # "err"
    <3>1. Leave("reopen")
      BY <1>6, <2>2 DEF NextLog
    <3>2. /\ run' = under["reopen"]
          /\ under'["reopen"] = "main" /\ under'["exit"] = under["exit"]
          /\ step'["reopen"] = "off" /\ \A d \in Contexts \ {"reopen"} : step'[d] = step[d]
      BY <3>1, Effects
    <3> QED
      BY <1>0, <1>6, <3>2 DEF StackInv, Other
  <2> QED
    BY <2>1, <2>2
<1>7. ASSUME NEW s \in {"close", "set"}, GoTo("reopen", s), run = "reopen", UNCHANGED target PROVE StackInv'
  <2>1. /\ run' = run /\ under' = under
        /\ step'["reopen"] = s /\ \A d \in Contexts \ {"reopen"} : step'[d] = step[d]
    BY <1>7, Effects DEF Steps
  <2> QED
    BY <1>0, <1>7, <2>1 DEF StackInv, Other
<1>8. ASSUME NEW l \in Logs, OpenLog(l) \/ CloseLog(l) \/ SetLog(l) PROVE StackInv'
  BY <1>6, <1>7, <1>8 DEF OpenLog, CloseLog, SetLog, At
<1>9. ASSUME Operator \/ UNCHANGED vars PROVE StackInv'
  BY <1>3, <1>9 DEF Operator, MoveErr, MoveAcc, SignalReopen, SignalExit, vars
<1> QED
  BY <1>1, <1>2, <1>4, <1>5, <1>8, <1>9 DEF Next, Process

\* The part of a replacement that others rely on is left alone.
Quiet ==
    /\ UNCHANGED <<file, fd>>
    /\ \/ step["reopen"] \notin {"close", "set"} /\ step'["reopen"] \notin {"close", "set"}
       \/ /\ step'["reopen"] = step["reopen"] /\ held'["reopen"] = held["reopen"]
          /\ target'["reopen"] = target["reopen"]

\* A quiet step keeps the table, if whoever has a descriptor in hand had it
\* before or takes it from a log.
LEMMA QuietKeepsTable ==
    ASSUME TypeOK, TableInv, Quiet,
           \A c \in Contexts : step'[c] = "write" =>
               (step[c] = "write" /\ held'[c] = held[c]) \/ \E l \in Logs : held'[c] = fd[l]
    PROVE  TableInv'
<1>1. (LogsOpen)'
  BY DEF Quiet, TableInv, LogsOpen, Replacing
<1>2. \A l \in Logs : file[fd[l]] # "other"
  BY DEF TableInv, LogsOpen, Replacing, Logs
<1>3. (NoLineToClient)'
  BY <1>2 DEF Quiet, TableInv, NoLineToClient
<1> QED
  BY <1>1, <1>3 DEF Quiet, TableInv

\* Opens, closes and stores keep the table in order.
LEMMA TableStep == TypeOK /\ StackInv /\ TableInv /\ [Next]_vars => TableInv'
<1> SUFFICES ASSUME TypeOK, StackInv, TableInv, [Next]_vars PROVE TableInv'
  OBVIOUS
<1> USE Names DEF table, frames, operator
<1>0. /\ \A c \in Contexts : c = "main" \/ c = "reopen" \/ c = "exit"
      /\ \A h \in Handlers : h = "reopen" \/ h = "exit"
  BY DEF Contexts, Handlers
<1>1. ASSUME NEW c \in Contexts, Write(c) PROVE TableInv'
  <2>1. /\ UNCHANGED <<file, fd, held, target>>
        /\ step[c] = "write"
    BY <1>1 DEF Write, At
  <2>2. /\ step'[c] \in {"run", "open", "off"}
        /\ \A d \in Contexts \ {c} : step'[d] = step[d]
    BY <1>0, <1>1, Effects DEF Write, Steps
  <2>3. Quiet
    BY <1>0, <2>1, <2>2 DEF Quiet
  <2> QED
    BY <2>1, <2>2, <2>3, QuietKeepsTable
<1>2. ASSUME NEW c \in Contexts, NEW l \in Logs, Load(c, l) PROVE TableInv'
  <2>1. /\ UNCHANGED <<file, fd>> /\ step[c] \in {"run", "log"}
        /\ held' = [held EXCEPT ![c] = fd[l]]
        /\ target' = [target EXCEPT ![c] = l]
    BY <1>2 DEF Load, At
  <2>2. /\ step'[c] = "write" /\ \A d \in Contexts \ {c} : step'[d] = step[d]
    BY <1>2, Effects DEF Load, Steps
  <2>3. /\ held'[c] = fd[l]
        /\ \A d \in Contexts \ {c} : held'[d] = held[d] /\ target'[d] = target[d]
    BY <2>1 DEF TypeOK
  <2>4. Quiet
    BY <1>0, <2>1, <2>2, <2>3 DEF Quiet
  <2> QED
    BY <2>1, <2>2, <2>3, <2>4, QuietKeepsTable
<1>3. ASSUME NEW f \in Fds, OpenOther(f) \/ CloseOther(f) PROVE TableInv'
  <2>1. /\ UNCHANGED <<fd, held, step, target>> /\ run = "main" /\ step["main"] = "run"
        /\ file[f] \in {"none", "other"}
        /\ \E w \in {"none", "other"} : file' = [file EXCEPT ![f] = w]
    BY <1>3 DEF OpenOther, CloseOther, Lowest, At
  <2>2. file'[f] \in {"none", "other"} /\ \A g \in Fds \ {f} : file'[g] = file[g]
    BY <2>1 DEF TypeOK
  <2>3. step["reopen"] = "off" /\ step["exit"] = "off"
    BY <2>1 DEF StackInv
  <2>4. /\ \A l \in Logs : fd[l] \in Fds /\ file[fd[l]] = l
        /\ fd["err"] # f /\ fd["acc"] # f
    BY <2>1, <2>3 DEF TypeOK, TableInv, LogsOpen, Replacing
  <2>5. \A l \in Logs : fd[l] # f
    BY <2>4 DEF Logs
  <2>6. (NoLineToClient)'
    BY <1>0, <2>1, <2>3 DEF NoLineToClient
  <2>7. (LogsOpen)'
    BY <2>1, <2>2, <2>4, <2>5 DEF LogsOpen
  <2>8. \A g \in Fds : file'[g] \in Logs => g = fd[file'[g]]
    BY <2>2, <2>3 DEF TableInv, Logs
  <2> QED
    BY <2>1, <2>3, <2>6, <2>7, <2>8 DEF TableInv
<1>4. ASSUME NEW h \in Handlers, Deliver(h) PROVE TableInv'
  <2>1. /\ UNCHANGED <<file, fd, held, target>> /\ step[h] = "off"
        /\ step'[h] = "log" /\ \A d \in Contexts \ {h} : step'[d] = step[d]
    BY <1>4 DEF Deliver, TypeOK
  <2>2. Quiet
    BY <1>0, <2>1 DEF Quiet
  <2> QED
    BY <2>1, <2>2, QuietKeepsTable
<1>5. ASSUME NEW l \in Logs, NextLog(l)
      PROVE  /\ step'["reopen"] \in {"open", "off"}
             /\ \A d \in Contexts \ {"reopen"} : step'[d] = step[d]
  <2>1. CASE l = "err"
    BY <1>5, <2>1, Effects DEF NextLog, Steps
  <2>2. CASE l # "err"
    BY <1>5, <2>2, Effects DEF NextLog, Steps
  <2> QED
    BY <2>1, <2>2
<1>6. ASSUME NEW l \in Logs, OpenLog(l) PROVE TableInv'
  <2>0. UNCHANGED fd /\ step["reopen"] = "open" /\ target["reopen"] = l
    BY <1>6 DEF OpenLog, At
  <2>1. ASSUME NEW f \in Fds, Opened(f, l), held' = [held EXCEPT !["reopen"] = f],
               GoTo("reopen", "close"), UNCHANGED target
        PROVE  TableInv'
    <3>1. /\ file[f] = "none"
          /\ file'[f] = l /\ \A g \in Fds \ {f} : file'[g] = file[g]
          /\ held'["reopen"] = f /\ \A d \in Contexts \ {"reopen"} : held'[d] = held[d]
      BY <2>1 DEF Opened, Lowest, TypeOK
    <3>2. /\ step'["reopen"] = "close" /\ \A d \in Contexts \ {"reopen"} : step'[d] = step[d]
      BY <2>1, Effects DEF Steps
    <3>3. \A k \in Logs : fd[k] \in Fds /\ file[fd[k]] = k /\ fd[k] # f
      BY <2>0, <3>1 DEF TableInv, LogsOpen, Replacing, TypeOK, Logs
    <3>4. (LogsOpen)'
      BY <2>0, <3>1, <3>3 DEF LogsOpen
    <3>5. \A g \in Fds : file'[g] \in Logs => g = fd[file'[g]] \/ g = f
      BY <2>0, <3>1 DEF TableInv
    <3>6. (NoLineToClient)'
      <4> SUFFICES ASSUME NEW c \in Contexts, step'[c] = "write" PROVE file'[held'[c]] # "other"
        BY DEF NoLineToClient
      <4>1. c # "reopen" /\ step[c] = "write" /\ held'[c] = held[c] /\ held[c] \in Fds
        BY <3>1, <3>2 DEF TypeOK
      <4>2. file[held[c]] # "other" /\ l # "other"
        BY <4>1 DEF TableInv, NoLineToClient, Logs
      <4> QED
        BY <3>1, <4>1, <4>2
    <3> QED
      BY <2>0, <2>1, <3>1, <3>2, <3>3, <3>4, <3>5, <3>6 DEF TableInv
  <2>2. ASSUME NextLog(l), UNCHANGED <<table, held>> PROVE TableInv'
    <3>1. Quiet
      BY <1>5, <2>0, <2>2 DEF Quiet
    <3> QED
      BY <1>5, <2>0, <2>2, <3>1, QuietKeepsTable
  <2> QED
    BY <1>6, <2>1, <2>2 DEF OpenLog
<1>7. ASSUME NEW l \in Logs, CloseLog(l) PROVE TableInv'
  <2> DEFINE h == held["reopen"]
  <2>1. /\ UNCHANGED <<fd, held, target>>
        /\ step["reopen"] = "close" /\ target["reopen"] = l
    BY <1>7 DEF CloseLog, At
  <2>2. step'["reopen"] = "set" /\ \A d \in Contexts \ {"reopen"} : step'[d] = step[d]
    BY <1>7, Effects DEF CloseLog, Steps
  <2>3. /\ h \in Fds /\ file[h] = l /\ h # fd[l]
        /\ \A k \in Logs : fd[k] \in Fds /\ file[fd[k]] = k
    BY <2>1 DEF TableInv, LogsOpen, Replacing, TypeOK
  <2>4. file'[fd[l]] = "none" /\ \A g \in Fds \ {fd[l]} : file'[g] = file[g]
    BY <1>7, <2>3 DEF CloseLog, TypeOK
  <2>5. (LogsOpen)'
    BY <2>1, <2>2, <2>3, <2>4 DEF LogsOpen, Replacing
  <2>6. \A g \in Fds : file'[g] \in Logs => g = fd[file'[g]] \/ (g = h /\ l = file'[g])
    BY <2>1, <2>4 DEF TableInv, Logs
  <2>7. (NoLineToClient)'
    <3> SUFFICES ASSUME NEW c \in Contexts, step'[c] = "write" PROVE file'[held[c]] # "other"
      BY <2>1 DEF NoLineToClient
    <3>1. step[c] = "write" /\ held[c] \in Fds
      BY <2>2 DEF TypeOK
    <3>2. file[held[c]] # "other"
      BY <3>1 DEF TableInv, NoLineToClient
    <3> QED
      BY <2>4, <3>1, <3>2
  <2> QED
    BY <2>1, <2>2, <2>3, <2>4, <2>5, <2>6, <2>7 DEF TableInv
<1>8. ASSUME NEW l \in Logs, SetLog(l) PROVE TableInv'
  <2> DEFINE h == held["reopen"]
  <2>1. /\ UNCHANGED <<file, held>>
        /\ step["reopen"] = "set" /\ target["reopen"] = l
        /\ NextLog(l)
    BY <1>8 DEF SetLog, At
  <2>2. fd'[l] = h /\ \A k \in Logs \ {l} : fd'[k] = fd[k]
    BY <1>8 DEF SetLog, TypeOK
  <2>3. file[h] = l /\ file[fd[l]] = "none" /\ \A k \in Logs \ {l} : file[fd[k]] = k
    BY <2>1 DEF TableInv, LogsOpen, Replacing
  <2>4. (LogsOpen)'
    BY <2>1, <2>2, <2>3 DEF LogsOpen
  <2>5. \A g \in Fds : file[g] \in Logs => g = fd'[file[g]]
    BY <2>1, <2>2, <2>3 DEF TableInv, Logs
  <2>6. (NoLineToClient)'
    BY <1>5, <2>1 DEF TableInv, NoLineToClient
  <2> QED
    BY <1>5, <2>1, <2>4, <2>5, <2>6 DEF TableInv
<1>9. ASSUME Operator \/ UNCHANGED vars PROVE TableInv'
  <2>1. UNCHANGED <<file, fd, held, step, target>>
    BY <1>9 DEF Operator, MoveErr, MoveAcc, SignalReopen, SignalExit, vars
  <2> QED
    BY <2>1, QuietKeepsTable DEF Quiet
<1> QED
  BY <1>1, <1>2, <1>3, <1>4, <1>6, <1>7, <1>8, <1>9 DEF Next, Process

\* A step that finishes no log and opens or closes nothing keeps GenInv.
LEMMA QuietKeepsGen ==
    ASSUME GenInv, UNCHANGED <<table, kept, path, asked>>,
           "reopen" \notin pending' => "reopen" \notin pending,
           \A l \in Logs : Done(l)' => Done(l),
           step'["reopen"] \in {"close", "set"} =>
               /\ step["reopen"] \in {"close", "set"}
               /\ held'["reopen"] = held["reopen"] /\ target'["reopen"] = target["reopen"]
    PROVE  GenInv'
  BY DEF GenInv, table

\* The descriptors stay as new as the last signal asks.
LEMMA GenStep == TypeOK /\ StackInv /\ TableInv /\ GenInv /\ [Next]_vars => GenInv'
<1> SUFFICES ASSUME TypeOK, StackInv, TableInv, GenInv, [Next]_vars PROVE GenInv'
  OBVIOUS
<1> USE Names DEF frames, operator
<1>0. /\ \A c \in Contexts : c = "main" \/ c = "reopen" \/ c = "exit"
      /\ \A h \in Handlers : h = "reopen" \/ h = "exit"
      /\ \A l \in Logs : l = "err" \/ l = "acc"
  BY DEF Contexts, Handlers, Logs
<1>1. ASSUME NEW c \in Contexts, Write(c) PROVE GenInv'
  <2>1. /\ UNCHANGED <<table, held, target, kept, pending, path, asked>>
        /\ step[c] = "write"
    BY <1>1 DEF Write, At
  <2>2. /\ step'[c] = CASE c = "main" -> "run" [] c = "reopen" -> "open" [] c = "exit" -> "off"
        /\ \A d \in Contexts \ {c} : step'[d] = step[d]
    BY <1>0, <1>1, Effects DEF Write, Steps
  <2>3. \A l \in Logs : Done(l)' => Done(l)
    BY <1>0, <2>1, <2>2 DEF Done, StackInv
  <2>4. step'["reopen"] \in {"close", "set"} => step["reopen"] \in {"close", "set"}
    BY <1>0, <2>1, <2>2
  <2> QED
    BY <2>1, <2>3, <2>4, QuietKeepsGen
<1>2. ASSUME NEW c \in Contexts, NEW l \in Logs, Load(c, l) PROVE GenInv'
  <2>1. /\ UNCHANGED <<table, kept, pending, path, asked>>
        /\ held' = [held EXCEPT ![c] = fd[l]]
        /\ target' = [target EXCEPT ![c] = l]
    BY <1>2 DEF Load, At
  <2>2. /\ step'[c] = "write" /\ \A d \in Contexts \ {c} : step'[d] = step[d]
    BY <1>2, Effects DEF Load, Steps
  <2>3. \A d \in Contexts \ {c} : held'[d] = held[d] /\ target'[d] = target[d]
    BY <2>1 DEF TypeOK
  <2>4. \A k \in Logs : Done(k)' => Done(k)
    BY <1>0, <2>2, <2>3 DEF Done
  <2> QED
    BY <1>0, <2>1, <2>2, <2>3, <2>4, QuietKeepsGen
<1>3. ASSUME NEW f \in Fds, OpenOther(f) \/ CloseOther(f) PROVE GenInv'
  <2>1. /\ UNCHANGED <<gen, held, step, target, kept, pending, path, asked>>
        /\ \E w \in {"none", "other"} : file' = [file EXCEPT ![f] = w]
    BY <1>3 DEF OpenOther, CloseOther
  <2>2. file'[f] \notin Logs /\ \A g \in Fds \ {f} : file'[g] = file[g]
    BY <2>1 DEF TypeOK, Logs
  <2> QED
    BY <2>1, <2>2 DEF GenInv, Done
<1>4. ASSUME NEW h \in Handlers, Deliver(h) PROVE GenInv'
  <2>1. /\ UNCHANGED <<table, held, target, kept, path, asked>>
        /\ pending' = pending \ {h}
        /\ step'[h] = "log" /\ \A d \in Contexts \ {h} : step'[d] = step[d]
    BY <1>4 DEF Deliver, TypeOK
  <2>2. CASE h = "reopen"
    BY <2>1, <2>2 DEF GenInv, Done
  <2>3. CASE h = "exit"
    <3>1. \A l \in Logs : Done(l)' => Done(l)
      BY <2>1, <2>3 DEF Done
    <3> QED
      BY <2>1, <2>3, <3>1, QuietKeepsGen
  <2> QED
    BY <1>0, <2>2, <2>3
<1>5. ASSUME NEW l \in Logs, NextLog(l)
      PROVE  /\ l = "err" => step'["reopen"] = "open" /\ target'["reopen"] = "acc"
             /\ l = "acc" => step'["reopen"] = "off"
  BY <1>0, <1>5, Effects DEF NextLog, Steps, TypeOK
<1>6. \A l \in Logs : asked[l] \in Nat /\ path[l] \in Nat /\ asked[l] <= path[l]
  BY DEF TypeOK, GenInv
<1>7. ASSUME NEW l \in Logs, OpenLog(l) PROVE GenInv'
  <2>0. UNCHANGED <<fd, pending, path, asked>> /\ step["reopen"] = "open" /\ target["reopen"] = l
    BY <1>7 DEF OpenLog, At
  <2>1. ASSUME NEW f \in Fds, Opened(f, l), held' = [held EXCEPT !["reopen"] = f],
               kept' = kept \ {l}, GoTo("reopen", "close"), UNCHANGED target
        PROVE  GenInv'
    <3>1. /\ file'[f] = l /\ \A g \in Fds \ {f} : file'[g] = file[g]
          /\ gen'[f] = path[l] /\ \A g \in Fds \ {f} : gen'[g] = gen[g]
          /\ held'["reopen"] = f
      BY <2>1 DEF Opened, TypeOK
    <3>2. step'["reopen"] = "close"
      BY <2>1, Effects DEF Steps
    <3>3. gen'[held'["reopen"]] >= asked[l]
      BY <1>6, <3>1
    <3>4. \A k \in Logs : Done(k)' => k # l /\ Done(k)
      BY <1>0, <2>0, <2>1, <3>2 DEF Done
    <3>5. "reopen" \notin pending =>
            \A g \in Fds, k \in Logs \ kept' : file'[g] = k /\ Done(k)' => gen'[g] >= asked[k]
      BY <2>1, <3>1, <3>4 DEF GenInv
    <3> QED
      BY <2>0, <2>1, <3>3, <3>5 DEF GenInv, Done
  <2>2. ASSUME NextLog(l), kept' = kept \cup {l}, UNCHANGED <<table, held>> PROVE GenInv'
    <3>1. \A k \in Logs : Done(k)' => k = l \/ Done(k)
      BY <1>0, <1>5, <2>0, <2>2 DEF Done
    <3>2. step'["reopen"] \notin {"close", "set"}
      BY <1>0, <1>5, <2>2
    <3> QED
      BY <2>0, <2>2, <3>1, <3>2 DEF GenInv, table
  <2> QED
    BY <1>7, <2>1, <2>2 DEF OpenLog
<1>8. ASSUME NEW l \in Logs, CloseLog(l) PROVE GenInv'
  <2>1. /\ UNCHANGED <<gen, held, target, kept, pending, path, asked>>
        /\ step["reopen"] = "close" /\ fd[l] \in Fds
    BY <1>8 DEF CloseLog, At, TypeOK
  <2>2. step'["reopen"] = "set"
    BY <1>8, Effects DEF CloseLog, Steps
  <2>3. \A g \in Fds : file'[g] \in Logs => file'[g] = file[g]
    BY <1>8 DEF CloseLog, TypeOK, Logs
  <2>4. \A k \in Logs : Done(k)' => Done(k)
    BY <2>1, <2>2 DEF Done
  <2> QED
    BY <2>1, <2>2, <2>3, <2>4 DEF GenInv
<1>9. ASSUME NEW l \in Logs, SetLog(l) PROVE GenInv'
  <2>1. /\ UNCHANGED <<table, held, kept, pending, path, asked>>
        /\ step["reopen"] = "set" /\ target["reopen"] = l
        /\ NextLog(l)
    BY <1>9 DEF SetLog, At
  <2>2. \A k \in Logs : Done(k)' => k = l \/ Done(k)
    BY <1>0, <1>5, <2>1 DEF Done
  <2>3. step'["reopen"] \notin {"close", "set"}
    BY <1>0, <1>5, <2>1
  <2>4. \A g \in Fds : file[g] = l => g = held["reopen"]
    BY <2>1 DEF TableInv, Logs
  <2> QED
    BY <2>1, <2>2, <2>3, <2>4 DEF GenInv, table
<1>10. ASSUME MoveErr \/ MoveAcc PROVE GenInv'
  <2>1. /\ UNCHANGED <<table, step, held, target, kept, pending, asked>>
        /\ \E l \in Logs : path' = [path EXCEPT ![l] = @ + 1]
    BY <1>10 DEF MoveErr, MoveAcc
  <2>2. PICK l \in Logs : path' = [path EXCEPT ![l] = path[l] + 1]
    BY <2>1
  <2>3. path'[l] = path[l] + 1 /\ \A k \in Logs \ {l} : path'[k] = path[k]
    BY <2>2 DEF TypeOK
  <2>4. path'[l] >= path[l]
    BY <1>6, <2>3
  <2>5. \A k \in Logs : asked'[k] <= path'[k]
    BY <1>6, <2>1, <2>3, <2>4
  <2> QED
    BY <2>1, <2>5 DEF GenInv, Done, table
<1>11. ASSUME SignalReopen PROVE GenInv'
  <2>1. "reopen" \in pending' /\ asked' = path /\ path' = path
    BY <1>11 DEF SignalReopen
  <2> QED
    BY <1>6, <2>1 DEF GenInv
<1>12. ASSUME SignalExit \/ UNCHANGED vars PROVE GenInv'
  <2>1. /\ UNCHANGED <<table, step, held, target, kept, path, asked>>
        /\ "reopen" \in pending' <=> "reopen" \in pending
    BY <1>12 DEF SignalExit, vars
  <2> QED
    BY <2>1, QuietKeepsGen DEF Done
<1> QED
  BY <1>1, <1>2, <1>3, <1>4, <1>7, <1>8, <1>9, <1>10, <1>11, <1>12 DEF Next, Process, Operator

\* The initial state satisfies the inductive invariant.
LEMMA LogInit == Init => LogInv
<1> SUFFICES ASSUME Init PROVE LogInv
  OBVIOUS
<1>0. 1 \in Fds /\ 2 \in Fds
  BY FdAssumption DEF Fds
<1>1. /\ step["main"] = "run" /\ step["exit"] = "off" /\ step["reopen"] = "off"
      /\ \A c \in Contexts : step[c] # "write"
  BY Names DEF Init
<1>2. /\ fd["err"] = 1 /\ fd["acc"] = 2
      /\ file[1] = "err" /\ file[2] = "acc" /\ \A f \in Fds \ {1, 2} : file[f] = "none"
  <2>1. fd["err"] = 1 /\ fd["acc"] = 2
    BY Names DEF Init
  <2>2. \A f \in Fds : file[f] = IF f = 1 THEN "err" ELSE IF f = 2 THEN "acc" ELSE "none"
    BY DEF Init
  <2> QED
    BY <1>0, <2>1, <2>2
<1>3. \A l \in Logs : path[l] = 0 /\ asked[l] = 0
  BY DEF Init
<1>4. TypeOK
  <2>1. file \in [Fds -> Logs \cup {"other", "none"}] /\ fd \in [Logs -> Fds]
    BY <1>0, Names DEF Init
  <2>2. gen \in [Fds -> Nat] /\ path \in [Logs -> Nat] /\ asked \in [Logs -> Nat]
    BY DEF Init
  <2>3. under \in [Handlers -> Contexts] /\ step \in [Contexts -> Steps]
    BY Names DEF Init, Steps
  <2>4. held \in [Contexts -> Fds] /\ target \in [Contexts -> Logs]
    BY <1>0, Names DEF Init
  <2> QED
    BY <2>1, <2>2, <2>3, <2>4, Names DEF Init, TypeOK
<1>5. StackInv
  BY <1>1 DEF Init, StackInv, Handlers
<1>6. TableInv
  <2>1. \A l \in Logs : file[fd[l]] = l
    BY <1>2 DEF Logs
  <2>2. \A f \in Fds : file[f] \in Logs => f = fd[file[f]]
    BY <1>0, <1>2 DEF Logs
  <2> QED
    BY <1>1, <2>1, <2>2 DEF TableInv, LogsOpen, NoLineToClient
<1>7. GenInv
  <2>1. \A f \in Fds : gen[f] = 0
    BY DEF Init
  <2> QED
    BY <1>1, <1>3, <2>1 DEF GenInv
<1> QED
  BY <1>4, <1>5, <1>6, <1>7 DEF LogInv

-----------------------------------------------------------------------------
(* The theorems.                                                           *)

\* The inductive invariant holds of every reachable state.
THEOREM LogInvariant == Spec => []LogInv
<1>1. LogInv /\ [Next]_vars => LogInv'
  BY TypeStep, StackStep, TableStep, GenStep DEF LogInv
<1> QED
  BY <1>1, LogInit, PTL DEF Spec

\* The descriptor in use for a log is open on it, whatever a rotation meets.
THEOREM LogsOpenHolds == Spec => []LogsOpen
<1>1. LogInv => LogsOpen
  BY DEF LogInv, TableInv
<1> QED
  BY <1>1, LogInvariant, PTL

\* Rotations leak no descriptor.
THEOREM OnePerLogHolds == Spec => []OnePerLog
<1>1. LogInv => OnePerLog
  <2> SUFFICES ASSUME TypeOK, TableInv, NEW l \in Logs, NEW f \in Fds, NEW g \in Fds,
                      file[f] = l, file[g] = l, f # g
               PROVE  step["reopen"] = "close" /\ target["reopen"] = l
    BY DEF LogInv, OnePerLog
  <2>1. step["reopen"] \in {"close", "set"} /\ target["reopen"] = l
    BY DEF TableInv
  <2>2. f = fd[l] \/ g = fd[l]
    BY DEF TableInv
  <2>3. l # "none"
    BY DEF Logs
  <2>4. step["reopen"] # "set"
    BY <2>1, <2>2, <2>3 DEF TableInv
  <2> QED
    BY <2>1, <2>4
<1> QED
  BY <1>1, LogInvariant, PTL

\* No line of a log is sent to a client.
THEOREM NoLineToClientHolds == Spec => []NoLineToClient
<1>1. LogInv => NoLineToClient
  BY DEF LogInv, TableInv
<1> QED
  BY <1>1, LogInvariant, PTL

\* After the handler nothing is open on a renamed file.
THEOREM RotationCompleteHolds == Spec => []RotationComplete
<1>1. LogInv => RotationComplete
  BY DEF LogInv, GenInv, Done, RotationComplete
<1> QED
  BY <1>1, LogInvariant, PTL
=============================================================================
