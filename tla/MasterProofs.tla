---------------------------- MODULE MasterProofs ----------------------------
(***************************************************************************)
(* Proofs about module Master, for any number of starts, of workers and of *)
(* signals, and for every set of faults.                                   *)
(***************************************************************************)
EXTENDS Master, FiniteSetTheorems, TLAPS

\* There are workers, finitely many, and no set of them has more than all.
LEMMA Many ==
    /\ NWorkers \in Nat \ {0}
    /\ IsFiniteSet(Index) /\ Cardinality(Index) = NWorkers
<1>1. NWorkers \in Nat \ {0}
  BY WorkerAssumption DEF NWorkers
<1> QED
  BY <1>1, FS_Interval DEF Index

\* What a step of main() does to pc.
LEMMA Going ==
    ASSUME TypeOK, NEW m \in Masters, NEW to \in Points, Go(m, to)
    PROVE  /\ pc' \in [Masters -> Points]
           /\ pc'[m] = to
           /\ \A n \in Masters \ {m} : pc'[n] = pc[n]
  BY DEF TypeOK, Go

\* What a step that changes one worker does to worker.
LEMMA Changing ==
    ASSUME TypeOK, NEW m \in Masters, NEW i \in Index, NEW state \in WorkerStates,
           worker' = [worker EXCEPT ![m][i] = state]
    PROVE  /\ worker' \in [Masters -> [Index -> WorkerStates]]
           /\ worker'[m][i] = state
           /\ \A j \in Index \ {i} : worker'[m][j] = worker[m][j]
           /\ \A n \in Masters \ {m} : worker'[n] = worker[n]
<1>1. worker \in [Masters -> [Index -> WorkerStates]]
  BY DEF TypeOK
<1> QED
  BY <1>1

\* The same for wpend and for mpend.
LEMMA Telling ==
    ASSUME TypeOK, NEW m \in Masters
    PROVE  /\ \A i \in Index, set \in SUBSET Signals :
                wpend' = [wpend EXCEPT ![m][i] = set] => wpend' \in [Masters -> [Index -> SUBSET Signals]]
           /\ \A set \in SUBSET Signals :
                mpend' = [mpend EXCEPT ![m] = set] => mpend' \in [Masters -> SUBSET Signals]
<1>1. mpend \in [Masters -> SUBSET Signals] /\ wpend \in [Masters -> [Index -> SUBSET Signals]]
  BY DEF TypeOK
<1>2. ASSUME NEW i \in Index, NEW set \in SUBSET Signals, wpend' = [wpend EXCEPT ![m][i] = set]
      PROVE  wpend' \in [Masters -> [Index -> SUBSET Signals]]
  BY <1>1, <1>2
<1>3. ASSUME NEW set \in SUBSET Signals, mpend' = [mpend EXCEPT ![m] = set]
      PROVE  mpend' \in [Masters -> SUBSET Signals]
  BY <1>1, <1>3
<1> QED
  BY <1>2, <1>3

\* The points of main() and the states of a worker, by name.
LEMMA Names ==
    /\ "off" \in Points /\ "check" \in Points /\ "listen" \in Points /\ "daemon" \in Points
    /\ "record" \in Points /\ "write" \in Points /\ "fork" \in Points /\ "forked" \in Points
    /\ "register" \in Points /\ "wait" \in Points /\ "clean" \in Points /\ "end" \in Points
    /\ "gone" \in Points /\ "killed" \in Points /\ "crashed" \in Points
    /\ "none" \in WorkerStates /\ "boot" \in WorkerStates /\ "loop" \in WorkerStates
    /\ "stopping" \in WorkerStates /\ "ended" \in WorkerStates
    /\ "zombie" \in WorkerStates /\ "reaped" \in WorkerStates
    /\ "INT" \in Signals /\ "QUIT" \in Signals /\ "USR1" \in Signals /\ "USR2" \in Signals
  BY DEF Points, Starting, Serving, Over, WorkerStates, Live, Signals

\* A step of a worker other than its birth and its reaping: a live worker stays
\* live or becomes a zombie.
LEMMA Living ==
    ASSUME TypeOK, NEW m \in Masters, NEW i \in Index, Worker(m, i) \/ KillWorker(m, i)
    PROVE  /\ UNCHANGED <<masters, mpend, pidfile, requests>>
           /\ wpend' \in [Masters -> [Index -> SUBSET Signals]]
           /\ \/ UNCHANGED worker
              \/ /\ worker[m][i] \in Live
                 /\ \E state \in Live \cup {"zombie"} : worker' = [worker EXCEPT ![m][i] = state]
<1>1. wpend \in [Masters -> [Index -> SUBSET Signals]] /\ wpend[m][i] \in SUBSET Signals
  BY DEF TypeOK
<1>2. CASE WorkerMain(m, i)
  BY <1>1, <1>2 DEF WorkerMain, Become, In, Live
<1>3. CASE WorkerStops(m, i)
  <2>1. PICK state \in CASE worker[m][i] = "boot" -> {"zombie"}
                      [] worker[m][i] \in {"loop", "stopping"} -> {"stopping"}
                      [] worker[m][i] = "ended" -> {"ended", "zombie"} :
          /\ worker' = [worker EXCEPT ![m][i] = state]
          /\ wpend' = [wpend EXCEPT ![m][i] = IF state = "zombie" THEN {} ELSE @ \ {"USR2"}]
    BY <1>3 DEF WorkerStops
  <2>2. worker[m][i] \in Live
    BY <1>3 DEF WorkerStops
  <2>3. state \in Live \cup {"zombie"}
    <3>1. CASE worker[m][i] = "boot"
      BY <2>1, <3>1
    <3>2. CASE worker[m][i] \in {"loop", "stopping"}
      BY <2>1, <3>2 DEF Live
    <3>3. CASE worker[m][i] = "ended"
      BY <2>1, <3>3 DEF Live
    <3> QED
      BY <2>2, <3>1, <3>2, <3>3 DEF Live
  <2>4. wpend' \in [Masters -> [Index -> SUBSET Signals]]
    <3>1. CASE state = "zombie"
      BY <1>1, <2>1, <3>1
    <3>2. CASE state # "zombie"
      BY <1>1, <2>1, <3>2
    <3> QED
      BY <3>1, <3>2
  <2> QED
    BY <1>3, <2>1, <2>2, <2>3, <2>4 DEF WorkerStops
<1>4. CASE WorkerReopens(m, i)
  BY <1>1, <1>4 DEF WorkerReopens
<1>5. CASE KillWorker(m, i)
  BY <1>1, <1>5 DEF KillWorker
<1> QED
  BY <1>2, <1>3, <1>4, <1>5 DEF Worker

\* The parts of main() that leave the workers alone.
Quiet(m) ==
    \/ Start(m) \/ Check(m) \/ CreateListenfd(m) \/ Daemon(m) \/ Record(m)
    \/ Write(m) \/ Register(m) \/ CleanPid(m) \/ End(m)

LEMMA QuietStep ==
    ASSUME TypeOK, NEW m \in Masters, Quiet(m)
    PROVE  /\ UNCHANGED <<forked, waited, mpend, workers, requests>>
           /\ pidfile' \in {pidfile, 0, m}
           /\ \E to \in Points : Go(m, to)
<1>1. CASE Start(m)
  BY <1>1, Names DEF Start
<1>2. CASE Check(m)
  BY <1>2, Names DEF Check
<1>3. CASE CreateListenfd(m) \/ Daemon(m)
  BY <1>3, Names DEF CreateListenfd, Daemon, Attempt
<1>4. CASE Record(m) \/ Write(m)
  BY <1>4, Names DEF Record, Write
<1>5. CASE Register(m) \/ CleanPid(m) \/ End(m)
  BY <1>5, Names DEF Register, CleanPid, End
<1> QED
  BY <1>1, <1>2, <1>3, <1>4, <1>5 DEF Quiet

\* A step of a signal handler of a master, of its end by SIGKILL, of the operator.
LEMMA Handling ==
    ASSUME TypeOK, NEW m \in Masters, MasterHandler(m) \/ KillMaster(m)
    PROVE  /\ UNCHANGED <<forked, waited, worker, pidfile, requests>>
           /\ mpend' \in [Masters -> SUBSET Signals]
           /\ wpend' \in [Masters -> [Index -> SUBSET Signals]]
           /\ UNCHANGED pc \/ (Alive(m) /\ (Go(m, "crashed") \/ Go(m, "killed")))
<1>1. mpend[m] \in SUBSET Signals /\ wpend \in [Masters -> [Index -> SUBSET Signals]]
  BY DEF TypeOK
<1>2. ASSUME NEW from, NEW signal \in Signals, Forward(m, from, signal)
      PROVE  /\ UNCHANGED <<pc, forked, waited, worker, pidfile, requests>>
             /\ mpend' \in [Masters -> SUBSET Signals]
             /\ wpend' \in [Masters -> [Index -> SUBSET Signals]]
  <2> DEFINE group == forked[m] < NWorkers
  <2>1. (mpend[m] \ {from}) \cup (IF group THEN {signal} ELSE {}) \in SUBSET Signals
    BY <1>1
  <2>2. mpend' \in [Masters -> SUBSET Signals]
    BY <1>2, <2>1, Telling DEF Forward
  <2>3. \A i \in Index : wpend[m][i] \in SUBSET Signals /\ wpend[m][i] \cup {signal} \in SUBSET Signals
    BY <1>1
  <2>4. [i \in Index |-> IF worker[m][i] \in Live /\ (group \/ i <= forked[m])
                           THEN wpend[m][i] \cup {signal} ELSE wpend[m][i]]
          \in [Index -> SUBSET Signals]
    BY <2>3
  <2>5. wpend' \in [Masters -> [Index -> SUBSET Signals]]
    BY <1>1, <1>2, <2>4 DEF Forward
  <2> QED
    BY <1>2, <2>2, <2>5 DEF Forward, masters
<1>3. CASE ExitHandler(m) \/ ReopenHandler(m)
  BY <1>2, <1>3, Names DEF ExitHandler, ReopenHandler
<1>4. CASE MasterReopens(m)
  <2>1. mpend' \in [Masters -> SUBSET Signals]
    BY <1>1, <1>4, Telling DEF MasterReopens
  <2> QED
    BY <1>1, <1>4, <2>1 DEF MasterReopens, masters, workers
<1>5. CASE MasterStops(m) \/ KillMaster(m)
  <2>1. mpend' \in [Masters -> SUBSET Signals]
    BY <1>5, Telling DEF MasterStops, KillMaster
  <2> QED
    BY <1>1, <1>5, <2>1 DEF MasterStops, KillMaster, Handles, workers
<1> QED
  BY <1>3, <1>4, <1>5 DEF MasterHandler

LEMMA Commanding ==
    ASSUME TypeOK, NEW signal \in {"QUIT", "INT"}, Operator(signal)
    PROVE  /\ UNCHANGED <<masters, workers, pidfile>>
           /\ mpend' \in [Masters -> SUBSET Signals]
           /\ requests' \in 0 .. Requests
<1>1. PICK m \in Masters : mpend' = [mpend EXCEPT ![m] = @ \cup {signal}]
  BY DEF Operator
<1>2. mpend[m] \cup {signal} \in SUBSET Signals
  BY Names DEF TypeOK
<1>3. mpend' \in [Masters -> SUBSET Signals]
  BY <1>1, <1>2, Telling
<1> QED
  BY <1>3, BoundAssumption DEF Operator, TypeOK
-----------------------------------------------------------------------------
\* The steps, in the groups in which they are proved about.
LEMMA Kinds ==
    ASSUME [Next]_vars
    PROVE  \/ UNCHANGED vars
           \/ \E m \in Masters : Quiet(m)
           \/ \E m \in Masters : Fork(m)
           \/ \E m \in Masters : KeepPid(m)
           \/ \E m \in Masters : Wait(m)
           \/ \E m \in Masters : MasterHandler(m) \/ KillMaster(m)
           \/ \E m \in Masters : \E i \in Index : Worker(m, i) \/ KillWorker(m, i)
           \/ \E signal \in {"QUIT", "INT"} : Operator(signal)
  BY DEF Next, Main, Quiet

\* Every step keeps every variable within its type.
LEMMA TypeStep == TypeOK /\ Counted /\ Stages /\ [Next]_vars => TypeOK'
<1> SUFFICES ASSUME TypeOK, Counted, Stages, [Next]_vars PROVE TypeOK'
  OBVIOUS
<1>1. CASE UNCHANGED vars
  BY <1>1 DEF vars, masters, workers, TypeOK
<1>2. ASSUME NEW m \in Masters, Quiet(m) PROVE TypeOK'
  <2>1. pc' \in [Masters -> Points]
    BY <1>2, QuietStep, Going
  <2>2. pidfile' \in 0 .. Starts
    <3>1. pidfile \in 0 .. Starts /\ 0 \in 0 .. Starts /\ m \in 0 .. Starts
      BY BoundAssumption DEF TypeOK, Masters
    <3>2. pidfile' \in {pidfile, 0, m}
      BY <1>2, QuietStep
    <3> QED
      BY <3>1, <3>2
  <2> QED
    BY <1>2, <2>1, <2>2, QuietStep DEF TypeOK, workers
<1>3. ASSUME NEW m \in Masters, Fork(m) PROVE TypeOK'
  <2>1. pc' \in [Masters -> Points]
    BY <1>3, Going, Names DEF Fork
  <2>2. pc[m] = "fork" /\ forked[m] \in Nat /\ forked[m] < NWorkers
    BY <1>3, Many DEF Fork, At, Stages, TypeOK
  <2>3. forked[m] + 1 \in Index
    BY <2>2, Many DEF Index
  <2>4. worker' \in [Masters -> [Index -> WorkerStates]]
    BY <1>3, <2>3, Changing, Names DEF Fork, TypeOK
  <2> QED
    BY <1>3, <2>1, <2>4 DEF Fork, TypeOK
<1>4. ASSUME NEW m \in Masters, KeepPid(m) PROVE TypeOK'
  <2>1. pc' \in [Masters -> Points]
    BY <1>4, Going, Names DEF KeepPid
  <2>2. pc[m] = "forked" /\ forked[m] \in Nat /\ forked[m] < NWorkers
    BY <1>4, Many DEF KeepPid, At, Stages, TypeOK
  <2>3. forked[m] + 1 \in 0 .. NWorkers
    BY <2>2, Many
  <2>4. forked' \in [Masters -> 0 .. NWorkers]
    BY <1>4, <2>3 DEF KeepPid, TypeOK
  <2> QED
    BY <1>4, <2>1, <2>4 DEF KeepPid, TypeOK, workers
<1>5. ASSUME NEW m \in Masters, Wait(m) PROVE TypeOK'
  <2>1. pc' \in [Masters -> Points]
    BY <1>5, Going, Names DEF Wait
  <2>2. waited[m] \in Nat /\ waited[m] < NWorkers
    BY <1>5, Many DEF Wait, At, Stages, TypeOK
  <2>3. waited[m] + 1 \in 0 .. NWorkers
    BY <2>2, Many
  <2>4. waited' \in [Masters -> 0 .. NWorkers]
    BY <1>5, <2>3 DEF Wait, TypeOK
  <2>5. worker' \in [Masters -> [Index -> WorkerStates]]
    BY <1>5, Changing, Names DEF Wait
  <2> QED
    BY <1>5, <2>1, <2>4, <2>5 DEF Wait, TypeOK
<1>6. ASSUME NEW m \in Masters, MasterHandler(m) \/ KillMaster(m) PROVE TypeOK'
  <2>1. pc' \in [Masters -> Points]
    <3>1. CASE UNCHANGED pc
      BY <3>1 DEF TypeOK
    <3>2. CASE Go(m, "crashed") \/ Go(m, "killed")
      BY <3>2, Going, Names
    <3> QED
      BY <1>6, <3>1, <3>2, Handling
  <2> QED
    BY <1>6, <2>1, Handling DEF TypeOK
<1>7. ASSUME NEW m \in Masters, NEW i \in Index, Worker(m, i) \/ KillWorker(m, i) PROVE TypeOK'
  <2>1. worker' \in [Masters -> [Index -> WorkerStates]]
    <3>1. CASE UNCHANGED worker
      BY <3>1 DEF TypeOK
    <3>2. CASE \E state \in Live \cup {"zombie"} : worker' = [worker EXCEPT ![m][i] = state]
      BY <3>2, Changing, Names DEF WorkerStates
    <3> QED
      BY <1>7, <3>1, <3>2, Living
  <2> QED
    BY <1>7, <2>1, Living DEF TypeOK, masters
<1>8. ASSUME NEW signal \in {"QUIT", "INT"}, Operator(signal) PROVE TypeOK'
  BY <1>8, Commanding DEF TypeOK, masters, workers
<1> QED
  BY <1>1, <1>2, <1>3, <1>4, <1>5, <1>6, <1>7, <1>8, Kinds

\* The reaped workers are finitely many.
LEMMA Finite ==
    ASSUME NEW m \in Masters
    PROVE  /\ IsFiniteSet(Reaped(m))
           /\ Cardinality(Reaped(m)) \in Nat
           /\ Cardinality(Reaped(m)) <= NWorkers
           /\ Cardinality(Reaped(m)) = NWorkers => Reaped(m) = Index
           /\ Cardinality(Reaped(m)) = 0 => Reaped(m) = {}
<1>1. Reaped(m) \in SUBSET Index
  BY DEF Reaped
<1>2. IsFiniteSet(Reaped(m))
  BY <1>1, Many, FS_Subset
<1> QED
  BY <1>1, <1>2, Many, FS_Subset, FS_CardinalityType, FS_EmptySet

\* waited[] counts the reaped workers: fork() overwrites no reaped one, and only
\* wait() makes one.
LEMMA CountedStep == TypeOK /\ Counted /\ Stages /\ [Next]_vars => Counted'
<1> SUFFICES ASSUME TypeOK, Counted, Stages, [Next]_vars,
                    NEW n \in Masters
             PROVE  waited'[n] = Cardinality(Reaped(n)')
  BY DEF Counted
<1>0. waited[n] = Cardinality(Reaped(n))
  BY DEF Counted
<1>1. ASSUME worker'[n] = worker[n], waited'[n] = waited[n]
      PROVE  waited'[n] = Cardinality(Reaped(n)')
  <2>1. Reaped(n)' = Reaped(n)
    BY <1>1 DEF Reaped
  <2> QED
    BY <1>0, <1>1, <2>1
<1>2. CASE UNCHANGED <<worker, waited>>
  BY <1>1, <1>2
<1>3. ASSUME NEW m \in Masters, Fork(m) PROVE waited'[n] = Cardinality(Reaped(n)')
  <2>1. CASE worker' = [worker EXCEPT ![m][forked[m] + 1] = "boot"]
    <3>1. forked[m] + 1 \in Index
      <4>1. forked[m] \in Nat /\ forked[m] < NWorkers
        BY <1>3, Many DEF Fork, At, Stages, TypeOK
      <4> QED
        BY <4>1, Many DEF Index
    <3>2. CASE n = m
      <4>1. waited[n] = 0 /\ Reaped(n) = {}
        BY <1>0, <1>3, <3>2, Finite DEF Fork, At, Stages
      <4>2. \A i \in Index : worker'[n][i] # "reaped"
        BY <2>1, <3>1, <3>2, <4>1, Changing, Names DEF Reaped
      <4>3. Reaped(n)' = {}
        BY <4>2 DEF Reaped
      <4> QED
        BY <1>3, <4>1, <4>3, FS_EmptySet DEF Fork
    <3>3. CASE n # m
      BY <1>1, <1>3, <2>1, <3>1, <3>3, Changing, Names DEF Fork
    <3> QED
      BY <3>2, <3>3
  <2> QED
    BY <1>2, <1>3, <2>1 DEF Fork
<1>4. ASSUME NEW m \in Masters, Wait(m) PROVE waited'[n] = Cardinality(Reaped(n)')
  <2>1. PICK i \in Index : worker[m][i] = "zombie" /\ worker' = [worker EXCEPT ![m][i] = "reaped"]
    BY <1>4 DEF Wait
  <2>2. CASE n = m
    <3>0. /\ worker[n][i] # "reaped" /\ worker'[n][i] = "reaped"
          /\ \A j \in Index \ {i} : worker'[n][j] = worker[n][j]
      BY <2>1, <2>2, Changing, Names
    <3>1. i \notin Reaped(n) /\ Reaped(n)' = Reaped(n) \cup {i}
      BY <3>0 DEF Reaped
    <3>2. Cardinality(Reaped(n)') = Cardinality(Reaped(n)) + 1
      BY <3>1, Finite, FS_AddElement
    <3> QED
      BY <1>0, <1>4, <2>2, <3>2 DEF Wait, TypeOK
  <2>3. CASE n # m
    BY <1>1, <1>4, <2>1, <2>3, Changing, Names DEF Wait, TypeOK
  <2> QED
    BY <2>2, <2>3
<1>5. ASSUME NEW m \in Masters, NEW i \in Index, Worker(m, i) \/ KillWorker(m, i)
      PROVE  waited'[n] = Cardinality(Reaped(n)')
  <2>1. CASE UNCHANGED worker
    BY <1>2, <1>5, <2>1, Living DEF masters
  <2>2. CASE /\ worker[m][i] \in Live
             /\ \E state \in Live \cup {"zombie"} : worker' = [worker EXCEPT ![m][i] = state]
    <3>1. PICK state \in Live \cup {"zombie"} : worker' = [worker EXCEPT ![m][i] = state]
      BY <2>2
    <3>2. state \in WorkerStates /\ state # "reaped" /\ worker[m][i] # "reaped"
      BY <2>2, <3>1 DEF WorkerStates, Live
    <3>3. \A j \in Index : worker'[n][j] = "reaped" <=> worker[n][j] = "reaped"
      BY <3>1, <3>2, Changing
    <3>4. Reaped(n)' = Reaped(n)
      BY <3>3 DEF Reaped
    <3> QED
      BY <1>0, <1>5, <3>4, Living DEF masters
  <2> QED
    BY <1>5, <2>1, <2>2, Living
<1> QED
  <2>1. CASE UNCHANGED vars
    BY <1>2, <2>1 DEF vars, masters, workers
  <2>2. ASSUME NEW m \in Masters, Quiet(m) PROVE UNCHANGED <<worker, waited>>
    BY <2>2, QuietStep DEF workers
  <2>3. ASSUME NEW m \in Masters, KeepPid(m) PROVE UNCHANGED <<worker, waited>>
    BY <2>3 DEF KeepPid, workers
  <2>4. ASSUME NEW m \in Masters, MasterHandler(m) \/ KillMaster(m) PROVE UNCHANGED <<worker, waited>>
    BY <2>4, Handling
  <2>5. ASSUME NEW signal \in {"QUIT", "INT"}, Operator(signal) PROVE UNCHANGED <<worker, waited>>
    BY <2>5, Commanding DEF masters, workers
  <2> QED
    BY <1>2, <1>3, <1>4, <1>5, <2>1, <2>2, <2>3, <2>4, <2>5, Kinds
-----------------------------------------------------------------------------
\* What Stages says of one master.
Staged(m) ==
    /\ pc[m] \in {"off"} \cup Starting => forked[m] = 0 /\ \A i \in Index : worker[m][i] = "none"
    /\ pc[m] \in {"fork", "forked"} => forked[m] < NWorkers
    /\ pc[m] \in {"fork", "forked", "register"} => waited[m] = 0
    /\ pc[m] = "wait" => waited[m] < NWorkers
    /\ pc[m] = "clean" => waited[m] = NWorkers
    /\ pc[m] \in {"end", "gone"} => forked[m] < NWorkers \/ waited[m] = NWorkers

\* A step of main() goes on from one point to the next.
LEMMA Onwards ==
    ASSUME TypeOK, NEW m \in Masters, Quiet(m), NEW to \in Points, Go(m, to)
    PROVE  \/ pc[m] \in {"off"} \cup Starting /\ to \in Starting \cup {"end"}
           \/ pc[m] = "write" /\ to = "fork"
           \/ pc[m] = "register" /\ to = "wait"
           \/ pc[m] = "clean" /\ to = "end"
           \/ pc[m] = "end" /\ to = "gone"
<1>1. pc'[m] = to
  BY Going
<1>2. \A point \in Points : Go(m, point) => pc'[m] = point
  BY Going
<1>3. CASE Start(m)
  BY <1>1, <1>2, <1>3, Names DEF Start, Starting
<1>4. CASE Check(m)
  BY <1>1, <1>2, <1>4, Names DEF Check, At, Starting
<1>5. CASE CreateListenfd(m)
  BY <1>1, <1>2, <1>5, Names DEF CreateListenfd, Attempt, At, Starting
<1>6. CASE Daemon(m)
  BY <1>1, <1>2, <1>6, Names DEF Daemon, Attempt, At, Starting
<1>7. CASE Record(m)
  BY <1>1, <1>2, <1>7, Names DEF Record, At, Starting
<1>8. CASE Write(m)
  BY <1>1, <1>2, <1>8, Names DEF Write, At
<1>9. CASE Register(m)
  BY <1>1, <1>2, <1>9, Names DEF Register, At
<1>10. CASE CleanPid(m)
  BY <1>1, <1>2, <1>10, Names DEF CleanPid, At
<1>11. CASE End(m)
  BY <1>1, <1>2, <1>11, Names DEF End, At
<1> QED
  BY <1>3, <1>4, <1>5, <1>6, <1>7, <1>8, <1>9, <1>10, <1>11 DEF Quiet

\* How far main() is says how many workers there have been.
LEMMA StagesStep == TypeOK /\ Counted /\ Stages /\ [Next]_vars => Stages'
<1> SUFFICES ASSUME TypeOK, Counted, Stages, [Next]_vars,
                    NEW n \in Masters
             PROVE  Staged(n)'
  BY DEF Stages, Staged
<1>0. Staged(n) /\ waited[n] = Cardinality(Reaped(n)) /\ waited[n] \in Nat /\ forked[n] \in Nat
      /\ NWorkers \in Nat \ {0}
  BY Many DEF Stages, Staged, Counted, TypeOK
<1>1. ASSUME pc'[n] = pc[n], forked'[n] = forked[n], waited'[n] = waited[n], worker'[n] = worker[n]
      PROVE  Staged(n)'
  BY <1>0, <1>1 DEF Staged
<1>2. ASSUME UNCHANGED <<pc, forked, waited, worker>> PROVE Staged(n)'
  BY <1>1, <1>2
<1>3. ASSUME NEW m \in Masters, Quiet(m) PROVE Staged(n)'
  <2>1. PICK to \in Points : Go(m, to)
    BY <1>3, QuietStep
  <2>2. CASE n = m
    <3>1. pc'[n] = to /\ UNCHANGED <<forked, waited, worker>>
      BY <1>3, <2>1, <2>2, QuietStep, Going DEF workers
    <3>2. CASE pc[m] \in {"off"} \cup Starting /\ to \in Starting \cup {"end"}
      <4>1. forked[n] = 0 /\ \A i \in Index : worker[n][i] = "none"
        BY <1>0, <2>2, <3>2 DEF Staged
      <4>2. pc'[n] \in Starting \cup {"end"} /\ forked'[n] = 0 /\ \A i \in Index : worker'[n][i] = "none"
        BY <3>1, <3>2, <4>1
      <4> QED
        BY <1>0, <4>2 DEF Staged, Starting
    <3>3. CASE pc[m] = "write" /\ to = "fork"
      <4>1. forked[n] = 0 /\ \A i \in Index : worker[n][i] = "none"
        BY <1>0, <2>2, <3>3 DEF Staged, Starting
      <4>2. Reaped(n) = {}
        BY <4>1 DEF Reaped
      <4>3. waited[n] = 0
        BY <1>0, <4>2, FS_EmptySet
      <4> QED
        BY <1>0, <3>1, <3>3, <4>1, <4>3 DEF Staged, Starting
    <3>4. CASE pc[m] = "register" /\ to = "wait"
      BY <1>0, <2>2, <3>1, <3>4 DEF Staged, Starting
    <3>5. CASE pc[m] = "clean" /\ to = "end"
      BY <1>0, <2>2, <3>1, <3>5 DEF Staged, Starting
    <3>6. CASE pc[m] = "end" /\ to = "gone"
      BY <1>0, <2>2, <3>1, <3>6 DEF Staged, Starting
    <3> QED
      BY <1>3, <2>1, <3>2, <3>3, <3>4, <3>5, <3>6, Onwards
  <2>3. CASE n # m
    BY <1>1, <1>3, <2>1, <2>3, QuietStep, Going DEF workers
  <2> QED
    BY <2>2, <2>3
<1>4. ASSUME NEW m \in Masters, Fork(m) PROVE Staged(n)'
  <2>0. pc[m] = "fork" /\ UNCHANGED <<forked, waited>>
    BY <1>4 DEF Fork, At
  <2>1. CASE Go(m, "forked") /\ worker' = [worker EXCEPT ![m][forked[m] + 1] = "boot"]
    <3>1. CASE n = m
      <4>1. pc'[n] = "forked"
        BY <2>1, <3>1, Going, Names
      <4> QED
        BY <1>0, <2>0, <3>1, <4>1 DEF Staged, Starting
    <3>2. CASE n # m
      <4>1. worker'[n] = worker[n]
        BY <2>1, <3>2 DEF TypeOK
      <4>2. pc'[n] = pc[n]
        BY <2>1, <3>2, Going, Names
      <4> QED
        BY <1>1, <2>0, <4>1, <4>2
    <3> QED
      BY <3>1, <3>2
  <2>2. CASE Go(m, "end") /\ UNCHANGED worker
    <3>1. CASE n = m
      <4>1. pc'[n] = "end"
        BY <2>2, <3>1, Going, Names
      <4> QED
        BY <1>0, <2>0, <3>1, <4>1 DEF Staged, Starting
    <3>2. CASE n # m
      BY <1>1, <2>0, <2>2, <3>2, Going, Names
    <3> QED
      BY <3>1, <3>2
  <2> QED
    BY <1>4, <2>1, <2>2 DEF Fork
<1>5. ASSUME NEW m \in Masters, KeepPid(m) PROVE Staged(n)'
  <2>0. pc[m] = "forked" /\ UNCHANGED <<waited, worker>> /\ forked' = [forked EXCEPT ![m] = @ + 1]
        /\ Go(m, IF forked[m] + 1 = NWorkers THEN "register" ELSE "fork")
    BY <1>5 DEF KeepPid, At, workers
  <2>1. CASE n = m
    <3>1. forked'[n] = forked[n] + 1 /\ forked[n] < NWorkers /\ waited[n] = 0
      BY <1>0, <2>0, <2>1 DEF Staged, TypeOK
    <3>2. CASE forked[n] + 1 = NWorkers
      <4>1. pc'[n] = "register"
        BY <2>0, <2>1, <3>2, Going, Names
      <4> QED
        BY <2>0, <3>1, <4>1 DEF Staged, Starting
    <3>3. CASE forked[n] + 1 # NWorkers
      <4>1. pc'[n] = "fork"
        BY <2>0, <2>1, <3>3, Going, Names
      <4>2. forked[n] + 1 < NWorkers
        BY <1>0, <3>1, <3>3
      <4> QED
        BY <2>0, <3>1, <4>1, <4>2 DEF Staged, Starting
    <3> QED
      BY <3>2, <3>3
  <2>2. CASE n # m
    <3>1. pc'[n] = pc[n]
      BY <2>0, <2>2, Going, Names
    <3>2. forked'[n] = forked[n]
      BY <2>0, <2>2 DEF TypeOK
    <3> QED
      BY <1>1, <2>0, <3>1, <3>2
  <2> QED
    BY <2>1, <2>2
<1>6. ASSUME NEW m \in Masters, Wait(m) PROVE Staged(n)'
  <2>0. pc[m] = "wait" /\ UNCHANGED forked /\ waited' = [waited EXCEPT ![m] = @ + 1]
        /\ Go(m, IF waited[m] + 1 = NWorkers THEN "clean" ELSE "wait")
    BY <1>6 DEF Wait, At
  <2>1. CASE n = m
    <3>1. waited'[n] = waited[n] + 1 /\ waited[n] < NWorkers
      BY <1>0, <2>0, <2>1 DEF Staged, TypeOK
    <3>2. CASE waited[n] + 1 = NWorkers
      <4>1. pc'[n] = "clean"
        BY <2>0, <2>1, <3>2, Going, Names
      <4> QED
        BY <2>0, <3>1, <3>2, <4>1 DEF Staged, Starting
    <3>3. CASE waited[n] + 1 # NWorkers
      <4>1. pc'[n] = "wait"
        BY <2>0, <2>1, <3>3, Going, Names
      <4>2. waited[n] + 1 < NWorkers
        BY <1>0, <3>1, <3>3
      <4> QED
        BY <2>0, <3>1, <4>1, <4>2 DEF Staged, Starting
    <3> QED
      BY <3>2, <3>3
  <2>2. CASE n # m
    <3>1. pc'[n] = pc[n]
      BY <2>0, <2>2, Going, Names
    <3>2. waited'[n] = waited[n]
      BY <2>0, <2>2 DEF TypeOK
    <3>3. worker'[n] = worker[n]
      BY <1>6, <2>2 DEF Wait, TypeOK
    <3> QED
      BY <1>1, <2>0, <3>1, <3>2, <3>3
  <2> QED
    BY <2>1, <2>2
<1>7. ASSUME NEW m \in Masters, MasterHandler(m) \/ KillMaster(m) PROVE Staged(n)'
  <2>1. CASE UNCHANGED pc
    BY <1>2, <1>7, <2>1, Handling
  <2>2. CASE Go(m, "crashed") \/ Go(m, "killed")
    <3>1. CASE n = m
      <4>1. pc'[n] \in {"crashed", "killed"}
        BY <2>2, <3>1, Going, Names
      <4> QED
        BY <4>1 DEF Staged, Starting
    <3>2. CASE n # m
      BY <1>1, <1>7, <2>2, <3>2, Going, Names, Handling
    <3> QED
      BY <3>1, <3>2
  <2> QED
    BY <1>7, <2>1, <2>2, Handling
<1>8. ASSUME NEW m \in Masters, NEW i \in Index, Worker(m, i) \/ KillWorker(m, i) PROVE Staged(n)'
  <2>1. CASE UNCHANGED worker
    BY <1>2, <1>8, <2>1, Living DEF masters
  <2>2. CASE /\ worker[m][i] \in Live
             /\ \E state \in Live \cup {"zombie"} : worker' = [worker EXCEPT ![m][i] = state]
    <3>1. UNCHANGED <<pc, forked, waited>>
      BY <1>8, Living DEF masters
    <3>2. CASE n = m
      <4>1. worker[n][i] # "none"
        BY <2>2, <3>2 DEF Live
      <4>2. pc[n] \notin {"off"} \cup Starting
        BY <1>0, <4>1 DEF Staged
      <4> QED
        BY <1>0, <3>1, <4>2 DEF Staged
    <3>3. CASE n # m
      <4>1. worker'[n] = worker[n]
        BY <2>2, <3>3 DEF TypeOK
      <4> QED
        BY <1>1, <3>1, <4>1
    <3> QED
      BY <3>2, <3>3
  <2> QED
    BY <1>8, <2>1, <2>2, Living
<1> QED
  <2>1. CASE UNCHANGED vars
    BY <1>2, <2>1 DEF vars, masters, workers
  <2>2. ASSUME NEW signal \in {"QUIT", "INT"}, Operator(signal) PROVE Staged(n)'
    BY <1>2, <2>2, Commanding DEF masters, workers
  <2> QED
    BY <1>3, <1>4, <1>5, <1>6, <1>7, <1>8, <2>1, <2>2, Kinds
-----------------------------------------------------------------------------
\* The points of main() that a master goes on to from each.
Later(from, to) ==
    \/ to = from
    \/ from \in Serving /\ to \in Serving
    \/ from \in Starting \ {"check"} /\ to \in Starting \ {"check"}
    \/ to \notin Starting \cup Serving

\* Steps that neither enter a part of main() nor change the pid file keep the order.
LEMMA OrderKept ==
    ASSUME Orderly, pidfile' = pidfile, \A n \in Masters : Later(pc[n], pc'[n])
    PROVE  Orderly'
<1> SUFFICES ASSUME OneAtATime, NEW m \in Masters, NEW n \in Masters
             PROVE  /\ pc'[m] \in Serving => pidfile' = m
                    /\ pc'[m] \in Starting /\ pc'[n] \in Starting => m = n
                    /\ pc'[m] \in Starting \ {"check"} => pc'[n] \notin Serving
  BY DEF Orderly
<1>1. /\ pc[m] \in Serving => pidfile = m
      /\ pc[m] \in Starting /\ pc[n] \in Starting => m = n
      /\ pc[m] \in Starting \ {"check"} => pc[n] \notin Serving
  BY DEF Orderly
<1>2. Starting \cap Serving = {}
  BY DEF Starting, Serving
<1> QED
  BY <1>1, <1>2 DEF Later

\* Starts that do not overlap keep each other out.
LEMMA OrderlyStep == TypeOK /\ Stages /\ Orderly /\ [Next]_vars => Orderly'
<1> SUFFICES ASSUME TypeOK, Stages, Orderly, [Next]_vars PROVE Orderly'
  OBVIOUS
<1>0. /\ Starting \cap Serving = {} /\ "off" \notin Starting \cup Serving
      /\ "end" \notin Starting \cup Serving /\ "gone" \notin Starting \cup Serving
      /\ "killed" \notin Starting \cup Serving /\ "crashed" \notin Starting \cup Serving
  BY DEF Starting, Serving
<1>1. ASSUME UNCHANGED <<pc, pidfile>> PROVE Orderly'
  BY <1>1, OrderKept DEF Later
<1>2. ASSUME NEW m \in Masters, NEW to \in Points, Go(m, to), Later(pc[m], to), UNCHANGED pidfile
      PROVE  Orderly'
  <2>1. pc'[m] = to /\ \A n \in Masters \ {m} : pc'[n] = pc[n]
    BY <1>2, Going
  <2>2. \A n \in Masters : Later(pc[n], pc'[n])
    BY <1>2, <2>1 DEF Later
  <2> QED
    BY <1>2, <2>2, OrderKept
<1>3. ASSUME NEW m \in Masters, Start(m) PROVE Orderly'
  <2>1. pc'[m] = "check" /\ \A n \in Masters \ {m} : pc'[n] = pc[n]
    BY <1>3, Going, Names DEF Start
  <2>2. pidfile' = pidfile /\ (OneAtATime => \A n \in Masters : pc[n] \notin Starting)
    BY <1>3 DEF Start
  <2>3. "check" \notin Serving
    BY DEF Serving
  <2> QED
    BY <2>1, <2>2, <2>3 DEF Orderly
<1>4. ASSUME NEW m \in Masters, Check(m) PROVE Orderly'
  <2>1. pc[m] = "check" /\ pidfile' = pidfile /\ Go(m, IF Running THEN "end" ELSE "listen")
    BY <1>4 DEF Check, At
  <2>2. CASE Running
    BY <1>0, <1>2, <2>1, <2>2, Names DEF Later
  <2>3. CASE ~Running
    <3>1. pc'[m] = "listen" /\ \A n \in Masters \ {m} : pc'[n] = pc[n]
      BY <2>1, <2>3, Going, Names
    <3>2. OneAtATime => \A n \in Masters : pc[n] \notin Serving
      <4> SUFFICES ASSUME OneAtATime, NEW n \in Masters, pc[n] \in Serving PROVE FALSE
        OBVIOUS
      <4>1. pidfile = n
        BY DEF Orderly
      <4>2. Alive(n)
        BY DEF Alive, Serving, Over
      <4> QED
        BY <2>3, <4>1, <4>2 DEF Running
    <3>3. "listen" \in Starting /\ "check" \in Starting /\ "listen" \notin Serving
      BY DEF Starting, Serving
    <3> QED
      BY <2>1, <3>1, <3>2, <3>3 DEF Orderly
  <2> QED
    BY <2>2, <2>3
<1>5. ASSUME NEW m \in Masters, Record(m) \/ Write(m) PROVE Orderly'
  <2>1. /\ pc[m] \in {"record", "write"}
        /\ \/ \E to \in {"write", "fork"} : Go(m, to) /\ (to = "fork" => pidfile' = m)
           \/ Go(m, "end") /\ UNCHANGED pidfile
    BY <1>5 DEF Record, Write, At
  <2>2. CASE Go(m, "end") /\ UNCHANGED pidfile
    BY <1>0, <1>2, <2>2, Names DEF Later
  <2>3. CASE \E to \in {"write", "fork"} : Go(m, to) /\ (to = "fork" => pidfile' = m)
    <3>1. PICK to \in {"write", "fork"} : Go(m, to) /\ (to = "fork" => pidfile' = m)
      BY <2>3
    <3>2. pc'[m] = to /\ \A n \in Masters \ {m} : pc'[n] = pc[n]
      BY <3>1, Going, Names
    <3>3. pc[m] \in Starting \ {"check"}
      BY <2>1 DEF Starting
    <3>4. OneAtATime => \A n \in Masters : pc[n] \notin Serving /\ (n # m => pc[n] \notin Starting)
      BY <3>3 DEF Orderly
    <3>5. OneAtATime => \A n \in Masters \ {m} : pc'[n] \notin Serving \cup Starting
      BY <3>2, <3>4
    <3>6. "write" \notin Serving /\ "fork" \notin Starting
      BY DEF Serving, Starting
    <3> QED
      BY <3>1, <3>2, <3>5, <3>6 DEF Orderly
  <2> QED
    BY <2>1, <2>2, <2>3
<1>6. ASSUME NEW m \in Masters, CleanPid(m) PROVE Orderly'
  <2>1. pc[m] = "clean" /\ Go(m, "end")
    BY <1>6 DEF CleanPid, At
  <2>2. pc'[m] = "end" /\ \A n \in Masters \ {m} : pc'[n] = pc[n]
    BY <2>1, Going, Names
  <2>3. OneAtATime => \A n \in Masters \ {m} : pc[n] \notin Serving
    BY <2>1 DEF Orderly, Serving
  <2> QED
    BY <1>0, <2>2, <2>3 DEF Orderly
<1>7. ASSUME NEW m \in Masters, CreateListenfd(m) \/ Daemon(m) PROVE Orderly'
  <2>1. /\ UNCHANGED pidfile
        /\ \/ pc[m] = "listen" /\ (Go(m, "daemon") \/ Go(m, "end"))
           \/ pc[m] = "daemon" /\ (Go(m, "record") \/ Go(m, "end"))
    BY <1>7 DEF CreateListenfd, Daemon, Attempt, At
  <2>2. Later("listen", "daemon") /\ Later("daemon", "record") /\ \A from \in Points : Later(from, "end")
    BY <1>0 DEF Later, Starting
  <2> QED
    BY <1>2, <2>1, <2>2, Names
<1>8. ASSUME NEW m \in Masters, Fork(m) \/ KeepPid(m) \/ Register(m) \/ Wait(m) \/ End(m) PROVE Orderly'
  <2>1. /\ UNCHANGED pidfile
        /\ \/ pc[m] \in {"fork", "forked", "register", "wait"}
              /\ \E to \in {"fork", "forked", "register", "wait", "clean", "end"} : Go(m, to)
           \/ Go(m, "gone")
    <3>1. CASE Fork(m)
      BY <3>1 DEF Fork, At
    <3>2. CASE KeepPid(m)
      BY <3>2 DEF KeepPid, At
    <3>3. CASE Register(m)
      BY <3>3 DEF Register, At
    <3>4. CASE Wait(m)
      BY <3>4 DEF Wait, At
    <3>5. CASE End(m)
      BY <3>5 DEF End, At
    <3> QED
      BY <1>8, <3>1, <3>2, <3>3, <3>4, <3>5
  <2>2. /\ \A from \in {"fork", "forked", "register", "wait"} :
             \A to \in {"fork", "forked", "register", "wait", "clean", "end"} : Later(from, to)
        /\ Later(pc[m], "gone")
    BY <1>0 DEF Later, Serving
  <2> QED
    BY <1>2, <2>1, <2>2, Names
<1>9. ASSUME NEW m \in Masters, MasterHandler(m) \/ KillMaster(m) PROVE Orderly'
  <2>1. Later(pc[m], "crashed") /\ Later(pc[m], "killed")
    BY <1>0 DEF Later
  <2> QED
    BY <1>1, <1>2, <1>9, <2>1, Names, Handling
<1> QED
  <2>1. CASE UNCHANGED vars
    BY <1>1, <2>1 DEF vars, masters
  <2>2. ASSUME NEW m \in Masters, NEW i \in Index, Worker(m, i) \/ KillWorker(m, i) PROVE Orderly'
    BY <1>1, <2>2, Living DEF masters
  <2>3. ASSUME NEW signal \in {"QUIT", "INT"}, Operator(signal) PROVE Orderly'
    BY <1>1, <2>3, Commanding DEF masters
  <2> QED
    BY <1>3, <1>4, <1>5, <1>6, <1>7, <1>8, <1>9, <2>1, <2>2, <2>3, Kinds DEF Quiet
-----------------------------------------------------------------------------
\* The invariant holds at the start and of every step.
LEMMA InvInit == Init => MasterInv
<1> SUFFICES ASSUME Init PROVE MasterInv
  OBVIOUS
<1>1. TypeOK
  BY Many, Names, BoundAssumption DEF Init, TypeOK
<1>2. Counted
  <2> SUFFICES ASSUME NEW m \in Masters PROVE waited[m] = Cardinality(Reaped(m))
    BY DEF Counted
  <2>1. Reaped(m) = {}
    BY DEF Init, Reaped
  <2> QED
    BY <2>1, FS_EmptySet DEF Init
<1>3. Stages
  BY DEF Init, Stages, Starting
<1>4. Orderly
  BY DEF Init, Orderly, Starting, Serving
<1> QED
  BY <1>1, <1>2, <1>3, <1>4 DEF MasterInv

LEMMA InvStep == MasterInv /\ [Next]_vars => MasterInv'
  BY TypeStep, CountedStep, StagesStep, OrderlyStep DEF MasterInv

\* The variables keep their types, wait() is counted right, main() and its workers
\* keep step, and starts that do not overlap keep each other out.
THEOREM MasterInvariant == Spec => []MasterInv
  BY InvInit, InvStep, PTL DEF Spec

\* If starts do not overlap, the pid file names the master that serves (main() of
\* ms_server_test.c checks it before anything else, and the scripts signal it).
THEOREM MasterReachable == Spec => []Reachable
<1>1. MasterInv => Reachable
  BY DEF MasterInv, Orderly, Reachable
<1> QED
  BY <1>1, MasterInvariant, PTL

\* The loop around wait() never waits when no worker is left, and the pid file is
\* emptied only after the last has been reaped.
THEOREM MasterWaitsForAll == Spec => []WaitsForAll
<1>1. MasterInv => WaitsForAll
  <2> SUFFICES ASSUME MasterInv, NEW m \in Masters
               PROVE  /\ pc[m] = "wait" => \E i \in Index : worker[m][i] # "reaped"
                      /\ pc[m] = "clean" => \A i \in Index : worker[m][i] = "reaped"
    BY DEF WaitsForAll
  <2>1. waited[m] = Cardinality(Reaped(m)) /\ waited[m] \in 0 .. NWorkers
    BY DEF MasterInv, Counted, TypeOK
  <2>2. CASE pc[m] = "wait"
    <3>1. waited[m] < NWorkers
      BY <2>2 DEF MasterInv, Stages
    <3>2. Reaped(m) # Index
      BY <2>1, <3>1, Many
    <3> QED
      BY <2>2, <3>2 DEF Reaped
  <2>3. CASE pc[m] = "clean"
    <3>1. waited[m] = NWorkers
      BY <2>3 DEF MasterInv, Stages
    <3>2. Reaped(m) = Index
      BY <2>1, <3>1, Finite
    <3> QED
      BY <2>3, <3>2 DEF Reaped
  <2> QED
    BY <2>2, <2>3
<1> QED
  BY <1>1, MasterInvariant, PTL

\* Of two generations of workers, the older one's master was killed, has crashed or
\* could not fork all of its own.
THEOREM MasterServesAlone == Spec => []ServeAlone
<1>1. MasterInv => ServeAlone
  <2> SUFFICES ASSUME MasterInv, OneAtATime, NEW m \in Masters, NEW n \in Masters, NEW i \in Index,
                      m # n, pc[m] \in Serving, worker[n][i] \in Live
               PROVE  pc[n] \in {"killed", "crashed"} \/ forked[n] < NWorkers
    BY DEF ServeAlone
  <2>1. pc[n] \in Points /\ waited[n] = Cardinality(Reaped(n))
    BY DEF MasterInv, TypeOK, Counted
  <2>2. pc[n] \notin Serving
    BY DEF MasterInv, Orderly
  <2>3. pc[n] \notin {"off"} \cup Starting
    BY DEF MasterInv, Stages, Live
  <2>4. CASE pc[n] \in {"end", "gone"}
    <3>1. CASE waited[n] = NWorkers
      <4>1. Reaped(n) = Index
        BY <2>1, <3>1, Finite
      <4> QED
        BY <4>1 DEF Reaped, Live
    <3> QED
      BY <2>4, <3>1 DEF MasterInv, Stages
  <2> QED
    BY <2>1, <2>2, <2>3, <2>4 DEF Points, Over
<1> QED
  BY <1>1, MasterInvariant, PTL

\* ms_server_test.c:122: no two instances serve at the same time, provided that the
\* operator waits for one start to be over before the next.
THEOREM MasterSingleInstance == OneAtATime => (Spec => []SingleInstance)
<1>1. OneAtATime /\ MasterInv => SingleInstance
  BY DEF MasterInv, Orderly, SingleInstance
<1>2. OneAtATime => (MasterInv => SingleInstance)
  BY <1>1
<1>3. ASSUME OneAtATime PROVE Spec => []SingleInstance
  <2>1. MasterInv => SingleInstance
    BY <1>2, <1>3
  <2> QED
    BY <2>1, MasterInvariant, PTL
<1> QED
  BY <1>3
=============================================================================
