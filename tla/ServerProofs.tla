---------------------------- MODULE ServerProofs ----------------------------
(***************************************************************************)
(* Proofs about module Server, for any number of slots and timer nodes and *)
(* any timeouts.                                                           *)
(***************************************************************************)
EXTENDS ServerProps, FiniteSetTheorems, TLAPS

\* Every step keeps every variable within its type.
LEMMA TypeStep == TypeOK /\ [Next]_vars => TypeOK'
<1> SUFFICES ASSUME TypeOK, [Next]_vars PROVE TypeOK'
  OBVIOUS
<1> USE ListenAssumption, TimeoutAssumption, PeriodAssumption, SizeAssumption
<1> USE DEF TypeOK, LoopTypeOK, Control, Files, Events, HandlerUnchanged, conns, sockets, arrival, files, timers, loop
<1>1. ASSUME Boot PROVE TypeOK'
  BY <1>1 DEF Boot, FileAdd, Watch, Pending, Events
<1>2. ASSUME CheckStop, HandlerUnchanged PROVE TypeOK'
  BY <1>2 DEF CheckStop
<1>3. ASSUME SetTimeout, HandlerUnchanged PROVE TypeOK'
  BY <1>3 DEF SetTimeout, Timeouts
<1>3a. ASSUME EnterWait, HandlerUnchanged PROVE TypeOK'
  BY <1>3a DEF EnterWait
<1>4. ASSUME Harvest(Pending), HandlerUnchanged PROVE TypeOK'
  BY <1>4 DEF Harvest, Reportable
<1>5. ASSUME WaitTimesOut, HandlerUnchanged PROVE TypeOK'
  BY <1>5 DEF WaitTimesOut
<1>6. ASSUME DispatchDone, HandlerUnchanged PROVE TypeOK'
  BY <1>6 DEF DispatchDone, NoEvents
<1>7. ASSUME TimersDone, HandlerUnchanged PROVE TypeOK'
  BY <1>7 DEF TimersDone
<1>8. ASSUME Exit PROVE TypeOK'
  BY <1>8 DEF Exit, Destroy, NoEvents
<1>9. ASSUME CallAccept PROVE TypeOK'
  BY <1>9 DEF CallAccept, Runs
<1>10. ASSUME AcceptEnds PROVE TypeOK'
  BY <1>10 DEF AcceptEnds, Return
<1>11. ASSUME AcceptRejects PROVE TypeOK'
  BY <1>11 DEF AcceptRejects
<1>12. ASSUME NEW s \in Slots, CallRead(s) PROVE TypeOK'
  BY <1>12 DEF CallRead, Runs
<1>13. ASSUME NEW s \in Slots, CallWrite(s) PROVE TypeOK'
  BY <1>13 DEF CallWrite, Runs
<1>14. ASSUME NEW s \in Slots, Accept(s) PROVE TypeOK'
  BY <1>14 DEF Accept
<1>15. ASSUME NEW s \in Slots, Register(s) PROVE TypeOK'
  BY <1>15 DEF Register, StartTimer, TimerAdd, NextNode, FileAdd, Watch, Return
<1>16. ASSUME NEW s \in Slots, RegisterNoTimer(s) PROVE TypeOK'
  BY <1>16 DEF RegisterNoTimer, CloseSocket, Return
<1>17. ASSUME NEW s \in Slots, RegisterNoFile(s) PROVE TypeOK'
  BY <1>17 DEF RegisterNoFile, StartTimer, TimerAdd, NextNode
<1>18. ASSUME NEW s \in Slots, Read(s) PROVE TypeOK'
  BY <1>18 DEF Read, TimerDel
<1>19. ASSUME NEW s \in Slots, Reply(s) PROVE TypeOK'
  BY <1>19 DEF Reply, FileMod, Watch, StartTimer, TimerAdd, NextNode, Return
<1>20. ASSUME NEW s \in Slots, Write(s) PROVE TypeOK'
  BY <1>20 DEF Write, TimerDel
<1>21. ASSUME NEW s \in Slots, Rearm(s) PROVE TypeOK'
  BY <1>21 DEF Rearm, FileMod, Watch, StartTimer, TimerAdd, NextNode, Return
<1>22. ASSUME NEW s \in Slots, ModFails(s) PROVE TypeOK'
  BY <1>22 DEF ModFails
<1>23. ASSUME NEW s \in Slots, Close(s) PROVE TypeOK'
  BY <1>23 DEF Close, ConnClose, TimerDel, TimersOf, FileDel, CloseSocket, Return
<1>24. ASSUME NEW t \in Timers, Timeout(t) PROVE TypeOK'
  <2>1. PICK f \in Files : f = owner[t]
    BY <1>24 DEF Timeout
  <2>2. LoopTypeOK'
    BY <1>24, <2>1 DEF Timeout, TimerFires, TimerDel, FileDel
  <2> QED
    BY <1>24, <2>1, <2>2 DEF Timeout, CloseSocket
<1>25. ASSUME Connect PROVE TypeOK'
  BY <1>25 DEF Connect, Edge
<1>26. ASSUME Stolen PROVE TypeOK'
  BY <1>26 DEF Stolen
<1>27. ASSUME NEW s \in Slots, Send(s) PROVE TypeOK'
  BY <1>27 DEF Send, Edge
<1>28. ASSUME NEW s \in Slots, ShutDown(s) PROVE TypeOK'
  BY <1>28 DEF ShutDown, Edge
<1>29. ASSUME NEW s \in Slots, Reset(s) PROVE TypeOK'
  BY <1>29 DEF Reset, Edge, Events
<1>30. ASSUME NEW s \in Slots, Drain(s) PROVE TypeOK'
  BY <1>30 DEF Drain, Edge
<1>31. ASSUME ExitSignal PROVE TypeOK'
  BY <1>31 DEF ExitSignal, Stop, Interrupted
<1>32. ASSUME ReopenSignal PROVE TypeOK'
  BY <1>32 DEF ReopenSignal, Interrupted
<1>33. ASSUME Time PROVE TypeOK'
  BY <1>33 DEF Time, Tick
<1>34. ASSUME UNCHANGED vars PROVE TypeOK'
  BY <1>34 DEF vars
<1> QED
  BY <1>1, <1>2, <1>3, <1>3a, <1>4, <1>5, <1>6, <1>7, <1>8, <1>9, <1>10, <1>11, <1>12, <1>13, <1>14, <1>15, <1>16, <1>17, <1>18, <1>19, <1>20, <1>21, <1>22, <1>23, <1>24, <1>25, <1>26, <1>27, <1>28, <1>29, <1>30, <1>31, <1>32, <1>33, <1>34
     DEF Next, Worker, Loop, Handler, Environment
-----------------------------------------------------------------------------
(* Timer nodes and the pointers to them.                                   *)

\* A timer started for a connection whose conn points to none keeps the nodes
\* and the pointers of the open connections matched.
LEMMA TimerStarted ==
    ASSUME TypeOK, TimerInv, NEW s \in open, TimersOf(s) = {}, UNCHANGED open,
           NEW t \in Timers, NEW ms \in Nat, TimerAdd(t, ms, s),
           TimersOf(s)' = {t}, \A r \in open \ {s} : TimersOf(r)' = TimersOf(r)
    PROVE  /\ used' = tree' \cup free'
           /\ tree' \cap free' = {}
           /\ \A u \in tree' : owner'[u] \in open' /\ u \in TimersOf(owner[u])'
           /\ \A r \in open' : \A u \in TimersOf(r)' : u \in tree' /\ owner'[u] = r
<1> USE DEF TypeOK, LoopTypeOK, TimerInv
<1>1. t \notin tree /\ t \notin used \ free
  BY DEF TimerAdd, NextNode
<1>2. used' = tree' \cup free' /\ tree' \cap free' = {}
  BY <1>1 DEF TimerAdd
<1>3. owner' = [owner EXCEPT ![t] = s] /\ tree' = tree \cup {t}
  BY DEF TimerAdd
<1>4. \A u \in tree : u # t /\ owner[u] # s
  BY <1>1
<1>5. \A u \in tree' : owner'[u] \in open' /\ u \in TimersOf(owner[u])'
  BY <1>1, <1>3, <1>4
<1>6. \A r \in open' : \A u \in TimersOf(r)' : u \in tree' /\ owner'[u] = r
  BY <1>1, <1>3
<1> QED
  BY <1>2, <1>5, <1>6

\* The pointers of conn when one of them is set to a node.
LEMMA PointerSet ==
    ASSUME TypeOK, NEW s \in open, TimersOf(s) = {}, NEW t \in Timers,
           \/ rtimer' = [rtimer EXCEPT ![s] = t] /\ stimer' = stimer
           \/ stimer' = [stimer EXCEPT ![s] = t] /\ rtimer' = rtimer
    PROVE  TimersOf(s)' = {t} /\ \A r \in open \ {s} : TimersOf(r)' = TimersOf(r)
<1>1. rtimer[s] = NULL /\ stimer[s] = NULL
  BY DEF TimersOf
<1>2. s \in Slots /\ open \subseteq Slots /\ t # NULL
  BY NullAssumption DEF TypeOK
<1>3. {rtimer'[s], stimer'[s]} \ {NULL} = {t}
  BY <1>1, <1>2 DEF TypeOK
<1>4. \A r \in open \ {s} : rtimer'[r] = rtimer[r] /\ stimer'[r] = stimer[r]
  BY <1>2 DEF TypeOK
<1> QED
  BY <1>3, <1>4 DEF TimersOf

\* A timer that fires is the only one of its connection.
LEMMA FiresForItsOwn ==
    ASSUME IndInv, NEW t \in tree, pc = "timers"
    PROVE  owner[t] \in open /\ owner[t] # cur /\ TimersOf(owner[t]) = {t}
<1>1. owner[t] \in open /\ t \in TimersOf(owner[t])
  BY DEF IndInv, TimerInv
<1>2. cur \notin Slots /\ open \subseteq Slots
  BY ListenAssumption DEF IndInv, ControlInv, OnConnection, TypeOK
<1>3. rtimer[owner[t]] = NULL \/ stimer[owner[t]] = NULL
  BY <1>1, <1>2 DEF IndInv, TimerInv, Deadlined, InHandler
<1> QED
  BY <1>1, <1>2, <1>3 DEF TimersOf

\* When the worker exits every open connection is registered, so destory()
\* closes them all.
LEMMA ExitClosesAll == ASSUME IndInv, Exit PROVE open' = {}
<1>1. cur \notin Slots
  BY ListenAssumption DEF IndInv, ControlInv, OnConnection, Exit, Destroy
<1>2. \A s \in open : mask[s] # {}
  BY <1>1 DEF IndInv, TypeOK, Registration, InHandler
<1> QED
  BY <1>2 DEF Exit

\* The handler steps that start a timer, and the timer that fires, keep the
\* nodes and the pointers matched.
LEMMA RegisterTimers == ASSUME IndInv, TypeOK', NEW s \in Slots, Register(s) PROVE TimerInv'
<1>1. /\ s \in open /\ cur = s /\ pc = "register" /\ mask[s] = {}
      /\ TimersOf(s) = {} /\ rtimer[s] = NULL /\ stimer[s] = NULL
  BY DEF Register, IndInv, ControlInv, OnConnection, TimerInv, TimersOf
<1>2. /\ mask' = [mask EXCEPT ![s] = {"IN"}]
      /\ UNCHANGED <<open, stimer>>
      /\ pc' = "accept" /\ cur' = Listen
  BY <1>1 DEF Register, FileAdd, Watch, Return
<1>3. /\ mask'[s] = {"IN"} /\ s # Listen
      /\ \A r \in open \ {s} : mask'[r] = mask[r] /\ rtimer'[r] = rtimer[r] /\ stimer'[r] = stimer[r]
  BY <1>1, <1>2, ListenAssumption DEF Register, StartTimer, IndInv, TypeOK, LoopTypeOK, Files, timers
<1>4. CASE UNCHANGED <<timers, rtimer>> /\ ReadTimeout = 0
  <2>1. \A r \in open : TimersOf(r)' = TimersOf(r)
    BY <1>2, <1>4 DEF TimersOf
  <2>2. /\ used' = tree' \cup free'
        /\ tree' \cap free' = {}
        /\ \A u \in tree' : owner'[u] \in open' /\ u \in TimersOf(owner[u])'
        /\ \A r \in open' : \A u \in TimersOf(r)' : u \in tree' /\ owner'[u] = r
    BY <1>2, <1>4, <2>1 DEF IndInv, TimerInv, timers
  <2>3. Deadlined'
    BY <1>1, <1>2, <1>3, <1>4 DEF IndInv, TimerInv, Deadlined, InHandler
  <2> QED
    BY <1>2, <2>2, <2>3 DEF TimerInv
<1>5. CASE ReadTimeout > 0 /\ \E t \in Timers : TimerAdd(t, ReadTimeout, s) /\ rtimer' = [rtimer EXCEPT ![s] = t]
  <2>1. PICK t \in Timers : TimerAdd(t, ReadTimeout, s) /\ rtimer' = [rtimer EXCEPT ![s] = t]
    BY <1>5
  <2>2. TimersOf(s)' = {t} /\ \A r \in open \ {s} : TimersOf(r)' = TimersOf(r)
    BY <1>1, <1>2, <2>1, PointerSet DEF IndInv
  <2>3. /\ used' = tree' \cup free'
        /\ tree' \cap free' = {}
        /\ \A u \in tree' : owner'[u] \in open' /\ u \in TimersOf(owner[u])'
        /\ \A r \in open' : \A u \in TimersOf(r)' : u \in tree' /\ owner'[u] = r
    BY <1>1, <1>2, <2>1, <2>2, PeriodAssumption, TimerStarted DEF IndInv
  <2>4. rtimer'[s] # NULL /\ stimer'[s] = NULL
    BY <1>1, <1>2, <2>1, NullAssumption DEF IndInv, TypeOK
  <2>5. Deadlined'
    BY <1>1, <1>2, <1>3, <1>5, <2>4 DEF IndInv, TimerInv, Deadlined, InHandler
  <2> QED
    BY <1>2, <1>5, <2>3, <2>5 DEF TimerInv
<1> QED
  BY <1>2, <1>4, <1>5, PeriodAssumption DEF Register, StartTimer, Return

LEMMA ReplyTimers == ASSUME IndInv, TypeOK', NEW s \in Slots, Reply(s) PROVE TimerInv'
<1>1. /\ s \in open /\ cur = s /\ pc = "reply" /\ mask[s] = {"IN"}
      /\ TimersOf(s) = {} /\ rtimer[s] = NULL /\ stimer[s] = NULL
  BY DEF Reply, IndInv, ControlInv, OnConnection, TimerInv, TimersOf
<1>2. /\ mask' = [mask EXCEPT ![s] = {"OUT"}]
      /\ UNCHANGED <<open, rtimer>>
      /\ \/ pc' = "dispatch" /\ cur' = Listen
         \/ pc' = "close" /\ cur' = cur
  <2>1. mask' = [mask EXCEPT ![s] = {"OUT"}] /\ UNCHANGED <<open, rtimer>>
    BY DEF Reply, FileMod, Watch
  <2>2. \/ pc' = "dispatch" /\ cur' = Listen
        \/ pc' = "close" /\ cur' = cur
    BY DEF Reply, Return
  <2> QED
    BY <2>1, <2>2
<1>3. /\ mask'[s] = {"OUT"} /\ s # Listen
      /\ \A r \in open \ {s} : mask'[r] = mask[r] /\ rtimer'[r] = rtimer[r] /\ stimer'[r] = stimer[r]
  BY <1>1, <1>2, ListenAssumption DEF Reply, StartTimer, IndInv, TypeOK, LoopTypeOK, Files, timers
<1>4. CASE UNCHANGED <<timers, stimer>> /\ ((SendTimeout = 0 /\ cur' = Listen) \/ (pc' = "close" /\ cur' = cur))
  <2>1. \A r \in open : TimersOf(r)' = TimersOf(r)
    BY <1>2, <1>4 DEF TimersOf
  <2>2. /\ used' = tree' \cup free'
        /\ tree' \cap free' = {}
        /\ \A u \in tree' : owner'[u] \in open' /\ u \in TimersOf(owner[u])'
        /\ \A r \in open' : \A u \in TimersOf(r)' : u \in tree' /\ owner'[u] = r
    BY <1>2, <1>4, <2>1 DEF IndInv, TimerInv, timers
  <2>3. Deadlined'
    BY <1>1, <1>2, <1>3, <1>4 DEF IndInv, TimerInv, Deadlined, InHandler
  <2> QED
    BY <1>2, <2>2, <2>3 DEF TimerInv
<1>5. CASE SendTimeout > 0 /\ pc' = "dispatch" /\ \E t \in Timers : TimerAdd(t, SendTimeout, s) /\ stimer' = [stimer EXCEPT ![s] = t]
  <2>1. PICK t \in Timers : TimerAdd(t, SendTimeout, s) /\ stimer' = [stimer EXCEPT ![s] = t]
    BY <1>5
  <2>2. TimersOf(s)' = {t} /\ \A r \in open \ {s} : TimersOf(r)' = TimersOf(r)
    BY <1>1, <1>2, <2>1, PointerSet DEF IndInv
  <2>3. /\ used' = tree' \cup free'
        /\ tree' \cap free' = {}
        /\ \A u \in tree' : owner'[u] \in open' /\ u \in TimersOf(owner[u])'
        /\ \A r \in open' : \A u \in TimersOf(r)' : u \in tree' /\ owner'[u] = r
    BY <1>1, <1>2, <2>1, <2>2, PeriodAssumption, TimerStarted DEF IndInv
  <2>4. stimer'[s] # NULL /\ rtimer'[s] = NULL
    BY <1>1, <1>2, <2>1, NullAssumption DEF IndInv, TypeOK
  <2>5. Deadlined'
    BY <1>1, <1>2, <1>3, <1>5, <2>4 DEF IndInv, TimerInv, Deadlined, InHandler
  <2> QED
    BY <1>2, <1>5, <2>3, <2>5 DEF TimerInv
<1> QED
  BY <1>2, <1>4, <1>5, PeriodAssumption DEF Reply, StartTimer, Return

LEMMA RearmTimers == ASSUME IndInv, TypeOK', NEW s \in Slots, Rearm(s) PROVE TimerInv'
<1>1. /\ s \in open /\ cur = s /\ pc = "rearm" /\ mask[s] = {"OUT"}
      /\ TimersOf(s) = {} /\ rtimer[s] = NULL /\ stimer[s] = NULL
  BY DEF Rearm, IndInv, ControlInv, OnConnection, TimerInv, TimersOf
<1>2. /\ mask' = [mask EXCEPT ![s] = {"IN"}]
      /\ UNCHANGED <<open, stimer>>
      /\ \/ pc' = "dispatch" /\ cur' = Listen
         \/ pc' = "close" /\ cur' = cur
  <2>1. mask' = [mask EXCEPT ![s] = {"IN"}] /\ UNCHANGED <<open, stimer>>
    BY DEF Rearm, FileMod, Watch
  <2>2. \/ pc' = "dispatch" /\ cur' = Listen
        \/ pc' = "close" /\ cur' = cur
    BY DEF Rearm, Return
  <2> QED
    BY <2>1, <2>2
<1>3. /\ mask'[s] = {"IN"} /\ s # Listen
      /\ \A r \in open \ {s} : mask'[r] = mask[r] /\ rtimer'[r] = rtimer[r] /\ stimer'[r] = stimer[r]
  BY <1>1, <1>2, ListenAssumption DEF Rearm, StartTimer, IndInv, TypeOK, LoopTypeOK, Files, timers
<1>4. CASE UNCHANGED <<timers, rtimer>> /\ ((ReadTimeout = 0 /\ cur' = Listen) \/ (pc' = "close" /\ cur' = cur))
  <2>1. \A r \in open : TimersOf(r)' = TimersOf(r)
    BY <1>2, <1>4 DEF TimersOf
  <2>2. /\ used' = tree' \cup free'
        /\ tree' \cap free' = {}
        /\ \A u \in tree' : owner'[u] \in open' /\ u \in TimersOf(owner[u])'
        /\ \A r \in open' : \A u \in TimersOf(r)' : u \in tree' /\ owner'[u] = r
    BY <1>2, <1>4, <2>1 DEF IndInv, TimerInv, timers
  <2>3. Deadlined'
    BY <1>1, <1>2, <1>3, <1>4 DEF IndInv, TimerInv, Deadlined, InHandler
  <2> QED
    BY <1>2, <2>2, <2>3 DEF TimerInv
<1>5. CASE ReadTimeout > 0 /\ pc' = "dispatch" /\ \E t \in Timers : TimerAdd(t, ReadTimeout, s) /\ rtimer' = [rtimer EXCEPT ![s] = t]
  <2>1. PICK t \in Timers : TimerAdd(t, ReadTimeout, s) /\ rtimer' = [rtimer EXCEPT ![s] = t]
    BY <1>5
  <2>2. TimersOf(s)' = {t} /\ \A r \in open \ {s} : TimersOf(r)' = TimersOf(r)
    BY <1>1, <1>2, <2>1, PointerSet DEF IndInv
  <2>3. /\ used' = tree' \cup free'
        /\ tree' \cap free' = {}
        /\ \A u \in tree' : owner'[u] \in open' /\ u \in TimersOf(owner[u])'
        /\ \A r \in open' : \A u \in TimersOf(r)' : u \in tree' /\ owner'[u] = r
    BY <1>1, <1>2, <2>1, <2>2, PeriodAssumption, TimerStarted DEF IndInv
  <2>4. rtimer'[s] # NULL /\ stimer'[s] = NULL
    BY <1>1, <1>2, <2>1, NullAssumption DEF IndInv, TypeOK
  <2>5. Deadlined'
    BY <1>1, <1>2, <1>3, <1>5, <2>4 DEF IndInv, TimerInv, Deadlined, InHandler
  <2> QED
    BY <1>2, <1>5, <2>3, <2>5 DEF TimerInv
<1> QED
  BY <1>2, <1>4, <1>5, PeriodAssumption DEF Rearm, StartTimer, Return

LEMMA TimeoutTimers == ASSUME IndInv, TypeOK', NEW t \in Timers, Timeout(t) PROVE TimerInv'
<1> DEFINE s == owner[t]
<1>1. t \in tree /\ pc = "timers"
  BY DEF Timeout, TimerFires, Due
<1>2. s \in open /\ s # cur /\ TimersOf(s) = {t}
  BY <1>1, FiresForItsOwn
<1>3. /\ open' = open \ {s} /\ tree' = tree \ {t} /\ free' = free \cup {t} /\ used' = used
      /\ \A u \in tree \ {t} : owner'[u] = owner[u]
  BY <1>1 DEF Timeout, TimerFires, TimerDel, CloseSocket, IndInv, TypeOK, LoopTypeOK
<1>4. \A r \in open : TimersOf(r)' = TimersOf(r)
  BY DEF Timeout, TimersOf
<1>5. \A u \in tree' : owner'[u] \in open' /\ u \in TimersOf(owner[u])'
  BY <1>2, <1>3, <1>4 DEF IndInv, TimerInv
<1>6. \A r \in open' : \A u \in TimersOf(r)' : u \in tree' /\ owner'[u] = r
  <2>1. ASSUME NEW r \in open', NEW u \in TimersOf(r)' PROVE u \in tree /\ owner[u] = r /\ u # t
    BY <1>3, <1>4, <2>1 DEF IndInv, TimerInv
  <2> QED
    BY <1>3, <2>1
<1>7. used' = tree' \cup free' /\ tree' \cap free' = {}
  BY <1>1, <1>3 DEF IndInv, TimerInv
<1>8. Deadlined'
  BY <1>2, <1>3 DEF Timeout, FileDel, IndInv, TimerInv, Deadlined, InHandler, TypeOK, LoopTypeOK, Files
<1>9. pc' \in {"check", "timers"}
  BY DEF Timeout, TimerFires
<1> QED
  BY <1>5, <1>6, <1>7, <1>8, <1>9 DEF TimerInv

-----------------------------------------------------------------------------
(* The inductive invariant, part by part.                                  *)

\* Every step leaves the handlers with a connection that is open.
LEMMA ControlInvStep == IndInv /\ TypeOK' /\ [Next]_vars => ControlInv'
<1> SUFFICES ASSUME IndInv, TypeOK', [Next]_vars PROVE ControlInv'
  OBVIOUS
<1> USE ListenAssumption, NullAssumption, PeriodAssumption
<1> USE DEF IndInv, ControlInv, OnConnection, Registration, InHandler, TypeOK, LoopTypeOK, Files, HandlerUnchanged, conns, sockets, arrival, files, timers, loop
<1>1. ASSUME Boot PROVE ControlInv'
  BY <1>1 DEF Boot, FileAdd, Watch, Pending, Events
<1>2. ASSUME CheckStop, HandlerUnchanged PROVE ControlInv'
  BY <1>2 DEF CheckStop
<1>3. ASSUME SetTimeout, HandlerUnchanged PROVE ControlInv'
  BY <1>3 DEF SetTimeout, Timeouts
<1>3a. ASSUME EnterWait, HandlerUnchanged PROVE ControlInv'
  BY <1>3a DEF EnterWait
<1>4. ASSUME Harvest(Pending), HandlerUnchanged PROVE ControlInv'
  BY <1>4 DEF Harvest, Reportable
<1>5. ASSUME WaitTimesOut, HandlerUnchanged PROVE ControlInv'
  BY <1>5 DEF WaitTimesOut
<1>6. ASSUME DispatchDone, HandlerUnchanged PROVE ControlInv'
  BY <1>6 DEF DispatchDone, NoEvents
<1>7. ASSUME TimersDone, HandlerUnchanged PROVE ControlInv'
  BY <1>7 DEF TimersDone
<1>8. ASSUME Exit PROVE ControlInv'
  BY <1>8, ExitClosesAll DEF Exit, Destroy, NoEvents
<1>9. ASSUME CallAccept PROVE ControlInv'
  BY <1>9 DEF CallAccept, Runs
<1>10. ASSUME AcceptEnds PROVE ControlInv'
  BY <1>10 DEF AcceptEnds, Return
<1>11. ASSUME AcceptRejects PROVE ControlInv'
  BY <1>11 DEF AcceptRejects
<1>12. ASSUME NEW s \in Slots, CallRead(s) PROVE ControlInv'
  BY <1>12 DEF CallRead, Runs
<1>13. ASSUME NEW s \in Slots, CallWrite(s) PROVE ControlInv'
  BY <1>13 DEF CallWrite, Runs
<1>14. ASSUME NEW s \in Slots, Accept(s) PROVE ControlInv'
  BY <1>14 DEF Accept
<1>15. ASSUME NEW s \in Slots, Register(s) PROVE ControlInv'
  BY <1>15 DEF Register, StartTimer, TimerAdd, NextNode, FileAdd, Watch, Return
<1>16. ASSUME NEW s \in Slots, RegisterNoTimer(s) PROVE ControlInv'
  BY <1>16 DEF RegisterNoTimer, CloseSocket, Return
<1>17. ASSUME NEW s \in Slots, RegisterNoFile(s) PROVE ControlInv'
  BY <1>17 DEF RegisterNoFile, StartTimer, TimerAdd, NextNode
<1>18. ASSUME NEW s \in Slots, Read(s) PROVE ControlInv'
  BY <1>18 DEF Read, TimerDel
<1>19. ASSUME NEW s \in Slots, Reply(s) PROVE ControlInv'
  BY <1>19 DEF Reply, FileMod, Watch, StartTimer, TimerAdd, NextNode, Return
<1>20. ASSUME NEW s \in Slots, Write(s) PROVE ControlInv'
  BY <1>20 DEF Write, TimerDel
<1>21. ASSUME NEW s \in Slots, Rearm(s) PROVE ControlInv'
  BY <1>21 DEF Rearm, FileMod, Watch, StartTimer, TimerAdd, NextNode, Return
<1>22. ASSUME NEW s \in Slots, ModFails(s) PROVE ControlInv'
  BY <1>22 DEF ModFails
<1>23. ASSUME NEW s \in Slots, Close(s) PROVE ControlInv'
  BY <1>23 DEF Close, ConnClose, TimerDel, TimersOf, FileDel, CloseSocket, Return
<1>24. ASSUME NEW t \in Timers, Timeout(t) PROVE ControlInv'
  BY <1>24 DEF Timeout, TimerFires, TimerDel, Due, FileDel, CloseSocket
<1>25. ASSUME Connect PROVE ControlInv'
  BY <1>25 DEF Connect, Edge
<1>26. ASSUME Stolen PROVE ControlInv'
  BY <1>26 DEF Stolen
<1>27. ASSUME NEW s \in Slots, Send(s) PROVE ControlInv'
  BY <1>27 DEF Send, Edge
<1>28. ASSUME NEW s \in Slots, ShutDown(s) PROVE ControlInv'
  BY <1>28 DEF ShutDown, Edge
<1>29. ASSUME NEW s \in Slots, Reset(s) PROVE ControlInv'
  BY <1>29 DEF Reset, Edge, Events
<1>30. ASSUME NEW s \in Slots, Drain(s) PROVE ControlInv'
  BY <1>30 DEF Drain, Edge
<1>31. ASSUME ExitSignal PROVE ControlInv'
  BY <1>31 DEF ExitSignal, Stop, Interrupted
<1>32. ASSUME ReopenSignal PROVE ControlInv'
  BY <1>32 DEF ReopenSignal, Interrupted
<1>33. ASSUME Time PROVE ControlInv'
  BY <1>33 DEF Time, Tick
<1>34. ASSUME UNCHANGED vars PROVE ControlInv'
  BY <1>34 DEF vars
<1> QED
  BY <1>1, <1>2, <1>3, <1>3a, <1>4, <1>5, <1>6, <1>7, <1>8, <1>9, <1>10, <1>11, <1>12, <1>13, <1>14, <1>15, <1>16, <1>17, <1>18, <1>19, <1>20, <1>21, <1>22, <1>23, <1>24, <1>25, <1>26, <1>27, <1>28, <1>29, <1>30, <1>31, <1>32, <1>33, <1>34
     DEF Next, Worker, Loop, Handler, Environment

\* Every step keeps the fd table, epoll and the open descriptors in agreement.
LEMMA RegistrationStep == IndInv /\ TypeOK' /\ [Next]_vars => Registration'
<1> SUFFICES ASSUME IndInv, TypeOK', [Next]_vars PROVE Registration'
  OBVIOUS
<1> USE ListenAssumption, NullAssumption, PeriodAssumption
<1> USE DEF IndInv, Registration, InHandler, ControlInv, OnConnection, TypeOK, LoopTypeOK, Files, HandlerUnchanged, conns, sockets, arrival, files, timers, loop
<1>1. ASSUME Boot PROVE Registration'
  BY <1>1 DEF Boot, FileAdd, Watch, Pending, Events
<1>2. ASSUME CheckStop, HandlerUnchanged PROVE Registration'
  BY <1>2 DEF CheckStop
<1>3. ASSUME SetTimeout, HandlerUnchanged PROVE Registration'
  BY <1>3 DEF SetTimeout, Timeouts
<1>3a. ASSUME EnterWait, HandlerUnchanged PROVE Registration'
  BY <1>3a DEF EnterWait
<1>4. ASSUME Harvest(Pending), HandlerUnchanged PROVE Registration'
  BY <1>4 DEF Harvest, Reportable
<1>5. ASSUME WaitTimesOut, HandlerUnchanged PROVE Registration'
  BY <1>5 DEF WaitTimesOut
<1>6. ASSUME DispatchDone, HandlerUnchanged PROVE Registration'
  BY <1>6 DEF DispatchDone, NoEvents
<1>7. ASSUME TimersDone, HandlerUnchanged PROVE Registration'
  BY <1>7 DEF TimersDone
<1>8. ASSUME Exit PROVE Registration'
  BY <1>8 DEF Exit, Destroy, NoEvents
<1>9. ASSUME CallAccept PROVE Registration'
  BY <1>9 DEF CallAccept, Runs
<1>10. ASSUME AcceptEnds PROVE Registration'
  BY <1>10 DEF AcceptEnds, Return
<1>11. ASSUME AcceptRejects PROVE Registration'
  BY <1>11 DEF AcceptRejects
<1>12. ASSUME NEW s \in Slots, CallRead(s) PROVE Registration'
  BY <1>12 DEF CallRead, Runs
<1>13. ASSUME NEW s \in Slots, CallWrite(s) PROVE Registration'
  BY <1>13 DEF CallWrite, Runs
<1>14. ASSUME NEW s \in Slots, Accept(s) PROVE Registration'
  BY <1>14 DEF Accept
<1>15. ASSUME NEW s \in Slots, Register(s) PROVE Registration'
  BY <1>15 DEF Register, StartTimer, TimerAdd, NextNode, FileAdd, Watch, Return
<1>16. ASSUME NEW s \in Slots, RegisterNoTimer(s) PROVE Registration'
  BY <1>16 DEF RegisterNoTimer, CloseSocket, Return
<1>17. ASSUME NEW s \in Slots, RegisterNoFile(s) PROVE Registration'
  BY <1>17 DEF RegisterNoFile, StartTimer, TimerAdd, NextNode
<1>18. ASSUME NEW s \in Slots, Read(s) PROVE Registration'
  BY <1>18 DEF Read, TimerDel
<1>19. ASSUME NEW s \in Slots, Reply(s) PROVE Registration'
  BY <1>19 DEF Reply, FileMod, Watch, StartTimer, TimerAdd, NextNode, Return
<1>20. ASSUME NEW s \in Slots, Write(s) PROVE Registration'
  BY <1>20 DEF Write, TimerDel
<1>21. ASSUME NEW s \in Slots, Rearm(s) PROVE Registration'
  BY <1>21 DEF Rearm, FileMod, Watch, StartTimer, TimerAdd, NextNode, Return
<1>22. ASSUME NEW s \in Slots, ModFails(s) PROVE Registration'
  BY <1>22 DEF ModFails
<1>23. ASSUME NEW s \in Slots, Close(s) PROVE Registration'
  BY <1>23 DEF Close, ConnClose, TimerDel, TimersOf, FileDel, CloseSocket, Return
<1>24. ASSUME NEW t \in Timers, Timeout(t) PROVE Registration'
  BY <1>24 DEF Timeout, TimerFires, TimerDel, Due, FileDel, CloseSocket
<1>25. ASSUME Connect PROVE Registration'
  BY <1>25 DEF Connect, Edge
<1>26. ASSUME Stolen PROVE Registration'
  BY <1>26 DEF Stolen
<1>27. ASSUME NEW s \in Slots, Send(s) PROVE Registration'
  BY <1>27 DEF Send, Edge
<1>28. ASSUME NEW s \in Slots, ShutDown(s) PROVE Registration'
  BY <1>28 DEF ShutDown, Edge
<1>29. ASSUME NEW s \in Slots, Reset(s) PROVE Registration'
  BY <1>29 DEF Reset, Edge, Events
<1>30. ASSUME NEW s \in Slots, Drain(s) PROVE Registration'
  BY <1>30 DEF Drain, Edge
<1>31. ASSUME ExitSignal PROVE Registration'
  BY <1>31 DEF ExitSignal, Stop, Interrupted
<1>32. ASSUME ReopenSignal PROVE Registration'
  BY <1>32 DEF ReopenSignal, Interrupted
<1>33. ASSUME Time PROVE Registration'
  BY <1>33 DEF Time, Tick
<1>34. ASSUME UNCHANGED vars PROVE Registration'
  BY <1>34 DEF vars
<1> QED
  BY <1>1, <1>2, <1>3, <1>3a, <1>4, <1>5, <1>6, <1>7, <1>8, <1>9, <1>10, <1>11, <1>12, <1>13, <1>14, <1>15, <1>16, <1>17, <1>18, <1>19, <1>20, <1>21, <1>22, <1>23, <1>24, <1>25, <1>26, <1>27, <1>28, <1>29, <1>30, <1>31, <1>32, <1>33, <1>34
     DEF Next, Worker, Loop, Handler, Environment

\* Every step keeps the harvested events within what is registered.
LEMMA BatchInvStep == IndInv /\ TypeOK' /\ [Next]_vars => BatchInv'
<1> SUFFICES ASSUME IndInv, TypeOK', [Next]_vars PROVE BatchInv'
  OBVIOUS
<1> USE ListenAssumption, NullAssumption, PeriodAssumption
<1> USE DEF IndInv, BatchInv, Registration, InHandler, ControlInv, OnConnection, NoEvents, TypeOK, LoopTypeOK, Files, HandlerUnchanged, conns, sockets, arrival, files, timers, loop
<1>1. ASSUME Boot PROVE BatchInv'
  BY <1>1 DEF Boot, FileAdd, Watch, Pending, Events
<1>2. ASSUME CheckStop, HandlerUnchanged PROVE BatchInv'
  BY <1>2 DEF CheckStop
<1>3. ASSUME SetTimeout, HandlerUnchanged PROVE BatchInv'
  BY <1>3 DEF SetTimeout, Timeouts
<1>3a. ASSUME EnterWait, HandlerUnchanged PROVE BatchInv'
  BY <1>3a DEF EnterWait
<1>4. ASSUME Harvest(Pending), HandlerUnchanged PROVE BatchInv'
  BY <1>4 DEF Harvest, Reportable
<1>5. ASSUME WaitTimesOut, HandlerUnchanged PROVE BatchInv'
  BY <1>5 DEF WaitTimesOut
<1>6. ASSUME DispatchDone, HandlerUnchanged PROVE BatchInv'
  BY <1>6 DEF DispatchDone, NoEvents
<1>7. ASSUME TimersDone, HandlerUnchanged PROVE BatchInv'
  BY <1>7 DEF TimersDone
<1>8. ASSUME Exit PROVE BatchInv'
  BY <1>8 DEF Exit, Destroy, NoEvents
<1>9. ASSUME CallAccept PROVE BatchInv'
  BY <1>9 DEF CallAccept, Runs
<1>10. ASSUME AcceptEnds PROVE BatchInv'
  BY <1>10 DEF AcceptEnds, Return
<1>11. ASSUME AcceptRejects PROVE BatchInv'
  BY <1>11 DEF AcceptRejects
<1>12. ASSUME NEW s \in Slots, CallRead(s) PROVE BatchInv'
  BY <1>12 DEF CallRead, Runs
<1>13. ASSUME NEW s \in Slots, CallWrite(s) PROVE BatchInv'
  BY <1>13 DEF CallWrite, Runs
<1>14. ASSUME NEW s \in Slots, Accept(s) PROVE BatchInv'
  BY <1>14 DEF Accept
<1>15. ASSUME NEW s \in Slots, Register(s) PROVE BatchInv'
  BY <1>15 DEF Register, StartTimer, TimerAdd, NextNode, FileAdd, Watch, Return
<1>16. ASSUME NEW s \in Slots, RegisterNoTimer(s) PROVE BatchInv'
  BY <1>16 DEF RegisterNoTimer, CloseSocket, Return
<1>17. ASSUME NEW s \in Slots, RegisterNoFile(s) PROVE BatchInv'
  BY <1>17 DEF RegisterNoFile, StartTimer, TimerAdd, NextNode
<1>18. ASSUME NEW s \in Slots, Read(s) PROVE BatchInv'
  BY <1>18 DEF Read, TimerDel
<1>19. ASSUME NEW s \in Slots, Reply(s) PROVE BatchInv'
  BY <1>19 DEF Reply, FileMod, Watch, StartTimer, TimerAdd, NextNode, Return
<1>20. ASSUME NEW s \in Slots, Write(s) PROVE BatchInv'
  BY <1>20 DEF Write, TimerDel
<1>21. ASSUME NEW s \in Slots, Rearm(s) PROVE BatchInv'
  BY <1>21 DEF Rearm, FileMod, Watch, StartTimer, TimerAdd, NextNode, Return
<1>22. ASSUME NEW s \in Slots, ModFails(s) PROVE BatchInv'
  BY <1>22 DEF ModFails
<1>23. ASSUME NEW s \in Slots, Close(s) PROVE BatchInv'
  BY <1>23 DEF Close, ConnClose, TimerDel, TimersOf, FileDel, CloseSocket, Return
<1>24. ASSUME NEW t \in Timers, Timeout(t) PROVE BatchInv'
  BY <1>24 DEF Timeout, TimerFires, TimerDel, Due, FileDel, CloseSocket
<1>25. ASSUME Connect PROVE BatchInv'
  BY <1>25 DEF Connect, Edge
<1>26. ASSUME Stolen PROVE BatchInv'
  BY <1>26 DEF Stolen
<1>27. ASSUME NEW s \in Slots, Send(s) PROVE BatchInv'
  BY <1>27 DEF Send, Edge
<1>28. ASSUME NEW s \in Slots, ShutDown(s) PROVE BatchInv'
  BY <1>28 DEF ShutDown, Edge
<1>29. ASSUME NEW s \in Slots, Reset(s) PROVE BatchInv'
  BY <1>29 DEF Reset, Edge, Events
<1>30. ASSUME NEW s \in Slots, Drain(s) PROVE BatchInv'
  BY <1>30 DEF Drain, Edge
<1>31. ASSUME ExitSignal PROVE BatchInv'
  BY <1>31 DEF ExitSignal, Stop, Interrupted
<1>32. ASSUME ReopenSignal PROVE BatchInv'
  BY <1>32 DEF ReopenSignal, Interrupted
<1>33. ASSUME Time PROVE BatchInv'
  BY <1>33 DEF Time, Tick
<1>34. ASSUME UNCHANGED vars PROVE BatchInv'
  BY <1>34 DEF vars
<1> QED
  BY <1>1, <1>2, <1>3, <1>3a, <1>4, <1>5, <1>6, <1>7, <1>8, <1>9, <1>10, <1>11, <1>12, <1>13, <1>14, <1>15, <1>16, <1>17, <1>18, <1>19, <1>20, <1>21, <1>22, <1>23, <1>24, <1>25, <1>26, <1>27, <1>28, <1>29, <1>30, <1>31, <1>32, <1>33, <1>34
     DEF Next, Worker, Loop, Handler, Environment

\* Every step keeps timer nodes and pointers matched and every wait timed.
LEMMA TimerInvStep == IndInv /\ TypeOK' /\ [Next]_vars => TimerInv'
<1> SUFFICES ASSUME IndInv, TypeOK', [Next]_vars PROVE TimerInv'
  OBVIOUS
<1> USE ListenAssumption, NullAssumption, PeriodAssumption
<1> USE DEF IndInv, TimerInv, TimersOf, Deadlined, InHandler, Registration, ControlInv, OnConnection, BatchInv, NoEvents, TypeOK, LoopTypeOK, Files, HandlerUnchanged, conns, sockets, arrival, files, timers, loop
<1>1. ASSUME Boot PROVE TimerInv'
  BY <1>1 DEF Boot, FileAdd, Watch, Pending, Events
<1>2. ASSUME CheckStop, HandlerUnchanged PROVE TimerInv'
  BY <1>2 DEF CheckStop
<1>3. ASSUME SetTimeout, HandlerUnchanged PROVE TimerInv'
  BY <1>3 DEF SetTimeout, Timeouts
<1>3a. ASSUME EnterWait, HandlerUnchanged PROVE TimerInv'
  BY <1>3a DEF EnterWait
<1>4. ASSUME Harvest(Pending), HandlerUnchanged PROVE TimerInv'
  BY <1>4 DEF Harvest, Reportable
<1>5. ASSUME WaitTimesOut, HandlerUnchanged PROVE TimerInv'
  BY <1>5 DEF WaitTimesOut
<1>6. ASSUME DispatchDone, HandlerUnchanged PROVE TimerInv'
  BY <1>6 DEF DispatchDone, NoEvents
<1>7. ASSUME TimersDone, HandlerUnchanged PROVE TimerInv'
  BY <1>7 DEF TimersDone
<1>8. ASSUME Exit PROVE TimerInv'
  BY <1>8, ExitClosesAll DEF Exit, Destroy, NoEvents
<1>9. ASSUME CallAccept PROVE TimerInv'
  BY <1>9 DEF CallAccept, Runs
<1>10. ASSUME AcceptEnds PROVE TimerInv'
  BY <1>10 DEF AcceptEnds, Return
<1>11. ASSUME AcceptRejects PROVE TimerInv'
  BY <1>11 DEF AcceptRejects
<1>12. ASSUME NEW s \in Slots, CallRead(s) PROVE TimerInv'
  BY <1>12 DEF CallRead, Runs
<1>13. ASSUME NEW s \in Slots, CallWrite(s) PROVE TimerInv'
  BY <1>13 DEF CallWrite, Runs
<1>14. ASSUME NEW s \in Slots, Accept(s) PROVE TimerInv'
  BY <1>14 DEF Accept
<1>15. ASSUME NEW s \in Slots, Register(s) PROVE TimerInv'
  BY <1>15, RegisterTimers
<1>16. ASSUME NEW s \in Slots, RegisterNoTimer(s) PROVE TimerInv'
  BY <1>16 DEF RegisterNoTimer, CloseSocket, Return
<1>17. ASSUME NEW s \in Slots, RegisterNoFile(s) PROVE TimerInv'
  <2>1. s \in open /\ TimersOf(s) = {} /\ open' = open /\ stimer' = stimer
    BY <1>17 DEF RegisterNoFile
  <2>2. CASE UNCHANGED <<timers, rtimer>> /\ (ReadTimeout = 0 \/ pc' = "close")
    BY <1>17, <2>1, <2>2 DEF RegisterNoFile, StartTimer, TimerAdd, NextNode
  <2>3. CASE ReadTimeout > 0 /\ \E t \in Timers : TimerAdd(t, ReadTimeout, s) /\ rtimer' = [rtimer EXCEPT ![s] = t]
    <3>1. PICK t \in Timers : TimerAdd(t, ReadTimeout, s) /\ rtimer' = [rtimer EXCEPT ![s] = t]
      BY <2>3
    <3>2. TimersOf(s)' = {t} /\ \A r \in open \ {s} : TimersOf(r)' = TimersOf(r)
      BY <2>1, <3>1, PointerSet
    <3>3. /\ used' = tree' \cup free'
          /\ tree' \cap free' = {}
          /\ \A u \in tree' : owner'[u] \in open' /\ u \in TimersOf(owner[u])'
          /\ \A r \in open' : \A u \in TimersOf(r)' : u \in tree' /\ owner'[u] = r
      BY <2>1, <3>1, <3>2, TimerStarted DEF IndInv
    <3>4. rtimer' = [rtimer EXCEPT ![s] = t]
      BY <3>1
    <3>5. Deadlined'
      BY <1>17, <2>1, <2>3, <3>4 DEF RegisterNoFile
    <3> QED
      BY <1>17, <2>1, <3>3, <3>5 DEF RegisterNoFile
  <2> QED
    BY <1>17, <2>2, <2>3 DEF RegisterNoFile, StartTimer
<1>18. ASSUME NEW s \in Slots, Read(s) PROVE TimerInv'
  BY <1>18 DEF Read, TimerDel
<1>19. ASSUME NEW s \in Slots, Reply(s) PROVE TimerInv'
  BY <1>19, ReplyTimers
<1>20. ASSUME NEW s \in Slots, Write(s) PROVE TimerInv'
  BY <1>20 DEF Write, TimerDel
<1>21. ASSUME NEW s \in Slots, Rearm(s) PROVE TimerInv'
  BY <1>21, RearmTimers
<1>22. ASSUME NEW s \in Slots, ModFails(s) PROVE TimerInv'
  BY <1>22 DEF ModFails
<1>23. ASSUME NEW s \in Slots, Close(s) PROVE TimerInv'
  BY <1>23 DEF Close, ConnClose, TimerDel, TimersOf, FileDel, CloseSocket, Return
<1>24. ASSUME NEW t \in Timers, Timeout(t) PROVE TimerInv'
  BY <1>24, TimeoutTimers
<1>25. ASSUME Connect PROVE TimerInv'
  BY <1>25 DEF Connect, Edge
<1>26. ASSUME Stolen PROVE TimerInv'
  BY <1>26 DEF Stolen
<1>27. ASSUME NEW s \in Slots, Send(s) PROVE TimerInv'
  BY <1>27 DEF Send, Edge
<1>28. ASSUME NEW s \in Slots, ShutDown(s) PROVE TimerInv'
  BY <1>28 DEF ShutDown, Edge
<1>29. ASSUME NEW s \in Slots, Reset(s) PROVE TimerInv'
  BY <1>29 DEF Reset, Edge, Events
<1>30. ASSUME NEW s \in Slots, Drain(s) PROVE TimerInv'
  BY <1>30 DEF Drain, Edge
<1>31. ASSUME ExitSignal PROVE TimerInv'
  BY <1>31 DEF ExitSignal, Stop, Interrupted
<1>32. ASSUME ReopenSignal PROVE TimerInv'
  BY <1>32 DEF ReopenSignal, Interrupted
<1>33. ASSUME Time PROVE TimerInv'
  BY <1>33 DEF Time, Tick
<1>34. ASSUME UNCHANGED vars PROVE TimerInv'
  BY <1>34 DEF vars
<1> QED
  BY <1>1, <1>2, <1>3, <1>3a, <1>4, <1>5, <1>6, <1>7, <1>8, <1>9, <1>10, <1>11, <1>12, <1>13, <1>14, <1>15, <1>16, <1>17, <1>18, <1>19, <1>20, <1>21, <1>22, <1>23, <1>24, <1>25, <1>26, <1>27, <1>28, <1>29, <1>30, <1>31, <1>32, <1>33, <1>34
     DEF Next, Worker, Loop, Handler, Environment

\* The initial states satisfy the inductive invariant.
LEMMA IndInit == Init => IndInv
<1> SUFFICES ASSUME Init PROVE IndInv
  OBVIOUS
<1>1. TypeOK
  BY ListenAssumption, NullAssumption
  DEF Init, LoopInit, TypeOK, LoopTypeOK, Control, Files, Events, NoEvents
<1>2. ControlInv /\ BatchInv
  BY DEF Init, LoopInit, ControlInv, BatchInv, OnConnection, NoEvents, Files
<1>3. Registration
  BY DEF Init, LoopInit, Registration, NoEvents, Files
<1>4. TimerInv
  BY DEF Init, LoopInit, TimerInv, Deadlined
<1> QED
  BY <1>1, <1>2, <1>3, <1>4 DEF IndInv

\* IndInv is inductive.
LEMMA IndStep == IndInv /\ [Next]_vars => IndInv'
<1> SUFFICES ASSUME IndInv, [Next]_vars PROVE IndInv'
  OBVIOUS
<1>1. TypeOK'
  BY TypeStep DEF IndInv
<1> QED
  BY <1>1, ControlInvStep, RegistrationStep, BatchInvStep, TimerInvStep DEF IndInv

-----------------------------------------------------------------------------
(* Wake-ups and the epoll_wait() timeout.                                  *)

\* What the kernel reports of connection s, now and after the step.
LEMMA PendingOf ==
    ASSUME NEW s \in Slots
    PROVE  /\ Pending[s] \subseteq Events /\ Pending'[s] \subseteq Events
           /\ ("IN" \in Pending[s]) <=> Readable(s)
           /\ ("OUT" \in Pending[s]) <=> Writable(s)
           /\ ("IN" \in Pending'[s]) <=> Readable(s)'
           /\ ("OUT" \in Pending'[s]) <=> Writable(s)'
  BY ListenAssumption DEF Pending, Files, Events

\* No step of a client, a handler or the loop loses a wake-up.
LEMMA NoLostEdgeStep == IndInv /\ NoLostEdge /\ TypeOK' /\ [Next]_vars => NoLostEdge'
<1> SUFFICES ASSUME IndInv, NoLostEdge, TypeOK', [Next]_vars,
                    NEW s \in open', interest'[s] \cap Pending'[s] # {}, cur' # s
             PROVE  s \in ready' \/ batch'[s] # {}
  BY DEF NoLostEdge, InHandler
<1> USE ListenAssumption DEF HandlerUnchanged, conns, sockets, arrival, files, timers, loop
<1> DEFINE Same == /\ rx'[s] = rx[s]
                   /\ s \in fin' <=> s \in fin
                   /\ s \in err' <=> s \in err
                   /\ s \in full' <=> s \in full
           Kept == /\ s \in ready => s \in ready' \/ batch'[s] # {}
                   /\ batch[s] # {} => batch'[s] # {}
<1>1. /\ s \in Slots /\ s \in Files /\ s # Listen
      /\ mask \in [Files -> SUBSET Events] /\ mask = interest
      /\ batch \in [Files -> SUBSET Events] /\ ready \subseteq Files
      /\ open \subseteq Slots /\ pc \in Control /\ batch[s] \subseteq mask[s]
  BY DEF TypeOK, LoopTypeOK, IndInv, Files, Registration, BatchInv
<1>2. ASSUME s \in open, cur # s, interest'[s] = interest[s], Same, Kept
      PROVE  s \in ready' \/ batch'[s] # {}
  <2>1. (Readable(s)' <=> Readable(s)) /\ (Writable(s)' <=> Writable(s))
    BY <1>2 DEF Readable, Writable
  <2>2. Pending'[s] = Pending[s]
    <3>1. \A e \in Events : e \in Pending'[s] <=> e \in Pending[s]
      BY <1>1, <2>1, PendingOf DEF Events
    <3>2. Pending[s] \subseteq Events /\ Pending'[s] \subseteq Events
      BY <1>1, PendingOf
    <3> QED
      BY <3>1, <3>2
  <2>3. interest[s] \cap Pending[s] # {}
    BY <1>2, <2>2
  <2>4. s \in ready \/ batch[s] # {}
    BY <1>2, <2>3 DEF NoLostEdge, InHandler
  <2> QED
    BY <1>2, <2>4
<1>3. ASSUME UNCHANGED <<rx, fin, err, full>> PROVE Same
  BY <1>3
<1>4. ASSUME UNCHANGED <<ready, batch>> PROVE Kept
  BY <1>4
\* The loop
<1>5. CASE Boot \/ Exit
  <2>1. open' = {}
    BY <1>5, ExitClosesAll DEF Boot, IndInv, ControlInv
  <2> QED
    BY <2>1
<1>6. CASE (CheckStop \/ SetTimeout \/ EnterWait \/ WaitTimesOut \/ TimersDone) /\ HandlerUnchanged
  BY <1>2, <1>6 DEF CheckStop, SetTimeout, EnterWait, WaitTimesOut, TimersDone
<1>7. CASE Harvest(Pending) /\ HandlerUnchanged
  <2>1. s \in open /\ cur = cur' /\ interest' = interest /\ pc = "wait" /\ batch = NoEvents
    BY <1>7 DEF Harvest, IndInv, BatchInv, OnConnection
  <2>2. s \in ready /\ interest[s] \cap Pending[s] # {}
    <3>1. (Readable(s)' <=> Readable(s)) /\ (Writable(s)' <=> Writable(s))
      BY <1>7 DEF Readable, Writable, Harvest
    <3>2. interest[s] \cap Pending[s] # {}
      BY <1>1, <2>1, <3>1, PendingOf DEF Events
    <3>3. batch[s] = {}
      BY <1>1, <2>1 DEF NoEvents
    <3> QED
      BY <2>1, <3>2, <3>3 DEF NoLostEdge, InHandler
  <2>3. s \in Reportable(Pending)
    BY <2>2 DEF Reportable
  <2>4. batch'[s] = interest[s] \cap Pending[s]
    BY <1>1, <1>7, <2>2, <2>3 DEF Harvest
  <2> QED
    BY <2>2, <2>4
<1>8. CASE DispatchDone /\ HandlerUnchanged
  <2>1. batch[s] = {}
    BY <1>1, <1>8 DEF DispatchDone
  <2> QED
    BY <1>2, <1>8, <2>1 DEF DispatchDone
<1>9. CASE CallAccept \/ AcceptEnds \/ AcceptRejects
  <2>1. /\ s \in open /\ cur # s /\ interest'[s] = interest[s]
        /\ UNCHANGED <<rx, fin, err, full, ready>> /\ batch'[s] = batch[s]
    BY <1>1, <1>9 DEF CallAccept, AcceptEnds, AcceptRejects, Runs, IndInv, ControlInv, OnConnection
  <2> QED
    BY <1>2, <2>1
\* The handlers
<1>10. ASSUME NEW r \in Slots, CallRead(r) \/ CallWrite(r) PROVE s \in ready' \/ batch'[s] # {}
  <2>1. /\ s \in open /\ cur # s /\ r # s /\ interest'[s] = interest[s]
        /\ UNCHANGED <<rx, fin, err, full, ready>> /\ batch'[s] = batch[s]
    BY <1>1, <1>10 DEF CallRead, CallWrite, Runs, IndInv, ControlInv, OnConnection
  <2> QED
    BY <1>2, <2>1
<1>11. ASSUME NEW r \in Slots, Accept(r) PROVE s \in ready' \/ batch'[s] # {}
  <2>1. /\ s \in open /\ cur # s /\ interest'[s] = interest[s]
        /\ UNCHANGED <<rx, fin, err, full, ready, batch>>
    BY <1>1, <1>11 DEF Accept, IndInv, ControlInv, OnConnection
  <2> QED
    BY <1>2, <2>1
<1>12. ASSUME NEW r \in Slots, RegisterNoTimer(r) \/ RegisterNoFile(r) \/ ModFails(r) \/ Read(r) \/ Write(r)
       PROVE  s \in ready' \/ batch'[s] # {}
  <2>1. /\ s \in open /\ cur = r /\ r # s /\ interest'[s] = interest[s]
        /\ UNCHANGED <<ready, batch>>
    BY <1>1, <1>12 DEF RegisterNoTimer, RegisterNoFile, ModFails, Read, Write, CloseSocket
  <2>2. Same
    BY <1>1, <1>12, <2>1 DEF RegisterNoTimer, RegisterNoFile, ModFails, Read, Write, CloseSocket, IndInv, TypeOK
  <2> QED
    BY <1>2, <2>1, <2>2
<1>13. ASSUME NEW r \in Slots, NEW events \in {{"IN"}, {"OUT"}}, Watch(r, events, Pending[r]), UNCHANGED <<rx, fin, err, full, open, batch>>, cur = r
       PROVE  s \in ready' \/ batch'[s] # {}
  <2>1. CASE s = r
    <3>1. interest'[s] = events
      BY <1>1, <1>13, <2>1 DEF Watch
    <3>2. (Readable(s)' <=> Readable(s)) /\ (Writable(s)' <=> Writable(s))
      BY <1>13 DEF Readable, Writable
    <3>3. events \cap Pending[s] # {}
      BY <1>1, <3>1, <3>2, PendingOf DEF Events
    <3> QED
      BY <1>13, <2>1, <3>3 DEF Watch
  <2>2. CASE s # r
    BY <1>1, <1>2, <1>13, <2>2 DEF Watch
  <2> QED
    BY <2>1, <2>2
<1>14. ASSUME NEW r \in Slots, Register(r) \/ Reply(r) \/ Rearm(r) PROVE s \in ready' \/ batch'[s] # {}
  <2>1. mask[r] \cup {"IN"} = {"IN"} \/ ~Register(r)
    BY DEF Register, IndInv, ControlInv
  <2>2. \E events \in {{"IN"}, {"OUT"}} : Watch(r, events, Pending[r])
    BY <1>14, <2>1 DEF Register, Reply, Rearm, FileAdd, FileMod
  <2>3. cur = r /\ UNCHANGED <<rx, fin, err, full, open, batch>>
    BY <1>14 DEF Register, Reply, Rearm
  <2> QED
    BY <1>13, <2>2, <2>3
<1>15. ASSUME NEW r \in Slots, Close(r) PROVE s \in ready' \/ batch'[s] # {}
  <2>1. /\ s \in open /\ cur = r /\ r # s /\ interest'[s] = interest[s]
        /\ s \in ready => s \in ready'
        /\ UNCHANGED batch
    BY <1>1, <1>15 DEF Close, ConnClose, FileDel, CloseSocket
  <2>2. Same
    BY <1>1, <1>15, <2>1 DEF Close, ConnClose, CloseSocket, IndInv, TypeOK
  <2> QED
    BY <1>2, <2>1, <2>2
<1>16. ASSUME NEW t \in Timers, Timeout(t) PROVE s \in ready' \/ batch'[s] # {}
  <2>1. /\ s \in open /\ cur # s /\ owner[t] # s /\ interest'[s] = interest[s]
        /\ s \in ready => s \in ready'
        /\ UNCHANGED batch
    BY <1>1, <1>16 DEF Timeout, TimerFires, FileDel, CloseSocket
  <2>2. Same
    BY <1>1, <1>16, <2>1 DEF Timeout, CloseSocket, IndInv, TypeOK
  <2> QED
    BY <1>2, <2>1, <2>2
\* The environment
<1>17. CASE Connect \/ Stolen \/ ExitSignal \/ ReopenSignal \/ Time
  <2>1. /\ s \in open /\ cur # s /\ interest'[s] = interest[s]
        /\ s \in ready => s \in ready'
        /\ UNCHANGED <<rx, fin, err, full, batch>>
    BY <1>17 DEF Connect, Stolen, ExitSignal, ReopenSignal, Time, Tick, Edge
  <2> QED
    BY <1>2, <2>1
<1>18. ASSUME NEW r \in Slots, NEW events \in SUBSET Events, Edge(r, events),
              UNCHANGED <<interest, open, cur, batch>>,
              r # s => Same,
              Pending'[r] \ events \subseteq Pending[r]
       PROVE  s \in ready' \/ batch'[s] # {}
  <2>1. s \in ready => s \in ready'
    BY <1>18 DEF Edge
  <2>2. CASE r # s
    BY <1>2, <1>18, <2>1, <2>2
  <2>3. CASE r = s /\ interest[s] \cap events # {}
    BY <1>18, <2>3 DEF Edge
  <2>4. CASE r = s /\ interest[s] \cap events = {}
    <3>1. interest[s] \cap Pending[s] # {}
      BY <1>18, <2>4
    <3> QED
      BY <1>18, <2>1, <3>1 DEF NoLostEdge, InHandler
  <2> QED
    BY <2>2, <2>3, <2>4
<1>19. ASSUME NEW r \in Slots, Send(r) \/ ShutDown(r) PROVE s \in ready' \/ batch'[s] # {}
  <2>1. r # s => Same
    BY <1>1, <1>19 DEF Send, ShutDown, IndInv, TypeOK
  <2>2. Writable(r)' <=> Writable(r)
    BY <1>19 DEF Send, ShutDown, Writable
  <2>3. Pending'[r] \ {"IN"} \subseteq Pending[r]
    BY <2>2, PendingOf DEF Events
  <2> QED
    BY <1>18, <1>19, <2>1, <2>3 DEF Send, ShutDown, Events
<1>20. ASSUME NEW r \in Slots, Reset(r) PROVE s \in ready' \/ batch'[s] # {}
  <2>1. r # s => Same
    BY <1>1, <1>20 DEF Reset, IndInv, TypeOK
  <2>2. Pending'[r] \ Events \subseteq Pending[r]
    BY PendingOf
  <2> QED
    BY <1>18, <1>20, <2>1, <2>2 DEF Reset
<1>21. ASSUME NEW r \in Slots, Drain(r) PROVE s \in ready' \/ batch'[s] # {}
  <2>1. r # s => Same
    BY <1>1, <1>21 DEF Drain, IndInv, TypeOK
  <2>2. Readable(r)' <=> Readable(r)
    BY <1>21 DEF Drain, Readable
  <2>3. Pending'[r] \ {"OUT"} \subseteq Pending[r]
    BY <2>2, PendingOf DEF Events
  <2> QED
    BY <1>18, <1>21, <2>1, <2>3 DEF Drain, Events
<1>22. CASE UNCHANGED vars
  BY <1>2, <1>22 DEF vars
<1> QED
  BY <1>5, <1>6, <1>7, <1>8, <1>9, <1>10, <1>11, <1>12, <1>14, <1>15, <1>16, <1>17, <1>19, <1>20, <1>21, <1>22
     DEF Next, Worker, Loop, Handler, Environment

\* No step lets the timeout exceed the earliest timer by more than the lag.
LEMMA OversleepBoundedStep == IndInv /\ OversleepBounded /\ TypeOK' /\ [Next]_vars => OversleepBounded'
<1> SUFFICES ASSUME IndInv, OversleepBounded, TypeOK', [Next]_vars PROVE OversleepBounded'
  OBVIOUS
<1> USE ListenAssumption, NullAssumption, PeriodAssumption
<1> USE DEF IndInv, OversleepBounded, ControlInv, OnConnection, TypeOK, LoopTypeOK, Files, HandlerUnchanged, conns, sockets, arrival, files, timers, loop
<1>1. ASSUME Boot PROVE OversleepBounded'
  BY <1>1 DEF Boot, FileAdd, Watch, Pending, Events
<1>2. ASSUME CheckStop, HandlerUnchanged PROVE OversleepBounded'
  BY <1>2 DEF CheckStop
<1>3. ASSUME SetTimeout, HandlerUnchanged PROVE OversleepBounded'
  <2> SUFFICES ASSUME NEW t \in tree PROVE wake' \in 0 .. left[t] + lag
    BY <1>3 DEF SetTimeout
  <2>1. Timeouts \subseteq Nat /\ left[t] \in Timeouts
    BY DEF Timeouts
  <2>2. wake' \in Nat /\ wake' <= left[t]
    BY <1>3, <2>1 DEF SetTimeout
  <2> QED
    BY <2>1, <2>2
<1>3a. ASSUME EnterWait, HandlerUnchanged PROVE OversleepBounded'
  BY <1>3a DEF EnterWait
<1>4. ASSUME Harvest(Pending), HandlerUnchanged PROVE OversleepBounded'
  BY <1>4 DEF Harvest, Reportable
<1>5. ASSUME WaitTimesOut, HandlerUnchanged PROVE OversleepBounded'
  BY <1>5 DEF WaitTimesOut
<1>6. ASSUME DispatchDone, HandlerUnchanged PROVE OversleepBounded'
  BY <1>6 DEF DispatchDone, NoEvents
<1>7. ASSUME TimersDone, HandlerUnchanged PROVE OversleepBounded'
  BY <1>7 DEF TimersDone
<1>8. ASSUME Exit PROVE OversleepBounded'
  BY <1>8 DEF Exit, Destroy, NoEvents
<1>9. ASSUME CallAccept PROVE OversleepBounded'
  BY <1>9 DEF CallAccept, Runs
<1>10. ASSUME AcceptEnds PROVE OversleepBounded'
  BY <1>10 DEF AcceptEnds, Return
<1>11. ASSUME AcceptRejects PROVE OversleepBounded'
  BY <1>11 DEF AcceptRejects
<1>12. ASSUME NEW s \in Slots, CallRead(s) PROVE OversleepBounded'
  BY <1>12 DEF CallRead, Runs
<1>13. ASSUME NEW s \in Slots, CallWrite(s) PROVE OversleepBounded'
  BY <1>13 DEF CallWrite, Runs
<1>14. ASSUME NEW s \in Slots, Accept(s) PROVE OversleepBounded'
  BY <1>14 DEF Accept
<1>15. ASSUME NEW s \in Slots, Register(s) PROVE OversleepBounded'
  BY <1>15 DEF Register, StartTimer, TimerAdd, NextNode, FileAdd, Watch, Return
<1>16. ASSUME NEW s \in Slots, RegisterNoTimer(s) PROVE OversleepBounded'
  BY <1>16 DEF RegisterNoTimer, CloseSocket, Return
<1>17. ASSUME NEW s \in Slots, RegisterNoFile(s) PROVE OversleepBounded'
  BY <1>17 DEF RegisterNoFile, StartTimer, TimerAdd, NextNode
<1>18. ASSUME NEW s \in Slots, Read(s) PROVE OversleepBounded'
  BY <1>18 DEF Read, TimerDel
<1>19. ASSUME NEW s \in Slots, Reply(s) PROVE OversleepBounded'
  BY <1>19 DEF Reply, FileMod, Watch, StartTimer, TimerAdd, NextNode, Return
<1>20. ASSUME NEW s \in Slots, Write(s) PROVE OversleepBounded'
  BY <1>20 DEF Write, TimerDel
<1>21. ASSUME NEW s \in Slots, Rearm(s) PROVE OversleepBounded'
  BY <1>21 DEF Rearm, FileMod, Watch, StartTimer, TimerAdd, NextNode, Return
<1>22. ASSUME NEW s \in Slots, ModFails(s) PROVE OversleepBounded'
  BY <1>22 DEF ModFails
<1>23. ASSUME NEW s \in Slots, Close(s) PROVE OversleepBounded'
  BY <1>23 DEF Close, ConnClose, TimerDel, TimersOf, FileDel, CloseSocket, Return
<1>24. ASSUME NEW t \in Timers, Timeout(t) PROVE OversleepBounded'
  BY <1>24 DEF Timeout, TimerFires, TimerDel, Due, FileDel, CloseSocket
<1>25. ASSUME Connect PROVE OversleepBounded'
  BY <1>25 DEF Connect, Edge
<1>26. ASSUME Stolen PROVE OversleepBounded'
  BY <1>26 DEF Stolen
<1>27. ASSUME NEW s \in Slots, Send(s) PROVE OversleepBounded'
  BY <1>27 DEF Send, Edge
<1>28. ASSUME NEW s \in Slots, ShutDown(s) PROVE OversleepBounded'
  BY <1>28 DEF ShutDown, Edge
<1>29. ASSUME NEW s \in Slots, Reset(s) PROVE OversleepBounded'
  BY <1>29 DEF Reset, Edge, Events
<1>30. ASSUME NEW s \in Slots, Drain(s) PROVE OversleepBounded'
  BY <1>30 DEF Drain, Edge
<1>31. ASSUME ExitSignal PROVE OversleepBounded'
  BY <1>31 DEF ExitSignal, Stop, Interrupted
<1>32. ASSUME ReopenSignal PROVE OversleepBounded'
  BY <1>32 DEF ReopenSignal, Interrupted
<1>33. ASSUME Time PROVE OversleepBounded'
  BY <1>33 DEF Time, Tick
<1>34. ASSUME UNCHANGED vars PROVE OversleepBounded'
  BY <1>34 DEF vars
<1> QED
  BY <1>1, <1>2, <1>3, <1>3a, <1>4, <1>5, <1>6, <1>7, <1>8, <1>9, <1>10, <1>11, <1>12, <1>13, <1>14, <1>15, <1>16, <1>17, <1>18, <1>19, <1>20, <1>21, <1>22, <1>23, <1>24, <1>25, <1>26, <1>27, <1>28, <1>29, <1>30, <1>31, <1>32, <1>33, <1>34
     DEF Next, Worker, Loop, Handler, Environment

-----------------------------------------------------------------------------
(* The theorems.                                                           *)

\* Type correctness, for any number of slots, timer nodes and any timeouts.
THEOREM TypeCorrect == Spec => []TypeOK
<1>1. Init => TypeOK
  BY IndInit DEF IndInv
<1> QED
  BY <1>1, TypeStep, PTL DEF Spec

\* The inductive invariant holds of every reachable state.
THEOREM Inductive == Spec => []IndInv
  BY IndInit, IndStep, PTL DEF Spec

\* files[], the epoll instance and the open descriptors always agree, so that
\* no handler path leaks a descriptor or leaves an entry for its next owner.
THEOREM RegistrationHolds == Spec => []Registration
<1>1. IndInv => Registration
  BY DEF IndInv
<1> QED
  BY <1>1, Inductive, PTL

\* No event harvested for one connection reaches another one.
THEOREM NoStaleEventHolds == Spec => []NoStaleEvent
<1>1. IndInv => NoStaleEvent
  BY DEF IndInv, BatchInv, Registration, NoStaleEvent
<1> QED
  BY <1>1, Inductive, PTL

\* Running timer nodes and the pointers of open connections match one to one:
\* no node is used after it was freed, and none is deleted twice.
THEOREM TimerOwnershipHolds == Spec => []TimerOwnership
<1>1. IndInv => TimerOwnership
  <2> SUFFICES ASSUME IndInv PROVE TimerOwnership
    OBVIOUS
  <2>1. tree \cap free = {}
    BY DEF IndInv, TimerInv
  <2>2. \A t \in tree : owner[t] \in open /\ t \in {rtimer[owner[t]], stimer[owner[t]]}
    BY DEF IndInv, TimerInv, TimersOf
  <2>3. \A s \in open : TimersOf(s) \subseteq tree
    BY DEF IndInv, TimerInv
  <2>4. ASSUME NEW s \in open, NEW r \in open, s # r, NEW t \in TimersOf(s) \cap TimersOf(r)
        PROVE  FALSE
    BY <2>4 DEF IndInv, TimerInv
  <2> QED
    BY <2>1, <2>2, <2>3, <2>4 DEF TimerOwnership
<1> QED
  BY <1>1, Inductive, PTL

\* Every connection that waits for its client has the timer of its direction.
THEOREM DeadlinedHolds == Spec => []Deadlined
<1>1. IndInv => Deadlined
  BY DEF IndInv, TimerInv
<1> QED
  BY <1>1, Inductive, PTL

\* A worker that has exited has closed every connection.
THEOREM NoLeakAtExitHolds == Spec => []NoLeakAtExit
<1>1. IndInv => NoLeakAtExit
  BY DEF IndInv, ControlInv, NoLeakAtExit
<1> QED
  BY <1>1, Inductive, PTL

\* No wake-up of a client connection is lost, whatever fails.
THEOREM NoLostEdgeHolds == Spec => []NoLostEdge
<1>1. Init => NoLostEdge
  BY DEF Init, NoLostEdge
<1>2. IndInv /\ IndInv' /\ NoLostEdge /\ [Next]_vars => NoLostEdge'
  BY NoLostEdgeStep DEF IndInv
<1> QED
  BY <1>1, <1>2, Inductive, PTL DEF Spec

\* The loop sleeps past the earliest timer by no more than the time it was held up
\* between reading the clock and entering epoll_wait(), for any number of timers,
\* with any maximum or none.
THEOREM OversleepBoundedHolds == Spec => []OversleepBounded
<1>1. Init => OversleepBounded
  BY DEF Init, LoopInit, OversleepBounded
<1>2. IndInv /\ IndInv' /\ OversleepBounded /\ [Next]_vars => OversleepBounded'
  BY OversleepBoundedStep DEF IndInv
<1> QED
  BY <1>1, <1>2, Inductive, PTL DEF Spec

-----------------------------------------------------------------------------
(* Two more results on top of the inductive invariant: timers cost a       *)
(* worker no more nodes than connections, and its listening socket is      *)
(* drained.                                                                *)

\* When a handler is about to start the timer of its connection, the running
\* timers belong to other connections, one to each.
LEMMA OneTimerEach ==
    ASSUME IndInv, NEW s \in open, cur = s, TimersOf(s) = {}
    PROVE  \A u \in tree : /\ owner[u] \in open \ {s}
                           /\ \A v \in tree : owner[u] = owner[v] => u = v
<1>1. \A u \in tree : owner[u] \in open \ {s} /\ u \in TimersOf(owner[u])
  BY DEF IndInv, TimerInv
<1>2. \A r \in open \ {s} : rtimer[r] = NULL \/ stimer[r] = NULL
  BY DEF IndInv, TimerInv, Deadlined, InHandler
<1>3. \A r \in open \ {s} : \A u, v \in TimersOf(r) : u = v
  BY <1>2 DEF TimersOf
<1> QED
  BY <1>1, <1>3

\* A timer is started with a new node only if all nodes so far are running.
LEMMA NewNode ==
    ASSUME IndInv, PoolBounded, IsFiniteSet(Slots),
           NEW s \in Slots, s \in open, cur = s, TimersOf(s) = {},
           NEW t \in Timers, NEW ms \in Nat, TimerAdd(t, ms, s)
    PROVE  Cardinality(used') <= Cardinality(Slots)
<1>1. CASE free # {}
  <2>1. used' = used
    BY <1>1 DEF TimerAdd, NextNode, PoolBounded
  <2> QED
    BY <2>1 DEF PoolBounded
<1>2. CASE free = {}
  <2> DEFINE f == [u \in used' |-> IF u = t THEN s ELSE owner[u]]
  <2>1. used' = tree \cup {t}
    BY <1>2 DEF TimerAdd, PoolBounded
  <2>2. open \subseteq Slots
    BY DEF IndInv, TypeOK
  <2>3. \A u \in used' : u = t \/ (u \in tree /\ owner[u] \in Slots /\ owner[u] # s)
    BY <2>1, <2>2, OneTimerEach
  <2>4. f \in [used' -> Slots]
    BY <2>3
  <2>5. \A u, v \in used' : f[u] = f[v] => u = v
    BY <2>3, OneTimerEach
  <2>6. f \in Injection(used', Slots)
    BY <2>4, <2>5 DEF Injection, IsInjective
  <2> QED
    BY <2>6, FS_Injection
<1> QED
  BY <1>1, <1>2

\* The steps that start a timer.
LEMMA StartBounded ==
    ASSUME IndInv, PoolBounded, IsFiniteSet(Slots), NEW s \in Slots,
           Register(s) \/ RegisterNoFile(s) \/ Reply(s) \/ Rearm(s)
    PROVE  Cardinality(used') <= Cardinality(Slots)
<1>1. cur = s /\ pc \in {"register", "reply", "rearm"}
  BY DEF Register, RegisterNoFile, Reply, Rearm
<1>2. s \in open
  BY <1>1 DEF IndInv, ControlInv, OnConnection
<1>3. TimersOf(s) = {}
  BY <1>1 DEF IndInv, TimerInv, TimersOf
<1>4. \/ \E ms \in Nat, t \in Timers : TimerAdd(t, ms, s)
      \/ used' = used
  BY PeriodAssumption DEF Register, RegisterNoFile, Reply, Rearm, StartTimer, timers
<1> QED
  BY <1>1, <1>2, <1>3, <1>4, NewNode DEF PoolBounded

\* No other step takes a node from the pool.
LEMMA PoolStep ==
    ASSUME IndInv, IndInv', PoolBounded, IsFiniteSet(Slots), [Next]_vars
    PROVE  PoolBounded'
<1>1. used' = tree' \cup free'
  BY DEF IndInv, TimerInv
<1> SUFFICES Cardinality(used') <= Cardinality(Slots)
  BY <1>1 DEF PoolBounded
<1>2. CASE used' = used
  BY <1>2 DEF PoolBounded
<1>3. CASE used' = {}
  BY <1>3, FS_EmptySet, FS_CardinalityType
<1>4. CASE \E s \in Slots : Register(s) \/ RegisterNoFile(s) \/ Reply(s) \/ Rearm(s)
  BY <1>4, StartBounded
<1> HIDE DEF PoolBounded
<1>5. ASSUME Worker, ~(\E s \in Slots : Register(s) \/ RegisterNoFile(s) \/ Reply(s) \/ Rearm(s))
      PROVE  used' = used \/ used' = {}
  <2> USE DEF timers, HandlerUnchanged
  <2>1. Boot \/ Loop \/ Exit \/ CallAccept \/ AcceptEnds \/ AcceptRejects => used' = used \/ used' = {}
    BY DEF Boot, Loop, CheckStop, SetTimeout, EnterWait, Harvest, WaitTimesOut, DispatchDone, TimersDone,
           Exit, Destroy, CallAccept, AcceptEnds, AcceptRejects
  <2>2. ASSUME NEW s \in Slots, Handler(s) PROVE used' = used
    BY <1>5, <2>2 DEF Handler, CallRead, CallWrite, Accept, RegisterNoTimer, Read, TimerDel, Write,
                ModFails, Close, ConnClose
  <2>3. ASSUME NEW t \in Timers, Timeout(t) PROVE used' = used
    BY <2>3 DEF Timeout, TimerFires, TimerDel
  <2> QED
    BY <1>5, <2>1, <2>2, <2>3 DEF Worker
<1>6. Environment \/ UNCHANGED vars => used' = used
  BY DEF Environment, Connect, Stolen, Send, ShutDown, Reset, Drain, ExitSignal, ReopenSignal,
         Time, Tick, timers, vars
<1> QED
  BY <1>2, <1>3, <1>4, <1>5, <1>6 DEF Next

\* However many requests a worker serves, it has allocated no more timer nodes
\* than its table has descriptors (ms_eventloop.c 370-378).
THEOREM PoolBoundedHolds == IsFiniteSet(Slots) => (Spec => []PoolBounded)
<1> SUFFICES ASSUME IsFiniteSet(Slots) PROVE Spec => []PoolBounded
  OBVIOUS
<1>1. Init => PoolBounded
  BY FS_EmptySet, FS_CardinalityType DEF Init, LoopInit, PoolBounded
<1>2. IndInv /\ IndInv' /\ PoolBounded /\ [Next]_vars => PoolBounded'
  BY PoolStep
<1> QED
  BY <1>1, <1>2, Inductive, PTL DEF Spec
-----------------------------------------------------------------------------
(* The listening socket.                                                   *)

\* It is watched for connections or not at all, and the events harvested for
\* it are events it is watched for.
ListenInv ==
    /\ interest[Listen] \in {{}, {"IN"}}
    /\ batch[Listen] \subseteq interest[Listen]

\* As long as accept() fails for want of a connection only, no step lets the
\* event of waiting connections go unnoticed.
LEMMA ListenStep ==
    "accept" \notin Faults /\ IndInv /\ IndInv' /\ ListenInv /\ ListenDrained /\ [Next]_vars
        => ListenInv' /\ ListenDrained'
<1> SUFFICES ASSUME "accept" \notin Faults, IndInv, IndInv', ListenInv, ListenDrained, [Next]_vars
             PROVE  ListenInv' /\ ListenDrained'
  OBVIOUS
<1> DEFINE P == ListenInv' /\ ListenDrained'
<1>a. TypeOK /\ mask = interest /\ ControlInv /\ BatchInv
  BY DEF IndInv, Registration
<1>b. TypeOK' /\ mask' = interest'
  BY DEF IndInv, Registration
<1> USE ListenAssumption, <1>a, <1>b
<1> USE DEF ListenInv, ListenDrained, ControlInv, BatchInv, OnConnection, TypeOK, LoopTypeOK, Files,
            HandlerUnchanged, conns, sockets, arrival, files, timers, loop
<1>1. ASSUME Boot PROVE P
  BY <1>1 DEF Boot, FileAdd, Watch, Pending, Events
<1>2. ASSUME CheckStop, HandlerUnchanged PROVE P
  BY <1>2 DEF CheckStop
<1>3. ASSUME SetTimeout, HandlerUnchanged PROVE P
  BY <1>3 DEF SetTimeout
<1>3a. ASSUME EnterWait, HandlerUnchanged PROVE P
  BY <1>3a DEF EnterWait
<1>4. ASSUME Harvest(Pending), HandlerUnchanged PROVE P
  <2>1. batch[Listen] = {} /\ pc = "wait"
    BY <1>4 DEF Harvest, NoEvents
  <2>2. backlog > 0 => Pending[Listen] = {"IN"}
    BY DEF Pending
  <2>3. UNCHANGED <<interest, mask, backlog, cur>>
    BY <1>4 DEF Harvest
  <2>4. CASE Listen \in Reportable(Pending)
    <3>1. pc' = "dispatch" /\ batch'[Listen] = interest[Listen] \cap Pending[Listen]
      BY <1>4, <2>4 DEF Harvest, Reportable
    <3>2. interest[Listen] \cap Pending[Listen] # {}
      BY <2>4 DEF Reportable
    <3> QED
      BY <2>3, <3>1, <3>2
  <2>5. CASE Listen \notin Reportable(Pending)
    <3>1. batch'[Listen] = {} \/ batch'[Listen] = interest[Listen] \cap Pending[Listen]
      BY <1>4, <2>1 DEF Harvest
    <3>2. interest[Listen] = {} \/ ~(backlog > 0)
      BY <2>1, <2>2, <2>5 DEF Reportable
    <3> QED
      BY <2>3, <3>1, <3>2
  <2> QED
    BY <2>4, <2>5
<1>5. ASSUME WaitTimesOut, HandlerUnchanged PROVE P
  BY <1>5 DEF WaitTimesOut, NoEvents
<1>6. ASSUME DispatchDone, HandlerUnchanged PROVE P
  BY <1>6 DEF DispatchDone, NoEvents
<1>7. ASSUME TimersDone, HandlerUnchanged PROVE P
  BY <1>7 DEF TimersDone
<1>8. ASSUME Exit PROVE P
  BY <1>8 DEF Exit, Destroy, NoEvents
<1>9. ASSUME CallAccept PROVE P
  BY <1>9 DEF CallAccept, Runs
<1>10. ASSUME AcceptEnds PROVE P
  BY <1>10 DEF AcceptEnds, Return
<1>11. ASSUME AcceptRejects PROVE P
  BY <1>11 DEF AcceptRejects
<1>12. ASSUME NEW s \in Slots, CallRead(s) PROVE P
  BY <1>12 DEF CallRead, Runs
<1>13. ASSUME NEW s \in Slots, CallWrite(s) PROVE P
  BY <1>13 DEF CallWrite, Runs
<1>14. ASSUME NEW s \in Slots, Accept(s) PROVE P
  BY <1>14 DEF Accept
<1>15. ASSUME NEW s \in Slots, Register(s) PROVE P
  BY <1>15 DEF Register, FileAdd, Watch, Return
<1>16. ASSUME NEW s \in Slots, RegisterNoTimer(s) PROVE P
  BY <1>16 DEF RegisterNoTimer, CloseSocket, Return
<1>17. ASSUME NEW s \in Slots, RegisterNoFile(s) PROVE P
  BY <1>17 DEF RegisterNoFile
<1>18. ASSUME NEW s \in Slots, Read(s) PROVE P
  BY <1>18 DEF Read, Return
<1>19. ASSUME NEW s \in Slots, Reply(s) PROVE P
  BY <1>19 DEF Reply, FileMod, Watch, Return
<1>20. ASSUME NEW s \in Slots, Write(s) PROVE P
  BY <1>20 DEF Write
<1>21. ASSUME NEW s \in Slots, Rearm(s) PROVE P
  BY <1>21 DEF Rearm, FileMod, Watch, Return
<1>22. ASSUME NEW s \in Slots, ModFails(s) PROVE P
  BY <1>22 DEF ModFails
<1>23. ASSUME NEW s \in Slots, Close(s) PROVE P
  BY <1>23 DEF Close, ConnClose, FileDel, Return
<1>24. ASSUME NEW t \in Timers, Timeout(t) PROVE P
  <2>1. t \in tree /\ pc = "timers" /\ pc' \in {"timers", "check"} /\ batch' = batch
    BY <1>24 DEF Timeout, TimerFires, Due
  <2>2. owner[t] \in Slots
    BY <2>1 DEF IndInv, TimerInv
  <2>3. interest'[Listen] = interest[Listen] /\ (Listen \in ready <=> Listen \in ready') /\ backlog' = backlog
    BY <1>24, <2>2 DEF Timeout, FileDel
  <2> QED
    BY <2>1, <2>3
<1>25. ASSUME Connect PROVE P
  BY <1>25 DEF Connect, Edge
<1>26. ASSUME Stolen PROVE P
  BY <1>26 DEF Stolen
<1>27. ASSUME NEW s \in Slots, Send(s) PROVE P
  BY <1>27 DEF Send, Edge
<1>28. ASSUME NEW s \in Slots, ShutDown(s) PROVE P
  BY <1>28 DEF ShutDown, Edge
<1>29. ASSUME NEW s \in Slots, Reset(s) PROVE P
  BY <1>29 DEF Reset, Edge
<1>30. ASSUME NEW s \in Slots, Drain(s) PROVE P
  BY <1>30 DEF Drain, Edge
<1>31. ASSUME ExitSignal PROVE P
  BY <1>31 DEF ExitSignal, Stop, Interrupted, Reportable, Pending
<1>32. ASSUME ReopenSignal PROVE P
  BY <1>32 DEF ReopenSignal, Interrupted, Reportable, Pending
<1>33. ASSUME Time PROVE P
  BY <1>33 DEF Time, Tick
<1>34. ASSUME UNCHANGED vars PROVE P
  BY <1>34 DEF vars
<1> QED
  BY <1>1, <1>2, <1>3, <1>3a, <1>4, <1>5, <1>6, <1>7, <1>8, <1>9, <1>10, <1>11, <1>12, <1>13, <1>14, <1>15, <1>16, <1>17, <1>18, <1>19, <1>20, <1>21, <1>22, <1>23, <1>24, <1>25, <1>26, <1>27, <1>28, <1>29, <1>30, <1>31, <1>32, <1>33, <1>34
     DEF Next, Worker, Loop, Handler, Environment

\* Where accept() fails for want of a connection only, connections never wait
\* while the worker sleeps unaware of them, whatever the clients, the other
\* workers and the connections it serves do (ms_server.c 75-95).
THEOREM ListenDrainedHolds == "accept" \notin Faults => (Spec => []ListenDrained)
<1> SUFFICES ASSUME "accept" \notin Faults PROVE Spec => []ListenDrained
  OBVIOUS
<1>1. Init => ListenInv /\ ListenDrained
  BY DEF Init, LoopInit, NoEvents, Files, ListenInv, ListenDrained
<1>2. IndInv /\ IndInv' /\ ListenInv /\ ListenDrained /\ [Next]_vars => ListenInv' /\ ListenDrained'
  BY ListenStep
<1> QED
  BY <1>1, <1>2, Inductive, PTL DEF Spec
=============================================================================
