-------------------------- MODULE ServerRefinement --------------------------
(***************************************************************************)
(* The proof that the worker of module Server implements ConnService, for  *)
(* any number of connections and any timeouts.                             *)
(***************************************************************************)
EXTENDS ServerProofs

\* The steps that work on a connection rather than wait for its client
Waits(s) == cur # s \/ pc \notin {"register", "reply", "rearm", "close"}

RClock(s) == IF rtimer[s] # NULL THEN left[rtimer[s]] ELSE 0
SClock(s) == IF stimer[s] # NULL THEN left[stimer[s]] ELSE 0

\* What a connection is to ConnService: its phase, with the deadline of it.
Is(s, p, c) == PhaseOf(s) = p /\ ClockOf(s) = c
PhaseFacts ==
    \A s \in Slots :
        /\ s \notin open => Is(s, "free", 0)
        /\ cur = s /\ pc = "register" => Is(s, "opening", 0)
        /\ cur = s /\ pc = "reply" => Is(s, "working", 0)
        /\ cur = s /\ pc = "rearm" => Is(s, "resuming", 0)
        /\ cur = s /\ pc = "close" => Is(s, "ending", 0)
        /\ s \in open /\ Waits(s) /\ mask[s] = {"IN"} => Is(s, "reading", RClock(s))
        /\ s \in open /\ Waits(s) /\ mask[s] # {"IN"} => Is(s, "replying", SClock(s))

\* In a state of the inductive invariant these facts describe PhaseOf and ClockOf.
LEMMA PhaseIs == IndInv => PhaseFacts
<1> SUFFICES ASSUME IndInv PROVE PhaseFacts
  OBVIOUS
<1> USE DEF PhaseFacts
<1> TAKE s \in Slots
<1>1. pc \in OnConnection => cur \in open
  BY DEF IndInv, ControlInv
<1>2. /\ s \notin open => PhaseOf(s) = "free"
      /\ cur = s /\ pc = "register" => PhaseOf(s) = "opening"
      /\ cur = s /\ pc = "reply" => PhaseOf(s) = "working"
      /\ cur = s /\ pc = "rearm" => PhaseOf(s) = "resuming"
      /\ cur = s /\ pc = "close" => PhaseOf(s) = "ending"
      /\ s \in open /\ Waits(s) /\ mask[s] = {"IN"} => PhaseOf(s) = "reading"
      /\ s \in open /\ Waits(s) /\ mask[s] # {"IN"} => PhaseOf(s) = "replying"
  BY <1>1 DEF PhaseOf, Waits, OnConnection
<1>3. /\ PhaseOf(s) = "reading" => ClockOf(s) = RClock(s)
      /\ PhaseOf(s) = "replying" => ClockOf(s) = SClock(s)
      /\ PhaseOf(s) \notin {"reading", "replying"} => ClockOf(s) = 0
  BY DEF ClockOf, RClock, SClock
<1> QED
  BY <1>2, <1>3 DEF Is

\* The same after a step.
LEMMA PhaseThen == IndInv' => PhaseFacts'
  BY PhaseIs, PTL

\* A step that leaves the conn, the registration and the timers of a connection
\* alone, and does not go to or from a step that works on it, leaves its phase
\* and its deadline alone.
LEMMA Untouched ==
    ASSUME IndInv, IndInv', NEW s \in Slots, Waits(s), Waits(s)',
           s \in open' <=> s \in open, mask'[s] = mask[s],
           rtimer'[s] = rtimer[s], stimer'[s] = stimer[s],
           s \in open => \A t \in TimersOf(s) : left'[t] = left[t]
    PROVE  Is(s, PhaseOf(s), ClockOf(s))'  /\ PhaseOf(s)' = PhaseOf(s) /\ ClockOf(s)' = ClockOf(s)
<1>1. PhaseFacts /\ PhaseFacts'
  BY PhaseIs, PhaseThen
<1>2. s \in open => RClock(s)' = RClock(s) /\ SClock(s)' = SClock(s)
  BY DEF RClock, SClock, TimersOf
<1> HIDE DEF Waits, PhaseFacts
<1>3. PhaseOf(s)' = PhaseOf(s) /\ ClockOf(s)' = ClockOf(s)
  BY <1>1, <1>2 DEF PhaseFacts, Is
<1> QED
  BY <1>3 DEF Is

\* What a step that moves connection s does not do: touch another one.
Others(s) ==
    /\ cur \in {s, Listen} /\ cur' \in {s, Listen}
    /\ pc # "exited" /\ pc' # "exited"
    /\ \A r \in Slots \ {s} :
          /\ r \in open' <=> r \in open
          /\ mask'[r] = mask[r] /\ rtimer'[r] = rtimer[r] /\ stimer'[r] = stimer[r]
          /\ r \in open => \A t \in TimersOf(r) : left'[t] = left[t]

\* Such a step is an Enter of ConnService.
LEMMA Entered ==
    ASSUME IndInv, IndInv', NEW s \in Slots, Others(s),
           NEW p, Is(s, p, Abstract!Period(p))'
    PROVE  Abstract!Enter(s, p)
<1>1. ASSUME NEW r \in Slots \ {s} PROVE PhaseOf(r)' = PhaseOf(r) /\ ClockOf(r)' = ClockOf(r)
  <2>1. Waits(r) /\ Waits(r)'
    BY ListenAssumption DEF Others, Waits
  <2> QED
    BY <2>1, Untouched DEF Others
<1> QED
  BY <1>1 DEF Abstract!Enter, Is, Others

\* A step that moves none is no step of ConnService.
LEMMA Stutters ==
    ASSUME \A r \in Slots : PhaseOf(r)' = PhaseOf(r) /\ ClockOf(r)' = ClockOf(r),
           pc # "exited" <=> pc' # "exited"
    PROVE  UNCHANGED Abstract!vars
BY DEF Abstract!vars

\* Starting a timer of s leaves the timers of the others alone.
LEMMA StartOthers ==
    ASSUME IndInv, NEW s \in Slots, NEW t \in Timers, NEW ms, TimerAdd(t, ms, s)
    PROVE  \A r \in open : \A u \in TimersOf(r) : left'[u] = left[u]
<1>1. t \notin tree
  BY DEF IndInv, TimerInv, TimerAdd, NextNode
<1>2. \A r \in open : \A u \in TimersOf(r) : u \in tree
  BY DEF IndInv, TimerInv
<1> QED
  BY <1>1, <1>2 DEF TimerAdd, IndInv, TypeOK, LoopTypeOK

\* Stopping timers of s leaves the timers of the others alone.
LEMMA DelOthers ==
    ASSUME IndInv, NEW s \in open, NEW T, T \subseteq TimersOf(s), TimerDel(T)
    PROVE  \A r \in open \ {s} : \A u \in TimersOf(r) : left'[u] = left[u]
<1>1. \A r \in open \ {s} : \A u \in TimersOf(r) : u \in tree /\ u \notin T
  BY DEF IndInv, TimerInv
<1> QED
  BY <1>1 DEF TimerDel, IndInv, TypeOK, LoopTypeOK
-----------------------------------------------------------------------------
(* One lemma per step of a handler.                                        *)

\* accept() gives a free slot a connection.
LEMMA AcceptOpens ==
    ASSUME IndInv, IndInv', NEW s \in Slots, Accept(s) PROVE Abstract!Open(s)
<1>1. Is(s, "free", 0) /\ Is(s, "opening", 0)'
  BY PhaseIs, PhaseThen DEF Accept, PhaseFacts
<1>2. Others(s)
  <2>1. cur = Listen
    BY DEF Accept, IndInv, ControlInv, OnConnection
  <2> QED
    BY <2>1 DEF Accept, Others, files, timers, IndInv, TypeOK
<1>3. Abstract!Enter(s, "opening")
  BY <1>1, <1>2, Entered DEF Abstract!Period
<1> QED
  BY <1>1, <1>3 DEF Abstract!Open, Is

\* The accept handler starts to wait for a request, with the read timeout in full.
LEMMA RegisterAwaits ==
    ASSUME IndInv, IndInv', NEW s \in Slots, Register(s) PROVE Abstract!Await(s)
<1>1. s \in open /\ cur = s /\ pc = "register" /\ rtimer[s] = NULL
  BY DEF Register, IndInv, ControlInv, OnConnection, TimerInv, TimersOf
<1>2. Is(s, "opening", 0)
  BY <1>1, PhaseIs DEF PhaseFacts
<1>3. mask' = [mask EXCEPT ![s] = {"IN"}] /\ open' = open /\ stimer' = stimer /\ pc' = "accept" /\ cur' = Listen
  BY <1>1 DEF Register, FileAdd, Watch, Return, IndInv, ControlInv
<1>4. mask'[s] = {"IN"} /\ \A r \in Slots \ {s} : mask'[r] = mask[r]
  BY <1>3 DEF IndInv, TypeOK, LoopTypeOK, Files
<1>5. /\ RClock(s)' = ReadTimeout
      /\ \A r \in Slots \ {s} : rtimer'[r] = rtimer[r]
      /\ \A r \in open \ {s} : \A u \in TimersOf(r) : left'[u] = left[u]
  <2>1. CASE ReadTimeout > 0
    <3>1. PICK t \in Timers : TimerAdd(t, ReadTimeout, s) /\ rtimer' = [rtimer EXCEPT ![s] = t]
      BY <2>1 DEF Register, StartTimer
    <3>2. rtimer'[s] = t /\ left'[t] = ReadTimeout /\ t # NULL
      BY <3>1, NullAssumption DEF TimerAdd, IndInv, TypeOK, LoopTypeOK
    <3> QED
      BY <3>1, <3>2, StartOthers DEF RClock, IndInv, TypeOK
  <2>2. CASE ~(ReadTimeout > 0)
    BY <1>1, <2>2, PeriodAssumption DEF Register, StartTimer, RClock, timers
  <2> QED
    BY <2>1, <2>2
<1>6. Is(s, "reading", ReadTimeout)'
  BY <1>1, <1>3, <1>4, <1>5, PhaseThen DEF PhaseFacts, Waits
<1>7. Others(s)
  BY <1>1, <1>3, <1>4, <1>5 DEF Others
<1>8. Abstract!Enter(s, "reading")
  BY <1>6, <1>7, Entered DEF Abstract!Period
<1> QED
  BY <1>2, <1>8 DEF Abstract!Await, Is

\* Without memory for the timer the connection is closed while it is opened.
LEMMA RegisterGivesUp ==
    ASSUME IndInv, IndInv', NEW s \in Slots, RegisterNoTimer(s) PROVE Abstract!GiveUp(s)
<1>1. Is(s, "opening", 0) /\ Is(s, "free", 0)'
  BY PhaseIs, PhaseThen DEF PhaseFacts, RegisterNoTimer, CloseSocket
<1>2. Others(s)
  BY DEF RegisterNoTimer, CloseSocket, Return, Others, files, timers
<1>3. Abstract!Enter(s, "free")
  BY <1>1, <1>2, Entered DEF Abstract!Period
<1> QED
  BY <1>1, <1>3 DEF Abstract!GiveUp, Is

\* A connection that cannot be registered is on its way to conn_close().
LEMMA RegisterFails ==
    ASSUME IndInv, IndInv', NEW s \in Slots, RegisterNoFile(s) PROVE Abstract!Fail(s)
<1>1. Is(s, "opening", 0) /\ Is(s, "ending", 0)'
  BY PhaseIs, PhaseThen DEF PhaseFacts, RegisterNoFile
<1>2. /\ \A r \in Slots \ {s} : rtimer'[r] = rtimer[r]
      /\ \A r \in open \ {s} : \A u \in TimersOf(r) : left'[u] = left[u]
  <2>1. CASE ReadTimeout > 0
    <3>1. PICK t \in Timers : TimerAdd(t, ReadTimeout, s) /\ rtimer' = [rtimer EXCEPT ![s] = t]
      BY <2>1 DEF RegisterNoFile, StartTimer
    <3> QED
      BY <3>1, StartOthers DEF IndInv, TypeOK
  <2>2. CASE ~(ReadTimeout > 0)
    BY <2>2 DEF RegisterNoFile, StartTimer, timers
  <2> QED
    BY <2>1, <2>2
<1>3. Others(s)
  BY <1>2 DEF RegisterNoFile, Others, files
<1>4. Abstract!Enter(s, "ending")
  BY <1>1, <1>3, Entered DEF Abstract!Period
<1> QED
  BY <1>1, <1>4 DEF Abstract!Fail, Is

\* The readable handler has a request to answer, or gives up.
LEMMA ReadRequests ==
    ASSUME IndInv, IndInv', NEW s \in Slots, Read(s)
    PROVE  Abstract!Request(s) \/ Abstract!Fail(s)
<1>1. s \in open /\ cur = s /\ pc = "read" /\ mask[s] = {"IN"}
  BY DEF Read, IndInv, ControlInv, OnConnection
<1>2. PhaseOf(s) = "reading"
  BY <1>1, PhaseIs DEF PhaseFacts, Waits, Is
<1>3. /\ open' = open /\ mask' = mask /\ stimer' = stimer /\ cur' = s
      /\ rtimer' = [rtimer EXCEPT ![s] = NULL]
      /\ pc' \in {"reply", "close"}
  BY <1>1 DEF Read, files
<1>4. \A r \in open \ {s} : \A u \in TimersOf(r) : left'[u] = left[u]
  <2>1. TimerDel({rtimer[s]} \ {NULL}) /\ {rtimer[s]} \ {NULL} \subseteq TimersOf(s)
    BY DEF Read, TimersOf
  <2> QED
    BY <1>1, <2>1, DelOthers
<1>5. Others(s)
  BY <1>1, <1>3, <1>4 DEF Others, IndInv, TypeOK
<1>6. pc' = "reply" => Is(s, "working", 0)'
  BY <1>3, PhaseThen DEF PhaseFacts
<1>7. pc' = "close" => Is(s, "ending", 0)'
  BY <1>3, PhaseThen DEF PhaseFacts
<1>8. pc' = "reply" => Abstract!Enter(s, "working")
  BY <1>5, <1>6, Entered DEF Abstract!Period
<1>9. pc' = "close" => Abstract!Enter(s, "ending")
  BY <1>5, <1>7, Entered DEF Abstract!Period
<1> QED
  BY <1>2, <1>3, <1>8, <1>9 DEF Abstract!Request, Abstract!Fail

\* It starts to wait for room to send, with the send timeout in full, or gives up.
LEMMA ReplyAnswers ==
    ASSUME IndInv, IndInv', NEW s \in Slots, Reply(s)
    PROVE  Abstract!Answer(s) \/ Abstract!Fail(s)
<1>1. s \in open /\ cur = s /\ pc = "reply" /\ stimer[s] = NULL
  BY DEF Reply, IndInv, ControlInv, OnConnection, TimerInv, TimersOf, Deadlined
<1>2. Is(s, "working", 0)
  BY <1>1, PhaseIs DEF PhaseFacts
<1>3. mask' = [mask EXCEPT ![s] = {"OUT"}] /\ open' = open /\ rtimer' = rtimer
  BY DEF Reply, FileMod, Watch
<1>4. mask'[s] = {"OUT"} /\ \A r \in Slots \ {s} : mask'[r] = mask[r]
  BY <1>3 DEF IndInv, TypeOK, LoopTypeOK, Files
<1>5. CASE pc' = "dispatch" /\ cur' = Listen /\ StartTimer(s, SendTimeout, stimer)
  <2>1. /\ SClock(s)' = SendTimeout
        /\ \A r \in Slots \ {s} : stimer'[r] = stimer[r]
        /\ \A r \in open \ {s} : \A u \in TimersOf(r) : left'[u] = left[u]
    <3>1. CASE SendTimeout > 0
      <4>1. PICK t \in Timers : TimerAdd(t, SendTimeout, s) /\ stimer' = [stimer EXCEPT ![s] = t]
        BY <1>5, <3>1 DEF StartTimer
      <4>2. stimer'[s] = t /\ left'[t] = SendTimeout /\ t # NULL
        BY <4>1, NullAssumption DEF TimerAdd, IndInv, TypeOK, LoopTypeOK
      <4> QED
        BY <4>1, <4>2, StartOthers DEF SClock, IndInv, TypeOK
    <3>2. CASE ~(SendTimeout > 0)
      BY <1>1, <1>5, <3>2, PeriodAssumption DEF StartTimer, SClock, timers
    <3> QED
      BY <3>1, <3>2
  <2>2. Is(s, "replying", SendTimeout)'
    BY <1>1, <1>3, <1>4, <1>5, <2>1, ListenAssumption, PhaseThen DEF PhaseFacts, Waits
  <2>3. Others(s)
    BY <1>1, <1>3, <1>4, <1>5, <2>1 DEF Others
  <2>4. Abstract!Enter(s, "replying")
    BY <2>2, <2>3, Entered DEF Abstract!Period
  <2> QED
    BY <1>2, <2>4 DEF Abstract!Answer, Is
<1>6. CASE pc' = "close" /\ cur' = cur /\ UNCHANGED <<timers, stimer>>
  <2>1. Is(s, "ending", 0)'
    BY <1>1, <1>6, PhaseThen DEF PhaseFacts
  <2>2. Others(s)
    BY <1>1, <1>3, <1>4, <1>6 DEF Others, timers
  <2>3. Abstract!Enter(s, "ending")
    BY <2>1, <2>2, Entered DEF Abstract!Period
  <2> QED
    BY <1>2, <2>3 DEF Abstract!Fail, Is
<1> QED
  BY <1>5, <1>6 DEF Reply, Return

\* The writeable handler has sent, or gives up.
LEMMA WriteSends ==
    ASSUME IndInv, IndInv', NEW s \in Slots, Write(s)
    PROVE  Abstract!Sent(s) \/ Abstract!Fail(s)
<1>1. s \in open /\ cur = s /\ pc = "write" /\ mask[s] = {"OUT"}
  BY DEF Write, IndInv, ControlInv, OnConnection
<1>2. PhaseOf(s) = "replying"
  BY <1>1, PhaseIs DEF PhaseFacts, Waits, Is
<1>3. /\ open' = open /\ mask' = mask /\ rtimer' = rtimer /\ cur' = s
      /\ stimer' = [stimer EXCEPT ![s] = NULL]
      /\ pc' \in {"rearm", "close"}
  BY <1>1 DEF Write, files
<1>4. \A r \in open \ {s} : \A u \in TimersOf(r) : left'[u] = left[u]
  <2>1. TimerDel({stimer[s]} \ {NULL}) /\ {stimer[s]} \ {NULL} \subseteq TimersOf(s)
    BY DEF Write, TimersOf
  <2> QED
    BY <1>1, <2>1, DelOthers
<1>5. Others(s)
  BY <1>1, <1>3, <1>4 DEF Others, IndInv, TypeOK
<1>6. pc' = "rearm" => Is(s, "resuming", 0)'
  BY <1>3, PhaseThen DEF PhaseFacts
<1>7. pc' = "close" => Is(s, "ending", 0)'
  BY <1>3, PhaseThen DEF PhaseFacts
<1>8. pc' = "rearm" => Abstract!Enter(s, "resuming")
  BY <1>5, <1>6, Entered DEF Abstract!Period
<1>9. pc' = "close" => Abstract!Enter(s, "ending")
  BY <1>5, <1>7, Entered DEF Abstract!Period
<1> QED
  BY <1>2, <1>3, <1>8, <1>9 DEF Abstract!Sent, Abstract!Fail

\* It starts to wait for the next request, with the read timeout in full, or gives up.
LEMMA RearmResumes ==
    ASSUME IndInv, IndInv', NEW s \in Slots, Rearm(s)
    PROVE  Abstract!Resume(s) \/ Abstract!Fail(s)
<1>1. s \in open /\ cur = s /\ pc = "rearm" /\ rtimer[s] = NULL
  BY DEF Rearm, IndInv, ControlInv, OnConnection, TimerInv, TimersOf, Deadlined
<1>2. Is(s, "resuming", 0)
  BY <1>1, PhaseIs DEF PhaseFacts
<1>3. mask' = [mask EXCEPT ![s] = {"IN"}] /\ open' = open /\ stimer' = stimer
  BY DEF Rearm, FileMod, Watch
<1>4. mask'[s] = {"IN"} /\ \A r \in Slots \ {s} : mask'[r] = mask[r]
  BY <1>3 DEF IndInv, TypeOK, LoopTypeOK, Files
<1>5. CASE pc' = "dispatch" /\ cur' = Listen /\ StartTimer(s, ReadTimeout, rtimer)
  <2>1. /\ RClock(s)' = ReadTimeout
        /\ \A r \in Slots \ {s} : rtimer'[r] = rtimer[r]
        /\ \A r \in open \ {s} : \A u \in TimersOf(r) : left'[u] = left[u]
    <3>1. CASE ReadTimeout > 0
      <4>1. PICK t \in Timers : TimerAdd(t, ReadTimeout, s) /\ rtimer' = [rtimer EXCEPT ![s] = t]
        BY <1>5, <3>1 DEF StartTimer
      <4>2. rtimer'[s] = t /\ left'[t] = ReadTimeout /\ t # NULL
        BY <4>1, NullAssumption DEF TimerAdd, IndInv, TypeOK, LoopTypeOK
      <4> QED
        BY <4>1, <4>2, StartOthers DEF RClock, IndInv, TypeOK
    <3>2. CASE ~(ReadTimeout > 0)
      BY <1>1, <1>5, <3>2, PeriodAssumption DEF StartTimer, RClock, timers
    <3> QED
      BY <3>1, <3>2
  <2>2. Is(s, "reading", ReadTimeout)'
    BY <1>1, <1>3, <1>4, <1>5, <2>1, ListenAssumption, PhaseThen DEF PhaseFacts, Waits
  <2>3. Others(s)
    BY <1>1, <1>3, <1>4, <1>5, <2>1 DEF Others
  <2>4. Abstract!Enter(s, "reading")
    BY <2>2, <2>3, Entered DEF Abstract!Period
  <2> QED
    BY <1>2, <2>4 DEF Abstract!Resume, Is
<1>6. CASE pc' = "close" /\ cur' = cur /\ UNCHANGED <<timers, rtimer>>
  <2>1. Is(s, "ending", 0)'
    BY <1>1, <1>6, PhaseThen DEF PhaseFacts
  <2>2. Others(s)
    BY <1>1, <1>3, <1>4, <1>6 DEF Others, timers
  <2>3. Abstract!Enter(s, "ending")
    BY <2>1, <2>2, Entered DEF Abstract!Period
  <2> QED
    BY <1>2, <2>3 DEF Abstract!Fail, Is
<1> QED
  BY <1>5, <1>6 DEF Rearm, Return

\* A registration that cannot be changed ends either handler.
LEMMA ModGivesUp ==
    ASSUME IndInv, IndInv', NEW s \in Slots, ModFails(s) PROVE Abstract!Fail(s)
<1>1. PhaseOf(s) \in {"working", "resuming"} /\ Is(s, "ending", 0)'
  BY PhaseIs, PhaseThen DEF PhaseFacts, ModFails, Is
<1>2. Others(s)
  BY DEF ModFails, Others, files, timers, conns
<1>3. Abstract!Enter(s, "ending")
  BY <1>1, <1>2, Entered DEF Abstract!Period
<1> QED
  BY <1>1, <1>3 DEF Abstract!Fail

\* conn_close() frees the slot.
LEMMA CloseGivesUp ==
    ASSUME IndInv, IndInv', NEW s \in Slots, Close(s) PROVE Abstract!GiveUp(s)
<1>1. s \in open /\ cur = s /\ pc = "close"
  BY DEF Close, IndInv, ControlInv, OnConnection
<1>2. Is(s, "ending", 0) /\ Is(s, "free", 0)'
  BY <1>1, PhaseIs, PhaseThen DEF PhaseFacts, Close, ConnClose, CloseSocket
<1>3. \A r \in open \ {s} : \A u \in TimersOf(r) : left'[u] = left[u]
  BY <1>1, DelOthers DEF Close, ConnClose
<1>4. Others(s)
  <2>1. /\ mask' = [mask EXCEPT ![s] = {}] /\ open' = open \ {s}
        /\ rtimer' = [rtimer EXCEPT ![s] = NULL] /\ stimer' = [stimer EXCEPT ![s] = NULL]
        /\ cur' = Listen /\ pc' \in {"accept", "dispatch"}
    BY DEF Close, ConnClose, FileDel, CloseSocket, Return
  <2> QED
    BY <1>1, <1>3, <2>1 DEF Others, IndInv, TypeOK, LoopTypeOK, Files
<1>5. Abstract!Enter(s, "free")
  BY <1>2, <1>4, Entered DEF Abstract!Period
<1> QED
  BY <1>2, <1>5 DEF Abstract!GiveUp, Is

\* A timer that fires is the deadline of the phase its connection is in.
LEMMA TimeoutExpires ==
    ASSUME IndInv, IndInv', NEW t \in Timers, Timeout(t)
    PROVE  \E s \in Slots : Abstract!Expire(s)
<1>1. t \in tree /\ left[t] = 0 /\ pc = "timers" /\ cur = Listen /\ cur' = cur
  BY DEF Timeout, TimerFires, Due, IndInv, ControlInv, OnConnection
<1>1a. owner[t] \in open /\ owner[t] \in Slots /\ TimersOf(owner[t]) = {t}
  BY <1>1, FiresForItsOwn DEF IndInv, TypeOK
<1>1b. PICK s \in Slots : s = owner[t]
  BY <1>1a
<1>2. s \in open /\ TimersOf(s) = {t}
  BY <1>1a, <1>1b
<1>3. s # Listen
  BY <1>2, ListenAssumption
<1>4. \/ rtimer[s] = t /\ mask[s] = {"IN"} /\ ReadTimeout > 0
      \/ stimer[s] = t /\ mask[s] = {"OUT"} /\ SendTimeout > 0
  <2>1. t # NULL /\ t \in {rtimer[s], stimer[s]}
    BY <1>2 DEF TimersOf
  <2> QED
    BY <1>1, <1>2, <1>3, <2>1 DEF IndInv, TimerInv, Deadlined, InHandler
<1>5. /\ PhaseOf(s) \in {"reading", "replying"}
      /\ Abstract!Period(PhaseOf(s)) > 0
      /\ ClockOf(s) = 0
  <2>1. Waits(s) /\ t # NULL
    BY <1>1, <1>2, <1>3 DEF Waits, TimersOf
  <2>2. CASE rtimer[s] = t /\ mask[s] = {"IN"} /\ ReadTimeout > 0
    <3>1. Is(s, "reading", 0)
      BY <1>1, <1>2, <2>1, <2>2, PhaseIs DEF PhaseFacts, RClock
    <3> QED
      BY <2>2, <3>1 DEF Is, Abstract!Period
  <2>3. CASE stimer[s] = t /\ mask[s] = {"OUT"} /\ SendTimeout > 0
    <3>1. Is(s, "replying", 0)
      BY <1>1, <1>2, <2>1, <2>3, PhaseIs DEF PhaseFacts, SClock
    <3> QED
      BY <2>3, <3>1 DEF Is, Abstract!Period
  <2> QED
    BY <1>4, <2>2, <2>3
<1>6. Is(s, "free", 0)'
  <2>1. s \notin open'
    BY <1>1b DEF Timeout, CloseSocket
  <2> QED
    BY <2>1, PhaseThen DEF PhaseFacts
<1>7. Others(s)
  <2>1. /\ mask' = [mask EXCEPT ![s] = {}] /\ open' = open \ {s} /\ pc' \in {"check", "timers"}
        /\ UNCHANGED <<rtimer, stimer>>
    BY <1>1b DEF Timeout, FileDel, CloseSocket, TimerFires
  <2>2. \A r \in open \ {s} : \A u \in TimersOf(r) : left'[u] = left[u]
    BY <1>2, DelOthers DEF Timeout, TimerFires
  <2> QED
    BY <1>1, <1>2, <2>1, <2>2 DEF Others, IndInv, TypeOK, LoopTypeOK, Files
<1>8. Abstract!Enter(s, "free")
  BY <1>2, <1>6, <1>7, Entered DEF Abstract!Period
<1> QED
  BY <1>5, <1>8 DEF Abstract!Expire

\* Time passes for every deadline at once.
LEMMA TimeTicks == ASSUME IndInv, IndInv', Time PROVE Abstract!Tick
<1>1. UNCHANGED <<pc, cur, open, mask, rtimer, stimer, tree>>
  BY DEF Time, Tick, HandlerUnchanged, conns, files
<1>2. \A u \in tree : left[u] \in Nat /\ left'[u] = IF left[u] > 0 THEN left[u] - 1 ELSE 0
  BY DEF Time, Tick, IndInv, TypeOK, LoopTypeOK
<1>3. \A s \in open : /\ rtimer[s] # NULL => rtimer[s] \in tree
                      /\ stimer[s] # NULL => stimer[s] \in tree
  BY DEF IndInv, TimerInv, TimersOf
<1>4. \A s \in Slots : PhaseOf(s)' = PhaseOf(s)
  BY <1>1 DEF PhaseOf
<1>5. ASSUME NEW s \in Slots
      PROVE  ClockOf(s)' = IF ClockOf(s) > 0 THEN ClockOf(s) - 1 ELSE 0
  <2>1. s \in open =>
            /\ RClock(s)' = IF RClock(s) > 0 THEN RClock(s) - 1 ELSE 0
            /\ SClock(s)' = IF SClock(s) > 0 THEN SClock(s) - 1 ELSE 0
    BY <1>1, <1>2, <1>3 DEF RClock, SClock
  <2>2. PhaseFacts /\ PhaseFacts'
    BY PhaseIs, PhaseThen
  <2>3. ControlInv
    BY DEF IndInv
  <2>4. CASE s \notin open \/ ~Waits(s)
    <3>1. ClockOf(s) = 0 /\ ClockOf(s)' = 0
      BY <1>1, <2>2, <2>4 DEF PhaseFacts, Is, Waits
    <3> QED
      BY <3>1
  <2>5. CASE s \in open /\ Waits(s) /\ mask[s] = {"IN"}
    <3>1. ClockOf(s) = RClock(s) /\ ClockOf(s)' = RClock(s)'
      BY <1>1, <2>2, <2>5 DEF PhaseFacts, Is, Waits
    <3> QED
      BY <2>1, <2>5, <3>1
  <2>6. CASE s \in open /\ Waits(s) /\ mask[s] # {"IN"}
    <3>1. ClockOf(s) = SClock(s) /\ ClockOf(s)' = SClock(s)'
      BY <1>1, <2>2, <2>6 DEF PhaseFacts, Is, Waits
    <3> QED
      BY <2>1, <2>6, <3>1
  <2> QED
    BY <2>4, <2>5, <2>6
<1> QED
  BY <1>1, <1>4, <1>5 DEF Abstract!Tick

\* The worker is gone: it has no connection then.
LEMMA ExitEnds ==
    ASSUME IndInv, IndInv', pc # "exited", pc' = "exited" PROVE Abstract!Exit
<1>1. \A s \in Slots : Is(s, "free", 0)'
  BY PhaseThen DEF PhaseFacts, IndInv, ControlInv
<1> QED
  BY <1>1 DEF Abstract!Exit, Is

\* The other steps are not seen by ConnService.
LEMMA OtherSteps ==
    ASSUME IndInv, IndInv', pc # "exited" <=> pc' # "exited",
           UNCHANGED <<open, rtimer, stimer, left>>,
           \A s \in Slots : mask'[s] = mask[s] /\ Waits(s) /\ Waits(s)'
    PROVE  UNCHANGED Abstract!vars
<1>1. ASSUME NEW s \in Slots PROVE PhaseOf(s)' = PhaseOf(s) /\ ClockOf(s)' = ClockOf(s)
  BY Untouched
<1> QED
  BY <1>1, Stutters

\* A step that changes none of the variables PhaseOf and ClockOf look at.
LEMMA StillSteps ==
    ASSUME UNCHANGED <<pc, cur, open, mask, rtimer, stimer, left>>
    PROVE  UNCHANGED Abstract!vars
<1>1. \A s \in Slots : PhaseOf(s)' = PhaseOf(s)
  BY DEF PhaseOf
<1>2. \A s \in Slots : ClockOf(s)' = ClockOf(s)
  BY <1>1 DEF ClockOf
<1> QED
  BY <1>1, <1>2, Stutters
-----------------------------------------------------------------------------
(* The theorem.                                                            *)

\* Every step of the worker is a step of ConnService, or none it can see.
LEMMA RefinesStep == IndInv /\ IndInv' /\ [Next]_vars => [Abstract!Next]_(Abstract!vars)
<1> SUFFICES ASSUME IndInv, IndInv', [Next]_vars PROVE Abstract!Next \/ UNCHANGED Abstract!vars
  OBVIOUS
<1>1. ASSUME NEW s \in Slots, Handler(s) PROVE Abstract!Next \/ UNCHANGED Abstract!vars
  <2>1. CASE CallRead(s) \/ CallWrite(s)
    <3>1. UNCHANGED <<open, mask, rtimer, stimer, left>> /\ pc = "dispatch" /\ pc' \in {"read", "write"}
      BY <2>1 DEF CallRead, CallWrite, Runs, files, timers, conns
    <3> QED
      BY <3>1, OtherSteps DEF Waits
  <2>2. CASE Accept(s) \/ Register(s)
    BY <2>2, AcceptOpens, RegisterAwaits DEF Abstract!Next
  <2>3. CASE RegisterNoTimer(s) \/ Close(s)
    BY <2>3, RegisterGivesUp, CloseGivesUp DEF Abstract!Next
  <2>4. CASE RegisterNoFile(s) \/ ModFails(s)
    BY <2>4, RegisterFails, ModGivesUp DEF Abstract!Next
  <2>5. CASE Read(s) \/ Reply(s)
    BY <2>5, ReadRequests, ReplyAnswers DEF Abstract!Next
  <2>6. CASE Write(s) \/ Rearm(s)
    BY <2>6, WriteSends, RearmResumes DEF Abstract!Next
  <2> QED
    BY <1>1, <2>1, <2>2, <2>3, <2>4, <2>5, <2>6 DEF Handler
<1>2. ASSUME NEW t \in Timers, Timeout(t) PROVE Abstract!Next
  BY <1>2, TimeoutExpires DEF Abstract!Next
<1>3. CASE Boot \/ Exit
  <2>1. CASE pc' = "exited"
    BY <1>3, <2>1, ExitEnds DEF Boot, Exit, Destroy, Abstract!Next
  <2>2. CASE pc' # "exited"
    <3>1. UNCHANGED <<open, rtimer, stimer, left>> /\ pc = "boot" /\ pc' \in {"check", "destroy"}
      BY <1>3, <2>2 DEF Boot, Exit, Destroy, timers, conns
    <3>2. \A s \in Slots : mask'[s] = mask[s]
      BY <1>3, <2>2, ListenAssumption
         DEF Boot, FileAdd, Watch, Exit, Destroy, files, IndInv, TypeOK, LoopTypeOK, Files
    <3> QED
      BY <3>1, <3>2, OtherSteps DEF Waits
  <2> QED
    BY <2>1, <2>2
<1>4. CASE Loop \/ CallAccept \/ AcceptEnds \/ AcceptRejects
  <2>1. UNCHANGED <<open, rtimer, stimer, left, mask>>
    BY <1>4 DEF Loop, CheckStop, SetTimeout, EnterWait, Harvest, WaitTimesOut, DispatchDone, TimersDone,
                CallAccept, Runs, AcceptEnds, AcceptRejects, HandlerUnchanged, files, timers, conns
  <2>2. /\ pc \notin {"register", "reply", "rearm", "close", "exited"}
        /\ pc' \notin {"register", "reply", "rearm", "close", "exited"}
    BY <1>4 DEF Loop, CheckStop, SetTimeout, EnterWait, Harvest, WaitTimesOut, DispatchDone, TimersDone,
                CallAccept, Runs, AcceptEnds, AcceptRejects, Return
  <2> QED
    BY <2>1, <2>2, OtherSteps DEF Waits
<1>5. CASE Connect \/ Stolen \/ (\E s \in Slots : Send(s) \/ ShutDown(s) \/ Reset(s) \/ Drain(s))
           \/ UNCHANGED vars
  <2>1. UNCHANGED <<pc, cur, open, mask, rtimer, stimer, left>>
    BY <1>5 DEF Connect, Stolen, Send, ShutDown, Reset, Drain, files, timers, conns, vars
  <2> QED
    BY <2>1, StillSteps
<1>6. CASE ExitSignal \/ ReopenSignal
  <2>1. /\ UNCHANGED <<cur, open, mask, rtimer, stimer, left>>
        /\ pc' = pc \/ (pc = "wait" /\ pc' = "timers")
    BY <1>6 DEF ExitSignal, ReopenSignal, Interrupted, files, timers, conns
  <2>2. CASE pc' = pc
    BY <2>1, <2>2, StillSteps
  <2>3. CASE pc = "wait" /\ pc' = "timers"
    BY <2>1, <2>3, OtherSteps DEF Waits
  <2> QED
    BY <2>1, <2>2, <2>3
<1>7. CASE Time
  BY <1>7, TimeTicks DEF Abstract!Next
<1> QED
  BY <1>1, <1>2, <1>3, <1>4, <1>5, <1>6, <1>7 DEF Next, Worker, Environment

\* The worker keeps the promise of ConnService to every connection: while its
\* client is waited for, only its own deadline, in full, closes it.
THEOREM KeepsPromiseHolds == Spec => KeepsPromise
<1>1. Init => Abstract!Init
  <2> SUFFICES ASSUME Init PROVE Abstract!Init
    OBVIOUS
  <2>1. \A s \in Slots : Is(s, "free", 0)
    BY IndInit, PhaseIs DEF PhaseFacts, Init
  <2> QED
    BY <2>1 DEF Abstract!Init, Is, Init, LoopInit
<1> QED
  BY <1>1, RefinesStep, Inductive, PTL DEF Spec, KeepsPromise, Abstract!Spec
=============================================================================
