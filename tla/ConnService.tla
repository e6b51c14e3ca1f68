----------------------------- MODULE ConnService -----------------------------
(***************************************************************************)
(* What a worker promises each of its connections, with no event loop, no  *)
(* timer nodes and no epoll: a connection is waited for in one of two      *)
(* phases, "reading" and "replying", each with a deadline of its own; while *)
(* it is waited for only its deadline, in full, can close it.  Any other   *)
(* close happens while the connection is being worked on.                  *)
(***************************************************************************)
EXTENDS Naturals

CONSTANTS Slots, ReadTimeout, SendTimeout

VARIABLES
    phase,    \* the phase of each connection
    clock,    \* time left to its deadline, 0 if there is none
    serving   \* the worker has not exited

vars == <<phase, clock, serving>>

Phases == {"free", "opening", "reading", "working", "replying", "resuming",
           "ending"}

Period(p) ==
    CASE p = "reading"  -> ReadTimeout
      [] p = "replying" -> SendTimeout
      [] OTHER          -> 0

Init ==
    /\ phase = [s \in Slots |-> "free"]
    /\ clock = [s \in Slots |-> 0]
    /\ serving = TRUE

\* A new phase starts with its deadline in full.
Enter(s, p) ==
    /\ phase' = [phase EXCEPT ![s] = p]
    /\ clock' = [clock EXCEPT ![s] = Period(p)]
    /\ UNCHANGED serving

Open(s)    == phase[s] = "free"     /\ Enter(s, "opening")
Await(s)   == phase[s] = "opening"  /\ Enter(s, "reading")
Request(s) == phase[s] = "reading"  /\ Enter(s, "working")
Answer(s)  == phase[s] = "working"  /\ Enter(s, "replying")
Sent(s)    == phase[s] = "replying" /\ Enter(s, "resuming")
Resume(s)  == phase[s] = "resuming" /\ Enter(s, "reading")

\* The worker gives a connection up, always while it works on it.
Fail(s) == phase[s] \notin {"free", "ending"} /\ Enter(s, "ending")
GiveUp(s) == phase[s] \in {"opening", "ending"} /\ Enter(s, "free")

\* The deadline of a connection that is waited for has passed.
Expire(s) ==
    /\ phase[s] \in {"reading", "replying"}
    /\ Period(phase[s]) > 0
    /\ clock[s] = 0
    /\ Enter(s, "free")

Tick ==
    /\ clock' = [s \in Slots |-> IF clock[s] > 0 THEN clock[s] - 1 ELSE 0]
    /\ UNCHANGED <<phase, serving>>

\* The worker exits, and every connection is closed.
Exit ==
    /\ serving
    /\ serving' = FALSE
    /\ phase' = [s \in Slots |-> "free"]
    /\ clock' = [s \in Slots |-> 0]

Next ==
    \/ \E s \in Slots :
          \/ Open(s) \/ Await(s) \/ Request(s) \/ Answer(s) \/ Sent(s) \/ Resume(s)
          \/ Fail(s) \/ GiveUp(s) \/ Expire(s)
    \/ Tick
    \/ Exit

Spec == Init /\ [][Next]_vars
=============================================================================
