------------------------------ MODULE MCServer ------------------------------
(* Small instances of Server for TLC.                                      *)
EXTENDS ServerProps, TLC

CONSTANTS s1, s2, t1, t2, t3

TwoSlots == {s1, s2}
ThreeTimers == {t1, t2, t3}
TwoTimers == {t1, t2}
AllFaults == {"accept", "setup", "alloc", "ctl"}
AcceptFault == {"accept"}
OtherFaults == {"setup", "alloc", "ctl"}

Symmetry == Permutations(Slots) \cup Permutations(Timers)
=============================================================================
