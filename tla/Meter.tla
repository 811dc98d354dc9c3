------------------------------- MODULE Meter -------------------------------
(***************************************************************************)
(* What a metrics collector promises its users: every task that begins and *)
(* ends is counted once, after it ended, with the bytes it moved, and a    *)
(* task that ended is counted in the end.  How tasks reach the collector   *)
(* is the business of Metrics.                                             *)
(***************************************************************************)
EXTENDS Naturals

CONSTANTS Task,   \* what is measured
          Size    \* the bytes each task moves

VARIABLES phase,  \* "new", "running", "ended" or "counted", per task
          total   \* bytes counted

vars == <<phase, total>>

Init == phase = [t \in Task |-> "new"] /\ total = 0

Move(t, from, to) == phase[t] = from /\ phase' = [phase EXCEPT ![t] = to]

Begin(t) == Move(t, "new", "running") /\ UNCHANGED total

End(t)   == Move(t, "running", "ended") /\ UNCHANGED total

Count(t) == Move(t, "ended", "counted") /\ total' = total + Size[t]

Next == \E t \in Task : Begin(t) \/ End(t) \/ Count(t)

Spec == Init /\ [][Next]_vars /\ \A t \in Task : WF_vars(Count(t))
=============================================================================
