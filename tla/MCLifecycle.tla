---------------------------- MODULE MCLifecycle ----------------------------
(* One user, two templates that let him in, one that does not and one that *)
(* does not parse.                                                         *)
EXTENDS Lifecycle, TLC

CONSTANTS q1, q2, q3, u1, t1, t2, closed, broken

Configs == {{}, {u1}}

Symmetry == Permutations({q1, q2, q3}) \cup Permutations({t1, t2})
=============================================================================
