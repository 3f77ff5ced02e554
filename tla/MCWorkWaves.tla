---------------------------- MODULE MCWorkWaves ----------------------------
(* Small instances of the work waves for TLC: b needs a.                   *)
EXTENDS WorkWaves

CONSTANTS a, b

BNeedsA == {<<b, a>>}
\* A bound: a plan has at most two iterations, the second without restrictions.
ShortPlans ==
  {p \in SeqOf(Iterations, 2) : Len(p) = 2 => p[2].hitl \union p[2].held = {}}
=============================================================================
