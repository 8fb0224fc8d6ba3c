------------------------------ MODULE StandardLane ------------------------------
(***************************************************************************)
(* A lane whose lease lives as long as its functions may, LEASE_TTL >=     *)
(* MaxDuration: the standard and the maintenance one.                      *)
(***************************************************************************)
EXTENDS CronLane

\* Two invocations never do the lane's work at the same time: the abstract
\* lane, in which an invocation enters when nobody is inside.
InsideSet == {i \in Invocations : Inside(i)}
Lane == INSTANCE ExclusiveLane WITH inside <- InsideSet
Exclusive == Lane!Spec

\* Whoever is turned away had a competitor whose lease was unexpired at its own
\* `now`.  The competitor may be dead by then, or have thrown before its try
\* block: the lease it left behind closes the lane until it expires, a time to
\* live after it was won, but no longer.
RefusedForALease ==
  \A i \in Invocations :
    step[i] = "skipped" /\ read[i] # Free =>
      \E j \in won \ {i} : now[j] + LEASE_TTL > now[i]
=============================================================================
