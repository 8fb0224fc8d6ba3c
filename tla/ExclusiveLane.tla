----------------------------- MODULE ExclusiveLane -----------------------------
(***************************************************************************)
(* What src/lib/cron/lane.ts promises of a lane: "takes an exclusive lease *)
(* so two invocations can never overlap".  An invocation may enter the     *)
(* lane when nobody is in it, and leaves it when it likes (or is killed).  *)
(***************************************************************************)
CONSTANT Invocations

VARIABLE inside   \* the invocations that do the lane's work

Enter(i) == inside = {} /\ inside' = {i}
Leave(i) == inside = {i} /\ inside' = {}

Init == inside = {}
Next == \E i \in Invocations : Enter(i) \/ Leave(i)
Spec == Init /\ [][Next]_inside
=============================================================================
