--------------------------- MODULE MCApplicationRuns ---------------------------
(***************************************************************************)
(* Instances of ApplicationRuns for TLC: the rows the database starts      *)
(* with, as values of LegacyTables, and the symmetry of the request        *)
(* slots, which are interchangeable.                                       *)
(***************************************************************************)
EXTENDS ApplicationRuns, TLC

CONSTANTS alice, bob, opening

Row(owner, status, key, stopped) ==
  [userId |-> owner, jobId |-> opening, status |-> status, activeKey |-> key,
   stopped |-> stopped, attemptNumber |-> 1,
   failures |-> IF status = "failed" THEN 1 ELSE 0]

\* A new database.
NoLegacy == {<<>>}

\* A new database, or one with rows from before the guard: two active rows of
\* one owner on one posting, or a run queued before every row had an owner.
LegacyActive ==
  {<<>>,
   <<Row(alice, "running", NoKey, FALSE),
     Row(alice, "needs_user_action", bareKey(opening), TRUE)>>,
   <<Row(Nobody, "queued", bareKey(opening), FALSE)>>}

\* A new database, or one with a duplicate that was superseded by
\* scripts/supersede-duplicate-application-runs.ts, which keeps its key.
LegacySuperseded ==
  {<<>>, <<Row(alice, "superseded", bareKey(opening), FALSE)>>}

\* No handler reads the tracker or the posting's status: a run that checks no
\* property of them need not tell their values apart.
WithoutTracker == <<runs, requests, worker, faults, lost>>
\* Nor does one read the history field.
WithoutHistory ==
  <<[i \in DOMAIN runs |-> [runs[i] EXCEPT !.failures = 0]], requests, worker, faults, lost>>

RequestSymmetry == Permutations(Requests)

=============================================================================
