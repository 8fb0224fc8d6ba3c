-------------------------------- MODULE CronLane --------------------------------
(***************************************************************************)
(* One hosted ingestion lane (src/lib/cron/lane.ts): the invocations of    *)
(* its cron route, the lease row they compete for, the budget their steps  *)
(* are started under, and the SyncLog row each keeps, which                *)
(* recoverStaleSyncRuns closes for invocations that died.                  *)
(*                                                                         *)
(* A step is one database statement, one reading of the clock or one step  *)
(* of the lane's work.  Time is a clock of whole units that any            *)
(* invocation may observe; the platform kills a function that is           *)
(* MaxDuration old (`export const maxDuration` of the routes), and may     *)
(* kill it earlier.  The three lanes are instances: they differ in Budget  *)
(* and Grace, whose sum is the time to live of the lease.                  *)
(***************************************************************************)
EXTENDS Integers, FiniteSets

CONSTANTS
  Invocations,  \* the invocations of the route
  Free,         \* the lease row does not exist
  Budget,       \* BUDGET_MS
  Grace,        \* what LEASE_TTL_MS adds to the budget
  StepNeed,     \* the budget a step must find left
  MaxDuration,  \* maxDuration of the route
  Stale,        \* STALE_RUNNING_MS
  MaxTime       \* bound on the clock

ASSUME TimesAssumption ==
  /\ Budget \in Nat /\ Grace \in Nat /\ StepNeed \in Nat /\ Stale \in Nat
  /\ MaxDuration \in Nat \ {0}
  /\ MaxTime \in Nat
ASSUME FreeAssumption == Free \notin [holder : Invocations, expiresAt : Nat]
\* syncRuns.ts: "fifteen minutes is a provable 3x margin".
ASSUME StaleAssumption == Stale >= MaxDuration

LEASE_TTL == Budget + Grace

LeaseRecord == [holder : Invocations, expiresAt : Nat]

VARIABLES
  clock,      \* the time
  lease,      \* the AppSetting row of the lane
  step,       \* per invocation, the statement it executes next
  startedAt,  \* per invocation, when the platform started it
  now,        \* per invocation, the `now` acquireLane and recovery computed with
  read,       \* per invocation, the lease row it read last
  log,        \* per invocation, its SyncLog row
  logStart,   \* ... and the startedAt of that row, the start of the budget
  won         \* history: the invocations acquireLane answered { acquired: true }

vars == <<clock, lease, step, startedAt, now, read, log, logStart, won>>

Steps == {"idle", "begin", "create", "read", "claim", "open", "lane", "working",
          "release", "delete", "skipped", "ended"}
LogStates == {"none", "running", "closed", "recovered"}

\* The function is executing: the platform started it and it has not returned.
Live(i) == step[i] \notin {"idle", "skipped", "ended"}
\* The invocation does the work of the lane.
Inside(i) == step[i] \in {"open", "lane", "working"}
\* acquireLane gave it the lease and releaseLane has not returned.
Holding(i) == Inside(i) \/ step[i] \in {"release", "delete"}

-----------------------------------------------------------------------------
(* acquireLane                                                               *)

\* Faulty: the time to live is subtracted.
LeaseBackdated(i) == [holder |-> i, expiresAt |-> now[i] - LEASE_TTL]

LeaseOf(i) == [holder |-> i, expiresAt |-> now[i] + LEASE_TTL]

\* Faulty: an expired lease is not told from a live one.
NeverAvailable(value, time) == value = Free

\* Faulty: a lease is taken for expired once the budget of its holder is spent.
AvailableEarly(value, time) == value = Free \/ value.expiresAt - Grace =< time

leaseIsAvailable(value, time) == value = Free \/ value.expiresAt =< time

\* The platform starts an invocation, also while another one is running.
Invoke(i) ==
  /\ step[i] = "idle"
  /\ step' = [step EXCEPT ![i] = "begin"]
  /\ startedAt' = [startedAt EXCEPT ![i] = clock]
  /\ UNCHANGED <<clock, lease, now, read, log, logStart, won>>

\* run() up to the first statement of acquireLane: a paused scheduler ends it.
Begin(i) ==
  /\ step[i] = "begin"
  /\ now' = [now EXCEPT ![i] = clock]
  /\ step' \in {[step EXCEPT ![i] = "create"], [step EXCEPT ![i] = "skipped"]}
  /\ UNCHANGED <<clock, lease, startedAt, read, log, logStart, won>>

\* The create of the row; the catch takes every failure for "row exists".
CreateLease(i) ==
  /\ step[i] = "create"
  /\ \/ /\ lease = Free
        /\ lease' = LeaseOf(i)
        /\ step' = [step EXCEPT ![i] = "open"]
        /\ won' = won \cup {i}
     \/ /\ step' = [step EXCEPT ![i] = "read"]
        /\ UNCHANGED <<lease, won>>
  /\ UNCHANGED <<clock, startedAt, now, read, log, logStart>>

ReadLease(i) ==
  /\ step[i] = "read"
  /\ read' = [read EXCEPT ![i] = lease]
  /\ step' = [step EXCEPT ![i] =
       IF leaseIsAvailable(lease, now[i]) THEN "claim" ELSE "skipped"]
  /\ UNCHANGED <<clock, lease, startedAt, now, log, logStart, won>>

\* Faulty: the row is overwritten without comparing it with what was read.
ClaimAnyLease(i) ==
  /\ step[i] = "claim"
  /\ lease' = LeaseOf(i)
  /\ step' = [step EXCEPT ![i] = "open"]
  /\ won' = won \cup {i}
  /\ UNCHANGED <<clock, startedAt, now, read, log, logStart>>

\* updateMany on the exact value that was read; a row that was not there then
\* matches nothing.
ClaimLease(i) ==
  /\ step[i] = "claim"
  /\ \/ /\ lease = read[i] /\ lease # Free
        /\ lease' = LeaseOf(i)
        /\ step' = [step EXCEPT ![i] = "open"]
        /\ won' = won \cup {i}
     \/ /\ lease # read[i] \/ lease = Free
        /\ step' = [step EXCEPT ![i] = "skipped"]
        /\ UNCHANGED <<lease, won>>
  /\ UNCHANGED <<clock, startedAt, now, read, log, logStart>>

-----------------------------------------------------------------------------
(* The route between the lease and its release                               *)

\* syncLog.create, before the try block: its exception leaves the lease behind.
OpenLog(i) ==
  /\ step[i] = "open"
  /\ \/ /\ log' = [log EXCEPT ![i] = "running"]
        /\ logStart' = [logStart EXCEPT ![i] = clock]
        /\ step' = [step EXCEPT ![i] = "lane"]
     \/ /\ step' = [step EXCEPT ![i] = "ended"]
        /\ UNCHANGED <<log, logStart>>
  /\ UNCHANGED <<clock, lease, startedAt, now, read, won>>

\* runLaneStep: a step starts while the budget affords it, and then takes as
\* long as it takes.
StepStarts(i) ==
  /\ step[i] = "lane"
  /\ clock - logStart[i] + StepNeed =< Budget
  /\ step' = [step EXCEPT ![i] = "working"]
  /\ UNCHANGED <<clock, lease, startedAt, now, read, log, logStart, won>>

StepReturns(i) ==
  /\ step[i] = "working"
  /\ step' = [step EXCEPT ![i] = "lane"]
  /\ UNCHANGED <<clock, lease, startedAt, now, read, log, logStart, won>>

\* The remaining steps are skipped or done; closing the row may fail, which
\* the route swallows, and lets the finally block run.
LaneEnds(i) ==
  /\ step[i] = "lane"
  /\ log' \in {log, [log EXCEPT ![i] = "closed"]}
  /\ step' = [step EXCEPT ![i] = "release"]
  /\ UNCHANGED <<clock, lease, startedAt, now, read, logStart, won>>

-----------------------------------------------------------------------------
(* releaseLane, whose exceptions the routes swallow                          *)

ReleaseReads(i) ==
  /\ step[i] = "release"
  /\ read' = [read EXCEPT ![i] = lease]
  /\ step' = [step EXCEPT ![i] =
       IF lease # Free /\ lease.holder = i THEN "delete" ELSE "ended"]
  /\ UNCHANGED <<clock, lease, startedAt, now, log, logStart, won>>

\* Faulty: the row is deleted by its key alone.
DeleteAnyLease(i) ==
  /\ step[i] = "delete"
  /\ lease' = Free
  /\ step' = [step EXCEPT ![i] = "ended"]
  /\ UNCHANGED <<clock, startedAt, now, read, log, logStart, won>>

ReleaseDeletes(i) ==
  /\ step[i] = "delete"
  /\ lease' = IF lease = read[i] THEN Free ELSE lease
  /\ step' = [step EXCEPT ![i] = "ended"]
  /\ UNCHANGED <<clock, startedAt, now, read, log, logStart, won>>

ReleaseFails(i) ==
  /\ step[i] \in {"release", "delete"}
  /\ step' = [step EXCEPT ![i] = "ended"]
  /\ UNCHANGED <<clock, lease, startedAt, now, read, log, logStart, won>>

-----------------------------------------------------------------------------
(* The platform, the clock and the recovery of stale rows                    *)

\* The platform's limit, a lost instance, or an exception of a read statement:
\* nothing of the route runs any more.
Dies(i) ==
  /\ Live(i)
  /\ step' = [step EXCEPT ![i] = "ended"]
  /\ UNCHANGED <<clock, lease, startedAt, now, read, log, logStart, won>>

Tick ==
  /\ clock < MaxTime
  /\ \A i \in Invocations : Live(i) => clock + 1 < startedAt[i] + MaxDuration
  /\ clock' = clock + 1
  /\ UNCHANGED <<lease, step, startedAt, now, read, log, logStart, won>>

\* Faulty: rows are taken for dead once their budget is spent.
StaleByBudget(i) == log[i] = "running" /\ logStart[i] + Budget =< clock

IsStale(i) == log[i] = "running" /\ logStart[i] + Stale < clock

\* The maintenance lane and the live discovery route close every stale row.
recoverStaleSyncRuns ==
  /\ \E i \in Invocations : IsStale(i)
  /\ log' = [i \in Invocations |-> IF IsStale(i) THEN "recovered" ELSE log[i]]
  /\ UNCHANGED <<clock, lease, step, startedAt, now, read, logStart, won>>

-----------------------------------------------------------------------------
Init ==
  /\ clock = 0
  /\ lease = Free
  /\ step = [i \in Invocations |-> "idle"]
  /\ startedAt = [i \in Invocations |-> 0]
  /\ now = [i \in Invocations |-> 0]
  /\ read = [i \in Invocations |-> Free]
  /\ log = [i \in Invocations |-> "none"]
  /\ logStart = [i \in Invocations |-> 0]
  /\ won = {}

Invocation(i) ==
  \/ Invoke(i)
  \/ Begin(i)
  \/ CreateLease(i)
  \/ ReadLease(i)
  \/ ClaimLease(i)
  \/ OpenLog(i)
  \/ StepStarts(i)
  \/ StepReturns(i)
  \/ LaneEnds(i)
  \/ ReleaseReads(i)
  \/ ReleaseDeletes(i)
  \/ ReleaseFails(i)
  \/ Dies(i)

Next == Tick \/ recoverStaleSyncRuns \/ \E i \in Invocations : Invocation(i)

Spec == Init /\ [][Next]_vars

-----------------------------------------------------------------------------
(* Properties of every lane                                                  *)

\* Every variable has its type, no live function is past the platform's limit,
\* and a lease expires after the moment it was acquired.
TypeOK ==
  /\ clock \in Nat
  /\ lease \in LeaseRecord \cup {Free}
  /\ step \in [Invocations -> Steps]
  /\ startedAt \in [Invocations -> Nat]
  /\ now \in [Invocations -> Nat]
  /\ read \in [Invocations -> LeaseRecord \cup {Free}]
  /\ log \in [Invocations -> LogStates]
  /\ logStart \in [Invocations -> Nat]
  /\ won \subseteq Invocations
  /\ \A i \in Invocations :
       Live(i) => startedAt[i] =< clock /\ clock < startedAt[i] + MaxDuration

\* An invocation that thinks it holds the lane does hold it, or its lease has
\* expired under it: neither a create, a reclaim nor the release of another
\* invocation takes an unexpired lease away, whatever the order of statements.
HoldersHoldOrExpired ==
  \A i \in Invocations : Holding(i) =>
    lease = LeaseOf(i) \/ clock >= now[i] + LEASE_TTL

\* releaseLane removes the row of its own invocation only, although the row may
\* change between its read and its delete.
ReleaseRemovesOwnLease ==
  [][lease' = Free /\ lease # Free =>
       step[lease.holder] = "delete" /\ step'[lease.holder] = "ended"]_vars

\* syncRuns.ts: recovery "can never touch legitimate active work", the row of an
\* invocation that still runs.
RecoveryTouchesOnlyDead ==
  \A i \in Invocations : log[i] = "recovered" => ~Live(i)

\* lane.ts: "takes an exclusive lease so two invocations can never overlap".
NoOverlap == \A i, j \in Invocations : Inside(i) /\ Inside(j) => i = j
=============================================================================
