----------------------------- MODULE CronLaneProofs -----------------------------
(***************************************************************************)
(* Proofs about CronLane, for any set of invocations and any durations,    *)
(* and about RadarCursor.  The inductive invariant of the lane says,       *)
(* besides the types, what an invocation knows of the row it read between  *)
(* the read and the write it guards.                                       *)
(***************************************************************************)
EXTENDS StandardLane, RadarCursor, WellFoundedInduction, TLAPS

\* What an invocation that has read the clock knows: its `now` lies between its
\* start and the present.
ClocksAreRead ==
  \A i \in Invocations : Live(i) /\ step[i] # "begin" =>
    startedAt[i] =< now[i] /\ now[i] =< clock

\* A row that is about to be reclaimed had expired when it was read.
ClaimsAreExpired ==
  \A i \in Invocations : step[i] = "claim" /\ read[i] # Free =>
    read[i].expiresAt =< now[i]

\* A row that is about to be deleted is the invocation's own.
DeletesAreOwn ==
  \A i \in Invocations : step[i] = "delete" => read[i] # Free /\ read[i].holder = i

LeaseInv ==
  /\ TypeOK
  /\ ClocksAreRead
  /\ ClaimsAreExpired
  /\ DeletesAreOwn
  /\ HoldersHoldOrExpired

LEMMA LeaseOfType ==
  ASSUME TypeOK, NEW i \in Invocations
  PROVE  /\ LeaseOf(i) \in LeaseRecord
         /\ LeaseOf(i) # Free
         /\ LeaseOf(i).holder = i
         /\ LeaseOf(i).expiresAt = now[i] + LEASE_TTL
  BY TimesAssumption, FreeAssumption DEF TypeOK, LeaseOf, LeaseRecord, LEASE_TTL

LEMMA TypeStep == ASSUME TypeOK, [Next]_vars PROVE TypeOK'
<1>1. CASE Tick
  BY <1>1 DEF Tick, TypeOK, Live
<1>2. CASE recoverStaleSyncRuns
  BY <1>2 DEF recoverStaleSyncRuns, TypeOK, Live, LogStates
<1>3. ASSUME NEW i \in Invocations, Invocation(i) PROVE TypeOK'
  <2>1. CASE Invoke(i)
    BY <2>1, TimesAssumption DEF Invoke, TypeOK, Live, Steps
  <2>2. CASE Begin(i)
    BY <2>2 DEF Begin, TypeOK, Live, Steps
  <2>3. CASE CreateLease(i)
    BY <2>3, LeaseOfType DEF CreateLease, TypeOK, Live, Steps
  <2>4. CASE ReadLease(i)
    BY <2>4 DEF ReadLease, TypeOK, Live, Steps
  <2>5. CASE ClaimLease(i)
    BY <2>5, LeaseOfType DEF ClaimLease, TypeOK, Live, Steps
  <2>6. CASE OpenLog(i)
    BY <2>6 DEF OpenLog, TypeOK, Live, Steps, LogStates
  <2>7. CASE StepStarts(i) \/ StepReturns(i)
    BY <2>7 DEF StepStarts, StepReturns, TypeOK, Live, Steps
  <2>8. CASE LaneEnds(i)
    BY <2>8 DEF LaneEnds, TypeOK, Live, Steps, LogStates
  <2>9. CASE ReleaseReads(i)
    BY <2>9 DEF ReleaseReads, TypeOK, Live, Steps
  <2>10. CASE ReleaseDeletes(i)
    BY <2>10 DEF ReleaseDeletes, TypeOK, Live, Steps
  <2>11. CASE ReleaseFails(i) \/ Dies(i)
    BY <2>11 DEF ReleaseFails, Dies, TypeOK, Live, Steps
  <2> QED
    BY <1>3, <2>1, <2>2, <2>3, <2>4, <2>5, <2>6, <2>7, <2>8, <2>9, <2>10, <2>11
       DEF Invocation
<1>4. CASE UNCHANGED vars
  BY <1>4 DEF vars, TypeOK, Live
<1> QED
  BY <1>1, <1>2, <1>3, <1>4 DEF Next

\* Every variable keeps its type, and no function outlives the platform's limit.
THEOREM TypeCorrect == Spec => []TypeOK
<1>1. Init => TypeOK
  BY TimesAssumption DEF Init, TypeOK, Steps, LogStates, Live
<1>2. TypeOK /\ [Next]_vars => TypeOK'
  BY TypeStep
<1> QED
  BY <1>1, <1>2, PTL DEF Spec

-----------------------------------------------------------------------------
(* The inductive step of LeaseInv, one lemma per kind of statement.          *)

\* A lease that is replaced or removed had expired under any other holder.
LEMMA DisplacedLease ==
  ASSUME LeaseInv, NEW i \in Invocations, NEW j \in Invocations, j # i,
         Holding(j),
         \/ CreateLease(i) /\ lease = Free
         \/ ClaimLease(i) /\ lease = read[i] /\ lease # Free
         \/ ReleaseDeletes(i) /\ lease = read[i]
  PROVE  clock >= now[j] + LEASE_TTL
<1>1. lease = LeaseOf(j) \/ clock >= now[j] + LEASE_TTL
  BY DEF LeaseInv, HoldersHoldOrExpired
<1>2. LeaseOf(j) # Free /\ LeaseOf(j).holder = j
        /\ LeaseOf(j).expiresAt = now[j] + LEASE_TTL
  BY LeaseOfType DEF LeaseInv
<1>3. now[i] \in Nat /\ now[j] \in Nat /\ clock \in Nat /\ LEASE_TTL \in Nat
  BY TimesAssumption DEF LeaseInv, TypeOK, LEASE_TTL
<1>4. CASE CreateLease(i) /\ lease = Free
  BY <1>1, <1>2, <1>4
<1>5. CASE ClaimLease(i) /\ lease = read[i] /\ lease # Free
  <2>1. step[i] = "claim"
    BY <1>5 DEF ClaimLease
  <2>2. read[i].expiresAt =< now[i]
    BY <1>5, <2>1 DEF LeaseInv, ClaimsAreExpired
  <2>3. now[i] =< clock
    BY <2>1 DEF LeaseInv, ClocksAreRead, Live
  <2> QED
    BY <1>1, <1>2, <1>3, <1>5, <2>2, <2>3
<1>6. CASE ReleaseDeletes(i) /\ lease = read[i]
  <2>1. step[i] = "delete"
    BY <1>6 DEF ReleaseDeletes
  <2>2. read[i].holder = i
    BY <2>1 DEF LeaseInv, DeletesAreOwn
  <2> QED
    BY <1>1, <1>2, <1>6, <2>2
<1> QED
  BY <1>4, <1>5, <1>6

LEMMA LeaseStep ==
  ASSUME LeaseInv, TypeOK', [Next]_vars
  PROVE  LeaseInv'
<1> USE TimesAssumption DEF LeaseInv
<1>t. clock \in Nat /\ LEASE_TTL \in Nat
        /\ \A i \in Invocations : now[i] \in Nat /\ startedAt[i] \in Nat
  BY DEF TypeOK, LEASE_TTL
<1>1. CASE Tick
  <2>1. ClocksAreRead'
    BY <1>1, <1>t DEF Tick, ClocksAreRead, Live
  <2>2. ClaimsAreExpired' /\ DeletesAreOwn'
    BY <1>1 DEF Tick, ClaimsAreExpired, DeletesAreOwn
  <2>3. HoldersHoldOrExpired'
    BY <1>1, <1>t DEF Tick, HoldersHoldOrExpired, Holding, Inside, LeaseOf
  <2> QED
    BY <2>1, <2>2, <2>3
<1>2. CASE recoverStaleSyncRuns \/ UNCHANGED vars
  <2>1. UNCHANGED <<clock, lease, step, startedAt, now, read>>
    BY <1>2 DEF recoverStaleSyncRuns, vars
  <2> QED
    BY <2>1 DEF ClocksAreRead, ClaimsAreExpired, DeletesAreOwn,
                HoldersHoldOrExpired, Holding, Inside, LeaseOf, Live
<1>3. ASSUME NEW i \in Invocations, Invocation(i) PROVE LeaseInv'
  <2>t. step \in [Invocations -> Steps] /\ read \in [Invocations -> LeaseRecord \cup {Free}]
          /\ now \in [Invocations -> Nat] /\ startedAt \in [Invocations -> Nat]
    BY DEF TypeOK
  <2>1. CASE Invoke(i) \/ Begin(i)
    <3>0. /\ UNCHANGED <<clock, lease, read>>
          /\ step[i] \in {"idle", "begin"}
          /\ step'[i] \in {"begin", "create", "skipped"}
          /\ \A j \in Invocations \ {i} :
               step'[j] = step[j] /\ now'[j] = now[j] /\ startedAt'[j] = startedAt[j]
      BY <2>1, <2>t DEF Invoke, Begin
    <3>1. ClocksAreRead'
      <4>1. Live(i)' /\ step'[i] # "begin" => startedAt'[i] =< now'[i] /\ now'[i] =< clock'
        BY <2>1, <2>t, <1>t DEF Invoke, Begin, Live, TypeOK
      <4> QED
        BY <3>0, <4>1 DEF ClocksAreRead, Live
    <3>2. ClaimsAreExpired' /\ DeletesAreOwn'
      BY <3>0 DEF ClaimsAreExpired, DeletesAreOwn
    <3>3. HoldersHoldOrExpired'
      BY <3>0 DEF HoldersHoldOrExpired, Holding, Inside, LeaseOf
    <3> QED
      BY <3>1, <3>2, <3>3
  <2>2. CASE ReadLease(i) \/ ReleaseReads(i)
    <3>0. /\ UNCHANGED <<clock, lease, now, startedAt>>
          /\ step[i] \in {"read", "release"}
          /\ read'[i] = lease
          /\ step'[i] \in {"claim", "skipped", "delete", "ended"}
          /\ step'[i] = "claim" => leaseIsAvailable(lease, now[i])
          /\ step'[i] = "delete" => /\ step[i] = "release"
                                    /\ lease # Free /\ lease.holder = i
          /\ \A j \in Invocations \ {i} : step'[j] = step[j] /\ read'[j] = read[j]
      BY <2>2, <2>t DEF ReadLease, ReleaseReads
    <3>1. ClocksAreRead'
      BY <3>0 DEF ClocksAreRead, Live
    <3>2. ClaimsAreExpired' /\ DeletesAreOwn'
      BY <3>0 DEF ClaimsAreExpired, DeletesAreOwn, leaseIsAvailable
    <3>3. HoldersHoldOrExpired'
      BY <3>0 DEF HoldersHoldOrExpired, Holding, Inside, LeaseOf
    <3> QED
      BY <3>1, <3>2, <3>3
  <2>3. CASE CreateLease(i) \/ ClaimLease(i) \/ ReleaseDeletes(i)
    <3>0. /\ UNCHANGED <<clock, now, startedAt, read>>
          /\ step[i] \in {"create", "claim", "delete"}
          /\ step'[i] \in {"open", "read", "skipped", "ended"}
          /\ step'[i] = "open" => lease' = LeaseOf(i)
          /\ \A j \in Invocations \ {i} : step'[j] = step[j]
      BY <2>3, <2>t DEF CreateLease, ClaimLease, ReleaseDeletes
    <3>1. ClocksAreRead'
      BY <3>0 DEF ClocksAreRead, Live
    <3>2. ClaimsAreExpired' /\ DeletesAreOwn'
      BY <3>0 DEF ClaimsAreExpired, DeletesAreOwn
    <3>3. ASSUME NEW j \in Invocations, Holding(j)'
          PROVE  lease' = LeaseOf(j) \/ clock >= now[j] + LEASE_TTL
      <4>1. CASE j = i
        BY <3>0, <3>3, <4>1 DEF Holding, Inside
      <4>2. CASE j # i
        <5>1. Holding(j)
          BY <3>0, <3>3, <4>2 DEF Holding, Inside
        <5>2. CASE UNCHANGED lease
          BY <5>1, <5>2 DEF HoldersHoldOrExpired
        <5>3. CASE lease' # lease
          <6>1. \/ CreateLease(i) /\ lease = Free
                \/ ClaimLease(i) /\ lease = read[i] /\ lease # Free
                \/ ReleaseDeletes(i) /\ lease = read[i]
            BY <2>3, <5>3 DEF CreateLease, ClaimLease, ReleaseDeletes
          <6> QED
            BY <4>2, <5>1, <6>1, DisplacedLease
        <5> QED
          BY <5>2, <5>3
      <4> QED
        BY <4>1, <4>2
    <3>4. HoldersHoldOrExpired'
      BY <3>0, <3>3 DEF HoldersHoldOrExpired, LeaseOf
    <3> QED
      BY <3>1, <3>2, <3>4
  <2>4. CASE OpenLog(i) \/ StepStarts(i) \/ StepReturns(i) \/ LaneEnds(i)
               \/ ReleaseFails(i) \/ Dies(i)
    <3>0. /\ UNCHANGED <<clock, lease, now, startedAt, read>>
          /\ \/ step'[i] = "ended"
             \/ Inside(i) /\ step'[i] \in {"lane", "working", "release"}
          /\ \A j \in Invocations \ {i} : step'[j] = step[j]
      BY <2>4, <2>t DEF OpenLog, StepStarts, StepReturns, LaneEnds, ReleaseFails, Dies, Inside
    <3>1. ClocksAreRead'
      BY <3>0 DEF ClocksAreRead, Live, Inside
    <3>2. ClaimsAreExpired' /\ DeletesAreOwn'
      BY <3>0 DEF ClaimsAreExpired, DeletesAreOwn
    <3>3. HoldersHoldOrExpired'
      BY <3>0 DEF HoldersHoldOrExpired, Holding, Inside, LeaseOf
    <3> QED
      BY <3>1, <3>2, <3>3
  <2> QED
    BY <1>3, <2>1, <2>2, <2>3, <2>4 DEF Invocation
<1> QED
  BY <1>1, <1>2, <1>3 DEF Next

LEMMA LeaseInvAtFirst == ASSUME Init PROVE LeaseInv
  BY TimesAssumption DEF Init, LeaseInv, TypeOK, Steps, LogStates, Live, ClocksAreRead,
     ClaimsAreExpired, DeletesAreOwn, HoldersHoldOrExpired, Holding, Inside

LEMMA LeaseInvStep == ASSUME LeaseInv, [Next]_vars PROVE LeaseInv'
  BY TypeStep, LeaseStep DEF LeaseInv

LEMMA LeaseInvariant == Spec => []LeaseInv
<1>1. LeaseInv /\ [Next]_vars => LeaseInv'
  BY LeaseInvStep
<1> QED
  BY <1>1, LeaseInvAtFirst, PTL DEF Spec

\* Whatever the durations: an invocation that thinks it holds the lane holds it,
\* or its lease has expired under it.
THEOREM LeaseIsKept == Spec => []HoldersHoldOrExpired
  BY LeaseInvariant, PTL DEF LeaseInv

-----------------------------------------------------------------------------
(* Exclusion, when the lease outlives every function.                        *)

LEMMA LeaseExcludes ==
  ASSUME LEASE_TTL >= MaxDuration, LeaseInv
  PROVE  NoOverlap
<1> SUFFICES ASSUME NEW i \in Invocations, Inside(i)
             PROVE  lease = LeaseOf(i)
  BY LeaseOfType DEF NoOverlap, LeaseInv
<1>1. Live(i) /\ step[i] # "begin"
  BY DEF Inside, Live
<1>2. startedAt[i] =< now[i] /\ clock < startedAt[i] + MaxDuration
  BY <1>1 DEF LeaseInv, ClocksAreRead, TypeOK
<1>3. now[i] \in Nat /\ startedAt[i] \in Nat /\ clock \in Nat /\ LEASE_TTL \in Nat
        /\ MaxDuration \in Nat
  BY TimesAssumption DEF LeaseInv, TypeOK, LEASE_TTL
<1>4. ~(clock >= now[i] + LEASE_TTL)
  BY <1>2, <1>3
<1> QED
  BY <1>4 DEF LeaseInv, HoldersHoldOrExpired, Holding

\* The standard and the maintenance lane, whose leases live at least as long as
\* the platform lets a function live: two invocations never overlap.
THEOREM LanesNeverOverlap ==
  ASSUME LEASE_TTL >= MaxDuration
  PROVE  Spec => []NoOverlap
<1>1. LeaseInv => NoOverlap
  BY LeaseExcludes
<1> QED
  BY <1>1, LeaseInvariant, PTL

\* An action moves one invocation.
LEMMA OneMoves ==
  ASSUME TypeOK, [Next]_vars
  PROVE  \/ step' = step
         \/ \E i \in Invocations : \A j \in Invocations \ {i} : step'[j] = step[j]
<1>1. ASSUME NEW i \in Invocations, Invocation(i)
      PROVE  \A j \in Invocations \ {i} : step'[j] = step[j]
  BY <1>1 DEF TypeOK, Invocation, Invoke, Begin, CreateLease, ReadLease, ClaimLease,
     OpenLog, StepStarts, StepReturns, LaneEnds, ReleaseReads, ReleaseDeletes,
     ReleaseFails, Dies
<1> QED
  BY <1>1 DEF Next, Tick, recoverStaleSyncRuns, vars

\* ... and so the lane implements the abstract one: an invocation gets inside
\* only when nobody is.
THEOREM LaneIsExclusive ==
  ASSUME LEASE_TTL >= MaxDuration
  PROVE  Spec => Exclusive
<1>0. LeaseInv' => NoOverlap'
  BY LeaseExcludes, PTL
<1>1. Init => Lane!Init
  BY DEF Init, Lane!Init, InsideSet, Inside
<1>2. LeaseInv /\ LeaseInv' /\ [Next]_vars => [Lane!Next]_InsideSet
  <2> SUFFICES ASSUME LeaseInv, LeaseInv', [Next]_vars
               PROVE  [Lane!Next]_InsideSet
    OBVIOUS
  <2>1. NoOverlap
    BY LeaseExcludes
  <2>2. NoOverlap'
    BY <1>0
  <2>3. CASE step' = step
    BY <2>3 DEF InsideSet, Inside
  <2>4. ASSUME NEW i \in Invocations,
               \A j \in Invocations \ {i} : step'[j] = step[j]
        PROVE  [Lane!Next]_InsideSet
    <3>1. \A j \in Invocations \ {i} : Inside(j)' <=> Inside(j)
      BY <2>4 DEF Inside
    <3>2. CASE Inside(i)' <=> Inside(i)
      BY <3>1, <3>2 DEF InsideSet
    <3>3. CASE Inside(i)' /\ ~Inside(i)
      <4>1. InsideSet = {} /\ InsideSet' = {i}
        BY <2>2, <3>1, <3>3 DEF InsideSet, NoOverlap
      <4> QED
        BY <4>1 DEF Lane!Next, Lane!Enter
    <3>4. CASE Inside(i) /\ ~Inside(i)'
      <4>1. InsideSet = {i} /\ InsideSet' = {}
        BY <2>1, <3>1, <3>4 DEF InsideSet, NoOverlap
      <4> QED
        BY <4>1 DEF Lane!Next, Lane!Leave
    <3> QED
      BY <3>2, <3>3, <3>4
  <2> QED
    BY <2>3, <2>4, OneMoves DEF LeaseInv
<1> QED
  BY <1>1, <1>2, LeaseInvariant, PTL DEF Spec, Exclusive, Lane!Spec

-----------------------------------------------------------------------------
(* Recovery of SyncLog rows.                                                 *)

\* The row of a live invocation is younger than its invocation, and open or
\* closed by the invocation itself.
LiveRows ==
  \A i \in Invocations :
    /\ step[i] \in {"idle", "begin", "create", "read", "claim", "open"} => log[i] = "none"
    /\ step[i] \in {"lane", "working", "release", "delete"} =>
         log[i] \in {"running", "closed"} /\ startedAt[i] =< logStart[i]

LEMMA LiveRowsStep ==
  ASSUME TypeOK, LiveRows, [Next]_vars
  PROVE  LiveRows'
<1>t. /\ step \in [Invocations -> Steps] /\ log \in [Invocations -> LogStates]
      /\ startedAt \in [Invocations -> Nat] /\ logStart \in [Invocations -> Nat]
      /\ clock \in Nat
  BY DEF TypeOK
<1>1. CASE Tick \/ UNCHANGED vars
  BY <1>1 DEF Tick, vars, LiveRows, Live
<1>2. CASE recoverStaleSyncRuns
  <2>0. UNCHANGED <<clock, step, startedAt, logStart>>
          /\ log' = [i \in Invocations |-> IF IsStale(i) THEN "recovered" ELSE log[i]]
    BY <1>2 DEF recoverStaleSyncRuns
  <2>1. ASSUME NEW i \in Invocations, Live(i) PROVE ~IsStale(i)
    <3>1. clock < startedAt[i] + MaxDuration
      BY <2>1 DEF TypeOK
    <3>2. log[i] # "none" => startedAt[i] =< logStart[i]
      BY <2>1, <1>t DEF LiveRows, Live, Steps
    <3>3. Stale \in Nat /\ MaxDuration \in Nat /\ Stale >= MaxDuration
      BY TimesAssumption, StaleAssumption
    <3> QED
      BY <3>1, <3>2, <3>3, <1>t DEF IsStale
  <2>2. ASSUME NEW i \in Invocations, log[i] = "none" PROVE ~IsStale(i)
    BY <2>2 DEF IsStale
  <2> QED
    BY <2>0, <2>1, <2>2, <1>t DEF LiveRows, Live
<1>3. ASSUME NEW i \in Invocations, Invocation(i) PROVE LiveRows'
  <2>1. CASE Invoke(i)
    BY <2>1, <1>t DEF Invoke, LiveRows, Live
  <2>2. CASE OpenLog(i)
    <3>1. startedAt[i] =< clock
      BY <2>2 DEF OpenLog, Live, TypeOK
    <3> QED
      BY <2>2, <3>1, <1>t DEF OpenLog, LiveRows, Live
  <2>3. CASE LaneEnds(i)
    BY <2>3, <1>t DEF LaneEnds, LiveRows, Live
  <2>4. CASE Begin(i) \/ CreateLease(i) \/ ReadLease(i) \/ ClaimLease(i)
    BY <2>4, <1>t DEF Begin, CreateLease, ReadLease, ClaimLease, LiveRows, Live
  <2>5. CASE StepStarts(i) \/ StepReturns(i) \/ ReleaseReads(i) \/ ReleaseDeletes(i)
               \/ ReleaseFails(i) \/ Dies(i)
    BY <2>5, <1>t DEF StepStarts, StepReturns, ReleaseReads, ReleaseDeletes,
       ReleaseFails, Dies, LiveRows, Live
  <2> QED
    BY <1>3, <2>1, <2>2, <2>3, <2>4, <2>5 DEF Invocation
<1> QED
  BY <1>1, <1>2, <1>3 DEF Next

\* Recovery closes the rows of dead invocations only, whatever the margin, as
\* long as it is not shorter than the longest life of a function.
THEOREM RecoveryIsSafe == Spec => []RecoveryTouchesOnlyDead
<1>1. Init => LiveRows
  BY DEF Init, LiveRows, Live
<1>2. TypeOK /\ LiveRows /\ [Next]_vars => LiveRows'
  BY LiveRowsStep
<1>3. TypeOK /\ LiveRows => RecoveryTouchesOnlyDead
  BY DEF LiveRows, RecoveryTouchesOnlyDead, Live, TypeOK, Steps
<1> QED
  BY <1>1, <1>2, <1>3, TypeCorrect, PTL DEF Spec

-----------------------------------------------------------------------------
(* Who is turned away.                                                       *)

\* What has a lease, an invocation won.  Its `now` stays what it acquired with.
LeasesAreWon ==
  /\ \A i \in won : step[i] \notin {"idle", "begin", "create", "read", "claim", "skipped"}
  /\ lease # Free => lease.holder \in won /\ lease = LeaseOf(lease.holder)

\* Up to its read an invocation has seen no row; one it is about to reclaim, somebody won.
RowsAreWon ==
  \A i \in Invocations :
    /\ step[i] \in {"idle", "begin", "create", "read"} => read[i] = Free
    /\ step[i] = "claim" /\ read[i] # Free =>
         read[i].holder \in won /\ read[i] = LeaseOf(read[i].holder)

\* Somebody else had a lease that was unexpired at the `now` of i.
Outlived(i) == \E j \in won \ {i} : now[j] + LEASE_TTL > now[i]

\* A row is replaced under its reader only by one whose own lease covers the reader's `now`.
ReplacedByALaterOne ==
  \A i \in Invocations :
    step[i] = "claim" /\ read[i] # Free /\ lease # read[i] => Outlived(i)

RefusalInv == LeasesAreWon /\ RowsAreWon /\ ReplacedByALaterOne /\ RefusedForALease

\* The history grows, and the `now` of who won or is about to claim is fixed.
LEMMA OutlivedStays ==
  ASSUME NEW i \in Invocations, Outlived(i), won \subseteq won', now'[i] = now[i],
         \A j \in won : now'[j] = now[j]
  PROVE  Outlived(i)'
  BY DEF Outlived

\* Whoever writes the lease is alive, and so its lease, which lives as long, outlives the
\* `now` of anybody who has read the clock.
LEMMA WritersOutlive ==
  ASSUME LEASE_TTL >= MaxDuration, LeaseInv, NEW i \in Invocations, NEW j \in Invocations,
         Live(i), step[i] # "begin", Live(j), step[j] # "begin"
  PROVE  now[j] + LEASE_TTL > now[i]
<1>1. now[i] =< clock /\ startedAt[j] =< now[j] /\ clock < startedAt[j] + MaxDuration
  BY DEF LeaseInv, ClocksAreRead, TypeOK
<1>2. /\ now[i] \in Nat /\ now[j] \in Nat /\ startedAt[j] \in Nat /\ clock \in Nat
      /\ LEASE_TTL \in Nat /\ MaxDuration \in Nat
  BY TimesAssumption DEF LeaseInv, TypeOK, LEASE_TTL
<1> QED
  BY <1>1, <1>2

\* Statements that write neither the lease nor the history.
LEMMA RefusalsKept ==
  ASSUME LEASE_TTL >= MaxDuration, LeaseInv, RefusalInv, NEW i \in Invocations,
         \/ Invoke(i) \/ Begin(i) \/ OpenLog(i) \/ StepStarts(i) \/ StepReturns(i)
         \/ LaneEnds(i) \/ ReleaseReads(i) \/ ReleaseFails(i) \/ Dies(i)
  PROVE  RefusalInv'
<1>t. /\ step \in [Invocations -> Steps] /\ read \in [Invocations -> LeaseRecord \cup {Free}]
      /\ now \in [Invocations -> Nat] /\ won \subseteq Invocations
      /\ lease \in LeaseRecord \cup {Free}
  BY DEF LeaseInv, TypeOK
<1>0. /\ UNCHANGED <<lease, won>>
      /\ \A j \in Invocations \ {i} :
           step'[j] = step[j] /\ read'[j] = read[j] /\ now'[j] = now[j]
  BY <1>t DEF Invoke, Begin, OpenLog, StepStarts, StepReturns, LaneEnds, ReleaseReads,
     ReleaseFails, Dies
<1>1. /\ step'[i] \in {"begin", "create", "skipped", "lane", "working", "release", "delete", "ended"}
      /\ step'[i] \in {"begin", "create", "skipped"} => i \notin won /\ read'[i] = Free
      /\ i \in won => now'[i] = now[i]
  BY <1>t DEF RefusalInv, LeasesAreWon, RowsAreWon, Invoke, Begin, OpenLog, StepStarts,
     StepReturns, LaneEnds, ReleaseReads, ReleaseFails, Dies
<1>2. \A j \in won : now'[j] = now[j]
  BY <1>t, <1>0, <1>1
<1>3. LeasesAreWon'
  <2>1. lease # Free => LeaseOf(lease.holder)' = LeaseOf(lease.holder)
    BY <1>0, <1>2 DEF RefusalInv, LeasesAreWon, LeaseOf
  <2> QED
    BY <1>t, <1>0, <1>1, <2>1 DEF RefusalInv, LeasesAreWon
<1>4. RowsAreWon'
  BY <1>t, <1>0, <1>1, <1>2 DEF RefusalInv, RowsAreWon, LeaseOf
<1>5. \A j \in Invocations \ {i} : Outlived(j) => Outlived(j)'
  BY <1>0, <1>2, OutlivedStays
<1>6. ReplacedByALaterOne'
  BY <1>0, <1>1, <1>5 DEF RefusalInv, ReplacedByALaterOne
<1>7. RefusedForALease'
  BY <1>0, <1>1, <1>5 DEF RefusalInv, RefusedForALease, Outlived
<1> QED
  BY <1>3, <1>4, <1>6, <1>7 DEF RefusalInv

\* A refusal for a row that was read: its holder's lease is unexpired.
LEMMA ReadKeepsRefusals ==
  ASSUME LEASE_TTL >= MaxDuration, LeaseInv, RefusalInv, NEW i \in Invocations, ReadLease(i)
  PROVE  RefusalInv'
<1>t. /\ step \in [Invocations -> Steps] /\ read \in [Invocations -> LeaseRecord \cup {Free}]
      /\ now \in [Invocations -> Nat] /\ won \subseteq Invocations
      /\ lease \in LeaseRecord \cup {Free} /\ LEASE_TTL \in Nat
  BY TimesAssumption DEF LeaseInv, TypeOK, LEASE_TTL
<1>0. /\ UNCHANGED <<lease, won, now>> /\ step[i] = "read" /\ read'[i] = lease
      /\ step'[i] = IF leaseIsAvailable(lease, now[i]) THEN "claim" ELSE "skipped"
      /\ \A j \in Invocations \ {i} : step'[j] = step[j] /\ read'[j] = read[j]
  BY <1>t DEF ReadLease
<1>1. i \notin won
  BY <1>0 DEF RefusalInv, LeasesAreWon
<1>2. LeasesAreWon'
  BY <1>t, <1>0, <1>1 DEF RefusalInv, LeasesAreWon, LeaseOf
<1>3. RowsAreWon'
  BY <1>t, <1>0 DEF RefusalInv, RowsAreWon, LeasesAreWon, LeaseOf
<1>4. \A j \in Invocations : Outlived(j)' <=> Outlived(j)
  BY <1>0 DEF Outlived
<1>5. ReplacedByALaterOne'
  BY <1>0, <1>4 DEF RefusalInv, ReplacedByALaterOne
<1>6. step'[i] = "skipped" /\ lease # Free => Outlived(i)
  <2> SUFFICES ASSUME step'[i] = "skipped", lease # Free PROVE Outlived(i)
    OBVIOUS
  <2>1. ~(lease.expiresAt =< now[i])
    BY <1>0 DEF leaseIsAvailable
  <2>2. lease.holder \in won /\ lease.expiresAt = now[lease.holder] + LEASE_TTL
    BY DEF RefusalInv, LeasesAreWon, LeaseOf
  <2>3. now[i] \in Nat /\ now[lease.holder] \in Nat
    BY <1>t, <2>2
  <2> QED
    BY <1>1, <1>t, <2>1, <2>2, <2>3 DEF Outlived
<1>7. RefusedForALease'
  BY <1>0, <1>6 DEF RefusalInv, RefusedForALease, Outlived
<1> QED
  BY <1>2, <1>3, <1>5, <1>7 DEF RefusalInv

\* Writing the lease, or failing to, which is how a claim is refused.
LEMMA WriteKeepsRefusals ==
  ASSUME LEASE_TTL >= MaxDuration, LeaseInv, RefusalInv, NEW i \in Invocations,
         CreateLease(i) \/ ClaimLease(i) \/ ReleaseDeletes(i)
  PROVE  RefusalInv'
<1>t. /\ step \in [Invocations -> Steps] /\ read \in [Invocations -> LeaseRecord \cup {Free}]
      /\ now \in [Invocations -> Nat] /\ won \subseteq Invocations
      /\ lease \in LeaseRecord \cup {Free} /\ LEASE_TTL \in Nat
  BY TimesAssumption DEF LeaseInv, TypeOK, LEASE_TTL
<1>0. /\ UNCHANGED <<now, read>> /\ step[i] \in {"create", "claim", "delete"}
      /\ step'[i] \in {"open", "read", "skipped", "ended"}
      /\ step'[i] = "open" => lease' = LeaseOf(i) /\ won' = won \cup {i}
      /\ step'[i] # "open" => won' = won /\ lease' \in {lease, Free}
      /\ step'[i] = "read" => step[i] = "create"
      /\ step'[i] = "skipped" => step[i] = "claim" /\ lease' = lease /\ (lease # read[i] \/ lease = Free)
      /\ \A j \in Invocations \ {i} : step'[j] = step[j]
  BY <1>t DEF CreateLease, ClaimLease, ReleaseDeletes
<1>1. won \subseteq won' /\ won' \subseteq won \cup {i}
  BY <1>0
<1>2. step[i] \in {"create", "claim"} => i \notin won
  BY DEF RefusalInv, LeasesAreWon
<1>3. LeasesAreWon'
  <2>1. LeaseOf(i) # Free /\ LeaseOf(i).holder = i
    BY LeaseOfType DEF LeaseInv
  <2> QED
    BY <1>t, <1>0, <1>2, <2>1 DEF RefusalInv, LeasesAreWon, LeaseOf
<1>4. RowsAreWon'
  BY <1>t, <1>0, <1>1 DEF RefusalInv, RowsAreWon, LeaseOf
<1>5. \A j \in Invocations : Outlived(j) => Outlived(j)'
  BY <1>0, <1>1, OutlivedStays
<1>6. ASSUME NEW j \in Invocations, step'[j] = "claim", read[j] # Free, lease' # read[j]
      PROVE  Outlived(j)'
  <2>1. j # i /\ step[j] = "claim"
    BY <1>0, <1>6
  <2>2. CASE lease # read[j]
    BY <1>5, <1>6, <2>1, <2>2 DEF RefusalInv, ReplacedByALaterOne
  <2>3. CASE lease = read[j] /\ step'[i] = "open"
    <3>1. now[i] + LEASE_TTL > now[j]
      BY <1>0, <2>1, WritersOutlive DEF Live
    <3> QED
      BY <1>0, <2>1, <2>3, <3>1 DEF Outlived
  <2>4. CASE lease = read[j] /\ step'[i] # "open"
    <3>1. lease' = Free /\ lease # Free
      BY <1>0, <1>6, <2>4
    <3>2. step[i] = "delete" /\ lease = read[i]
      BY <2>4, <3>1, <1>t DEF CreateLease, ClaimLease, ReleaseDeletes
    <3>3. lease.holder = i
      BY <3>2 DEF LeaseInv, DeletesAreOwn
    <3>4. read[j].expiresAt = now[i] + LEASE_TTL
      <4>1. read[j] = LeaseOf(read[j].holder)
        BY <1>6, <2>1 DEF RefusalInv, RowsAreWon
      <4>2. read[j] = LeaseOf(i)
        BY <2>4, <3>3, <4>1
      <4> QED
        BY <4>2, LeaseOfType DEF LeaseInv
    <3>5. now[i] + LEASE_TTL > now[j]
      BY <1>0, <2>1, WritersOutlive DEF Live
    <3>6. read[j].expiresAt =< now[j]
      BY <1>6, <2>1 DEF LeaseInv, ClaimsAreExpired
    <3>7. now[i] \in Nat /\ now[j] \in Nat
      BY <1>t
    <3> QED
      BY <1>t, <3>4, <3>5, <3>6, <3>7
  <2> QED
    BY <2>2, <2>3, <2>4
<1>7. ReplacedByALaterOne'
  BY <1>0, <1>6 DEF ReplacedByALaterOne
<1>8. step'[i] = "skipped" /\ read[i] # Free => Outlived(i)'
  BY <1>0, <1>5 DEF RefusalInv, ReplacedByALaterOne
<1>9. RefusedForALease'
  <2>1. \A j \in Invocations : step'[j] = "skipped" /\ read[j] # Free => Outlived(j)'
    BY <1>0, <1>5, <1>8 DEF RefusalInv, RefusedForALease, Outlived
  <2> QED
    BY <1>0, <2>1 DEF RefusedForALease, Outlived
<1> QED
  BY <1>3, <1>4, <1>7, <1>9 DEF RefusalInv

LEMMA RefusalStep ==
  ASSUME LEASE_TTL >= MaxDuration, LeaseInv, RefusalInv, [Next]_vars
  PROVE  RefusalInv'
<1>1. CASE Tick \/ recoverStaleSyncRuns \/ UNCHANGED vars
  <2>1. UNCHANGED <<lease, step, now, read, won>>
    BY <1>1 DEF Tick, recoverStaleSyncRuns, vars
  <2> QED
    BY <2>1 DEF RefusalInv, LeasesAreWon, RowsAreWon, ReplacedByALaterOne, Outlived,
       RefusedForALease, LeaseOf
<1>2. ASSUME NEW i \in Invocations, Invocation(i) PROVE RefusalInv'
  BY <1>2, RefusalsKept, ReadKeepsRefusals, WriteKeepsRefusals DEF Invocation
<1> QED
  BY <1>1, <1>2 DEF Next

LEMMA RefusalInvAtFirst == ASSUME Init PROVE RefusalInv
  BY DEF Init, RefusalInv, LeasesAreWon, RowsAreWon, ReplacedByALaterOne, RefusedForALease

\* On a lane whose lease lives as long as its functions, whoever is turned away met a lease
\* that another one had won and that was unexpired at its own `now`.  Its winner may be
\* dead: what it left behind refuses others for its time to live, and nobody afterwards.
THEOREM RefusedOnlyForALease ==
  ASSUME LEASE_TTL >= MaxDuration
  PROVE  Spec => []RefusedForALease
<1>1. LeaseInv /\ RefusalInv /\ [Next]_vars => RefusalInv'
  BY RefusalStep
<1>2. RefusalInv => RefusedForALease
  BY DEF RefusalInv
<1> QED
  BY <1>1, <1>2, RefusalInvAtFirst, LeaseInvariant, PTL DEF Spec

-----------------------------------------------------------------------------
(* The cursor of the fresh radar, for any signals, any overlap, any pages of *)
(* the feed and any number of passes that overlap: it never leaves a signal  *)
(* behind that the feed showed in time.                                      *)

\* The signals are posted up to some time.
CursorParameters == Overlap \in Nat /\ \E horizon \in Nat : FeedSignals \subseteq 1..horizon

Times == FeedSignals \cup {0}

\* The signals the cursor answers for.
Pending == feed \ (queued \cup late \cup missed)

\* What the cursor and the passes know, the feed has shown.
OnlySeenTimes ==
  /\ cursor \in feed \cup {0}
  /\ \A p \in Passes : pass[p].signals \subseteq feed /\ pass[p].latest \in feed \cup {0}

CursorIsFair == \A s \in Pending : cursor <= s + Overlap

\* A pass that knows of a signal posted after a pending one by more than the
\* overlap is about to queue the pending one.
PassIsFair(p) ==
  \A s \in Pending :
    /\ \A t \in pass[p].signals :
         pass[p].step = "read" /\ t > s + Overlap => s \in pass[p].signals
    /\ pass[p].step = "create" /\ pass[p].latest > s + Overlap => s \in pass[p].signals
    /\ pass[p].step = "advance" => pass[p].latest <= s + Overlap

CursorInv ==
  /\ CursorTypeOK /\ OnlySeenTimes
  /\ CursorIsFair /\ \A p \in Passes : PassIsFair(p)

-----------------------------------------------------------------------------
\* Any of the signals has a latest one.
LEMMA LatestIsOne ==
  ASSUME CursorParameters, NEW T \in SUBSET Times, T # {}
  PROVE  Latest(T) \in T
<1>1. PICK h \in Nat : FeedSignals \subseteq 1..h BY DEF CursorParameters
<1>2. T \subseteq 0..h BY <1>1 DEF Times
<1> DEFINE Rest == {n \in 0..h : h - n \in T}
<1>3. Rest \subseteq Nat BY <1>1
<1>4. Rest # {}
  <2>1. PICK t \in T : TRUE OBVIOUS
  <2>2. h - t \in 0..h /\ h - (h - t) = t BY <1>1, <1>2, <2>1
  <2> QED BY <2>2
<1>5. PICK n \in Rest : \A m \in Rest : ~(<<m, n>> \in OpToRel(<, Nat))
  <2> HIDE DEF Rest
  <2> QED BY <1>3, <1>4, WFMin, NatLessThanWellFounded, Zenon
<1>6. \A m \in Rest : n <= m
  <2> TAKE m \in Rest
  <2>1. n \in Nat /\ m \in Nat BY <1>3
  <2>2. m < n => <<m, n>> \in OpToRel(<, Nat) BY <2>1, Zenon DEF OpToRel
  <2>3. ~(m < n) BY <1>5, <2>2, Zenon
  <2> QED BY <2>1, <2>3
<1>7. \A u \in T : u <= h - n
  <2> TAKE u \in T
  <2>1. h - u \in Rest BY <1>1, <1>2
  <2> QED BY <1>1, <1>2, <1>6, <2>1
<1>8. h - n \in T OBVIOUS
<1> QED BY <1>7, <1>8 DEF Latest

LEMMA TimesAreNumbers == ASSUME CursorParameters PROVE Times \subseteq Nat /\ Overlap \in Nat
BY DEF CursorParameters, Times

\* A pass is a record with its own fields.
LEMMA PassIsMade ==
  ASSUME NEW st \in {"fetch", "read", "create", "advance"},
         NEW S \in SUBSET FeedSignals, NEW t \in Times
  PROVE  [step |-> st, signals |-> S, latest |-> t] \in Pass
BY DEF Pass, Times

LEMMA IdleIsPass == Idle \in Pass BY PassIsMade DEF Idle, Times

\* Writing one pass leaves the others.
LEMMA PassIsWritten ==
  ASSUME pass \in [Passes -> Pass], NEW p \in Passes, NEW r \in Pass,
         pass' = [pass EXCEPT ![p] = r]
  PROVE  /\ pass' \in [Passes -> Pass] /\ pass'[p] = r
         /\ \A q \in Passes : q # p => pass'[q] = pass[q]
OBVIOUS

\* Fewer pending signals leave less to answer for.
LEMMA FewerPending ==
  ASSUME Pending' \subseteq Pending, NEW p \in Passes, pass'[p] = pass[p], PassIsFair(p)
  PROVE  PassIsFair(p)'
BY DEF PassIsFair

LEMMA InitEstablishes == ASSUME CursorParameters, CursorInit PROVE CursorInv
<1>1. pass \in [Passes -> Pass] BY IdleIsPass DEF CursorInit
<1>2. \A p \in Passes : pass[p].signals = {} /\ pass[p].latest = 0
  BY DEF CursorInit, Idle
<1>3. Pending = {} BY DEF CursorInit, Pending
<1> QED BY <1>1, <1>2, <1>3 DEF CursorInv, CursorInit, CursorTypeOK, OnlySeenTimes,
     CursorIsFair, PassIsFair

-----------------------------------------------------------------------------
\* What is published in time is within the overlap of all that was shown.
LEMMA PublishKeeps ==
  ASSUME CursorParameters, CursorInv, NEW s \in FeedSignals, Publish(s)
  PROVE  CursorInv'
<1>1. /\ feed' = feed \cup {s} /\ s \notin feed
      /\ UNCHANGED <<cursor, queued, pass, missed>>
      /\ late \subseteq late' /\ late' \subseteq late \cup {s}
  BY DEF Publish
<1>2. CursorTypeOK' BY <1>1 DEF CursorInv, CursorTypeOK
<1>3. OnlySeenTimes' BY <1>1 DEF CursorInv, OnlySeenTimes
<1>4. Pending' \subseteq Pending \cup {s} BY <1>1 DEF Pending
<1>5. s \in Pending' => \A t \in feed : ~(t > s + Overlap)
  BY <1>1 DEF Publish, Pending
<1>6. feed \subseteq Nat /\ s \in Nat /\ Overlap \in Nat
  BY TimesAreNumbers DEF Times, CursorInv, CursorTypeOK
<1>7. s \in Pending' => \A t \in feed \cup {0} : t <= s + Overlap /\ ~(t > s + Overlap)
  BY <1>5, <1>6
<1>8. CursorIsFair'
  BY <1>1, <1>4, <1>7 DEF CursorInv, CursorIsFair, OnlySeenTimes
<1>9. ASSUME NEW p \in Passes PROVE PassIsFair(p)'
  <2>1. pass[p].signals \subseteq feed /\ pass[p].latest \in feed \cup {0}
    BY DEF CursorInv, OnlySeenTimes
  <2>2. PassIsFair(p) BY DEF CursorInv
  <2> QED BY <1>1, <1>4, <1>7, <2>1, <2>2 DEF PassIsFair
<1> QED BY <1>2, <1>3, <1>8, <1>9 DEF CursorInv

\* A fetch shows all that is pending, save what its failure hides.
LEMMA FetchKeeps ==
  ASSUME CursorParameters, CursorInv, NEW p \in Passes, Fetch(p)
  PROVE  CursorInv'
<1>1. PICK hidden \in SUBSET feed :
        /\ pass' = [pass EXCEPT ![p] =
                      [step |-> "read", signals |-> feed \ hidden, latest |-> 0]]
        /\ missed' = missed \cup (hidden \ queued)
  BY Zenon DEF Fetch
<1>2. UNCHANGED <<feed, cursor, queued, late>> BY DEF Fetch
<1> DEFINE r == [step |-> "read", signals |-> feed \ hidden, latest |-> 0]
<1>3. /\ r.step = "read" /\ r.signals = feed \ hidden /\ r.latest = 0
  OBVIOUS
<1>4. r \in Pass BY PassIsMade DEF CursorInv, CursorTypeOK, Times
<1> HIDE DEF r
<1>5. pass' = [pass EXCEPT ![p] = r] BY <1>1, Zenon DEF r
<1>6. /\ pass' \in [Passes -> Pass] /\ pass'[p] = r
      /\ \A q \in Passes : q # p => pass'[q] = pass[q]
  BY <1>4, <1>5, PassIsWritten DEF CursorInv, CursorTypeOK
<1>7. CursorTypeOK' BY <1>1, <1>2, <1>6 DEF CursorInv, CursorTypeOK
<1>8. OnlySeenTimes' BY <1>2, <1>3, <1>6 DEF CursorInv, OnlySeenTimes
<1>9. Pending' \subseteq Pending /\ Pending' \subseteq feed \ hidden
  BY <1>1, <1>2 DEF Pending
<1>10. CursorIsFair' BY <1>2, <1>9 DEF CursorInv, CursorIsFair
<1>11. PassIsFair(p)' BY <1>3, <1>6, <1>9 DEF PassIsFair
<1>12. \A q \in Passes : PassIsFair(q)'
  BY <1>6, <1>9, <1>11, FewerPending DEF CursorInv
<1> QED BY <1>7, <1>8, <1>10, <1>12 DEF CursorInv

\* The pass considers all that its latest signal would take the cursor past.
LEMMA ReadCursorKeeps ==
  ASSUME CursorParameters, CursorInv, NEW p \in Passes, ReadCursor(p)
  PROVE  CursorInv'
<1> DEFINE S == pass[p].signals
           T == S \cup {cursor}
           r == [step |-> "create", signals |-> Considered(p), latest |-> Latest(T)]
<1>1. UNCHANGED <<feed, cursor, queued, late, missed>> /\ pass[p].step = "read"
  BY DEF ReadCursor
<1>2. pass' = [pass EXCEPT ![p] = r] BY Zenon DEF ReadCursor
<1>3. S \subseteq feed /\ feed \subseteq FeedSignals /\ cursor \in feed \cup {0}
  BY DEF CursorInv, CursorTypeOK, OnlySeenTimes
<1>4. T \subseteq Times /\ T # {} BY <1>3 DEF Times
<1>5. Latest(T) \in T
  <2> HIDE DEF T
  <2> QED BY <1>4, LatestIsOne
<1>6. Considered(p) \subseteq S BY DEF Considered
<1>7. r.step = "create" /\ r.signals = Considered(p) /\ r.latest = Latest(T)
  OBVIOUS
<1>8. r \in Pass
  <2>1. Latest(T) \in Times BY <1>4, <1>5
  <2>2. Considered(p) \in SUBSET FeedSignals BY <1>3, <1>6
  <2> HIDE DEF T
  <2> QED BY <2>1, <2>2, PassIsMade
<1> HIDE DEF r
<1>9. /\ pass' \in [Passes -> Pass] /\ pass'[p] = r
      /\ \A q \in Passes : q # p => pass'[q] = pass[q]
  BY <1>2, <1>8, PassIsWritten DEF CursorInv, CursorTypeOK
<1>10. CursorTypeOK' BY <1>1, <1>9 DEF CursorInv, CursorTypeOK
<1>11. Latest(T) \in feed \cup {0} BY <1>3, <1>5
<1>12. OnlySeenTimes'
  BY <1>1, <1>3, <1>6, <1>7, <1>9, <1>11 DEF CursorInv, OnlySeenTimes
<1>13. Pending' = Pending BY <1>1 DEF Pending
<1>14. CursorIsFair' BY <1>1, <1>13 DEF CursorInv, CursorIsFair
<1>15. ASSUME NEW s \in Pending, Latest(T) > s + Overlap
       PROVE  s \in Considered(p)
  <2>1. cursor <= s + Overlap BY DEF CursorInv, CursorIsFair
  <2>2. s \in Nat /\ cursor \in Nat /\ Overlap \in Nat
    BY <1>3, TimesAreNumbers DEF Times, Pending
  <2>3. Latest(T) # cursor BY <1>15, <2>1, <2>2
  <2>4. Latest(T) \in S BY <1>5, <2>3
  <2>5. s \in S BY <1>1, <1>15, <2>4 DEF CursorInv, PassIsFair
  <2>6. s >= cursor - Overlap BY <2>1, <2>2
  <2> QED BY <2>5, <2>6 DEF Considered
<1>16. PassIsFair(p)'
  <2> HIDE DEF T, S
  <2> QED BY <1>7, <1>9, <1>13, <1>15 DEF PassIsFair
<1>17. \A q \in Passes : PassIsFair(q)'
  BY <1>9, <1>13, <1>16, FewerPending DEF CursorInv
<1> QED BY <1>10, <1>12, <1>14, <1>17 DEF CursorInv

\* What was considered is queued before the cursor moves.
LEMMA CreateManyKeeps ==
  ASSUME CursorParameters, CursorInv, NEW p \in Passes, CreateMany(p)
  PROVE  CursorInv'
<1> DEFINE S == pass[p].signals
           r == [step |-> "advance", signals |-> {}, latest |-> pass[p].latest]
<1>1. /\ pass[p].step = "create" /\ queued' = queued \cup S
      /\ late' = late \ queued' /\ missed' = missed \ queued'
      /\ UNCHANGED <<feed, cursor>>
  BY DEF CreateMany
<1>2. pass \in [Passes -> Pass] /\ S \subseteq feed /\ pass[p].latest \in feed \cup {0}
  BY DEF CursorInv, CursorTypeOK, OnlySeenTimes
<1>3. r \in Pass
  <2>1. pass[p].latest \in Times BY <1>2 DEF CursorInv, CursorTypeOK, Times
  <2> QED BY <2>1, PassIsMade
<1>4. pass' = [pass EXCEPT ![p] = r] BY DEF CreateMany
<1>5. r.step = "advance" /\ r.signals = {} /\ r.latest = pass[p].latest OBVIOUS
<1> HIDE DEF r
<1>6. /\ pass' \in [Passes -> Pass] /\ pass'[p] = r
      /\ \A q \in Passes : q # p => pass'[q] = pass[q]
  BY <1>2, <1>3, <1>4, PassIsWritten
<1>7. CursorTypeOK' BY <1>1, <1>2, <1>6 DEF CursorInv, CursorTypeOK
<1>8. OnlySeenTimes' BY <1>1, <1>2, <1>5, <1>6 DEF CursorInv, OnlySeenTimes
<1>9. Pending' \subseteq Pending \ S BY <1>1 DEF Pending
<1>10. CursorIsFair' BY <1>1, <1>9 DEF CursorInv, CursorIsFair
<1>11. ASSUME NEW s \in Pending' PROVE pass[p].latest <= s + Overlap
  <2>1. s \in Pending /\ s \notin S BY <1>9
  <2>2. ~(pass[p].latest > s + Overlap) BY <1>1, <2>1 DEF CursorInv, PassIsFair
  <2>3. s \in Nat /\ pass[p].latest \in Nat /\ Overlap \in Nat
    BY <1>2, <2>1, TimesAreNumbers DEF Times, Pending, CursorInv, CursorTypeOK
  <2> QED BY <2>2, <2>3
<1>12. PassIsFair(p)' BY <1>5, <1>6, <1>11 DEF PassIsFair
<1>13. \A q \in Passes : PassIsFair(q)'
  BY <1>6, <1>9, <1>12, FewerPending DEF CursorInv
<1> QED BY <1>7, <1>8, <1>10, <1>13 DEF CursorInv

\* The end of a pass, with or without the cursor written.
LEMMA EndKeeps ==
  ASSUME CursorParameters, CursorInv, NEW p \in Passes, Advance(p) \/ PassDies(p)
  PROVE  CursorInv'
<1>1. pass' = [pass EXCEPT ![p] = Idle] /\ UNCHANGED <<feed, queued, late, missed>>
  BY DEF Advance, PassDies
<1>2. /\ pass' \in [Passes -> Pass] /\ pass'[p] = Idle
      /\ \A q \in Passes : q # p => pass'[q] = pass[q]
  BY <1>1, IdleIsPass, PassIsWritten DEF CursorInv, CursorTypeOK
<1>3. \/ cursor' = cursor
      \/ pass[p].step = "advance" /\ cursor' = pass[p].latest
  BY DEF Advance, PassDies
<1>4. cursor' \in feed \cup {0} BY <1>3 DEF CursorInv, OnlySeenTimes
<1>5. CursorTypeOK' BY <1>1, <1>2, <1>4 DEF CursorInv, CursorTypeOK
<1>6. OnlySeenTimes' BY <1>1, <1>2, <1>4 DEF CursorInv, OnlySeenTimes, Idle
<1>7. Pending' = Pending BY <1>1 DEF Pending
<1>8. CursorIsFair' BY <1>3, <1>7 DEF CursorInv, CursorIsFair, PassIsFair
<1>9. PassIsFair(p)' BY <1>2 DEF PassIsFair, Idle
<1>10. \A q \in Passes : PassIsFair(q)'
  BY <1>2, <1>7, <1>9, FewerPending DEF CursorInv
<1> QED BY <1>5, <1>6, <1>8, <1>10 DEF CursorInv

LEMMA StepKeeps == ASSUME CursorParameters, CursorInv, [CursorNext]_cursorVars PROVE CursorInv'
<1>1. CASE \E s \in FeedSignals : Publish(s) BY <1>1, PublishKeeps
<1>2. CASE \E p \in Passes : PassSteps(p)
  BY <1>2, FetchKeeps, ReadCursorKeeps, CreateManyKeeps, EndKeeps DEF PassSteps
<1>3. CASE UNCHANGED cursorVars
  <2>1. UNCHANGED <<feed, cursor, queued, pass, late, missed>> BY <1>3 DEF cursorVars
  <2>2. Pending' = Pending BY <2>1 DEF Pending
  <2> QED BY <2>1, <2>2 DEF CursorInv, CursorTypeOK, OnlySeenTimes, CursorIsFair,
       PassIsFair
<1> QED BY <1>1, <1>2, <1>3 DEF CursorNext

-----------------------------------------------------------------------------
\* Every variable keeps its type (liveDiscoveryQueue.ts): the cursor is the time
\* of a signal, and only what the feed has shown is queued.
THEOREM CursorTypes == ASSUME CursorParameters PROVE CursorSpec => []CursorTypeOK
<1>1. CursorInit => CursorInv BY InitEstablishes
<1>2. CursorInv /\ [CursorNext]_cursorVars => CursorInv' BY StepKeeps
<1>3. CursorInv => CursorTypeOK BY DEF CursorInv
<1> QED BY <1>1, <1>2, <1>3, PTL DEF CursorSpec

\* The cursor passes no signal that is not queued (liveDiscoveryQueue.ts): the
\* overlap makes up for passes that overlap, die and write it back and forth.
THEOREM NothingIsLeftBehind == ASSUME CursorParameters PROVE CursorSpec => []NothingSkipped
<1>1. CursorInit => CursorInv BY InitEstablishes
<1>2. CursorInv /\ [CursorNext]_cursorVars => CursorInv' BY StepKeeps
<1>3. CursorInv => NothingSkipped
  <2> SUFFICES ASSUME CursorInv, NEW s \in feed \ (late \cup missed),
                      cursor > s + Overlap, s \notin queued
               PROVE  FALSE
    BY DEF NothingSkipped
  <2>1. cursor <= s + Overlap BY DEF CursorInv, CursorIsFair, Pending
  <2>2. cursor \in Nat /\ s \in Nat /\ Overlap \in Nat
    BY TimesAreNumbers DEF Times, CursorInv, CursorTypeOK
  <2> QED BY <2>1, <2>2
<1> QED BY <1>1, <1>2, <1>3, PTL DEF CursorSpec
=============================================================================
