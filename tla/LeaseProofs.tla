------------------------------- MODULE LeaseProofs -------------------------------
(***************************************************************************)
(* Proofs about the fresh cron lane and the worker's lock of MCServices,   *)
(* for any values of their constants, each as it is composed with the      *)
(* other services.  Those of the standard lane are in CronLaneProofs,      *)
(* those of the others in ServicesProofs and MoreServicesProofs; all of    *)
(* them are put together here for the types.                               *)
(***************************************************************************)
EXTENDS MCServices, CronLaneProofs, ServicesProofs, MoreServicesProofs, TLAPS

-----------------------------------------------------------------------------
(* The fresh lane, whose lease may expire under its holder.  It is an       *)
(* instance of CronLane, whose theorems cannot be cited of an instance: the *)
(* argument is that of CronLaneProofs, without the exclusion.               *)

\* The assumptions of CronLane on the constants that the lane has of its own.
FastParameters ==
  /\ FastMaxDuration \in Nat \ {0} /\ FastStale \in Nat /\ FastMaxTime \in Nat
  /\ FastStale >= FastMaxDuration
  /\ Free \notin [holder : FastInvocations, expiresAt : Nat]

\* What an invocation that has read the clock knows: its `now` lies between its
\* start and the present.
FastClocksAreRead ==
  \A i \in FastInvocations : Fast!Live(i) /\ overStep[i] # "begin" =>
    overStartedAt[i] =< overNow[i] /\ overNow[i] =< overClock

\* A row that is about to be reclaimed had expired when it was read.
FastClaimsAreExpired ==
  \A i \in FastInvocations : overStep[i] = "claim" /\ overRead[i] # Free =>
    overRead[i].expiresAt =< overNow[i]

\* A row that is about to be deleted is the invocation's own.
FastDeletesAreOwn ==
  \A i \in FastInvocations : overStep[i] = "delete" => overRead[i] # Free /\ overRead[i].holder = i

FastLeaseInv ==
  /\ Fast!TypeOK
  /\ FastClocksAreRead
  /\ FastClaimsAreExpired
  /\ FastDeletesAreOwn
  /\ Fast!HoldersHoldOrExpired

LEMMA FastLeaseOfType ==
  ASSUME FastParameters, Fast!TypeOK, NEW i \in FastInvocations
  PROVE  /\ Fast!LeaseOf(i) \in Fast!LeaseRecord
         /\ Fast!LeaseOf(i) # Free
         /\ Fast!LeaseOf(i).holder = i
         /\ Fast!LeaseOf(i).expiresAt = overNow[i] + Fast!LEASE_TTL
  BY TimesAssumption DEF FastParameters, Fast!TypeOK, Fast!LeaseOf, Fast!LeaseRecord,
       Fast!LEASE_TTL

\* Every variable keeps its type, and no function outlives the platform's limit.
LEMMA FastTypeStep ==
  ASSUME FastParameters, Fast!TypeOK, [Fast!Next]_(Fast!vars)
  PROVE  Fast!TypeOK'
<1>1. CASE Fast!Tick
  BY <1>1 DEF Fast!Tick, Fast!TypeOK, Fast!Live
<1>2. CASE Fast!recoverStaleSyncRuns
  BY <1>2 DEF Fast!recoverStaleSyncRuns, Fast!TypeOK, Fast!Live, Fast!LogStates
<1>3. ASSUME NEW i \in FastInvocations, Fast!Invocation(i) PROVE Fast!TypeOK'
  <2>1. CASE Fast!Invoke(i)
    BY <2>1, TimesAssumption DEF FastParameters, Fast!Invoke, Fast!TypeOK, Fast!Live, Fast!Steps
  <2>2. CASE Fast!Begin(i)
    BY <2>2 DEF Fast!Begin, Fast!TypeOK, Fast!Live, Fast!Steps
  <2>3. CASE Fast!CreateLease(i)
    BY <2>3, FastLeaseOfType DEF Fast!CreateLease, Fast!TypeOK, Fast!Live, Fast!Steps
  <2>4. CASE Fast!ReadLease(i)
    BY <2>4 DEF Fast!ReadLease, Fast!TypeOK, Fast!Live, Fast!Steps
  <2>5. CASE Fast!ClaimLease(i)
    BY <2>5, FastLeaseOfType DEF Fast!ClaimLease, Fast!TypeOK, Fast!Live, Fast!Steps
  <2>6. CASE Fast!OpenLog(i)
    BY <2>6 DEF Fast!OpenLog, Fast!TypeOK, Fast!Live, Fast!Steps, Fast!LogStates
  <2>7. CASE Fast!StepStarts(i) \/ Fast!StepReturns(i)
    BY <2>7 DEF Fast!StepStarts, Fast!StepReturns, Fast!TypeOK, Fast!Live, Fast!Steps
  <2>8. CASE Fast!LaneEnds(i)
    BY <2>8 DEF Fast!LaneEnds, Fast!TypeOK, Fast!Live, Fast!Steps, Fast!LogStates
  <2>9. CASE Fast!ReleaseReads(i)
    BY <2>9 DEF Fast!ReleaseReads, Fast!TypeOK, Fast!Live, Fast!Steps
  <2>10. CASE Fast!ReleaseDeletes(i)
    BY <2>10 DEF Fast!ReleaseDeletes, Fast!TypeOK, Fast!Live, Fast!Steps
  <2>11. CASE Fast!ReleaseFails(i) \/ Fast!Dies(i)
    BY <2>11 DEF Fast!ReleaseFails, Fast!Dies, Fast!TypeOK, Fast!Live, Fast!Steps
  <2> QED
    BY <1>3, <2>1, <2>2, <2>3, <2>4, <2>5, <2>6, <2>7, <2>8, <2>9, <2>10, <2>11
       DEF Fast!Invocation
<1>4. CASE UNCHANGED Fast!vars
  BY <1>4 DEF Fast!vars, Fast!TypeOK, Fast!Live
<1> QED
  BY <1>1, <1>2, <1>3, <1>4 DEF Fast!Next

\* A lease that is replaced or removed had expired under any other holder.
LEMMA FastDisplacedLease ==
  ASSUME FastParameters, FastLeaseInv, NEW i \in FastInvocations, NEW j \in FastInvocations, j # i,
         Fast!Holding(j),
         \/ Fast!CreateLease(i) /\ overLease = Free
         \/ Fast!ClaimLease(i) /\ overLease = overRead[i] /\ overLease # Free
         \/ Fast!ReleaseDeletes(i) /\ overLease = overRead[i]
  PROVE  overClock >= overNow[j] + Fast!LEASE_TTL
<1>1. overLease = Fast!LeaseOf(j) \/ overClock >= overNow[j] + Fast!LEASE_TTL
  BY DEF FastLeaseInv, Fast!HoldersHoldOrExpired
<1>2. Fast!LeaseOf(j) # Free /\ Fast!LeaseOf(j).holder = j
        /\ Fast!LeaseOf(j).expiresAt = overNow[j] + Fast!LEASE_TTL
  BY FastLeaseOfType DEF FastLeaseInv
<1>3. overNow[i] \in Nat /\ overNow[j] \in Nat /\ overClock \in Nat /\ Fast!LEASE_TTL \in Nat
  BY TimesAssumption DEF FastParameters, FastLeaseInv, Fast!TypeOK, Fast!LEASE_TTL
<1>4. CASE Fast!CreateLease(i) /\ overLease = Free
  BY <1>1, <1>2, <1>4
<1>5. CASE Fast!ClaimLease(i) /\ overLease = overRead[i] /\ overLease # Free
  <2>1. overStep[i] = "claim"
    BY <1>5 DEF Fast!ClaimLease
  <2>2. overRead[i].expiresAt =< overNow[i]
    BY <1>5, <2>1 DEF FastLeaseInv, FastClaimsAreExpired
  <2>3. overNow[i] =< overClock
    BY <2>1 DEF FastLeaseInv, FastClocksAreRead, Fast!Live
  <2> QED
    BY <1>1, <1>2, <1>3, <1>5, <2>2, <2>3
<1>6. CASE Fast!ReleaseDeletes(i) /\ overLease = overRead[i]
  <2>1. overStep[i] = "delete"
    BY <1>6 DEF Fast!ReleaseDeletes
  <2>2. overRead[i].holder = i
    BY <2>1 DEF FastLeaseInv, FastDeletesAreOwn
  <2> QED
    BY <1>1, <1>2, <1>6, <2>2
<1> QED
  BY <1>4, <1>5, <1>6

LEMMA FastLeaseStep ==
  ASSUME FastParameters, FastLeaseInv, Fast!TypeOK', [Fast!Next]_(Fast!vars)
  PROVE  FastLeaseInv'
<1> USE TimesAssumption DEF FastParameters, FastLeaseInv
<1>t. overClock \in Nat /\ Fast!LEASE_TTL \in Nat
        /\ \A i \in FastInvocations : overNow[i] \in Nat /\ overStartedAt[i] \in Nat
  BY DEF Fast!TypeOK, Fast!LEASE_TTL
<1>1. CASE Fast!Tick
  <2>1. FastClocksAreRead'
    BY <1>1, <1>t DEF Fast!Tick, FastClocksAreRead, Fast!Live
  <2>2. FastClaimsAreExpired' /\ FastDeletesAreOwn'
    BY <1>1 DEF Fast!Tick, FastClaimsAreExpired, FastDeletesAreOwn
  <2>3. Fast!HoldersHoldOrExpired'
    BY <1>1, <1>t DEF Fast!Tick, Fast!HoldersHoldOrExpired, Fast!Holding, Fast!Inside,
         Fast!LeaseOf
  <2> QED
    BY <2>1, <2>2, <2>3
<1>2. CASE Fast!recoverStaleSyncRuns \/ UNCHANGED Fast!vars
  <2>1. UNCHANGED <<overClock, overLease, overStep, overStartedAt, overNow, overRead>>
    BY <1>2 DEF Fast!recoverStaleSyncRuns, Fast!vars
  <2> QED
    BY <2>1 DEF FastClocksAreRead, FastClaimsAreExpired, FastDeletesAreOwn,
                Fast!HoldersHoldOrExpired, Fast!Holding, Fast!Inside, Fast!LeaseOf, Fast!Live
<1>3. ASSUME NEW i \in FastInvocations, Fast!Invocation(i) PROVE FastLeaseInv'
  <2>t. /\ overStep \in [FastInvocations -> Fast!Steps]
        /\ overRead \in [FastInvocations -> Fast!LeaseRecord \cup {Free}]
          /\ overNow \in [FastInvocations -> Nat] /\ overStartedAt \in [FastInvocations -> Nat]
    BY DEF Fast!TypeOK
  <2>1. CASE Fast!Invoke(i) \/ Fast!Begin(i)
    <3>0. /\ UNCHANGED <<overClock, overLease, overRead>>
          /\ overStep[i] \in {"idle", "begin"}
          /\ overStep'[i] \in {"begin", "create", "skipped"}
          /\ \A j \in FastInvocations \ {i} :
               overStep'[j] = overStep[j] /\ overNow'[j] = overNow[j] /\ overStartedAt'[j] = overStartedAt[j]
      BY <2>1, <2>t DEF Fast!Invoke, Fast!Begin
    <3>1. FastClocksAreRead'
      <4>1. Fast!Live(i)' /\ overStep'[i] # "begin" =>
              overStartedAt'[i] =< overNow'[i] /\ overNow'[i] =< overClock'
        BY <2>1, <2>t, <1>t DEF Fast!Invoke, Fast!Begin, Fast!Live, Fast!TypeOK
      <4> QED
        BY <3>0, <4>1 DEF FastClocksAreRead, Fast!Live
    <3>2. FastClaimsAreExpired' /\ FastDeletesAreOwn'
      BY <3>0 DEF FastClaimsAreExpired, FastDeletesAreOwn
    <3>3. Fast!HoldersHoldOrExpired'
      BY <3>0 DEF Fast!HoldersHoldOrExpired, Fast!Holding, Fast!Inside, Fast!LeaseOf
    <3> QED
      BY <3>1, <3>2, <3>3
  <2>2. CASE Fast!ReadLease(i) \/ Fast!ReleaseReads(i)
    <3>0. /\ UNCHANGED <<overClock, overLease, overNow, overStartedAt>>
          /\ overStep[i] \in {"read", "release"}
          /\ overRead'[i] = overLease
          /\ overStep'[i] \in {"claim", "skipped", "delete", "ended"}
          /\ overStep'[i] = "claim" => Fast!leaseIsAvailable(overLease, overNow[i])
          /\ overStep'[i] = "delete" => /\ overStep[i] = "release"
                                    /\ overLease # Free /\ overLease.holder = i
          /\ \A j \in FastInvocations \ {i} : overStep'[j] = overStep[j] /\ overRead'[j] = overRead[j]
      BY <2>2, <2>t DEF Fast!ReadLease, Fast!ReleaseReads
    <3>1. FastClocksAreRead'
      BY <3>0 DEF FastClocksAreRead, Fast!Live
    <3>2. FastClaimsAreExpired' /\ FastDeletesAreOwn'
      BY <3>0 DEF FastClaimsAreExpired, FastDeletesAreOwn, Fast!leaseIsAvailable
    <3>3. Fast!HoldersHoldOrExpired'
      BY <3>0 DEF Fast!HoldersHoldOrExpired, Fast!Holding, Fast!Inside, Fast!LeaseOf
    <3> QED
      BY <3>1, <3>2, <3>3
  <2>3. CASE Fast!CreateLease(i) \/ Fast!ClaimLease(i) \/ Fast!ReleaseDeletes(i)
    <3>0. /\ UNCHANGED <<overClock, overNow, overStartedAt, overRead>>
          /\ overStep[i] \in {"create", "claim", "delete"}
          /\ overStep'[i] \in {"open", "read", "skipped", "ended"}
          /\ overStep'[i] = "open" => overLease' = Fast!LeaseOf(i)
          /\ \A j \in FastInvocations \ {i} : overStep'[j] = overStep[j]
      BY <2>3, <2>t DEF Fast!CreateLease, Fast!ClaimLease, Fast!ReleaseDeletes
    <3>1. FastClocksAreRead'
      BY <3>0 DEF FastClocksAreRead, Fast!Live
    <3>2. FastClaimsAreExpired' /\ FastDeletesAreOwn'
      BY <3>0 DEF FastClaimsAreExpired, FastDeletesAreOwn
    <3>3. ASSUME NEW j \in FastInvocations, Fast!Holding(j)'
          PROVE  overLease' = Fast!LeaseOf(j) \/ overClock >= overNow[j] + Fast!LEASE_TTL
      <4>1. CASE j = i
        BY <3>0, <3>3, <4>1 DEF Fast!Holding, Fast!Inside
      <4>2. CASE j # i
        <5>1. Fast!Holding(j)
          BY <3>0, <3>3, <4>2 DEF Fast!Holding, Fast!Inside
        <5>2. CASE UNCHANGED overLease
          BY <5>1, <5>2 DEF Fast!HoldersHoldOrExpired
        <5>3. CASE overLease' # overLease
          <6>1. \/ Fast!CreateLease(i) /\ overLease = Free
                \/ Fast!ClaimLease(i) /\ overLease = overRead[i] /\ overLease # Free
                \/ Fast!ReleaseDeletes(i) /\ overLease = overRead[i]
            BY <2>3, <5>3 DEF Fast!CreateLease, Fast!ClaimLease, Fast!ReleaseDeletes
          <6> QED
            BY <4>2, <5>1, <6>1, FastDisplacedLease
        <5> QED
          BY <5>2, <5>3
      <4> QED
        BY <4>1, <4>2
    <3>4. Fast!HoldersHoldOrExpired'
      BY <3>0, <3>3 DEF Fast!HoldersHoldOrExpired, Fast!LeaseOf
    <3> QED
      BY <3>1, <3>2, <3>4
  <2>4. CASE Fast!OpenLog(i) \/ Fast!StepStarts(i) \/ Fast!StepReturns(i) \/ Fast!LaneEnds(i)
               \/ Fast!ReleaseFails(i) \/ Fast!Dies(i)
    <3>0. /\ UNCHANGED <<overClock, overLease, overNow, overStartedAt, overRead>>
          /\ \/ overStep'[i] = "ended"
             \/ Fast!Inside(i) /\ overStep'[i] \in {"lane", "working", "release"}
          /\ \A j \in FastInvocations \ {i} : overStep'[j] = overStep[j]
      BY <2>4, <2>t DEF Fast!OpenLog, Fast!StepStarts, Fast!StepReturns, Fast!LaneEnds,
           Fast!ReleaseFails, Fast!Dies, Fast!Inside
    <3>1. FastClocksAreRead'
      BY <3>0 DEF FastClocksAreRead, Fast!Live, Fast!Inside
    <3>2. FastClaimsAreExpired' /\ FastDeletesAreOwn'
      BY <3>0 DEF FastClaimsAreExpired, FastDeletesAreOwn
    <3>3. Fast!HoldersHoldOrExpired'
      BY <3>0 DEF Fast!HoldersHoldOrExpired, Fast!Holding, Fast!Inside, Fast!LeaseOf
    <3> QED
      BY <3>1, <3>2, <3>3
  <2> QED
    BY <1>3, <2>1, <2>2, <2>3, <2>4 DEF Fast!Invocation
<1> QED
  BY <1>1, <1>2, <1>3 DEF Fast!Next

\* The row of a live invocation is younger than its invocation, and open or
\* closed by the invocation itself.
FastLiveRows ==
  \A i \in FastInvocations :
    /\ overStep[i] \in {"idle", "begin", "create", "read", "claim", "open"} => overLog[i] = "none"
    /\ overStep[i] \in {"lane", "working", "release", "delete"} =>
         overLog[i] \in {"running", "closed"} /\ overStartedAt[i] =< overLogStart[i]

LEMMA FastLiveRowsStep ==
  ASSUME FastParameters, Fast!TypeOK, FastLiveRows, [Fast!Next]_(Fast!vars)
  PROVE  FastLiveRows'
<1>t. /\ overStep \in [FastInvocations -> Fast!Steps] /\ overLog \in [FastInvocations -> Fast!LogStates]
      /\ overStartedAt \in [FastInvocations -> Nat] /\ overLogStart \in [FastInvocations -> Nat]
      /\ overClock \in Nat
  BY DEF Fast!TypeOK
<1>1. CASE Fast!Tick \/ UNCHANGED Fast!vars
  BY <1>1 DEF Fast!Tick, Fast!vars, FastLiveRows, Fast!Live
<1>2. CASE Fast!recoverStaleSyncRuns
  <2>0. UNCHANGED <<overClock, overStep, overStartedAt, overLogStart>>
          /\ overLog' = [i \in FastInvocations |-> IF Fast!IsStale(i) THEN "recovered" ELSE overLog[i]]
    BY <1>2 DEF Fast!recoverStaleSyncRuns
  <2>1. ASSUME NEW i \in FastInvocations, Fast!Live(i) PROVE ~Fast!IsStale(i)
    <3>1. overClock < overStartedAt[i] + FastMaxDuration
      BY <2>1 DEF Fast!TypeOK
    <3>2. overLog[i] # "none" => overStartedAt[i] =< overLogStart[i]
      BY <2>1, <1>t DEF FastLiveRows, Fast!Live, Fast!Steps
    <3>3. FastStale \in Nat /\ FastMaxDuration \in Nat /\ FastStale >= FastMaxDuration
      BY TimesAssumption DEF FastParameters
    <3> QED
      BY <3>1, <3>2, <3>3, <1>t DEF Fast!IsStale
  <2>2. ASSUME NEW i \in FastInvocations, overLog[i] = "none" PROVE ~Fast!IsStale(i)
    BY <2>2 DEF Fast!IsStale
  <2> QED
    BY <2>0, <2>1, <2>2, <1>t DEF FastLiveRows, Fast!Live
<1>3. ASSUME NEW i \in FastInvocations, Fast!Invocation(i) PROVE FastLiveRows'
  <2>1. CASE Fast!Invoke(i)
    BY <2>1, <1>t DEF Fast!Invoke, FastLiveRows, Fast!Live
  <2>2. CASE Fast!OpenLog(i)
    <3>1. overStartedAt[i] =< overClock
      BY <2>2 DEF Fast!OpenLog, Fast!Live, Fast!TypeOK
    <3> QED
      BY <2>2, <3>1, <1>t DEF Fast!OpenLog, FastLiveRows, Fast!Live
  <2>3. CASE Fast!LaneEnds(i)
    BY <2>3, <1>t DEF Fast!LaneEnds, FastLiveRows, Fast!Live
  <2>4. CASE Fast!Begin(i) \/ Fast!CreateLease(i) \/ Fast!ReadLease(i) \/ Fast!ClaimLease(i)
    BY <2>4, <1>t DEF Fast!Begin, Fast!CreateLease, Fast!ReadLease, Fast!ClaimLease,
         FastLiveRows, Fast!Live
  <2>5. CASE Fast!StepStarts(i) \/ Fast!StepReturns(i) \/ Fast!ReleaseReads(i) \/ Fast!ReleaseDeletes(i)
               \/ Fast!ReleaseFails(i) \/ Fast!Dies(i)
    BY <2>5, <1>t DEF Fast!StepStarts, Fast!StepReturns, Fast!ReleaseReads, Fast!ReleaseDeletes,
       Fast!ReleaseFails, Fast!Dies, FastLiveRows, Fast!Live
  <2> QED
    BY <1>3, <2>1, <2>2, <2>3, <2>4, <2>5 DEF Fast!Invocation
<1> QED
  BY <1>1, <1>2, <1>3 DEF Fast!Next

FastLaneInv == FastLeaseInv /\ FastLiveRows

LEMMA FastLaneInvAtFirst == ASSUME FastParameters, Fast!Init PROVE FastLaneInv
<1>1. Fast!TypeOK
  BY TimesAssumption DEF FastParameters, Fast!Init, Fast!TypeOK, Fast!Steps, Fast!LogStates,
     Fast!Live
<1>2. \A i \in FastInvocations : overStep[i] = "idle" /\ overLog[i] = "none"
  BY DEF Fast!Init
<1>3. FastClocksAreRead /\ FastClaimsAreExpired /\ FastDeletesAreOwn /\ FastLiveRows
  BY <1>2 DEF FastClocksAreRead, FastClaimsAreExpired, FastDeletesAreOwn, FastLiveRows, Fast!Live
<1>4. Fast!HoldersHoldOrExpired
  BY <1>2 DEF Fast!HoldersHoldOrExpired, Fast!Holding, Fast!Inside
<1> QED
  BY <1>1, <1>3, <1>4 DEF FastLaneInv, FastLeaseInv

LEMMA FastLaneInvStep ==
  ASSUME FastParameters, FastLaneInv, [Fast!Next]_(Fast!vars)
  PROVE  FastLaneInv'
<1>1. Fast!TypeOK'
  BY FastTypeStep DEF FastLaneInv, FastLeaseInv
<1>2. FastLeaseInv'
  BY <1>1, FastLeaseStep DEF FastLaneInv
<1>3. FastLiveRows'
  BY FastLiveRowsStep DEF FastLaneInv, FastLeaseInv
<1> QED
  BY <1>2, <1>3 DEF FastLaneInv

LEMMA FastLaneInvSuffices ==
  ASSUME FastLaneInv
  PROVE  Fast!HoldersHoldOrExpired /\ Fast!RecoveryTouchesOnlyDead
  BY DEF FastLaneInv, FastLeaseInv, FastLiveRows, Fast!RecoveryTouchesOnlyDead, Fast!Live,
     Fast!TypeOK, Fast!Steps

\* Who deletes the row has read its own in it, and it is unchanged.
LEMMA FastReleaseIsOwn ==
  ASSUME FastParameters, FastLaneInv, [Fast!Next]_(Fast!vars),
         overLease' = Free, overLease # Free
  PROVE  overStep[overLease.holder] = "delete" /\ overStep'[overLease.holder] = "ended"
<1>t. Fast!TypeOK
  BY DEF FastLaneInv, FastLeaseInv
<1>1. PICK i \in FastInvocations : Fast!Invocation(i)
  BY DEF Fast!Next, Fast!vars, Fast!Tick, Fast!recoverStaleSyncRuns
<1>2. CASE Fast!ReleaseDeletes(i)
  <2>1. overStep[i] = "delete" /\ overLease = overRead[i] /\ overStep'[i] = "ended"
    BY <1>t, <1>2 DEF Fast!ReleaseDeletes, Fast!TypeOK
  <2>2. overRead[i].holder = i
    BY <2>1 DEF FastLaneInv, FastLeaseInv, FastDeletesAreOwn
  <2> QED
    BY <2>1, <2>2
<1>3. CASE Fast!CreateLease(i) \/ Fast!ClaimLease(i)
  <2>1. overLease' = Fast!LeaseOf(i)
    BY <1>3 DEF Fast!CreateLease, Fast!ClaimLease
  <2> QED
    BY <1>t, <2>1, FastLeaseOfType
<1> QED
  BY <1>1, <1>2, <1>3 DEF Fast!Invocation, Fast!Invoke, Fast!Begin, Fast!ReadLease, Fast!OpenLog,
     Fast!StepStarts, Fast!StepReturns, Fast!LaneEnds, Fast!ReleaseReads, Fast!ReleaseFails,
     Fast!Dies

\* Refusals need a lease, for any durations of the fresh lane and those of the standard
\* one whose lease lives as long as its functions: nobody is turned away but for a lease
\* that another one, dead or alive, had won and that had not expired; holders hold or have
\* expired, recovery spares the living, and a release removes its own lease.
THEOREM RefusalsNeedALeaseBesideOthers ==
  ASSUME FastParameters, LEASE_TTL >= MaxDuration
  PROVE  Services => RefusalsNeedALease
<1>1. ServicesInit => LeaseInv /\ RefusalInv /\ FastLaneInv
  BY LeaseInvAtFirst, RefusalInvAtFirst, FastLaneInvAtFirst DEF ServicesInit
<1>2. [ServicesNext]_servicesVars => [Next]_vars /\ [Fast!Next]_(Fast!vars)
  BY Zenon DEF ServicesNext, Only, servicesVars, overVars, Fast!vars
<1>3. LeaseInv /\ RefusalInv /\ [Next]_vars => LeaseInv' /\ RefusalInv'
  BY LeaseInvStep, RefusalStep
<1>4. FastLaneInv /\ [Fast!Next]_(Fast!vars) =>
        [overLease' = Free /\ overLease # Free =>
           overStep[overLease.holder] = "delete" /\ overStep'[overLease.holder] = "ended"]_(Fast!vars)
  BY FastReleaseIsOwn
<1>5. RefusalInv => RefusedForALease
  BY DEF RefusalInv
<1>6. FastLaneInv =>
        (focus = "fast" => Fast!HoldersHoldOrExpired /\ Fast!RecoveryTouchesOnlyDead)
  BY FastLaneInvSuffices
<1> QED
  BY <1>1, <1>2, <1>3, <1>4, <1>5, <1>6, FastLaneInvStep, PTL
     DEF Services, RefusalsNeedALease, Fast!ReleaseRemovesOwnLease

-----------------------------------------------------------------------------
(* The worker's lock, for any number of starts of the worker and of faults.  *)
(* What excludes two workers is the health port alone, never the file: the   *)
(* invariant of the first part says so, and needs none of that of the second.*)

\* What "nobody" is called is no worker.
LockParameters == None \notin Workers /\ MaxLockFaults \in Nat

\* A worker that polls is bound to the port.
PollersHoldThePort == \A w \in Workers : lockStep[w] = "working" => port = w

\* A worker judges an owner, never an empty record.
OwnersAreProbed == \A w \in Workers : lockStep[w] = "probe" => seen[w].owner # None

LockInv == Lock!LockTypeOK /\ OwnersAreProbed /\ PollersHoldThePort

\* A file somebody is about to fill.
LEMMA OpenedType ==
  ASSUME LockParameters, NEW ws \in SUBSET Workers
  PROVE  [owner |-> None, aged |-> FALSE, writers |-> ws] \in Lock!FileRecord
  BY DEF Lock!FileRecord

LEMMA FilledType ==
  ASSUME LockParameters, Lock!LockTypeOK, NEW w \in Workers, NEW f \in Lock!Filled(w)
  PROVE  f \in Lock!FileRecord \cup {None}
<1>1. CASE ~Lock!Writing(w)
  BY <1>1 DEF Lock!Filled, Lock!LockTypeOK
<1>2. CASE Lock!Writing(w)
  <2>1. file \in Lock!FileRecord
    BY <1>2 DEF Lock!Writing, Lock!LockTypeOK
  <2>2. PICK o \in {w, None} :
          f = [owner |-> o, aged |-> FALSE, writers |-> file.writers \ {w}]
    BY <1>2, Zenon DEF Lock!Filled
  <2> QED
    BY <2>1, <2>2 DEF Lock!FileRecord
<1> QED
  BY <1>1, <1>2

LEMMA ClosedType ==
  ASSUME LockParameters, Lock!LockTypeOK, NEW w \in Workers
  PROVE  Lock!Closed(file, w) \in Lock!FileRecord \cup {None}
  BY DEF Lock!Closed, Lock!LockTypeOK, Lock!FileRecord

\* The acquisition keeps the types.
LEMMA TypeOfAcquisition ==
  ASSUME LockParameters, Lock!LockTypeOK, OwnersAreProbed, NEW w \in Workers,
         Lock!Start(w) \/ Lock!Open(w) \/ Lock!Fill(w) \/ Lock!Inspect(w) \/ Lock!Probe(w) \/ Lock!Unlink(w)
  PROVE  Lock!LockTypeOK'
<1> USE DEF Lock!Goto, Lock!Steps, Lock!MaxAttempts
<1>1. CASE Lock!Start(w)
  <2>1. rival' \subseteq Workers
    BY <1>1 DEF Lock!Start, Lock!LockTypeOK
  <2> QED
    BY <1>1, <2>1 DEF Lock!Start, Lock!LockTypeOK
<1>2. CASE Lock!Open(w)
  <2>1. file' = [owner |-> None, aged |-> FALSE, writers |-> {w}] \/ file' = file
    BY <1>2, Zenon DEF Lock!Open
  <2>2. file' \in Lock!FileRecord \cup {None}
    BY <2>1, OpenedType DEF Lock!LockTypeOK
  <2> QED
    BY <1>2, <2>2 DEF Lock!Open, Lock!LockTypeOK
<1>3. CASE Lock!Fill(w)
  <2>1. file' \in Lock!FileRecord \cup {None}
    BY <1>3, FilledType DEF Lock!Fill
  <2> QED
    BY <1>3, <2>1 DEF Lock!Fill, Lock!LockTypeOK
<1>4. CASE Lock!Inspect(w)
  <2> DEFINE got == IF file = None THEN Lock!Unseen ELSE [owner |-> file.owner, aged |-> file.aged]
  <2>1. got \in Lock!SeenRecord
    BY DEF Lock!LockTypeOK, Lock!FileRecord, Lock!SeenRecord, Lock!Unseen
  <2>2. /\ seen' = [seen EXCEPT ![w] = got]
        /\ lockStep' = [lockStep EXCEPT ![w] = IF got.owner = None THEN "unlink" ELSE "probe"]
        /\ UNCHANGED <<file, port, attempt, hung, told, lockFaults, rival>>
    BY <1>4 DEF Lock!Inspect
  <2> HIDE DEF got
  <2> QED
    BY <2>1, <2>2 DEF Lock!LockTypeOK
<1>5. CASE Lock!Probe(w)
  <2>1. Lock!Unseen \in Lock!SeenRecord
    BY DEF Lock!Unseen, Lock!SeenRecord
  <2>2. seen[w].owner \in Workers
    BY <1>5 DEF Lock!Probe, Lock!LockTypeOK, OwnersAreProbed, Lock!SeenRecord
  <2>3. told' \subseteq Workers
    BY <1>5, <2>2 DEF Lock!Probe, Lock!LockTypeOK
  <2>4. lockStep' \in [Workers -> Lock!Steps] /\ attempt' \in [Workers -> 0..Lock!MaxAttempts]
    BY <1>5 DEF Lock!Probe, Lock!LockTypeOK
  <2>5. seen' \in [Workers -> Lock!SeenRecord]
    BY <1>5, <2>1 DEF Lock!Probe, Lock!LockTypeOK
  <2> QED
    BY <1>5, <2>3, <2>4, <2>5 DEF Lock!Probe, Lock!LockTypeOK
<1>6. CASE Lock!Unlink(w)
  BY <1>6 DEF Lock!Unlink, Lock!LockTypeOK
<1> QED
  BY <1>1, <1>2, <1>3, <1>4, <1>5, <1>6

\* So do the steps of a worker that holds the lock, or leaves it.
LEMMA TypeOfTenure ==
  ASSUME LockParameters, Lock!LockTypeOK, NEW w \in Workers,
         \/ Lock!Listen(w) \/ Lock!BeatOpens(w) \/ Lock!BeatFills(w) \/ Lock!Obey(w) \/ Lock!Stop(w)
         \/ Lock!ClosePort(w) \/ Lock!Release(w) \/ Lock!Remove(w)
  PROVE  Lock!LockTypeOK'
<1> USE DEF Lock!Goto, Lock!Exit, Lock!Steps
<1>1. CASE Lock!Listen(w)
  BY <1>1 DEF Lock!Listen, Lock!LockTypeOK
<1>2. CASE Lock!BeatOpens(w)
  <2> DEFINE ws == IF file = None THEN {w} ELSE file.writers \cup {w}
  <2>1. ws \in SUBSET Workers
    BY DEF Lock!LockTypeOK, Lock!FileRecord
  <2>2. file' = [owner |-> None, aged |-> FALSE, writers |-> ws]
    BY <1>2, Zenon DEF Lock!BeatOpens
  <2>3. file' \in Lock!FileRecord
    BY <2>1, <2>2, OpenedType
  <2> QED
    BY <1>2, <2>3 DEF Lock!BeatOpens, Lock!LockTypeOK
<1>3. CASE Lock!BeatFills(w)
  <2>1. file' \in Lock!FileRecord \cup {None}
    BY <1>3, FilledType DEF Lock!BeatFills
  <2> QED
    BY <1>3, <2>1 DEF Lock!BeatFills, Lock!LockTypeOK
<1>4. CASE Lock!Obey(w)
  BY <1>4 DEF Lock!Obey, Lock!LockTypeOK
<1>5. CASE Lock!Stop(w)
  BY <1>5 DEF LockParameters, Lock!Stop, Lock!LockTypeOK
<1>6. CASE Lock!ClosePort(w)
  BY <1>6 DEF Lock!ClosePort, Lock!LockTypeOK
<1>7. CASE Lock!Release(w)
  <2>1. file' \in Lock!FileRecord \cup {None}
    BY <1>7, ClosedType DEF Lock!Release, Lock!LockTypeOK
  <2> QED
    BY <1>7, <2>1 DEF Lock!Release, Lock!LockTypeOK
<1>8. CASE Lock!Remove(w)
  BY <1>8 DEF Lock!Remove, Lock!LockTypeOK
<1> QED
  BY <1>1, <1>2, <1>3, <1>4, <1>5, <1>6, <1>7, <1>8

\* So do the faults and the clock.
LEMMA TypeOfFaults ==
  ASSUME LockParameters, Lock!LockTypeOK,
         Lock!Ages \/ \E w \in Workers : Lock!Crash(w) \/ Lock!Hang(w) \/ Lock!Resume(w)
  PROVE  Lock!LockTypeOK'
<1> USE DEF Lock!Goto, Lock!Exit, Lock!Steps, Lock!MaxAttempts
<1>1. CASE Lock!Ages
  <2>1. file' \in Lock!FileRecord
    BY <1>1 DEF Lock!Ages, Lock!LockTypeOK, Lock!FileRecord
  <2> QED
    BY <1>1, <2>1 DEF Lock!Ages, Lock!LockTypeOK
<1>2. ASSUME NEW w \in Workers, Lock!Crash(w) PROVE Lock!LockTypeOK'
  <2>1. file' \in Lock!FileRecord \cup {None}
    BY <1>2, ClosedType DEF Lock!Crash
  <2>2. Lock!Unseen \in Lock!SeenRecord
    BY DEF Lock!Unseen, Lock!SeenRecord
  <2>3. lockFaults' \in 0..MaxLockFaults
    BY <1>2 DEF LockParameters, Lock!Crash, Lock!LockTypeOK
  <2>4. seen' \in [Workers -> Lock!SeenRecord]
    BY <1>2, <2>2 DEF Lock!Crash, Lock!LockTypeOK
  <2> QED
    BY <1>2, <2>1, <2>3, <2>4 DEF Lock!Crash, Lock!LockTypeOK
<1>3. ASSUME NEW w \in Workers, Lock!Hang(w) PROVE Lock!LockTypeOK'
  BY <1>3 DEF LockParameters, Lock!Hang, Lock!LockTypeOK
<1>4. ASSUME NEW w \in Workers, Lock!Resume(w) PROVE Lock!LockTypeOK'
  BY <1>4 DEF Lock!Resume, Lock!LockTypeOK
<1> QED
  BY <1>1, <1>2, <1>3, <1>4

\* A worker comes to "probe" by reading an owner.
LEMMA OwnersAreProbedStep ==
  ASSUME LockParameters, Lock!LockTypeOK, OwnersAreProbed, [Lock!Next]_(Lock!vars)
  PROVE  OwnersAreProbed'
<1> USE DEF OwnersAreProbed, Lock!LockTypeOK, Lock!Goto, Lock!Exit
<1>1. CASE UNCHANGED Lock!vars
  BY <1>1 DEF Lock!vars
<1>2. CASE Lock!Ages
  BY <1>2 DEF Lock!Ages
<1>3. ASSUME NEW w \in Workers, Lock!Worker(w) PROVE OwnersAreProbed'
  <2>1. CASE Lock!Start(w)
    BY <2>1 DEF Lock!Start
  <2>2. CASE Lock!Open(w)
    BY <2>2 DEF Lock!Open
  <2>3. CASE Lock!Fill(w)
    BY <2>3 DEF Lock!Fill
  <2>4. CASE Lock!Inspect(w)
    <3> DEFINE got == IF file = None THEN Lock!Unseen ELSE [owner |-> file.owner, aged |-> file.aged]
    <3>1. /\ seen' = [seen EXCEPT ![w] = got]
          /\ lockStep' = [lockStep EXCEPT ![w] = IF got.owner = None THEN "unlink" ELSE "probe"]
      BY <2>4 DEF Lock!Inspect
    <3> HIDE DEF got
    <3> QED
      BY <3>1
  <2>5. CASE Lock!Probe(w)
    <3>1. /\ lockStep'[w] \in {"unlink", "refused"}
          /\ \A v \in Workers \ {w} : lockStep'[v] = lockStep[v] /\ seen'[v] = seen[v]
      BY <2>5 DEF Lock!Probe
    <3> QED
      BY <3>1
  <2>6. CASE Lock!Unlink(w)
    BY <2>6 DEF Lock!Unlink
  <2>7. CASE Lock!Listen(w)
    BY <2>7 DEF Lock!Listen
  <2>8. CASE Lock!BeatOpens(w) \/ Lock!BeatFills(w)
    BY <2>8 DEF Lock!BeatOpens, Lock!BeatFills
  <2>9. CASE Lock!Obey(w) \/ Lock!Stop(w) \/ Lock!ClosePort(w)
    BY <2>9 DEF Lock!Obey, Lock!Stop, Lock!ClosePort
  <2>10. CASE Lock!Release(w)
    BY <2>10 DEF Lock!Release
  <2>11. CASE Lock!Remove(w)
    BY <2>11 DEF Lock!Remove
  <2>12. CASE Lock!Crash(w)
    BY <2>12 DEF Lock!Crash
  <2>13. CASE Lock!Hang(w) \/ Lock!Resume(w)
    BY <2>13 DEF Lock!Hang, Lock!Resume
  <2> QED
    BY <1>3, <2>1, <2>2, <2>3, <2>4, <2>5, <2>6, <2>7, <2>8, <2>9, <2>10, <2>11, <2>12, <2>13
       DEF Lock!Worker
<1> QED
  BY <1>1, <1>2, <1>3 DEF Lock!Next

\* A worker starts to poll when nobody has the port, and leaves it only afterwards.
LEMMA PollersHoldThePortStep ==
  ASSUME LockParameters, Lock!LockTypeOK, PollersHoldThePort, [Lock!Next]_(Lock!vars)
  PROVE  PollersHoldThePort'
<1> USE DEF PollersHoldThePort, Lock!LockTypeOK, Lock!Goto, Lock!Exit
<1>1. CASE UNCHANGED Lock!vars
  BY <1>1 DEF Lock!vars
<1>2. CASE Lock!Ages
  BY <1>2 DEF Lock!Ages
<1>3. ASSUME NEW w \in Workers, Lock!Worker(w) PROVE PollersHoldThePort'
  <2>1. CASE Lock!Start(w) \/ Lock!Open(w)
    BY <2>1 DEF Lock!Start, Lock!Open
  <2>2. CASE Lock!Fill(w)
    BY <2>2 DEF Lock!Fill
  <2>3. CASE Lock!Inspect(w)
    <3>1. port' = port /\ \A v \in Workers : lockStep'[v] = "working" => lockStep[v] = "working"
      BY <2>3 DEF Lock!Inspect
    <3> QED
      BY <3>1
  <2>4. CASE Lock!Probe(w)
    <3>1. port' = port /\ \A v \in Workers : lockStep'[v] = "working" => lockStep[v] = "working"
      BY <2>4 DEF Lock!Probe
    <3> QED
      BY <3>1
  <2>5. CASE Lock!Unlink(w)
    BY <2>5 DEF Lock!Unlink
  <2>6. CASE Lock!Listen(w)
    BY <2>6 DEF LockParameters, Lock!Listen
  <2>7. CASE Lock!BeatOpens(w) \/ Lock!BeatFills(w)
    BY <2>7 DEF Lock!BeatOpens, Lock!BeatFills
  <2>8. CASE Lock!Obey(w) \/ Lock!Stop(w)
    BY <2>8 DEF Lock!Obey, Lock!Stop
  <2>9. CASE Lock!ClosePort(w)
    BY <2>9 DEF Lock!ClosePort
  <2>10. CASE Lock!Release(w)
    BY <2>10 DEF Lock!Release
  <2>11. CASE Lock!Remove(w)
    BY <2>11 DEF Lock!Remove
  <2>12. CASE Lock!Crash(w)
    BY <2>12 DEF Lock!Crash
  <2>13. CASE Lock!Hang(w) \/ Lock!Resume(w)
    BY <2>13 DEF Lock!Hang, Lock!Resume
  <2> QED
    BY <1>3, <2>1, <2>2, <2>3, <2>4, <2>5, <2>6, <2>7, <2>8, <2>9, <2>10, <2>11, <2>12, <2>13
       DEF Lock!Worker
<1> QED
  BY <1>1, <1>2, <1>3 DEF Lock!Next

LEMMA LockInvAtFirst == ASSUME LockParameters, Lock!Init PROVE LockInv
  BY DEF LockParameters, Lock!Init, LockInv, Lock!LockTypeOK, OwnersAreProbed,
     PollersHoldThePort, Lock!Steps, Lock!SeenRecord, Lock!Unseen, Lock!MaxAttempts

LEMMA LockInvStep == ASSUME LockParameters, LockInv, [Lock!Next]_(Lock!vars) PROVE LockInv'
<1>1. Lock!LockTypeOK'
  <2>1. CASE UNCHANGED Lock!vars
    BY <2>1 DEF LockInv, Lock!LockTypeOK, Lock!vars
  <2>2. CASE Lock!Next
    BY <2>2, TypeOfAcquisition, TypeOfTenure, TypeOfFaults DEF LockInv, Lock!Next, Lock!Worker
  <2> QED
    BY <2>1, <2>2
<1> QED
  BY <1>1, OwnersAreProbedStep, PollersHoldThePortStep DEF LockInv

LEMMA LockInvariant == ASSUME LockParameters PROVE Lock!Spec => []LockInv
  BY LockInvAtFirst, LockInvStep, PTL DEF Lock!Spec

-----------------------------------------------------------------------------
(* The refinement                                                            *)

\* Two workers that poll would have the same port.
LEMMA PollersAreOne ==
  ASSUME LockParameters, LockInv
  PROVE  \A v, w \in Lock!Pollers : v = w
  BY DEF LockInv, PollersHoldThePort, Lock!Pollers

\* A step moves one worker.
LEMMA OneWorkerMoves ==
  ASSUME LockParameters, Lock!LockTypeOK, [Lock!Next]_(Lock!vars)
  PROVE  \/ lockStep' = lockStep
         \/ \E w \in Workers : \A v \in Workers \ {w} : lockStep'[v] = lockStep[v]
<1> USE DEF Lock!LockTypeOK, Lock!Goto, Lock!Exit
<1>1. CASE UNCHANGED Lock!vars \/ Lock!Ages
  BY <1>1 DEF Lock!vars, Lock!Ages
<1>2. ASSUME NEW w \in Workers, Lock!Worker(w)
      PROVE  lockStep' = lockStep \/ \A v \in Workers \ {w} : lockStep'[v] = lockStep[v]
  <2>1. CASE Lock!Start(w) \/ Lock!Open(w) \/ Lock!Fill(w) \/ Lock!Unlink(w)
    BY <2>1 DEF Lock!Start, Lock!Open, Lock!Fill, Lock!Unlink
  <2>2. CASE Lock!Inspect(w) \/ Lock!Probe(w)
    BY <2>2 DEF Lock!Inspect, Lock!Probe
  <2>3. CASE Lock!Listen(w) \/ Lock!BeatOpens(w) \/ Lock!BeatFills(w) \/ Lock!Obey(w) \/ Lock!Stop(w)
    BY <2>3 DEF Lock!Listen, Lock!BeatOpens, Lock!BeatFills, Lock!Obey, Lock!Stop
  <2>4. CASE Lock!ClosePort(w) \/ Lock!Release(w) \/ Lock!Remove(w)
    BY <2>4 DEF Lock!ClosePort, Lock!Release, Lock!Remove
  <2>5. CASE Lock!Crash(w) \/ Lock!Hang(w) \/ Lock!Resume(w)
    BY <2>5 DEF Lock!Crash, Lock!Hang, Lock!Resume
  <2> QED
    BY <1>2, <2>1, <2>2, <2>3, <2>4, <2>5 DEF Lock!Worker
<1> QED
  BY <1>1, <1>2 DEF Lock!Next

\* A step admits a worker to an empty lane, empties the lane, or leaves it alone.
LEMMA PollersStep ==
  ASSUME LockParameters, LockInv, LockInv', [Lock!Next]_(Lock!vars)
  PROVE  [Lock!Queue!Next]_(Lock!Pollers)
<1>1. CASE lockStep' = lockStep
  BY <1>1 DEF Lock!Pollers
<1>2. ASSUME NEW w \in Workers, \A v \in Workers \ {w} : lockStep'[v] = lockStep[v]
      PROVE  [Lock!Queue!Next]_(Lock!Pollers)
  <2>1. \A v \in Workers \ {w} : v \in Lock!Pollers' <=> v \in Lock!Pollers
    BY <1>2 DEF Lock!Pollers
  <2>2. \A u, v \in Lock!Pollers : u = v
    BY PollersAreOne
  <2>3. \A u, v \in Lock!Pollers' : u = v
    BY DEF LockInv, PollersHoldThePort, Lock!Pollers
  <2>4. Lock!Pollers \subseteq Workers /\ Lock!Pollers' \subseteq Workers
    BY DEF Lock!Pollers
  <2>5. CASE w \in Lock!Pollers /\ w \notin Lock!Pollers'
    <3>1. Lock!Pollers = {w} /\ Lock!Pollers' = {}
      BY <2>1, <2>2, <2>4, <2>5
    <3> QED
      BY <3>1 DEF Lock!Queue!Next, Lock!Queue!Leave
  <2>6. CASE w \notin Lock!Pollers /\ w \in Lock!Pollers'
    <3>1. Lock!Pollers = {} /\ Lock!Pollers' = {w}
      BY <2>1, <2>3, <2>4, <2>6
    <3> QED
      BY <3>1 DEF Lock!Queue!Next, Lock!Queue!Enter
  <2>7. CASE w \in Lock!Pollers <=> w \in Lock!Pollers'
    BY <2>1, <2>4, <2>7
  <2> QED
    BY <2>5, <2>6, <2>7
<1> QED
  BY <1>1, <1>2, OneWorkerMoves DEF LockInv

LEMMA NobodyPollsAtFirst == ASSUME Lock!Init PROVE Lock!Queue!Init
  BY DEF Lock!Init, Lock!Queue!Init, Lock!Pollers

-----------------------------------------------------------------------------
(* Refusals                                                                  *)

Contending == {"open", "inspect", "probe", "unlink"}

\* Who is in its start while another worker is alive has a rival.
RivalsAreSeen ==
  \A w, o \in Workers :
    w # o /\ lockStep[w] \in Lock!Starting /\ Lock!Alive(o) => w \in rival

\* The file of a second attempt was created after the first attempt removed
\* another one, hence by a worker that is alive at that time.
SecondFileHasARival ==
  \A w \in Workers :
    /\ attempt[w] = 2
    /\ lockStep[w] \in {"inspect", "probe", "unlink"} \/ (lockStep[w] = "open" /\ file # None)
    => w \in rival

\* A worker that is still to acquire the lock is named nowhere.
ContendersOwnNothing ==
  \A w \in Workers :
    /\ lockStep[w] \in Contending \cup {"off"} => file = None \/ file.owner # w
    /\ lockStep[w] = "probe" => seen[w].owner # w

\* A pass through the loop is counted; a handle belongs to a live worker.
AttemptsAreCounted ==
  \A w \in Workers : lockStep[w] \in Contending => attempt[w] \in {1, 2}

LockRefusalInv ==
  /\ RivalsAreSeen /\ SecondFileHasARival /\ ContendersOwnNothing
  /\ AttemptsAreCounted /\ Lock!RefusedForALiveWorker

\* Only Start makes a worker alive, or puts it into its start.
LEMMA OnlyStartStarts ==
  ASSUME LockParameters, Lock!LockTypeOK, NEW w \in Workers, Lock!Worker(w), ~Lock!Start(w)
  PROVE  /\ \A v \in Workers : Lock!Alive(v)' => Lock!Alive(v)
         /\ \A v \in Workers : lockStep'[v] \in Lock!Starting => lockStep[v] \in Lock!Starting
         /\ rival' = rival
<1> USE DEF Lock!LockTypeOK, Lock!Goto, Lock!Exit, Lock!Alive, Lock!Over, Lock!Starting
<1>1. CASE Lock!Open(w)
  BY <1>1 DEF Lock!Open
<1>2. CASE Lock!Fill(w)
  BY <1>2 DEF Lock!Fill
<1>3. CASE Lock!Inspect(w)
  <2>1. /\ lockStep[w] = "inspect" /\ rival' = rival
        /\ lockStep' = [lockStep EXCEPT ![w] = "unlink"] \/ lockStep' = [lockStep EXCEPT ![w] = "probe"]
    BY <1>3 DEF Lock!Inspect
  <2> QED
    BY <2>1
<1>4. CASE Lock!Probe(w)
  <2>1. /\ lockStep[w] = "probe" /\ rival' = rival
        /\ lockStep' = [lockStep EXCEPT ![w] = "unlink"] \/ lockStep' = [lockStep EXCEPT ![w] = "refused"]
    BY <1>4 DEF Lock!Probe
  <2> QED
    BY <2>1
<1>5. CASE Lock!Unlink(w)
  BY <1>5 DEF Lock!Unlink
<1>6. CASE Lock!Listen(w)
  BY <1>6 DEF Lock!Listen
<1>7. CASE Lock!BeatOpens(w) \/ Lock!BeatFills(w)
  BY <1>7 DEF Lock!BeatOpens, Lock!BeatFills
<1>8. CASE Lock!Obey(w) \/ Lock!Stop(w) \/ Lock!ClosePort(w)
  BY <1>8 DEF Lock!Obey, Lock!Stop, Lock!ClosePort
<1>9. CASE Lock!Release(w) \/ Lock!Remove(w)
  BY <1>9 DEF Lock!Release, Lock!Remove
<1>10. CASE Lock!Crash(w)
  BY <1>10 DEF Lock!Crash
<1>11. CASE Lock!Hang(w) \/ Lock!Resume(w)
  BY <1>11 DEF Lock!Hang, Lock!Resume
<1> QED
  BY <1>1, <1>2, <1>3, <1>4, <1>5, <1>6, <1>7, <1>8, <1>9, <1>10, <1>11 DEF Lock!Worker

LEMMA RivalsAreSeenStep ==
  ASSUME LockParameters, Lock!LockTypeOK, RivalsAreSeen, [Lock!Next]_(Lock!vars)
  PROVE  RivalsAreSeen' /\ rival \subseteq rival'
<1>1. CASE UNCHANGED Lock!vars \/ Lock!Ages
  BY <1>1 DEF Lock!vars, Lock!Ages, RivalsAreSeen, Lock!Alive
<1>2. ASSUME NEW w \in Workers, Lock!Start(w) PROVE RivalsAreSeen' /\ rival \subseteq rival'
  <2> DEFINE rivals == {o \in Workers \ {w} : Lock!Alive(o)}
  <2>1. rival' = rival \cup {o \in rivals : lockStep[o] \in Lock!Starting}
                       \cup (IF rivals = {} THEN {} ELSE {w})
    BY <1>2, Zenon DEF Lock!Start
  <2>2. \A v \in Workers \ {w} : lockStep'[v] = lockStep[v]
    BY <1>2 DEF Lock!Start, Lock!Goto, Lock!LockTypeOK
  <2>3. ASSUME NEW v \in Workers, NEW o \in Workers, v # o, lockStep'[v] \in Lock!Starting, Lock!Alive(o)'
        PROVE  v \in rival'
    <3>1. CASE v = w
      <4>1. o \in rivals
        BY <2>2, <2>3, <3>1 DEF Lock!Alive
      <4> QED
        BY <2>1, <3>1, <4>1
    <3>2. CASE v # w /\ o = w
      <4>1. v \in rivals /\ lockStep[v] \in Lock!Starting
        BY <2>2, <2>3, <3>2 DEF Lock!Alive, Lock!Starting, Lock!Over
      <4> QED
        BY <2>1, <4>1
    <3>3. CASE v # w /\ o # w
      BY <2>1, <2>2, <2>3, <3>3 DEF RivalsAreSeen, Lock!Alive
    <3> QED
      BY <3>1, <3>2, <3>3
  <2> QED
    BY <2>1, <2>3 DEF RivalsAreSeen
<1>3. ASSUME NEW w \in Workers, Lock!Worker(w), ~Lock!Start(w) PROVE RivalsAreSeen' /\ rival \subseteq rival'
  BY <1>3, OnlyStartStarts DEF RivalsAreSeen
<1> QED
  BY <1>1, <1>2, <1>3 DEF Lock!Next

Tenure == {"working", "closing", "release", "remove"}

\* What a worker writes names itself, and then it has acquired the lock; who
\* creates the file acquires it, or has.
LEMMA FileMoves ==
  ASSUME LockParameters, Lock!LockTypeOK, NEW w \in Workers, Lock!Worker(w)
  PROVE  /\ file' # None =>
              \/ file'.owner = None
              \/ file # None /\ file'.owner = file.owner
              \/ file'.owner = w /\ lockStep[w] \in Tenure \cup {"fill"}
         /\ file = None /\ file' # None =>
              \/ lockStep[w] = "open" /\ lockStep'[w] = "fill"
              \/ lockStep[w] \in Tenure /\ lockStep' = lockStep
<1> USE DEF Lock!LockTypeOK, Tenure
<1>1. CASE \/ Lock!Start(w) \/ Lock!Inspect(w) \/ Lock!Probe(w) \/ Lock!Listen(w)
           \/ Lock!Obey(w) \/ Lock!Stop(w) \/ Lock!ClosePort(w)
           \/ Lock!Hang(w) \/ Lock!Resume(w)
  BY <1>1, Zenon DEF Lock!Start, Lock!Inspect, Lock!Probe, Lock!Listen, Lock!Obey, Lock!Stop,
       Lock!ClosePort, Lock!Hang, Lock!Resume
<1>2. CASE Lock!Open(w)
  <2>1. \/ file = None /\ file'.owner = None /\ lockStep' = [lockStep EXCEPT ![w] = "fill"]
        \/ file # None /\ file' = file
    BY <1>2 DEF Lock!Open, Lock!Goto
  <2> QED
    BY <1>2, <2>1 DEF Lock!Open
<1>3. CASE Lock!Fill(w) \/ Lock!BeatFills(w)
  <2>1. file' \in Lock!Filled(w) /\ lockStep[w] \in Tenure \cup {"fill"}
    BY <1>3 DEF Lock!Fill, Lock!BeatFills
  <2>2. CASE ~Lock!Writing(w)
    BY <2>1, <2>2 DEF Lock!Filled
  <2>3. CASE Lock!Writing(w)
    <3>1. PICK o \in {w, None} :
            file' = [owner |-> o, aged |-> FALSE, writers |-> file.writers \ {w}]
      BY <2>1, <2>3, Zenon DEF Lock!Filled
    <3> QED
      BY <2>1, <2>3, <3>1 DEF Lock!Writing
  <2> QED
    BY <2>2, <2>3
<1>4. CASE Lock!Unlink(w) \/ Lock!Remove(w)
  BY <1>4 DEF Lock!Unlink, Lock!Remove
<1>5. CASE Lock!BeatOpens(w)
  <2>1. file'.owner = None /\ lockStep[w] \in Tenure /\ lockStep' = lockStep
    BY <1>5 DEF Lock!BeatOpens
  <2> QED
    BY <2>1
<1>6. CASE Lock!Release(w) \/ Lock!Crash(w)
  <2>1. file' = file \/ file' = Lock!Closed(file, w)
    BY <1>6 DEF Lock!Release, Lock!Crash
  <2>2. Lock!Closed(file, w) # None => file # None /\ Lock!Closed(file, w).owner = file.owner
    BY DEF Lock!Closed, Lock!FileRecord
  <2> QED
    BY <2>1, <2>2
<1> QED
  BY <1>1, <1>2, <1>3, <1>4, <1>5, <1>6 DEF Lock!Worker

LEMMA AttemptsAreCountedStep ==
  ASSUME LockParameters, Lock!LockTypeOK, AttemptsAreCounted, [Lock!Next]_(Lock!vars)
  PROVE  AttemptsAreCounted'
<1> USE DEF AttemptsAreCounted, Lock!LockTypeOK, Lock!Goto, Lock!Exit, Contending,
        Lock!MaxAttempts
<1>1. CASE UNCHANGED Lock!vars \/ Lock!Ages
  BY <1>1 DEF Lock!vars, Lock!Ages
<1>2. ASSUME NEW w \in Workers, Lock!Worker(w) PROVE AttemptsAreCounted'
  <2>1. CASE Lock!Start(w) \/ Lock!Open(w) \/ Lock!Fill(w)
    BY <2>1 DEF Lock!Start, Lock!Open, Lock!Fill
  <2>2. CASE Lock!Inspect(w)
    <3>1. /\ lockStep[w] = "inspect" /\ attempt' = attempt
          /\ lockStep' = [lockStep EXCEPT ![w] = "unlink"] \/ lockStep' = [lockStep EXCEPT ![w] = "probe"]
      BY <2>2 DEF Lock!Inspect
    <3> QED
      BY <3>1
  <2>3. CASE Lock!Probe(w)
    <3>1. /\ lockStep[w] = "probe"
          /\ \/ lockStep' = [lockStep EXCEPT ![w] = "unlink"] /\ attempt' = attempt
             \/ lockStep' = [lockStep EXCEPT ![w] = "refused"] /\ attempt' = [attempt EXCEPT ![w] = 0]
      BY <2>3 DEF Lock!Probe
    <3> QED
      BY <3>1
  <2>4. CASE Lock!Unlink(w)
    BY <2>4 DEF Lock!Unlink
  <2>5. CASE \/ Lock!Listen(w) \/ Lock!BeatOpens(w) \/ Lock!BeatFills(w) \/ Lock!Obey(w)
             \/ Lock!Stop(w) \/ Lock!ClosePort(w)
    BY <2>5 DEF Lock!Listen, Lock!BeatOpens, Lock!BeatFills, Lock!Obey, Lock!Stop, Lock!ClosePort
  <2>6. CASE Lock!Release(w) \/ Lock!Remove(w)
    BY <2>6 DEF Lock!Release, Lock!Remove
  <2>7. CASE Lock!Crash(w) \/ Lock!Hang(w) \/ Lock!Resume(w)
    BY <2>7 DEF Lock!Crash, Lock!Hang, Lock!Resume
  <2> QED
    BY <1>2, <2>1, <2>2, <2>3, <2>4, <2>5, <2>6, <2>7 DEF Lock!Worker
<1> QED
  BY <1>1, <1>2 DEF Lock!Next

\* The moves of a contender, and of everybody else.
LEMMA ContendersMove ==
  ASSUME LockParameters, Lock!LockTypeOK, NEW w \in Workers, Lock!Worker(w), NEW v \in Workers
  PROVE  \/ lockStep'[v] \notin Contending \cup {"off", "refused"}
         \/ lockStep'[v] = lockStep[v] /\ attempt'[v] = attempt[v] /\ seen'[v] = seen[v]
         \/ v = w /\ (Lock!Start(w) \/ Lock!Open(w) \/ Lock!Inspect(w) \/ Lock!Probe(w) \/ Lock!Unlink(w))
<1> USE DEF Lock!LockTypeOK, Lock!Goto, Lock!Exit, Contending
<1>1. CASE Lock!Start(w) \/ Lock!Open(w) \/ Lock!Unlink(w)
  BY <1>1 DEF Lock!Start, Lock!Open, Lock!Unlink
<1>2. CASE Lock!Inspect(w)
  <2>1. v # w => lockStep'[v] = lockStep[v] /\ attempt'[v] = attempt[v] /\ seen'[v] = seen[v]
    BY <1>2 DEF Lock!Inspect
  <2> QED
    BY <1>2, <2>1
<1>3. CASE Lock!Probe(w)
  <2>1. v # w => lockStep'[v] = lockStep[v] /\ attempt'[v] = attempt[v] /\ seen'[v] = seen[v]
    BY <1>3 DEF Lock!Probe
  <2> QED
    BY <1>3, <2>1
<1>4. CASE Lock!Fill(w) \/ Lock!Listen(w) \/ Lock!BeatOpens(w) \/ Lock!BeatFills(w)
  BY <1>4 DEF Lock!Fill, Lock!Listen, Lock!BeatOpens, Lock!BeatFills
<1>5. CASE Lock!Obey(w) \/ Lock!Stop(w) \/ Lock!ClosePort(w)
  BY <1>5 DEF Lock!Obey, Lock!Stop, Lock!ClosePort
<1>6. CASE Lock!Release(w) \/ Lock!Remove(w)
  BY <1>6 DEF Lock!Release, Lock!Remove
<1>7. CASE Lock!Crash(w) \/ Lock!Hang(w) \/ Lock!Resume(w)
  BY <1>7 DEF Lock!Crash, Lock!Hang, Lock!Resume
<1> QED
  BY <1>1, <1>2, <1>3, <1>4, <1>5, <1>6, <1>7 DEF Lock!Worker

LEMMA ContendersOwnNothingStep ==
  ASSUME LockParameters, Lock!LockTypeOK, ContendersOwnNothing, [Lock!Next]_(Lock!vars)
  PROVE  ContendersOwnNothing'
<1>1. CASE UNCHANGED Lock!vars
  BY <1>1 DEF Lock!vars, ContendersOwnNothing
<1>2. CASE Lock!Ages
  <2>1. file'.owner = file.owner /\ file # None /\ UNCHANGED <<lockStep, seen>>
    BY <1>2 DEF Lock!Ages, Lock!LockTypeOK, Lock!FileRecord
  <2> QED
    BY <2>1 DEF ContendersOwnNothing
<1>3. ASSUME NEW w \in Workers, Lock!Worker(w), NEW v \in Workers
      PROVE  /\ lockStep'[v] \in Contending \cup {"off"} => file' = None \/ file'.owner # v
             /\ lockStep'[v] = "probe" => seen'[v].owner # v
  <2>1. lockStep'[v] \in Contending \cup {"off"} => lockStep[v] \in Contending \cup {"off"}
    <3>1. CASE v = w /\ (Lock!Start(w) \/ Lock!Open(w) \/ Lock!Inspect(w) \/ Lock!Probe(w) \/ Lock!Unlink(w))
      BY <3>1 DEF Lock!Start, Lock!Open, Lock!Inspect, Lock!Probe, Lock!Unlink, Contending
    <3> QED
      BY <1>3, <3>1, ContendersMove
  <2>2. lockStep'[v] \in Contending \cup {"off"} => file' = None \/ file'.owner # v
    BY <1>3, <2>1, FileMoves
       DEF LockParameters, ContendersOwnNothing, Contending, Tenure
  <2>3. lockStep'[v] = "probe" => seen'[v].owner # v
    <3>1. CASE v = w /\ Lock!Inspect(w)
      <4> DEFINE got == IF file = None THEN Lock!Unseen ELSE [owner |-> file.owner, aged |-> file.aged]
      <4>1. got.owner = IF file = None THEN None ELSE file.owner
        BY DEF Lock!Unseen
      <4>2. seen' = [seen EXCEPT ![w] = got] /\ lockStep[w] = "inspect"
        BY <3>1 DEF Lock!Inspect
      <4>3. seen'[w].owner = got.owner
        <5> HIDE DEF got
        <5> QED
          BY <4>2 DEF Lock!LockTypeOK
      <4>4. file = None \/ file.owner # w
        BY <4>2 DEF ContendersOwnNothing, Contending
      <4> QED
        BY <3>1, <4>1, <4>3, <4>4 DEF LockParameters
    <3>2. CASE v = w /\ (Lock!Start(w) \/ Lock!Open(w) \/ Lock!Probe(w) \/ Lock!Unlink(w))
      BY <3>2 DEF Lock!Start, Lock!Open, Lock!Probe, Lock!Unlink, Lock!Goto, Lock!LockTypeOK
    <3> QED
      BY <1>3, <3>1, <3>2, ContendersMove DEF ContendersOwnNothing, Contending
  <2> QED
    BY <2>2, <2>3
<1> QED
  BY <1>1, <1>2, <1>3 DEF Lock!Next, ContendersOwnNothing

LEMMA SecondFileHasARivalStep ==
  ASSUME LockParameters, Lock!LockTypeOK, RivalsAreSeen, SecondFileHasARival, rival \subseteq rival',
         [Lock!Next]_(Lock!vars)
  PROVE  SecondFileHasARival'
<1>1. CASE UNCHANGED Lock!vars
  BY <1>1 DEF Lock!vars, SecondFileHasARival
<1>2. CASE Lock!Ages
  BY <1>2 DEF Lock!Ages, SecondFileHasARival
<1>3. ASSUME NEW w \in Workers, Lock!Worker(w), NEW v \in Workers, attempt'[v] = 2,
             lockStep'[v] \in {"inspect", "probe", "unlink"} \/ (lockStep'[v] = "open" /\ file' # None)
      PROVE  v \in rival'
  <2>1. CASE v = w /\ Lock!Start(w)
    BY <1>3, <2>1 DEF Lock!Start, Lock!LockTypeOK
  <2>2. CASE v = w /\ Lock!Open(w)
    BY <1>3, <2>2 DEF Lock!Open, Lock!Goto, Lock!LockTypeOK, SecondFileHasARival
  <2>3. CASE v = w /\ Lock!Inspect(w)
    BY <1>3, <2>3 DEF Lock!Inspect, SecondFileHasARival
  <2>4. CASE v = w /\ Lock!Probe(w)
    <3>1. lockStep[w] = "probe" /\ attempt[w] = 2
      BY <1>3, <2>4 DEF Lock!Probe, Lock!LockTypeOK
    <3> QED
      BY <2>4, <3>1 DEF SecondFileHasARival
  <2>5. CASE v = w /\ Lock!Unlink(w)
    BY <1>3, <2>5 DEF Lock!Unlink, Lock!Goto, Lock!LockTypeOK
  <2>6. CASE lockStep'[v] = lockStep[v] /\ attempt'[v] = attempt[v]
    <3>1. CASE file # None \/ lockStep[v] # "open"
      BY <1>3, <2>6, <3>1 DEF SecondFileHasARival
    <3>2. CASE file = None /\ lockStep[v] = "open"
      <4>1. file' # None
        BY <1>3, <2>6, <3>2
      <4>2. v # w /\ Lock!Alive(w)
        BY <1>3, <2>6, <3>2, <4>1, FileMoves DEF Tenure, Lock!Alive, Lock!Over
      <4> QED
        BY <3>2, <4>2 DEF RivalsAreSeen, Lock!Starting
    <3> QED
      BY <3>1, <3>2
  <2> QED
    BY <1>3, <2>1, <2>2, <2>3, <2>4, <2>5, <2>6, ContendersMove DEF Contending
<1> QED
  BY <1>1, <1>2, <1>3 DEF Lock!Next, SecondFileHasARival

LEMMA RefusedForALiveWorkerStep ==
  ASSUME LockParameters, Lock!LockTypeOK, OwnersAreProbed, LockRefusalInv, rival \subseteq rival',
         [Lock!Next]_(Lock!vars)
  PROVE  Lock!RefusedForALiveWorker'
<1> USE DEF LockRefusalInv
<1>1. CASE UNCHANGED Lock!vars \/ Lock!Ages
  BY <1>1 DEF Lock!vars, Lock!Ages, Lock!RefusedForALiveWorker
<1>2. ASSUME NEW w \in Workers, Lock!Worker(w), NEW v \in Workers, lockStep'[v] = "refused"
      PROVE  v \in rival'
  <2>1. CASE v = w /\ Lock!Probe(w)
    <3>1. lockStep[w] = "probe" /\ ~Lock!IsStale(w)
      BY <1>2, <2>1 DEF Lock!Probe, Lock!Goto, Lock!LockTypeOK
    <3>2. seen[w].owner \in Workers \ {w} /\ Lock!Alive(seen[w].owner)
      BY <3>1 DEF Lock!IsStale, OwnersAreProbed, ContendersOwnNothing, Lock!LockTypeOK,
           Lock!SeenRecord
    <3> QED
      BY <2>1, <3>1, <3>2 DEF RivalsAreSeen, Lock!Starting
  <2>2. CASE v = w /\ Lock!Unlink(w)
    <3>1. lockStep[w] = "unlink" /\ attempt[w] = 2
      BY <1>2, <2>2 DEF Lock!Unlink, Lock!Goto, Lock!LockTypeOK, AttemptsAreCounted,
           Contending, Lock!MaxAttempts
    <3> QED
      BY <2>2, <3>1 DEF SecondFileHasARival
  <2>3. CASE v = w /\ (Lock!Start(w) \/ Lock!Open(w) \/ Lock!Inspect(w))
    BY <1>2, <2>3 DEF Lock!Start, Lock!Open, Lock!Inspect, Lock!Goto, Lock!LockTypeOK
  <2> QED
    BY <1>2, <2>1, <2>2, <2>3, ContendersMove DEF Lock!RefusedForALiveWorker
<1> QED
  BY <1>1, <1>2 DEF Lock!Next, Lock!RefusedForALiveWorker

LEMMA LockRefusalAtFirst == ASSUME LockParameters, Lock!Init PROVE LockRefusalInv
  BY DEF Lock!Init, LockRefusalInv, RivalsAreSeen, SecondFileHasARival, ContendersOwnNothing,
     AttemptsAreCounted, Lock!RefusedForALiveWorker, Lock!Starting, Contending

LEMMA LockRefusalStep ==
  ASSUME LockParameters, LockInv, LockRefusalInv, [Lock!Next]_(Lock!vars)
  PROVE  LockRefusalInv'
  BY RivalsAreSeenStep, SecondFileHasARivalStep, ContendersOwnNothingStep,
     AttemptsAreCountedStep, RefusedForALiveWorkerStep DEF LockInv, LockRefusalInv

LEMMA LockRefusalInvariant == ASSUME LockParameters PROVE Lock!Spec => []LockRefusalInv
  BY LockInvariant, LockRefusalAtFirst, LockRefusalStep, PTL DEF Lock!Spec

\* A file that a crash left behind never costs a start: a worker that exits as a
\* duplicate had another worker beside it.
THEOREM NobodyRefusedForNothing ==
  ASSUME LockParameters
  PROVE  Lock!Spec => []Lock!RefusedForALiveWorker
<1>1. LockRefusalInv => Lock!RefusedForALiveWorker
  BY DEF LockRefusalInv
<1> QED
  BY <1>1, LockRefusalInvariant, PTL

-----------------------------------------------------------------------------
(* Contenders without faults                                                 *)

\* Without faults nobody hangs, is told to stop, or dies.
AllAreWell ==
  hung = {} /\ told = {} /\ \A w \in Workers : lockStep[w] \notin {"failed", "dead"}

\* A record that grew old names a worker that has ended, in the file and at its reader.
AgedAreOver ==
  /\ file # None /\ file.aged => file.owner \in Workers /\ lockStep[file.owner] \in Lock!Over \ {"off"}
  /\ \A w \in Workers :
       lockStep[w] = "probe" /\ seen[w].aged => lockStep[seen[w].owner] \in Lock!Over \ {"off"}

\* Who has the port polls; who found it taken met the one that has it.
PortIsPolled ==
  /\ port # None => lockStep[port] = "working"
  /\ \A w \in Workers :
       lockStep[w] \in {"closing", "release", "remove", "stopped"} => port # None

\* Who has created the file goes on to the port.
Acquired == {"fill", "listen", "working", "closing", "release", "remove", "stopped"}

\* Who found a file, or was refused, was preceded by one who created it.
SomebodyAcquired ==
  file # None \/ (\E w \in Workers : lockStep[w] \in {"inspect", "probe", "unlink", "refused"})
    => \E v \in Workers : lockStep[v] \in Acquired

Peace == lockFaults = 0 => AllAreWell /\ AgedAreOver /\ PortIsPolled /\ SomebodyAcquired

\* Faults are counted, and never taken back.
LEMMA FaultsStay ==
  ASSUME LockParameters, Lock!LockTypeOK, NEW w \in Workers, Lock!Worker(w), lockFaults' = 0
  PROVE  lockFaults = 0 /\ ~Lock!Crash(w) /\ ~Lock!Hang(w) /\ ~Lock!Stop(w)
<1>1. lockFaults \in Nat
  BY DEF LockParameters, Lock!LockTypeOK
<1> QED
  BY <1>1 DEF Lock!Worker, Lock!Start, Lock!Open, Lock!Fill, Lock!Inspect, Lock!Probe,
       Lock!Unlink, Lock!Listen, Lock!BeatOpens, Lock!BeatFills,
     Lock!Obey, Lock!Stop, Lock!ClosePort, Lock!Release, Lock!Remove, Lock!Crash, Lock!Hang,
     Lock!Resume

\* The moves of a worker while there are no faults.
LEMMA PeacefulMoves ==
  ASSUME LockParameters, LockInv, Peace, NEW w \in Workers, Lock!Worker(w), lockFaults' = 0
  PROVE  /\ \A v \in Workers \ {w} : lockStep'[v] = lockStep[v]
         /\ \/ lockStep'[w] = lockStep[w]
            \/ lockStep[w] = "off" /\ lockStep'[w] = "open"
            \/ lockStep[w] = "open" /\ file = None /\ lockStep'[w] = "fill"
            \/ lockStep[w] = "open" /\ file # None /\ lockStep'[w] = "inspect"
            \/ lockStep[w] = "fill" /\ lockStep'[w] = "listen"
            \/ lockStep[w] = "inspect" /\ lockStep'[w] \in {"probe", "unlink"}
            \/ lockStep[w] = "probe" /\ lockStep'[w] \in {"unlink", "refused"}
            \/ lockStep[w] = "unlink" /\ lockStep'[w] \in {"open", "refused"}
            \/ lockStep[w] = "listen" /\ port = None /\ lockStep'[w] = "working"
            \/ lockStep[w] = "listen" /\ port # None /\ lockStep'[w] = "closing"
            \/ lockStep[w] = "closing" /\ lockStep'[w] = "release"
            \/ lockStep[w] = "release" /\ lockStep'[w] \in {"remove", "stopped"}
            \/ lockStep[w] = "remove" /\ lockStep'[w] = "stopped"
         /\ hung' = {} /\ told' = {}
         /\ port' = port \/ (lockStep'[w] = "working" /\ port' = w)
<1> USE DEF LockInv, Lock!LockTypeOK, Lock!Goto, Lock!Exit
<1>0. lockFaults = 0 /\ ~Lock!Crash(w) /\ ~Lock!Hang(w) /\ ~Lock!Stop(w) /\ hung = {} /\ told = {}
  BY FaultsStay DEF Peace, AllAreWell
<1>1. CASE Lock!Start(w) \/ Lock!Open(w) \/ Lock!Fill(w) \/ Lock!Unlink(w)
  BY <1>0, <1>1 DEF Lock!Start, Lock!Open, Lock!Fill, Lock!Unlink
<1>2. CASE Lock!Inspect(w)
  <2>1. /\ lockStep[w] = "inspect" /\ UNCHANGED <<port, hung, told>>
        /\ lockStep' = [lockStep EXCEPT ![w] = "unlink"] \/ lockStep' = [lockStep EXCEPT ![w] = "probe"]
    BY <1>2 DEF Lock!Inspect
  <2> QED
    BY <1>0, <2>1
<1>3. CASE Lock!Probe(w)
  <2>1. /\ lockStep[w] = "probe" /\ UNCHANGED <<port, hung>>
        /\ lockStep' = [lockStep EXCEPT ![w] = "unlink"] \/ lockStep' = [lockStep EXCEPT ![w] = "refused"]
    BY <1>3 DEF Lock!Probe
  <2>2. Lock!IsStale(w) => ~Lock!Alive(seen[w].owner)
    BY <1>0, <2>1 DEF Lock!IsStale, Peace, AgedAreOver, Lock!Alive
  <2>3. told' = {}
    BY <1>0, <1>3, <2>2 DEF Lock!Probe
  <2> QED
    BY <1>0, <2>1, <2>3
<1>4. CASE Lock!Listen(w) \/ Lock!BeatOpens(w) \/ Lock!BeatFills(w) \/ Lock!Resume(w)
  BY <1>0, <1>4 DEF Lock!Listen, Lock!BeatOpens, Lock!BeatFills, Lock!Resume
<1>5. CASE Lock!Obey(w)
  BY <1>0, <1>5 DEF Lock!Obey
<1>6. CASE Lock!ClosePort(w)
  <2>1. port # w
    BY <1>0, <1>6 DEF LockParameters, Lock!ClosePort, Peace, PortIsPolled
  <2> QED
    BY <1>0, <1>6, <2>1 DEF Lock!ClosePort
<1>7. CASE Lock!Release(w) \/ Lock!Remove(w)
  BY <1>0, <1>7 DEF Lock!Release, Lock!Remove
<1> QED
  BY <1>0, <1>1, <1>2, <1>3, <1>4, <1>5, <1>6, <1>7 DEF Lock!Worker

\* Only time makes a record old.
LEMMA AgedFile ==
  ASSUME LockParameters, Lock!LockTypeOK, NEW w \in Workers, Lock!Worker(w), file' # None, file'.aged
  PROVE  file # None /\ file.aged /\ file'.owner = file.owner
<1> USE DEF Lock!LockTypeOK
<1>1. CASE \/ Lock!Start(w) \/ Lock!Inspect(w) \/ Lock!Probe(w) \/ Lock!Listen(w)
           \/ Lock!Obey(w) \/ Lock!Stop(w) \/ Lock!ClosePort(w)
           \/ Lock!Hang(w) \/ Lock!Resume(w)
  BY <1>1, Zenon DEF Lock!Start, Lock!Inspect, Lock!Probe, Lock!Listen, Lock!Obey, Lock!Stop,
       Lock!ClosePort, Lock!Hang, Lock!Resume
<1>2. CASE Lock!Open(w) \/ Lock!BeatOpens(w)
  <2>1. file' = file \/ ~file'.aged
    BY <1>2 DEF Lock!Open, Lock!BeatOpens
  <2> QED
    BY <2>1
<1>3. CASE Lock!Fill(w) \/ Lock!BeatFills(w)
  <2>1. file' \in Lock!Filled(w)
    BY <1>3 DEF Lock!Fill, Lock!BeatFills
  <2>2. file' = file \/ ~file'.aged
    BY <2>1 DEF Lock!Filled
  <2> QED
    BY <2>2
<1>4. CASE Lock!Unlink(w) \/ Lock!Remove(w)
  BY <1>4 DEF Lock!Unlink, Lock!Remove
<1>5. CASE Lock!Release(w) \/ Lock!Crash(w)
  <2>1. file' = file \/ file' = Lock!Closed(file, w)
    BY <1>5 DEF Lock!Release, Lock!Crash
  <2>2. Lock!Closed(file, w) # None =>
          file # None /\ Lock!Closed(file, w).owner = file.owner /\ Lock!Closed(file, w).aged = file.aged
    BY DEF Lock!Closed, Lock!FileRecord
  <2> QED
    BY <2>1, <2>2
<1> QED
  BY <1>1, <1>2, <1>3, <1>4, <1>5 DEF Lock!Worker

LEMMA PeaceStep ==
  ASSUME LockParameters, LockInv, ContendersOwnNothing, Peace, NEW w \in Workers, Lock!Worker(w)
  PROVE  Peace'
<1> SUFFICES ASSUME lockFaults' = 0
             PROVE  (AllAreWell /\ AgedAreOver /\ PortIsPolled /\ SomebodyAcquired)'
  BY DEF Peace
<1>0. lockFaults = 0 /\ ~Lock!Crash(w) /\ AllAreWell /\ AgedAreOver /\ PortIsPolled /\ SomebodyAcquired
  BY FaultsStay DEF Peace, LockInv
<1>m. lockStep \in [Workers -> Lock!Steps] /\ lockStep' \in [Workers -> Lock!Steps]
  BY TypeOfAcquisition, TypeOfTenure, TypeOfFaults DEF LockInv, Lock!LockTypeOK, Lock!Worker
<1>1. AllAreWell'
  BY <1>0, PeacefulMoves DEF AllAreWell
<1>2. \A v \in Workers : lockStep[v] \in Lock!Over \ {"off"} => lockStep'[v] = lockStep[v]
  BY PeacefulMoves DEF Lock!Over
<1>3. AgedAreOver'
  <2>1. file' # None /\ file'.aged => file'.owner \in Workers /\ lockStep'[file'.owner] \in Lock!Over \ {"off"}
    BY <1>0, <1>2, AgedFile DEF AgedAreOver, LockInv
  <2>2. ASSUME NEW v \in Workers, lockStep'[v] = "probe", seen'[v].aged
        PROVE  lockStep'[seen'[v].owner] \in Lock!Over \ {"off"}
    <3>1. CASE v = w /\ Lock!Inspect(w)
      <4> DEFINE got == IF file = None THEN Lock!Unseen ELSE [owner |-> file.owner, aged |-> file.aged]
      <4>1. seen' = [seen EXCEPT ![w] = got]
        BY <3>1 DEF Lock!Inspect
      <4>2. got = seen'[w]
        <5> HIDE DEF got
        <5> QED
          BY <4>1 DEF LockInv, Lock!LockTypeOK
      <4>3. file # None /\ file.aged /\ got.owner = file.owner
        BY <2>2, <3>1, <4>2 DEF Lock!Unseen
      <4> QED
        BY <1>0, <1>2, <3>1, <4>2, <4>3 DEF AgedAreOver
    <3>2. CASE v = w /\ (Lock!Start(w) \/ Lock!Open(w) \/ Lock!Probe(w) \/ Lock!Unlink(w))
      BY <2>2, <3>2 DEF Lock!Start, Lock!Open, Lock!Probe, Lock!Unlink, Lock!Goto, LockInv,
           Lock!LockTypeOK
    <3>3. CASE lockStep'[v] = lockStep[v] /\ seen'[v] = seen[v]
      <4>1. seen[v].owner \in Workers
        BY <2>2, <3>3 DEF LockInv, OwnersAreProbed, Lock!LockTypeOK, Lock!SeenRecord
      <4> QED
        BY <1>0, <1>2, <2>2, <3>3, <4>1 DEF AgedAreOver
    <3> QED
      BY <2>2, <3>1, <3>2, <3>3, ContendersMove DEF Contending, LockInv
  <2> QED
    BY <2>1, <2>2 DEF AgedAreOver
<1>4. PortIsPolled'
  <2>1. port' # None => lockStep'[port'] = "working"
    <3>1. port # None => port \in Workers /\ lockStep'[port] = "working"
      BY <1>0, PeacefulMoves DEF PortIsPolled, LockInv, Lock!LockTypeOK
    <3> QED
      BY <3>1, PeacefulMoves
  <2>2. port # None => port' # None
    BY PeacefulMoves DEF LockParameters
  <2>3. \A v \in Workers : lockStep'[v] \in {"closing", "release", "remove", "stopped"} => port # None
    BY <1>0, PeacefulMoves DEF PortIsPolled
  <2> QED
    BY <2>1, <2>2, <2>3 DEF PortIsPolled
<1>5. SomebodyAcquired'
  <2>1. \A v \in Workers : lockStep[v] \in Acquired => lockStep'[v] \in Acquired
    BY PeacefulMoves DEF Acquired
  <2>2. CASE lockStep'[w] = "fill"
    BY <2>2 DEF SomebodyAcquired, Acquired
  <2>3. CASE \E v \in Workers : lockStep[v] \in Acquired
    BY <2>1, <2>3 DEF SomebodyAcquired
  <2>4. CASE lockStep'[w] # "fill" /\ ~\E v \in Workers : lockStep[v] \in Acquired
    <3>1. file = None /\ \A v \in Workers : lockStep[v] \notin {"inspect", "probe", "unlink", "refused"}
      BY <1>0, <2>4 DEF SomebodyAcquired
    <3>2. file' = None
      BY <2>4, <3>1, FileMoves DEF LockInv, Tenure, Acquired
    <3>3. \A v \in Workers : lockStep'[v] \notin {"inspect", "probe", "unlink", "refused"}
      BY <3>1, PeacefulMoves
    <3> QED
      BY <3>2, <3>3 DEF SomebodyAcquired
  <2> QED
    BY <2>2, <2>3, <2>4
<1> QED
  BY <1>1, <1>3, <1>4, <1>5

\* A record grows old when its owner has ended, as nobody hangs.
LEMMA PeaceAges ==
  ASSUME LockParameters, LockInv, ContendersOwnNothing, Peace, Lock!Ages
  PROVE  Peace'
<1>1. /\ UNCHANGED <<port, lockStep, seen, hung, told, lockFaults>>
      /\ file # None /\ file.owner # None /\ file'.owner = file.owner
      /\ ~Lock!Running(file.owner)
  BY DEF Lock!Ages, LockInv, Lock!LockTypeOK, Lock!FileRecord
<1>2. file.owner \in Workers
  BY <1>1 DEF LockInv, Lock!LockTypeOK, Lock!FileRecord
<1>3. lockFaults = 0 => lockStep[file.owner] \in Lock!Over \ {"off"}
  BY <1>1, <1>2 DEF Peace, AllAreWell, Lock!Running, Lock!Alive, ContendersOwnNothing
<1>4. AllAreWell => AllAreWell'
  BY <1>1 DEF AllAreWell
<1>5. lockFaults = 0 /\ AgedAreOver => AgedAreOver'
  BY <1>1, <1>2, <1>3 DEF AgedAreOver
<1>6. PortIsPolled => PortIsPolled'
  BY <1>1 DEF PortIsPolled
<1>7. SomebodyAcquired => SomebodyAcquired'
  BY <1>1 DEF SomebodyAcquired
<1> QED
  BY <1>1, <1>4, <1>5, <1>6, <1>7 DEF Peace

LEMMA PeaceSuffices ==
  ASSUME LockParameters, LockInv, Peace
  PROVE  Lock!NotAllTurnedAway
<1> SUFFICES ASSUME lockFaults = 0, \A w \in Workers : lockStep[w] \in Lock!Over \cup {"working"},
                    NEW u \in Workers, lockStep[u] # "off"
             PROVE  Lock!Pollers # {}
  BY DEF Lock!NotAllTurnedAway
<1>1. AllAreWell /\ PortIsPolled /\ SomebodyAcquired
  BY DEF Peace
<1>2. CASE lockStep[u] = "working"
  BY <1>2 DEF Lock!Pollers
<1>3. CASE lockStep[u] \in {"refused", "stopped"}
  <2>1. PICK v \in Workers : lockStep[v] \in Acquired
    BY <1>1, <1>3 DEF SomebodyAcquired, Acquired
  <2>2. lockStep[v] \in {"working", "stopped"}
    BY <2>1 DEF Acquired, Lock!Over
  <2>3. lockStep[v] = "stopped" => port \in Workers /\ lockStep[port] = "working"
    BY <1>1 DEF PortIsPolled, LockInv, Lock!LockTypeOK
  <2> QED
    BY <2>2, <2>3 DEF Lock!Pollers
<1> QED
  BY <1>1, <1>2, <1>3 DEF AllAreWell, Lock!Over

LEMMA PeaceAtFirst == ASSUME Lock!Init PROVE Peace
  BY DEF Lock!Init, Peace, AllAreWell, AgedAreOver, PortIsPolled, SomebodyAcquired

LEMMA PeaceIsKept ==
  ASSUME LockParameters, LockInv, LockRefusalInv, Peace, [Lock!Next]_(Lock!vars)
  PROVE  Peace'
<1>1. CASE UNCHANGED Lock!vars
  BY <1>1 DEF Lock!vars, Peace, AllAreWell, AgedAreOver, PortIsPolled, SomebodyAcquired
<1> QED
  BY <1>1, PeaceStep, PeaceAges DEF Lock!Next, LockRefusalInv

\* Without a crash, a hang or a stop, contenders do not all turn each other away: when
\* every start is over, one of them polls.
THEOREM SomebodyPolls ==
  ASSUME LockParameters
  PROVE  Lock!Spec => []Lock!NotAllTurnedAway
  BY LockInvariant, LockRefusalInvariant, PeaceAtFirst, PeaceIsKept, PeaceSuffices, PTL
     DEF Lock!Spec

\* The same of the worker beside the other services: one worker polls the queue of runs
\* at a time, none is refused for a dead one, and contenders do not all turn each other
\* away.
THEOREM OneOfThreePollsBesideOthers ==
  ASSUME LockParameters
  PROVE  Services => OneOfThreePolls
<1>1. ServicesInit => LockInv /\ LockRefusalInv /\ Peace /\ Lock!Queue!Init
  BY LockInvAtFirst, LockRefusalAtFirst, PeaceAtFirst, NobodyPollsAtFirst DEF ServicesInit
<1>2. [ServicesNext]_servicesVars => [Lock!Next]_(Lock!vars)
  BY Zenon DEF ServicesNext, Only, servicesVars, lockVars, Lock!vars
<1>3. LockInv /\ LockRefusalInv /\ Peace /\ [Lock!Next]_(Lock!vars) =>
        LockInv' /\ LockRefusalInv' /\ Peace'
  BY LockInvStep, LockRefusalStep, PeaceIsKept
<1>4. LockInv /\ LockInv' /\ [Lock!Next]_(Lock!vars) => [Lock!Queue!Next]_(Lock!Pollers)
  BY PollersStep
<1>5. LockInv /\ LockRefusalInv /\ Peace =>
        (focus = "lock" => Lock!RefusedForALiveWorker /\ Lock!NotAllTurnedAway)
  BY PeaceSuffices DEF LockRefusalInv
<1> QED
  BY <1>1, <1>2, <1>3, <1>4, <1>5, PTL
     DEF Services, OneOfThreePolls, Lock!OnePoller, Lock!Queue!Spec

-----------------------------------------------------------------------------
(* The types of all services side by side.                                   *)

\* What the proofs about each service take of its constants.
AllParameters ==
  /\ CursorParameters /\ FastParameters /\ PapersParameters /\ MailParameters
  /\ BrowserParameters /\ TickerParameters /\ AnswersParameters /\ LockParameters
  /\ LocalParameters /\ IdentityParameters /\ FreshParameters /\ BoardsParameters
  /\ CompaniesParameters /\ IsFiniteSet(Companies)

\* What each service keeps.
LanesInv == TypeOK /\ FastLaneInv /\ CursorInv /\ LockInv
WorkInv == PapersInv /\ BrowserInv /\ AnswersInv /\ MailInv
RadarsInv == TickerInv /\ TotalsAreCounted /\ RadarInv /\ BoardsInv /\ CompaniesInv /\ RotationInv
StackInv == LocalInv /\ RowsInv

\* All of it holds in the initial states ...
LEMMA EachAtFirst ==
  ASSUME AllParameters, ServicesInit
  PROVE  LanesInv /\ WorkInv /\ RadarsInv /\ StackInv
<1>1. /\ Init /\ Fast!Init /\ CursorInit /\ Lock!Init /\ Papers!Init /\ Browser!Init
      /\ Answers!Init /\ Mailbox!Init /\ Ticker!Init /\ Fresh!Init /\ Boards!Init
      /\ Polling!Init /\ Local!Init /\ Identity!Init
  BY DEF ServicesInit
<1>2. LanesInv
  <2>1. TypeOK
    BY <1>1, LeaseInvAtFirst DEF LeaseInv
  <2>2. FastLaneInv /\ CursorInv /\ LockInv
    BY <1>1, FastLaneInvAtFirst, InitEstablishes, LockInvAtFirst DEF AllParameters
  <2> QED
    BY <2>1, <2>2 DEF LanesInv
<1>3. WorkInv
  BY <1>1, PapersInvAtFirst, BrowserInvAtFirst, AnswersInvAtFirst, MailInvAtFirst
     DEF AllParameters, WorkInv
<1>4. RadarsInv
  BY <1>1, TickerInvAtFirst, TotalsAreCountedAtFirst, RadarInvAtFirst, BoardsInvAtFirst, CompaniesInvAtFirst,
     RotationAtFirst DEF AllParameters, RadarsInv
<1>5. StackInv
  BY <1>1, LocalInvAtFirst, IdentityAtFirst DEF AllParameters, StackInv
<1> QED
  BY <1>2, <1>3, <1>4, <1>5

\* A step of one service is a step of it, and none of the others.
LEMMA EachByItself ==
  ASSUME [ServicesNext]_servicesVars
  PROVE  /\ [Next]_vars /\ [Fast!Next]_(Fast!vars) /\ [CursorNext]_cursorVars
         /\ [Lock!Next]_(Lock!vars) /\ [Papers!Next]_documentVars
         /\ [Browser!Next]_(Browser!managerVars) /\ [Answers!Next]_answersVars
         /\ [Mailbox!Next]_(Mailbox!gmailVars) /\ [Ticker!Next]_tickVars
         /\ [Fresh!Next]_freshVars /\ [Boards!Next]_boardVars
         /\ [Polling!Next]_(Polling!companyVars) /\ [Local!Next]_supervisorVars
         /\ [Identity!Next]_(Identity!identityVars)
<1>1. [Next]_vars /\ [Fast!Next]_(Fast!vars) /\ [CursorNext]_cursorVars
  BY Zenon DEF ServicesNext, Only, servicesVars, overVars, Fast!vars
<1>2. [Lock!Next]_(Lock!vars) /\ [Papers!Next]_documentVars
  BY Zenon DEF ServicesNext, Only, servicesVars, lockVars, Lock!vars
<1>3. [Browser!Next]_(Browser!managerVars) /\ [Answers!Next]_answersVars
  BY Zenon DEF ServicesNext, Only, servicesVars, managerVars, Browser!managerVars
<1>4. [Mailbox!Next]_(Mailbox!gmailVars) /\ [Ticker!Next]_tickVars
  BY Zenon DEF ServicesNext, Only, servicesVars, gmailVars, Mailbox!gmailVars
<1>5. [Fresh!Next]_freshVars /\ [Boards!Next]_boardVars
  BY Zenon DEF ServicesNext, Only, servicesVars
<1>6. [Polling!Next]_(Polling!companyVars)
  BY Zenon DEF ServicesNext, Only, servicesVars, companyVars, Polling!companyVars, Polling!pageVars
<1>7. [Local!Next]_supervisorVars /\ [Identity!Next]_(Identity!identityVars)
  BY Zenon DEF ServicesNext, Only, servicesVars, identityVars, Identity!identityVars
<1> QED
  BY <1>1, <1>2, <1>3, <1>4, <1>5, <1>6, <1>7

\* ... is kept by every step ...
LEMMA EachStep ==
  ASSUME AllParameters, LanesInv, WorkInv, RadarsInv, StackInv, [ServicesNext]_servicesVars
  PROVE  LanesInv' /\ WorkInv' /\ RadarsInv' /\ StackInv'
<1>1. LanesInv'
  BY EachByItself, TypeStep, FastLaneInvStep, StepKeeps, LockInvStep DEF AllParameters, LanesInv
<1>2. WorkInv'
  BY EachByItself, PapersInvStep, BrowserInvStep, AnswersInvStep, MailInvStep
     DEF AllParameters, WorkInv
<1>3. RadarsInv'
  BY EachByItself, TickerInvStep, TotalsAreCountedStep, RadarInvStep, BoardsInvStep, CompaniesInvStep, RotationStep
     DEF AllParameters, RadarsInv
<1>4. StackInv'
  BY EachByItself, LocalInvStep, RowsInvStep DEF AllParameters, StackInv
<1> QED
  BY <1>1, <1>2, <1>3, <1>4

\* ... and says that the variables are of their types.
LEMMA EachIsTyped ==
  ASSUME AllParameters, LanesInv, WorkInv, RadarsInv, StackInv
  PROVE  TypesOK
<1>1. TypeOK /\ Fast!TypeOK /\ CursorTypeOK /\ Lock!LockTypeOK
  BY DEF LanesInv, FastLaneInv, FastLeaseInv, CursorInv, LockInv
<1>2. Papers!DocumentsTypeOK /\ Mailbox!GmailTypeOK
  BY PapersInvSuffices, MailInvSuffices DEF WorkInv
<1>3. Browser!BrowserTypeOK /\ Answers!AnswersTypeOK
  BY DEF WorkInv, BrowserInv, AnswersInv, AnswersTypes
<1>4. Ticker!SchedulerTypeOK /\ Fresh!FreshTypeOK
  BY SchedulerIsTyped DEF AllParameters, RadarsInv, RadarInv, RadarTypes
<1>5. Boards!BoardsTypeOK
  BY DEF RadarsInv, BoardsInv, BoardTypes, BoardRows, Boards!BoardsTypeOK
<1>6. Polling!CompaniesTypeOK
  BY RegistryIsTyped DEF RadarsInv
<1>7. Local!SupervisorTypeOK /\ Identity!IdentityTypeOK
  BY LocalInvSuffices, IdentityInvSuffices DEF AllParameters, StackInv
<1> QED
  BY <1>1, <1>2, <1>3, <1>4, <1>5, <1>6, <1>7 DEF TypesOK

\* Every variable of every service keeps its type, for any number of functions, workers,
\* runs, documents, mails, processes, sightings and companies; the order of the checks
\* (lastCheckedAt) remains one of all companies, whatever checks fail.
THEOREM EachKeepsItsTypesBesideOthers ==
  ASSUME AllParameters
  PROVE  Services => []TypesOK
<1> DEFINE Inv == LanesInv /\ WorkInv /\ RadarsInv /\ StackInv
<1>1. ServicesInit => Inv
  BY EachAtFirst
<1>2. Inv /\ [ServicesNext]_servicesVars => Inv'
  BY EachStep
<1>3. Inv => TypesOK
  BY EachIsTyped
<1> QED
  BY <1>1, <1>2, <1>3, PTL DEF Services
=============================================================================
