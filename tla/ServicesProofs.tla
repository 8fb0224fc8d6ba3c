----------------------------- MODULE ServicesProofs -----------------------------
(***************************************************************************)
(* Proofs about services of MCServices, each for any values of its         *)
(* constants and as it is composed with the others.                        *)
(***************************************************************************)
EXTENDS MCServices, SequenceTheorems, FiniteSetTheorems, TLAPS

-----------------------------------------------------------------------------
(* The scheduler                                                             *)

Amounts == [newJobs : Nat, errors : Nat]

\* What "no row" is called is no row.
TickerParameters == MaxTicks \in Nat /\ None \notin Amounts

TickStages == {"new", "scheduled", "registers", "look", "enter", "pass", "read", "write", "done"}

TickTypes ==
  /\ row \in Amounts \union {None} /\ recorded \in Amounts
  /\ frozen \subseteq Ticker!Ticks
  /\ tick \in [Ticker!Ticks -> [at : TickStages, seen : Amounts \union {None},
                                result : {Ticker!Nothing, Ticker!New, Ticker!Error}]]
  /\ \A t \in Ticker!Ticks : tick[t].at = "write" => tick[t].seen # None

\* Updates of the row that do not cross: the one under way was read from the row as
\* it still is.
UpdatesAreFresh ==
  ~ticksCrossed =>
    \A t \in Ticker!Ticks : Ticker!Updating(t) =>
      tick[t].seen = row /\ \A u \in Ticker!Ticks : Ticker!Updating(u) => t = u

\* The pause lasts for those that have seen nothing else, and they have not looked at
\* it yet, or have ended.
FrozenAreEarly ==
  \A t \in frozen : paused /\ tick[t].at \in {"scheduled", "registers", "look", "done"}

TickerInv ==
  /\ TickTypes /\ UpdatesAreFresh /\ FrozenAreEarly
  /\ Ticker!GuardFollowsThePass /\ Ticker!TotalsAddUp

LEMMA TotalsAreAmounts ==
  /\ {Ticker!Nothing, Ticker!New, Ticker!Error} \subseteq Amounts
  /\ \A x, y \in Amounts : Ticker!Plus(x, y) \in Amounts
  BY DEF Amounts, Ticker!Nothing, Ticker!New, Ticker!Error, Ticker!Plus

LEMMA TickerInvAtFirst == ASSUME TickerParameters, Ticker!Init PROVE TickerInv
<1>1. TickTypes
  BY TotalsAreAmounts
     DEF Ticker!Init, TickTypes, TickStages, Ticker!Waiting
<1>2. \A t \in Ticker!Ticks : tick[t].at = "new"
  BY DEF Ticker!Init, Ticker!Waiting
<1>3. UpdatesAreFresh /\ FrozenAreEarly
  BY <1>2 DEF Ticker!Init, UpdatesAreFresh, FrozenAreEarly, Ticker!Updating
<1>4. Ticker!GuardFollowsThePass /\ Ticker!TotalsAddUp
  BY <1>2 DEF Ticker!Init, Ticker!GuardFollowsThePass, Ticker!TotalsAddUp
<1> QED
  BY <1>1, <1>3, <1>4 DEF TickerInv

\* What a tick is and stays is a record; changing one leaves the others.
LEMMA TickStep ==
  ASSUME TickerParameters, TickerInv, NEW t \in Ticker!Ticks,
         \/ Ticker!ScheduleReads(t) \/ Ticker!ScheduleWrites(t) \/ Ticker!LookAtPause(t)
         \/ Ticker!Enter(t) \/ Ticker!PassEnds(t) \/ Ticker!RecordReads(t)
         \/ Ticker!RecordWrites(t) \/ Ticker!RecordFails(t) \/ Ticker!TickFails(t)
  PROVE  TickerInv'
<1> USE DEF TickerInv, TickTypes, TickStages
<1>1. CASE Ticker!ScheduleReads(t)
  <2> USE <1>1 DEF Ticker!ScheduleReads
  <2>1. TickTypes'
    OBVIOUS
  <2>2. UpdatesAreFresh'
    <3>1. row' = row /\ tick'[t].seen = row
      OBVIOUS
    <3>2. \A u \in Ticker!Ticks \ {t} : tick'[u] = tick[u]
      OBVIOUS
    <3>3. ~ticksCrossed' => \A u \in Ticker!Ticks \ {t} : ~Ticker!Updating(u)
      BY Zenon DEF Ticker!Crosses
    <3>4. ~ticksCrossed' => \A u \in Ticker!Ticks \ {t} : ~Ticker!Updating(u)'
      BY <3>2, <3>3 DEF Ticker!Updating
    <3> QED
      BY <3>1, <3>4 DEF UpdatesAreFresh
  <2>3. FrozenAreEarly'
    BY DEF FrozenAreEarly
  <2>4. Ticker!GuardFollowsThePass'
    BY DEF Ticker!GuardFollowsThePass
  <2>5. Ticker!TotalsAddUp'
    BY DEF Ticker!TotalsAddUp, Ticker!Crosses
  <2> QED
    BY <2>1, <2>2, <2>3, <2>4, <2>5
<1>2. CASE Ticker!ScheduleWrites(t)
  <2> USE <1>2 DEF Ticker!ScheduleWrites
  <2>1. TickTypes'
    BY TotalsAreAmounts
  <2>2. UpdatesAreFresh'
    BY DEF UpdatesAreFresh, Ticker!Updating
  <2>3. FrozenAreEarly'
    BY DEF FrozenAreEarly
  <2>4. Ticker!GuardFollowsThePass'
    BY DEF Ticker!GuardFollowsThePass
  <2>5. Ticker!TotalsAddUp'
    BY TotalsAreAmounts DEF Ticker!TotalsAddUp, UpdatesAreFresh, Ticker!Updating, TickerParameters
  <2> QED
    BY <2>1, <2>2, <2>3, <2>4, <2>5
<1>3. CASE Ticker!LookAtPause(t)
  <2> USE <1>3 DEF Ticker!LookAtPause, Ticker!Done, Ticker!Waiting
  <2>1. TickTypes'
    OBVIOUS
  <2>2. UpdatesAreFresh'
    BY DEF UpdatesAreFresh, Ticker!Updating
  <2>3. FrozenAreEarly'
    BY DEF FrozenAreEarly
  <2>4. Ticker!GuardFollowsThePass'
    BY DEF Ticker!GuardFollowsThePass
  <2>5. Ticker!TotalsAddUp'
    BY DEF Ticker!TotalsAddUp
  <2> QED
    BY <2>1, <2>2, <2>3, <2>4, <2>5
<1>4. CASE Ticker!Enter(t)
  <2> USE <1>4 DEF Ticker!Enter
  <2>1. TickTypes'
    OBVIOUS
  <2>2. UpdatesAreFresh'
    BY DEF UpdatesAreFresh, Ticker!Updating
  <2>3. FrozenAreEarly'
    BY DEF FrozenAreEarly
  <2>4. Ticker!GuardFollowsThePass'
    BY DEF Ticker!GuardFollowsThePass
  <2>5. Ticker!TotalsAddUp'
    BY DEF Ticker!TotalsAddUp
  <2> QED
    BY <2>1, <2>2, <2>3, <2>4, <2>5
<1>5. CASE Ticker!PassEnds(t)
  <2> USE <1>5 DEF Ticker!PassEnds
  <2>1. TickTypes'
    OBVIOUS
  <2>2. UpdatesAreFresh'
    BY DEF UpdatesAreFresh, Ticker!Updating
  <2>3. FrozenAreEarly'
    BY DEF FrozenAreEarly
  <2>4. Ticker!GuardFollowsThePass'
    BY DEF Ticker!GuardFollowsThePass
  <2>5. Ticker!TotalsAddUp'
    BY DEF Ticker!TotalsAddUp
  <2> QED
    BY <2>1, <2>2, <2>3, <2>4, <2>5
<1>6. CASE Ticker!RecordReads(t)
  <2> USE <1>6 DEF Ticker!RecordReads, Ticker!Done, Ticker!Waiting
  <2>1. TickTypes'
    OBVIOUS
  <2>2. UpdatesAreFresh'
    <3>1. row' = row /\ (tick'[t].at = "write" => tick'[t].seen = row)
          /\ tick'[t].at \in {"write", "done"}
      OBVIOUS
    <3>2. \A u \in Ticker!Ticks \ {t} : tick'[u] = tick[u]
      OBVIOUS
    <3>3. ~ticksCrossed' => \A u \in Ticker!Ticks \ {t} : ~Ticker!Updating(u)
      BY Zenon DEF Ticker!Crosses
    <3>4. ~ticksCrossed' => \A u \in Ticker!Ticks \ {t} : ~Ticker!Updating(u)'
      BY <3>2, <3>3 DEF Ticker!Updating
    <3> QED
      BY <3>1, <3>4 DEF UpdatesAreFresh, Ticker!Updating
  <2>3. FrozenAreEarly'
    BY DEF FrozenAreEarly
  <2>4. Ticker!GuardFollowsThePass'
    BY DEF Ticker!GuardFollowsThePass
  <2>5. Ticker!TotalsAddUp'
    BY DEF Ticker!TotalsAddUp, Ticker!Crosses
  <2> QED
    BY <2>1, <2>2, <2>3, <2>4, <2>5
<1>7. CASE Ticker!RecordWrites(t)
  <2> USE <1>7 DEF Ticker!RecordWrites, Ticker!Done, Ticker!Waiting
  <2>1. TickTypes'
    BY TotalsAreAmounts
  <2>2. UpdatesAreFresh'
    BY DEF UpdatesAreFresh, Ticker!Updating
  <2>3. FrozenAreEarly'
    BY DEF FrozenAreEarly
  <2>4. Ticker!GuardFollowsThePass'
    BY DEF Ticker!GuardFollowsThePass
  <2>5. Ticker!TotalsAddUp'
    BY TotalsAreAmounts DEF Ticker!TotalsAddUp, UpdatesAreFresh, Ticker!Updating, TickerParameters
  <2> QED
    BY <2>1, <2>2, <2>3, <2>4, <2>5
<1>8. CASE Ticker!RecordFails(t)
  <2> USE <1>8 DEF Ticker!RecordFails, Ticker!Done, Ticker!Waiting
  <2>1. TickTypes'
    OBVIOUS
  <2>2. UpdatesAreFresh'
    BY DEF UpdatesAreFresh, Ticker!Updating
  <2>3. FrozenAreEarly'
    BY DEF FrozenAreEarly
  <2>4. Ticker!GuardFollowsThePass'
    BY DEF Ticker!GuardFollowsThePass
  <2>5. Ticker!TotalsAddUp'
    BY DEF Ticker!TotalsAddUp
  <2> QED
    BY <2>1, <2>2, <2>3, <2>4, <2>5
<1>9. CASE Ticker!TickFails(t)
  <2> USE <1>9 DEF Ticker!TickFails, Ticker!Done, Ticker!Waiting
  <2>1. TickTypes'
    OBVIOUS
  <2>2. UpdatesAreFresh'
    BY DEF UpdatesAreFresh, Ticker!Updating
  <2>3. FrozenAreEarly'
    BY DEF FrozenAreEarly
  <2>4. Ticker!GuardFollowsThePass'
    BY DEF Ticker!GuardFollowsThePass
  <2>5. Ticker!TotalsAddUp'
    BY DEF Ticker!TotalsAddUp
  <2> QED
    BY <2>1, <2>2, <2>3, <2>4, <2>5
<1> QED
  BY <1>1, <1>2, <1>3, <1>4, <1>5, <1>6, <1>7, <1>8, <1>9

LEMMA TickerInvStep ==
  ASSUME TickerParameters, TickerInv, [Ticker!Next]_tickVars PROVE TickerInv'
<1>1. CASE UNCHANGED tickVars
  BY <1>1
     DEF tickVars, TickerInv, TickTypes, UpdatesAreFresh, FrozenAreEarly, Ticker!Updating,
         Ticker!GuardFollowsThePass, Ticker!TotalsAddUp
<1>2. CASE Ticker!SetPaused
  BY <1>2
     DEF Ticker!SetPaused, TickerInv, TickTypes, UpdatesAreFresh, FrozenAreEarly, Ticker!Updating,
         Ticker!GuardFollowsThePass, Ticker!TotalsAddUp
<1>3. CASE Ticker!Restart
  <2> USE <1>3 DEF Ticker!Restart, Ticker!Done, Ticker!Waiting, TickerInv, TickTypes
  <2>1. TickTypes'
    BY DEF TickStages
  <2>2. \A t \in Ticker!Ticks : tick'[t].at \in {"new", "done"} /\ (tick'[t].at = "new" => tick[t].at = "new")
    OBVIOUS
  <2>3. UpdatesAreFresh' /\ FrozenAreEarly'
    BY <2>2 DEF UpdatesAreFresh, FrozenAreEarly, Ticker!Updating
  <2>4. Ticker!GuardFollowsThePass' /\ Ticker!TotalsAddUp'
    BY <2>2 DEF Ticker!GuardFollowsThePass, Ticker!TotalsAddUp
  <2> QED
    BY <2>1, <2>3, <2>4
<1> QED
  BY <1>1, <1>2, <1>3, TickStep DEF Ticker!Next

\* Ticks that overlap start one pass at a time, the totals of their reports add up
\* unless two updates of the row crossed, and a tick that has seen nothing but a
\* pause does no work (scheduler.ts, schedulerState.ts): for any number of ticks.
THEOREM TicksAreGuarded ==
  ASSUME TickerParameters
  PROVE  Ticker!Spec =>
           [](Ticker!GuardFollowsThePass /\ Ticker!TotalsAddUp /\ Ticker!PauseHolds)
<1>1. Ticker!Init => TickerInv
  BY TickerInvAtFirst
<1>2. TickerInv /\ [Ticker!Next]_(Ticker!schedulerVars) => TickerInv'
  BY TickerInvStep DEF tickVars, Ticker!schedulerVars
<1>3. TickerInv => Ticker!GuardFollowsThePass /\ Ticker!TotalsAddUp /\ Ticker!PauseHolds
  BY DEF TickerInv, FrozenAreEarly, Ticker!PauseHolds
<1> QED
  BY <1>1, <1>2, <1>3, PTL DEF Ticker!Spec

\* So does the scheduler beside the other services.
THEOREM TicksAreRecordedBesideOthers ==
  ASSUME TickerParameters
  PROVE  Services => []TicksAreRecorded
<1>1. ServicesInit => TickerInv
  BY TickerInvAtFirst DEF ServicesInit
<1>2. TickerInv /\ [ServicesNext]_servicesVars => TickerInv'
  <2> SUFFICES ASSUME TickerInv, [ServicesNext]_servicesVars PROVE TickerInv'
    OBVIOUS
  <2>1. [Ticker!Next]_tickVars
    BY Zenon DEF ServicesNext, Only, servicesVars
  <2> QED
    BY <2>1, TickerInvStep
<1>3. TickerInv => TicksAreRecorded
  BY DEF TickerInv, FrozenAreEarly, Ticker!PauseHolds, TicksAreRecorded
<1> QED
  BY <1>1, <1>2, <1>3, PTL DEF Services

-----------------------------------------------------------------------------
(* Its totals are of their type: they count the ticks that ended.            *)

\* The ticks that ended: each has reported once at most.
Ended == {t \in Ticker!Ticks : tick[t].at = "done"}
Within(total, n) == total.newJobs <= n /\ total.errors <= n

\* No total, read or recorded, exceeds the number of ticks that ended.
TotalsAreCounted ==
  /\ paused \in BOOLEAN /\ running \in BOOLEAN /\ ticksCrossed \in BOOLEAN
  /\ Within(recorded, Cardinality(Ended))
  /\ row # None => Within(row, Cardinality(Ended))
  /\ \A t \in Ticker!Ticks : tick[t].seen # None => Within(tick[t].seen, Cardinality(Ended))

LEMMA EndedAreFinite ==
  ASSUME TickerParameters
  PROVE  /\ IsFiniteSet(Ended) /\ Cardinality(Ended) \in 0..MaxTicks
         /\ IsFiniteSet(Ended') /\ Cardinality(Ended') \in 0..MaxTicks
         /\ Ended \subseteq Ended' => Cardinality(Ended) <= Cardinality(Ended')
<1>1. MaxTicks \in Nat /\ Ended \subseteq 1..MaxTicks /\ Ended' \subseteq 1..MaxTicks
  BY DEF TickerParameters, Ended, Ticker!Ticks
<1>2. IsFiniteSet(1..MaxTicks) /\ Cardinality(1..MaxTicks) = MaxTicks
  <2>1. 1 \in Int /\ MaxTicks \in Int /\ (IF 1 <= MaxTicks THEN MaxTicks - 1 + 1 ELSE 0) = MaxTicks
    BY <1>1
  <2> QED
    BY <2>1, FS_Interval
<1>3. IsFiniteSet(Ended) /\ Cardinality(Ended) <= MaxTicks
  BY <1>1, <1>2, FS_Subset
<1>4. IsFiniteSet(Ended') /\ Cardinality(Ended') <= MaxTicks
  BY <1>1, <1>2, FS_Subset
<1>5. Cardinality(Ended) \in Nat /\ Cardinality(Ended') \in Nat
  BY <1>3, <1>4, FS_CardinalityType
<1>6. Ended \subseteq Ended' => Cardinality(Ended) <= Cardinality(Ended')
  BY <1>4, FS_Subset
<1> QED
  BY <1>1, <1>3, <1>4, <1>5, <1>6

\* A step that records nothing writes and reads what is there.
LEMMA NothingIsAdded ==
  ASSUME TickerParameters, TickerInv, TotalsAreCounted, TickTypes',
         paused' \in BOOLEAN, running' \in BOOLEAN, ticksCrossed' \in BOOLEAN,
         recorded' = recorded,
         \/ row' = row \/ row' = Ticker!Nothing
         \/ \E t \in Ticker!Ticks : tick[t].seen # None /\ row' = tick[t].seen,
         \A t \in Ticker!Ticks :
           /\ tick[t].at = "done" => tick'[t].at = "done"
           /\ tick'[t].seen \in {tick[t].seen, row, None}
  PROVE  TotalsAreCounted'
<1> DEFINE m == Cardinality(Ended)
           n == Cardinality(Ended')
<1>1. m \in Nat /\ n \in Nat /\ m <= n
  <2>1. Ended \subseteq Ended'
    BY DEF Ended
  <2> QED
    BY <2>1, EndedAreFinite
<1>2. ASSUME NEW total \in Amounts, Within(total, m) PROVE Within(total, n)
  BY <1>1, <1>2 DEF Within, Amounts
<1>3. Ticker!Nothing \in Amounts /\ Within(Ticker!Nothing, n)
  BY <1>1 DEF Within, Amounts, Ticker!Nothing
<1>4. /\ recorded \in Amounts /\ Within(recorded, m)
      /\ row \in Amounts \union {None} /\ (row # None => Within(row, m))
      /\ \A t \in Ticker!Ticks : /\ tick[t].seen \in Amounts \union {None}
                                 /\ tick[t].seen # None => Within(tick[t].seen, m)
  BY DEF TickerInv, TickTypes, TotalsAreCounted
<1> HIDE DEF m, n
<1>5. Within(recorded, n)
  BY <1>2, <1>4
<1>6. row' # None => Within(row', n)
  BY <1>2, <1>3, <1>4
<1>7. \A t \in Ticker!Ticks : tick'[t].seen # None => Within(tick'[t].seen, n)
  BY <1>2, <1>4
<1> QED
  BY <1>5, <1>6, <1>7 DEF TotalsAreCounted, n

\* A report is the last step of its tick.
LEMMA OneIsAdded ==
  ASSUME TickerParameters, TickerInv, TotalsAreCounted, NEW t \in Ticker!Ticks,
         Ticker!RecordWrites(t)
  PROVE  TotalsAreCounted'
<1> DEFINE m == Cardinality(Ended)
           n == Cardinality(Ended')
<1>1. /\ tick \in [Ticker!Ticks -> [at : TickStages, seen : Amounts \union {None},
                                result : {Ticker!Nothing, Ticker!New, Ticker!Error}]]
      /\ tick[t].at = "write" /\ tick[t].seen # None
      /\ tick' = [tick EXCEPT ![t] = Ticker!Done]
      /\ row' = Ticker!Plus(tick[t].seen, tick[t].result)
      /\ recorded' = Ticker!Plus(recorded, tick[t].result)
      /\ UNCHANGED <<paused, running, ticksCrossed>>
  BY DEF Ticker!RecordWrites, TickerInv, TickTypes
<1>2. Ticker!Done.at = "done" /\ Ticker!Done.seen = None
  BY DEF Ticker!Done, Ticker!Waiting
<1>3. /\ tick'[t] = Ticker!Done
      /\ \A u \in Ticker!Ticks \ {t} : tick'[u] = tick[u]
  BY <1>1
<1>4. Ended' = Ended \union {t} /\ t \notin Ended
  BY <1>1, <1>2, <1>3 DEF Ended
<1>5. m \in Nat /\ n = m + 1
  <2>1. IsFiniteSet(Ended) /\ m \in Nat
    BY EndedAreFinite
  <2> QED
    BY <1>4, <2>1, FS_AddElement
<1>6. ASSUME NEW total \in Amounts, Within(total, m)
      PROVE  Within(total, n) /\ Within(Ticker!Plus(total, tick[t].result), n)
  <2>1. tick[t].result \in {Ticker!Nothing, Ticker!New, Ticker!Error}
    BY <1>1
  <2>2. total.newJobs \in Nat /\ total.errors \in Nat /\ total.newJobs <= m /\ total.errors <= m
    BY <1>6 DEF Within, Amounts
  <2> QED
    BY <1>5, <2>1, <2>2 DEF Within, Ticker!Plus, Ticker!Nothing, Ticker!New, Ticker!Error
<1>7. /\ recorded \in Amounts /\ Within(recorded, m)
      /\ \A u \in Ticker!Ticks : /\ tick[u].seen \in Amounts \union {None}
                                 /\ tick[u].seen # None => Within(tick[u].seen, m)
  BY DEF TickerInv, TickTypes, TotalsAreCounted
<1> HIDE DEF m, n
<1>8. Within(recorded', n) /\ Within(row', n)
  BY <1>1, <1>6, <1>7
<1>9. \A u \in Ticker!Ticks : tick'[u].seen # None => Within(tick'[u].seen, n)
  BY <1>2, <1>3, <1>6, <1>7
<1>10. paused' \in BOOLEAN /\ running' \in BOOLEAN /\ ticksCrossed' \in BOOLEAN
  BY <1>1 DEF TotalsAreCounted
<1> QED
  BY <1>8, <1>9, <1>10 DEF TotalsAreCounted, n

LEMMA TotalsAreCountedAtFirst ==
  ASSUME TickerParameters, Ticker!Init PROVE TotalsAreCounted
<1>1. Cardinality(Ended) \in Nat
  BY EndedAreFinite
<1>2. /\ row = None /\ recorded = Ticker!Nothing
      /\ paused = FALSE /\ running = FALSE /\ ticksCrossed = FALSE
      /\ \A t \in Ticker!Ticks : tick[t].seen = None
  BY DEF Ticker!Init, Ticker!Waiting
<1>3. Within(Ticker!Nothing, Cardinality(Ended))
  BY <1>1 DEF Within, Ticker!Nothing
<1> QED
  BY <1>2, <1>3 DEF TotalsAreCounted

LEMMA TotalsAreCountedStep ==
  ASSUME TickerParameters, TickerInv, TotalsAreCounted, [Ticker!Next]_tickVars
  PROVE  TotalsAreCounted'
<1>1. TickTypes'
  BY TickerInvStep DEF TickerInv
<1>2. /\ paused \in BOOLEAN /\ running \in BOOLEAN /\ ticksCrossed \in BOOLEAN
      /\ tick \in [Ticker!Ticks -> [at : TickStages, seen : Amounts \union {None},
                                result : {Ticker!Nothing, Ticker!New, Ticker!Error}]]
      /\ \A t \in Ticker!Ticks : tick[t].at = "write" => tick[t].seen # None
  BY DEF TotalsAreCounted, TickerInv, TickTypes
<1>3. Ticker!Done.at = "done" /\ Ticker!Done.seen = None /\ Ticker!Waiting.seen = None
  BY DEF Ticker!Done, Ticker!Waiting
<1>4. ASSUME paused' \in BOOLEAN, running' \in BOOLEAN, ticksCrossed' \in BOOLEAN,
             recorded' = recorded, row' = row,
             \A t \in Ticker!Ticks :
               /\ tick[t].at = "done" => tick'[t].at = "done"
               /\ tick'[t].seen \in {tick[t].seen, row, None}
      PROVE  TotalsAreCounted'
  BY <1>1, <1>4, NothingIsAdded
<1>5. CASE UNCHANGED tickVars
  BY <1>2, <1>4, <1>5 DEF tickVars
<1>6. CASE Ticker!SetPaused
  BY <1>2, <1>4, <1>6 DEF Ticker!SetPaused
<1>7. CASE Ticker!Restart
  <2>1. \A t \in Ticker!Ticks :
          /\ tick'[t].seen = None
          /\ tick[t].at = "done" => tick'[t].at = "done"
    BY <1>2, <1>3, <1>7 DEF Ticker!Restart
  <2>2. UNCHANGED <<row, paused, ticksCrossed, recorded>> /\ running' = FALSE
    BY <1>7 DEF Ticker!Restart
  <2> QED
    BY <1>2, <1>4, <2>1, <2>2
<1>8. ASSUME NEW t \in Ticker!Ticks,
             \/ Ticker!ScheduleReads(t) \/ Ticker!ScheduleWrites(t) \/ Ticker!LookAtPause(t)
             \/ Ticker!Enter(t) \/ Ticker!PassEnds(t) \/ Ticker!RecordReads(t)
             \/ Ticker!RecordWrites(t) \/ Ticker!RecordFails(t) \/ Ticker!TickFails(t)
      PROVE  TotalsAreCounted'
  <2>1. ASSUME NEW to, tick' = [tick EXCEPT ![t] = to], to.seen \in {tick[t].seen, row, None},
               tick[t].at # "done"
        PROVE  \A u \in Ticker!Ticks :
                 /\ tick[u].at = "done" => tick'[u].at = "done"
                 /\ tick'[u].seen \in {tick[u].seen, row, None}
    BY <1>2, <2>1
  <2>2. CASE Ticker!ScheduleReads(t)
    <3>1. PICK stage \in {"scheduled", "registers"} :
            tick' = [tick EXCEPT ![t].at = stage, ![t].seen = row]
      BY <2>2 DEF Ticker!ScheduleReads
    <3>2. tick' = [tick EXCEPT ![t] = [tick[t] EXCEPT !.at = stage, !.seen = row]]
      BY <1>2, <3>1
    <3>3. [tick[t] EXCEPT !.at = stage, !.seen = row].seen = row
      BY <1>2
    <3>4. /\ UNCHANGED <<row, paused, running, recorded>> /\ ticksCrossed' \in BOOLEAN
          /\ tick[t].at # "done"
      BY <1>2, <2>2 DEF Ticker!ScheduleReads, Ticker!Crosses
    <3> QED
      BY <1>2, <1>4, <2>1, <3>2, <3>3, <3>4
  <2>3. CASE Ticker!ScheduleWrites(t)
    <3> DEFINE to == [tick[t] EXCEPT !.at = IF @ = "registers" THEN "done" ELSE "look"]
    <3>1. tick' = [tick EXCEPT ![t] = to] /\ to.seen = tick[t].seen /\ tick[t].at # "done"
      BY <1>2, <2>3 DEF Ticker!ScheduleWrites
    <3>2. /\ UNCHANGED <<paused, running, ticksCrossed, recorded>>
          /\ row' = Ticker!Nothing \/ (tick[t].seen # None /\ row' = tick[t].seen)
      BY <2>3 DEF Ticker!ScheduleWrites
    <3> HIDE DEF to
    <3> QED
      BY <1>1, <1>2, <2>1, <3>1, <3>2, NothingIsAdded
  <2>4. CASE Ticker!RecordWrites(t)
    BY <2>4, OneIsAdded
  <2>5. ASSUME Ticker!LookAtPause(t) \/ Ticker!Enter(t) \/ Ticker!PassEnds(t) \/ Ticker!RecordReads(t)
               \/ Ticker!RecordFails(t) \/ Ticker!TickFails(t)
        PROVE  \E to : /\ tick' = [tick EXCEPT ![t] = to]
                       /\ to.seen \in {tick[t].seen, row, None} /\ tick[t].at # "done"
    <3>1. CASE Ticker!LookAtPause(t)
      <4> DEFINE to == IF paused THEN Ticker!Done ELSE [tick[t] EXCEPT !.at = "enter"]
      <4>1. tick' = [tick EXCEPT ![t] = to] /\ to.seen \in {tick[t].seen, None} /\ tick[t].at # "done"
        BY <1>2, <1>3, <3>1 DEF Ticker!LookAtPause
      <4> QED
        BY <4>1
    <3>2. CASE Ticker!Enter(t)
      <4> DEFINE to == [tick[t] EXCEPT !.at = IF running THEN "read" ELSE "pass"]
      <4>1. tick' = [tick EXCEPT ![t] = to] /\ to.seen = tick[t].seen /\ tick[t].at # "done"
        BY <1>2, <3>2 DEF Ticker!Enter
      <4> QED
        BY <4>1
    <3>3. CASE Ticker!PassEnds(t)
      <4>1. PICK result \in {Ticker!Nothing, Ticker!New, Ticker!Error} :
              tick' = [tick EXCEPT ![t].at = "read", ![t].result = result]
        BY <3>3 DEF Ticker!PassEnds
      <4> DEFINE to == [tick[t] EXCEPT !.at = "read", !.result = result]
      <4>2. tick' = [tick EXCEPT ![t] = to] /\ to.seen = tick[t].seen
        BY <1>2, <4>1
      <4>3. tick[t].at # "done"
        BY <3>3 DEF Ticker!PassEnds
      <4> QED
        BY <4>2, <4>3
    <3>4. CASE Ticker!RecordReads(t)
      <4> DEFINE to == IF row = None THEN Ticker!Done ELSE [tick[t] EXCEPT !.at = "write", !.seen = row]
      <4>1. tick' = [tick EXCEPT ![t] = to] /\ to.seen \in {row, None} /\ tick[t].at # "done"
        BY <1>2, <1>3, <3>4 DEF Ticker!RecordReads
      <4> QED
        BY <4>1
    <3>5. CASE Ticker!RecordFails(t)
      <4> DEFINE to == IF tick[t].result = Ticker!Error THEN Ticker!Done
                       ELSE [Ticker!Waiting EXCEPT !.at = "read", !.result = Ticker!Error]
      <4>1. tick' = [tick EXCEPT ![t] = to] /\ tick[t].at # "done"
        BY <3>5 DEF Ticker!RecordFails
      <4>2. to.seen = None
        BY <1>3 DEF Ticker!Waiting
      <4> QED
        BY <4>1, <4>2
    <3>6. CASE Ticker!TickFails(t)
      BY <1>3, <3>6 DEF Ticker!TickFails
    <3> QED
      BY <2>5, <3>1, <3>2, <3>3, <3>4, <3>5, <3>6
  <2>6. ASSUME Ticker!LookAtPause(t) \/ Ticker!Enter(t) \/ Ticker!PassEnds(t) \/ Ticker!RecordReads(t)
               \/ Ticker!RecordFails(t) \/ Ticker!TickFails(t)
        PROVE  /\ UNCHANGED <<row, paused, recorded>> /\ running' \in BOOLEAN
               /\ ticksCrossed' \in BOOLEAN
    BY <1>2, <2>6 DEF Ticker!LookAtPause, Ticker!Enter, Ticker!PassEnds, Ticker!RecordReads,
      Ticker!RecordFails, Ticker!TickFails, Ticker!Crosses
  <2> QED
    BY <1>2, <1>4, <1>8, <2>1, <2>2, <2>3, <2>4, <2>5, <2>6
<1> QED
  BY <1>5, <1>6, <1>7, <1>8 DEF Ticker!Next

LEMMA SchedulerIsTyped ==
  ASSUME TickerParameters, TickerInv, TotalsAreCounted PROVE Ticker!SchedulerTypeOK
<1>1. MaxTicks \in Nat /\ Cardinality(Ended) \in 0..MaxTicks
  BY EndedAreFinite DEF TickerParameters
<1>2. ASSUME NEW total \in Amounts, Within(total, Cardinality(Ended))
      PROVE  total \in Ticker!Totals
  BY <1>1, <1>2 DEF Amounts, Within, Ticker!Totals
<1>3. row \in Ticker!Totals \union {None} /\ recorded \in Ticker!Totals
  BY <1>2 DEF TickerInv, TickTypes, TotalsAreCounted
<1>4. \A t \in Ticker!Ticks : tick[t].seen \in Ticker!Totals \union {None}
  BY <1>2 DEF TickerInv, TickTypes, TotalsAreCounted
<1> QED
  BY <1>3, <1>4 DEF TickerInv, TickTypes, TickStages, TotalsAreCounted, Ticker!SchedulerTypeOK

-----------------------------------------------------------------------------
(* The answers of a run                                                      *)

\* The form has steps, and "no form" is called by the name of no set of them.
AnswersParameters == FormSteps \in Nat \ {0} /\ None \notin SUBSET Answers!Questions

AnswersTypes ==
  /\ Answers!AnswersTypeOK
  /\ filler \in {"idle", "open", "fill", "filled", "paused"}
  /\ form = None => filler \in {"idle", "open"}
  /\ request \in [Requests -> [at : {"idle", "bank", "write", "queue"},
                               label : Answers!Questions \union {None},
                               copy : SUBSET Answers!Questions, reuse : BOOLEAN]]
  /\ \A r \in Requests : Answers!Pending(r) => request[r].label \in Answers!Questions

\* What the pauses drop, the page remembers: an acknowledged answer is in the form or
\* reusable, or about to be filled in at the step where the run stopped, unless a blank
\* form or a failure has dropped it.
GivenIsKept ==
  form # None => \A q \in given :
    q \in form \/ q \in bank \/ q \in forgotten \/ (q = formStep /\ q \in answers)

\* A request that nobody crossed answers the question that its run waits at, and
\* forgets none of the answers it has found.
RequestIsCurrent ==
  \A r \in Requests : Answers!Pending(r) =>
    /\ runStatus = "needs_user_action"
    /\ request[r].label = formStep /\ formStep \in request[r].copy
    /\ answers \subseteq request[r].copy
    /\ request[r].at = "queue" => formStep \in answers
    /\ \A s \in Requests : Answers!Pending(s) => r = s

\* A filled form has its last step; a run pauses at a step that nothing fills.
StopsForAReason ==
  /\ filler = "filled" => formStep \in form
  /\ filler = "paused" => formStep \notin form \union answers \union bank

AnswersInv ==
  /\ AnswersTypes
  /\ ~requestsCrossed => GivenIsKept /\ RequestIsCurrent /\ StopsForAReason

LEMMA AnswersInvAtFirst == ASSUME AnswersParameters, Answers!Init PROVE AnswersInv
<1>1. AnswersTypes
  <2> USE DEF Answers!Init, AnswersParameters, Answers!Questions
  <2>1. Answers!AnswersTypeOK
    <3>1. /\ runStatus = "queued" /\ stopped = None /\ formStep = 1 /\ filler = "idle"
          /\ answers = {} /\ bank = {} /\ collected = {} /\ given = {} /\ forgotten = {}
          /\ form = None
      OBVIOUS
    <3>2. hasPaused \in BOOLEAN
      BY Zenon
    <3>3. {} \subseteq 1..FormSteps /\ 1 \in 1..FormSteps
      OBVIOUS
    <3> HIDE DEF Answers!Init
    <3> QED
      BY <3>1, <3>2, <3>3 DEF Answers!AnswersTypeOK
  <2>2. request = [r \in Requests |-> Answers!Idle]
    OBVIOUS
  <2>3. filler = "idle" /\ form = None
    OBVIOUS
  <2> HIDE DEF Answers!Init
  <2> QED
    BY <2>1, <2>2, <2>3 DEF AnswersTypes, Answers!Idle, Answers!Pending
<1>2. GivenIsKept /\ RequestIsCurrent /\ StopsForAReason
  BY DEF Answers!Init, GivenIsKept, RequestIsCurrent, StopsForAReason,
         Answers!Idle, Answers!Pending
<1> QED
  BY <1>1, <1>2 DEF AnswersInv

\* The worker keeps the types, and what holds while nobody crossed.
LEMMA WorkerKeepsAnswers ==
  ASSUME AnswersParameters, AnswersInv,
         Answers!WorkerSteps \/ Answers!AttemptFails \/ Answers!PageLost \/ Answers!Retry
  PROVE  AnswersInv'
<1> USE DEF AnswersParameters, AnswersInv, Answers!Pending, Answers!workerVars, Answers!historyVars
<1>1. AnswersTypes'
  <2> USE DEF AnswersTypes, Answers!AnswersTypeOK, Answers!Questions
  <2>0. CASE Answers!Take
    BY <2>0 DEF Answers!Take
  <2>1. CASE Answers!OpenPage
    <3>1. formStep' \in 1..FormSteps /\ form' # None /\ form' \subseteq 1..FormSteps
      <4>1. CASE Answers!Blank
        BY <4>1 DEF Answers!Blank
      <4>2. CASE form # None /\ UNCHANGED <<form, formStep>>
        BY <4>2
      <4> QED
        BY <2>1, <4>1, <4>2 DEF Answers!OpenPage
    <3>2. runStatus' = runStatus /\ filler = "open" /\ filler' = "fill" /\ collected' = {}
          /\ UNCHANGED <<stopped, answers, bank, hasPaused, request, given>>
      BY <2>1 DEF Answers!OpenPage
    <3>3. forgotten' \subseteq given
      BY <2>1 DEF Answers!OpenPage, Answers!Blank
    <3> QED
      BY <3>1, <3>2, <3>3
  <2>2. CASE Answers!Fill
    <3>1. formStep' \in 1..FormSteps
      <4>1. CASE formStep = FormSteps
        BY <2>2, <4>1 DEF Answers!Fill
      <4>2. CASE formStep # FormSteps
        BY <2>2, <4>2 DEF Answers!Fill
      <4> QED
        BY <4>1, <4>2
    <3>2. /\ filler = "fill" /\ filler' \in {"fill", "filled"}
          /\ form' = form \union {formStep} /\ collected' = collected \union {formStep}
          /\ UNCHANGED <<runStatus, stopped, answers, bank, hasPaused, request, given, forgotten>>
      BY <2>2 DEF Answers!Fill
    <3>3. form' \subseteq 1..FormSteps /\ form' # None
      BY <3>2
    <3> QED
      BY <3>1, <3>2, <3>3
  <2>3. CASE Answers!Pause \/ Answers!WriteResult
    BY <2>3 DEF Answers!Pause, Answers!WriteResult, Answers!Written
  <2>4. CASE Answers!PageLost \/ Answers!Retry
    BY <2>4 DEF Answers!PageLost, Answers!Retry, Answers!Faulty
  <2>5. CASE Answers!AttemptFails
    <3>1. /\ runStatus = "running" /\ runStatus' = "failed" /\ filler' = "idle"
          /\ form' = None \/ form' = form
          /\ UNCHANGED <<bank, formStep, collected, request, given>>
      BY <2>5 DEF Answers!AttemptFails
    <3>2. answers' \subseteq 1..FormSteps /\ hasPaused' \in BOOLEAN /\ forgotten' \subseteq given
          /\ stopped' \in (1..FormSteps) \union {None}
      <4>1. CASE Answers!FailedResult
        BY <4>1 DEF Answers!FailedResult
      <4>2. CASE Answers!Written /\ UNCHANGED forgotten
        BY <4>2 DEF Answers!Written
      <4>3. CASE UNCHANGED <<stopped, answers, hasPaused, forgotten>>
        BY <4>3
      <4> QED
        BY <2>5, <4>1, <4>2, <4>3 DEF Answers!AttemptFails
    <3> QED
      BY <3>1, <3>2
  <2> QED
    BY <2>0, <2>1, <2>2, <2>3, <2>4, <2>5 DEF Answers!WorkerSteps
<1>2. ASSUME ~requestsCrossed'
      PROVE  GivenIsKept' /\ RequestIsCurrent' /\ StopsForAReason'
  <2> USE DEF AnswersTypes, Answers!AnswersTypeOK, GivenIsKept, RequestIsCurrent, StopsForAReason
  <2>1. CASE Answers!Take
    BY <1>2, <2>1 DEF Answers!Take
  <2>2. CASE Answers!OpenPage
    BY <1>2, <2>2 DEF Answers!OpenPage, Answers!Blank
  <2>3. CASE Answers!Fill
    BY <1>1, <1>2, <2>3 DEF Answers!Fill, Answers!Fillable
  <2>4. CASE Answers!Pause
    BY <1>2, <2>4 DEF Answers!Pause, Answers!Fillable
  <2>5. CASE Answers!WriteResult
    BY <1>2, <2>5 DEF Answers!WriteResult, Answers!Written
  <2>6. CASE Answers!AttemptFails
    BY <1>2, <2>6 DEF Answers!AttemptFails, Answers!FailedResult, Answers!Written
  <2>7. CASE Answers!PageLost
    BY <1>2, <2>7 DEF Answers!PageLost
  <2>8. CASE Answers!Retry
    BY <1>2, <2>8 DEF Answers!Retry
  <2> QED
    BY <2>1, <2>2, <2>3, <2>4, <2>5, <2>6, <2>7, <2>8 DEF Answers!WorkerSteps
<1> QED
  BY <1>1, <1>2

\* So does the owner.
LEMMA OwnerKeepsAnswers ==
  ASSUME AnswersParameters, AnswersInv,
         \/ Answers!OwnerAnswers \/ Answers!FillByHand
         \/ \E r \in Requests : Answers!RequestSteps(r)
  PROVE  AnswersInv'
<1> USE DEF AnswersParameters, AnswersInv, Answers!workerVars, Answers!historyVars
<1>1. CASE Answers!FillByHand
  <2>1. AnswersTypes'
    BY <1>1 DEF Answers!FillByHand, AnswersTypes, Answers!AnswersTypeOK, Answers!Pending
  <2>2. ASSUME ~requestsCrossed'
        PROVE  GivenIsKept' /\ RequestIsCurrent' /\ StopsForAReason'
    <3>1. ~requestsCrossed /\ \A r \in Requests : ~Answers!Pending(r)
      BY <1>1, <2>2, Zenon DEF Answers!FillByHand
    <3> QED
      BY <1>1, <2>1, <2>2, <3>1
         DEF Answers!FillByHand, AnswersTypes, Answers!AnswersTypeOK, Answers!Pending,
             GivenIsKept, RequestIsCurrent, StopsForAReason
  <2> QED
    BY <2>1, <2>2
<1>2. ASSUME NEW r \in Requests, Answers!Answer(r) PROVE AnswersInv'
  <2> USE DEF AnswersTypes, Answers!AnswersTypeOK, Answers!Pending
  <2>0. PICK b \in BOOLEAN : request' = [request EXCEPT ![r] =
          [at |-> "bank", label |-> stopped, copy |-> answers \union {stopped}, reuse |-> b]]
    BY <1>2 DEF Answers!Answer
  <2>1. AnswersTypes'
    BY <1>2, <2>0 DEF Answers!Answer
  <2>2. ASSUME ~requestsCrossed'
        PROVE  GivenIsKept' /\ RequestIsCurrent' /\ StopsForAReason'
    <3>1. ~requestsCrossed /\ \A s \in Requests \ {r} : ~Answers!Pending(s)
      BY <1>2, <2>2, Zenon DEF Answers!Answer, Answers!Alone
    <3> QED
      BY <1>2, <2>0, <2>2, <3>1
         DEF Answers!Answer, GivenIsKept, RequestIsCurrent, StopsForAReason
  <2> QED
    BY <2>1, <2>2
<1>3. ASSUME NEW r \in Requests, Answers!RequestSteps(r) PROVE AnswersInv'
  <2> USE DEF AnswersTypes, Answers!AnswersTypeOK, Answers!Pending
  <2>1. AnswersTypes'
    <3>1. CASE Answers!SaveReusable(r)
      BY <3>1 DEF Answers!SaveReusable
    <3>2. CASE Answers!WriteAnswers(r)
      BY <3>2 DEF Answers!WriteAnswers
    <3>3. CASE Answers!QueueRun(r)
      <4>1. request' = [request EXCEPT ![r] = Answers!Idle]
            /\ UNCHANGED <<stopped, answers, bank, form, filler, formStep, collected, hasPaused>>
        BY <3>3 DEF Answers!QueueRun, Answers!Acknowledge
      <4>3. given' \subseteq Answers!Questions /\ forgotten' \subseteq given'
        <5>1. CASE UNCHANGED <<given, forgotten>>
          BY <5>1
        <5>2. CASE Answers!Acknowledge(r)
          <6>1. request[r].label \in Answers!Questions
            BY <3>3 DEF Answers!QueueRun
          <6>2. /\ given' = given \union {request[r].label}
                /\ forgotten' = forgotten \ {request[r].label}
            BY <5>2 DEF Answers!Acknowledge
          <6> QED
            BY <6>1, <6>2
        <5> QED
          BY <3>3, <5>1, <5>2 DEF Answers!QueueRun
      <4>2. \/ runStatus' = runStatus
            \/ runStatus = "needs_user_action" /\ runStatus' = "queued"
        BY <3>3 DEF Answers!QueueRun
      <4> QED
        BY <4>1, <4>2, <4>3 DEF Answers!Idle
    <3> QED
      BY <1>3, <3>1, <3>2, <3>3 DEF Answers!RequestSteps
  <2>2. ASSUME ~requestsCrossed'
        PROVE  GivenIsKept' /\ RequestIsCurrent' /\ StopsForAReason'
    <3> USE DEF GivenIsKept, RequestIsCurrent, StopsForAReason
    <3>1. CASE Answers!SaveReusable(r)
      BY <2>2, <3>1 DEF Answers!SaveReusable
    <3>2. CASE Answers!WriteAnswers(r)
      BY <2>2, <3>2 DEF Answers!WriteAnswers
    <3>3. CASE Answers!QueueRun(r)
      BY <2>2, <3>3 DEF Answers!QueueRun, Answers!Acknowledge, Answers!Idle
    <3> QED
      BY <1>3, <3>1, <3>2, <3>3 DEF Answers!RequestSteps
  <2> QED
    BY <2>1, <2>2
<1> QED
  BY <1>1, <1>2, <1>3 DEF Answers!OwnerAnswers

LEMMA AnswersInvStep ==
  ASSUME AnswersParameters, AnswersInv, [Answers!Next]_answersVars PROVE AnswersInv'
<1>1. CASE UNCHANGED answersVars
  BY <1>1
     DEF answersVars, AnswersInv, AnswersTypes, Answers!AnswersTypeOK, GivenIsKept,
         RequestIsCurrent, StopsForAReason, Answers!Pending
<1> QED
  BY <1>1, WorkerKeepsAnswers, OwnerKeepsAnswers DEF Answers!Next

LEMMA AnswersInvSuffices == AnswersInv => Answers!NotAskedAgain
  BY DEF AnswersInv, AnswersTypes, Answers!AnswersTypeOK, Answers!NotAskedAgain, GivenIsKept,
         StopsForAReason

\* An acknowledged answer is not asked for again, although the pauses drop it (worker.ts
\* replaces ApplicationRun.answers), but after a blank form or a failed result that came
\* later than the answer: on forms of any length, with any requests and faults.
THEOREM AnswersAreNotForgotten ==
  ASSUME AnswersParameters
  PROVE  Answers!Spec => [](Answers!AnswersTypeOK /\ Answers!NotAskedAgain)
<1>1. Answers!Init => AnswersInv
  BY AnswersInvAtFirst
<1>2. AnswersInv /\ [Answers!Next]_(Answers!answersVars) => AnswersInv'
  BY AnswersInvStep DEF answersVars, Answers!answersVars
<1>3. AnswersInv => Answers!AnswersTypeOK /\ Answers!NotAskedAgain
  BY AnswersInvSuffices DEF AnswersInv, AnswersTypes
<1> QED
  BY <1>1, <1>2, <1>3, PTL DEF Answers!Spec

\* Beside the other services, too.
THEOREM NotAskedAgainBesideOthers ==
  ASSUME AnswersParameters
  PROVE  Services => []NotAskedAgain
<1>1. ServicesInit => AnswersInv
  BY AnswersInvAtFirst DEF ServicesInit
<1>2. AnswersInv /\ [ServicesNext]_servicesVars => AnswersInv'
  <2> SUFFICES ASSUME AnswersInv, [ServicesNext]_servicesVars PROVE AnswersInv'
    OBVIOUS
  <2>1. [Answers!Next]_answersVars
    BY Zenon DEF ServicesNext, Only, servicesVars
  <2> QED
    BY <2>1, AnswersInvStep
<1>3. AnswersInv => NotAskedAgain
  BY AnswersInvSuffices DEF NotAskedAgain
<1> QED
  BY <1>1, <1>2, <1>3, PTL DEF Services

-----------------------------------------------------------------------------
(* The documents                                                             *)

PapersParameters ==
  MaxGenerations \in Nat /\ MaxOthers \in Nat /\ None \notin Papers!Content

\* The rows of one kind, and when they have the versions 1 to n, one each.
RowsOf(k) == {r \in docs : r.kind = k}
Numbered(S, n) ==
  /\ \A r \in S : r.version \in 1..n
  /\ \A v \in 1..n : \E r \in S : r.version = v
  /\ \A r, s \in S : r.version = s.version => r = s

\* What Documents counts is counted as here.
LEMMA PapersCount == \A S : Papers!Cardinality(S) = Cardinality(S)
  BY DEF Papers!Cardinality, Cardinality

\* Numbered rows are as many as their versions.
LEMMA NumberedAreCounted ==
  ASSUME NEW S, NEW n \in Nat, Numbered(S, n)
  PROVE  IsFiniteSet(S) /\ Cardinality(S) = n
<1> DEFINE f == [r \in S |-> r.version]
<1>1. f \in Injection(S, 1..n) /\ f \in Surjection(S, 1..n)
  BY DEF Numbered, Injection, Surjection, IsInjective
<1>2. IsFiniteSet(1..n) /\ Cardinality(1..n) = n
  BY FS_Interval
<1> QED
  BY <1>1, <1>2, FS_Injection, Zenon

\* Rows of different generations, none of them g's, leave g a version.
LEMMA RowsLeaveAVersion ==
  ASSUME MaxGenerations \in Nat, NEW g \in Papers!Generations, NEW S,
         \A r \in S : r.by \in Papers!Generations \ {g},
         \A r, s \in S : r.by = s.by => r = s
  PROVE  IsFiniteSet(S) /\ Cardinality(S) + 1 \in Papers!Versions
<1> DEFINE T == Papers!Generations \ {g}
           f == [r \in S |-> r.by]
<1>1. f \in Injection(S, T)
  BY DEF Injection, IsInjective
<1>2. IsFiniteSet(Papers!Generations) /\ Cardinality(Papers!Generations) = MaxGenerations
  BY FS_Interval DEF Papers!Generations
<1>3. IsFiniteSet(T) /\ Cardinality(T) = MaxGenerations - 1
  BY <1>2, FS_RemoveElement
<1>4. IsFiniteSet(S) /\ Cardinality(S) <= Cardinality(T)
  BY <1>1, <1>3, FS_Injection, Zenon
<1>5. Cardinality(S) \in Nat
  BY <1>4, FS_CardinalityType
<1> QED
  BY <1>3, <1>4, <1>5 DEF Papers!Versions

Records ==
  [at : {"new", "count", "compile", "check", "store", "row", "deliver", "done"},
   kind : Papers!Kinds, version : Papers!Versions, form : {"tailored", "master"},
   attempt : Papers!Content \union {None}, identity : Papers!Identities]

PapersTypes ==
  /\ docs \subseteq Papers!Row
  /\ pdf \in [Papers!Kinds -> [Papers!Versions -> Papers!Content \union {None}]]
  /\ agent \in [Papers!Kinds -> Papers!Content \union {None}]
  /\ profile \in Papers!Identities /\ overlapped \in BOOLEAN /\ others \in Nat
  /\ gen \in [Papers!Generations -> Records]
  /\ sender \in [at : {"idle", "find", "read", "send"}, kind : Papers!Kinds,
                 row : Papers!Row \union {None}, bytes : Papers!Content \union {None}]
  /\ sender.at = "read" => sender.row \in Papers!Row
  /\ reader \in [at : {"idle", "look", "mark", "open", "handed"}, row : Papers!Row \union {None},
                 issues : BOOLEAN, profile : Papers!Identities,
                 bytes : Papers!Content \union {None}]
  /\ reader.at \in {"look", "mark", "open"} => reader.row \in Papers!Row
  /\ others = 0 => sender.at = "idle" /\ reader.at = "idle"

\* What is checked was compiled, and what is stored was checked.
FilesExist ==
  \A g \in Papers!Generations :
    /\ gen[g].at = "check" => pdf[gen[g].kind][gen[g].version] # None
    /\ gen[g].at \in {"store", "row", "deliver"} \/ gen[g].form = "master"
         => gen[g].attempt # None

\* A generation makes one row of each kind, the resume's first; what it delivers passed
\* and is in its row.
RowsAreMadeInTurn ==
  /\ \A r, s \in docs : r.by = s.by /\ r.kind = s.kind => r = s
  /\ \A r \in docs :
       \/ gen[r.by].at = "done"
       \/ gen[r.by].at = "deliver" /\ (gen[r.by].kind = "resume" => r.kind = "resume")
       \/ Papers!Working(r.by) /\ gen[r.by].kind = "coverLetter" /\ r.kind = "resume"
  /\ \A g \in Papers!Generations : gen[g].at = "deliver" =>
       /\ gen[g].attempt.verdict = "pass"
       /\ \E r \in docs : r.kind = gen[g].kind /\ r.bytes = gen[g].attempt

\* A row that counts as passed did pass.
PassedDidPass == \A r \in docs : r.qa = "pass" => r.bytes.verdict = "pass"

\* A row read before is still there, but for its marks.
Recorded(x) ==
  \E r \in docs : r.by = x.by /\ r.kind = x.kind /\ r.version = x.version /\ r.bytes = x.bytes

\* One generation at a time numbers its rows one after the other, and the files of
\* their versions stay as they were checked.
VersionsInTurn ==
  /\ \A g, h \in Papers!Generations : Papers!Working(g) /\ Papers!Working(h) => g = h
  /\ \A k \in Papers!Kinds : \E n \in Nat : Numbered(RowsOf(k), n)
  /\ \A g \in Papers!Generations : gen[g].at \in {"compile", "check", "store", "row"} =>
       Numbered(RowsOf(gen[g].kind), gen[g].version - 1)
  /\ \A g \in Papers!Generations : gen[g].at = "row" =>
       pdf[gen[g].kind][gen[g].version] = gen[g].attempt

\* What the resend reads and sends is a row's file that passed.
SenderHoldsPassed ==
  /\ sender.at = "read" =>
       /\ sender.row.kind = sender.kind
       /\ sender.row.bytes.verdict = "pass" /\ Recorded(sender.row)
  /\ sender.at = "send" =>
       /\ sender.bytes.verdict = "pass"
       /\ \E r \in docs : r.kind = sender.kind /\ r.bytes = sender.bytes

\* What the extension asks for passed, and what it is handed was compared with the
\* profile.
ReaderHoldsPassed ==
  /\ reader.at \in {"look", "mark", "open"} =>
       Recorded(reader.row) /\ reader.row.bytes.verdict = "pass"
  /\ reader.at = "mark" /\ ~reader.issues => reader.row.bytes.identity = reader.profile
  /\ reader.at = "open" => reader.row.bytes.identity = reader.profile
  /\ reader.at = "handed" =>
       reader.bytes.verdict = "pass" /\ reader.bytes.identity = reader.profile

AgentIsBacked ==
  \A k \in Papers!Kinds : agent[k] # None =>
    agent[k].verdict = "pass" /\ \E r \in docs : r.kind = k /\ r.bytes = agent[k]

PapersInv ==
  /\ PapersTypes /\ FilesExist /\ RowsAreMadeInTurn /\ PassedDidPass
  /\ ~overlapped => VersionsInTurn /\ Papers!KeptAsChecked /\ SenderHoldsPassed /\ ReaderHoldsPassed
  /\ ~overlapped \/ others = 0 => AgentIsBacked

LEMMA PapersInvAtFirst == ASSUME PapersParameters, Papers!Init PROVE PapersInv
<1> USE DEF Papers!Init, PapersParameters
<1>1. \A g \in Papers!Generations : gen[g] = Papers!Idle /\ gen[g].at = "new" /\ gen[g].form = "tailored"
  BY DEF Papers!Idle
<1>2. PapersTypes
  <2>1. Papers!Idle \in Records \/ Papers!Generations = {}
    <3>1. MaxGenerations >= 1 \/ Papers!Generations = {}
      BY DEF Papers!Generations
    <3>2. MaxGenerations >= 1 => 1 \in Papers!Versions
      BY DEF Papers!Versions
    <3> QED
      BY <3>1, <3>2 DEF Papers!Idle, Records, Papers!Kinds, Papers!Identities
  <2>2. gen \in [Papers!Generations -> Records]
    BY <2>1
  <2> QED
    BY <2>2
       DEF PapersTypes, Papers!Waiting, Papers!NoRequest, Papers!Kinds, Papers!Identities
<1>3. FilesExist /\ RowsAreMadeInTurn /\ PassedDidPass
  BY <1>1 DEF FilesExist, RowsAreMadeInTurn, PassedDidPass
<1>4. VersionsInTurn
  <2>1. \A k \in Papers!Kinds : Numbered(RowsOf(k), 0)
    BY DEF RowsOf, Numbered
  <2> QED
    BY <1>1, <2>1 DEF VersionsInTurn, Papers!Working
<1>5. Papers!KeptAsChecked /\ SenderHoldsPassed /\ ReaderHoldsPassed /\ AgentIsBacked
  BY DEF Papers!KeptAsChecked, SenderHoldsPassed, ReaderHoldsPassed, AgentIsBacked,
         Papers!Waiting, Papers!NoRequest
<1> QED
  BY <1>2, <1>3, <1>4, <1>5 DEF PapersInv

\* A generation that compares, counts or ends changes neither rows nor files.
LEMMA GenerationAlone ==
  ASSUME PapersParameters, PapersInv,
         UNCHANGED <<docs, pdf, agent, profile, sender, reader, others>>,
         overlapped' \in BOOLEAN, ~overlapped' => ~overlapped,
         PapersTypes', FilesExist', RowsAreMadeInTurn', ~overlapped' => VersionsInTurn'
  PROVE  PapersInv'
<1>1. PassedDidPass'
  BY DEF PapersInv, PassedDidPass
<1>2. ASSUME ~overlapped'
      PROVE  Papers!KeptAsChecked' /\ SenderHoldsPassed' /\ ReaderHoldsPassed'
  BY <1>2 DEF PapersInv, Papers!KeptAsChecked, SenderHoldsPassed, ReaderHoldsPassed, Recorded
<1>3. ~overlapped' \/ others' = 0 => AgentIsBacked'
  BY DEF PapersInv, AgentIsBacked
<1> QED
  BY <1>1, <1>2, <1>3 DEF PapersInv

\* One generation moves.
Moved(g) ==
  /\ gen' \in [Papers!Generations -> Records]
  /\ \A h \in Papers!Generations \ {g} : gen'[h] = gen[h]

LEMMA MovesTo ==
  ASSUME gen \in [Papers!Generations -> Records], NEW g \in Papers!Generations,
         NEW x \in Records, gen' = [gen EXCEPT ![g] = x]
  PROVE  Moved(g) /\ gen'[g] = x
  BY DEF Moved

LEMMA BeginKeeps ==
  ASSUME PapersParameters, PapersInv, NEW g \in Papers!Generations, Papers!Begin(g)
  PROVE  PapersInv'
<1> USE DEF PapersInv
<1> DEFINE x == [gen[g] EXCEPT !.at = "count", !.identity = profile]
<1>0. gen \in [Papers!Generations -> Records] /\ gen[g] \in Records /\ profile \in Papers!Identities
  BY DEF PapersTypes
<1>1. /\ gen' = [gen EXCEPT ![g] = x] /\ gen[g].at = "new"
      /\ UNCHANGED <<docs, pdf, agent, profile, sender, reader, others>>
  BY <1>0 DEF Papers!Begin
<1>2. /\ overlapped' \in BOOLEAN /\ (~overlapped' => ~overlapped)
      /\ (~overlapped' => \A h \in Papers!Generations : ~Papers!Working(h))
  BY Zenon DEF Papers!Begin
<1>3. x \in Records /\ x.at = "count" /\ x.kind = gen[g].kind /\ x.form = gen[g].form
      /\ x.attempt = gen[g].attempt
  BY <1>0 DEF Records
<1>4. Moved(g) /\ gen'[g] = x
  BY <1>0, <1>1, <1>3, MovesTo
<1> HIDE DEF x
<1>5. PapersTypes'
  BY <1>1, <1>2, <1>4 DEF PapersTypes, Moved
<1>6. FilesExist' /\ RowsAreMadeInTurn'
  BY <1>1, <1>3, <1>4 DEF FilesExist, RowsAreMadeInTurn, Moved, Papers!Working, PapersTypes, Papers!Row
<1>7. ASSUME ~overlapped' PROVE VersionsInTurn'
  BY <1>1, <1>2, <1>3, <1>4, <1>7 DEF VersionsInTurn, RowsOf, Papers!Working, Moved
<1> QED
  BY <1>1, <1>2, <1>5, <1>6, <1>7, GenerationAlone

LEMMA CountKeeps ==
  ASSUME PapersParameters, PapersInv, NEW g \in Papers!Generations, Papers!Count(g)
  PROVE  PapersInv'
<1> USE DEF PapersInv
<1> DEFINE k == gen[g].kind
           x == [gen[g] EXCEPT !.at = "compile", !.version = Cardinality(RowsOf(k)) + 1,
                               !.form = "tailored"]
<1>0. gen \in [Papers!Generations -> Records] /\ gen[g] \in Records /\ k \in Papers!Kinds
  BY DEF PapersTypes, Records
<1>1. /\ gen[g].at = "count" /\ gen' = [gen EXCEPT ![g] = x]
      /\ UNCHANGED <<docs, pdf, agent, profile, sender, reader, others, overlapped>>
  <2>1. Papers!NextVersion(k) = Cardinality(RowsOf(k)) + 1
    BY PapersCount DEF Papers!NextVersion, RowsOf
  <2> QED
    BY <1>0, <2>1 DEF Papers!Count
<1>2. Cardinality(RowsOf(k)) + 1 \in Papers!Versions
  <2>1. \A r \in RowsOf(k) : r.by \in Papers!Generations \ {g}
    BY <1>1, <1>0 DEF RowsAreMadeInTurn, RowsOf, Papers!Row, PapersTypes
  <2>2. \A r, s \in RowsOf(k) : r.by = s.by => r = s
    BY DEF RowsAreMadeInTurn, RowsOf
  <2> QED
    BY <2>1, <2>2, RowsLeaveAVersion DEF PapersParameters
<1>3. /\ x \in Records /\ x.at = "compile" /\ x.kind = k /\ x.form = "tailored"
      /\ x.attempt = gen[g].attempt /\ x.version = Cardinality(RowsOf(k)) + 1
  BY <1>0, <1>2 DEF Records
<1>4. Moved(g) /\ gen'[g] = x
  BY <1>0, <1>1, <1>3, MovesTo
<1> HIDE DEF x
<1>5. PapersTypes'
  BY <1>1, <1>4 DEF PapersTypes, Moved
<1>6. FilesExist' /\ RowsAreMadeInTurn'
  BY <1>1, <1>3, <1>4 DEF FilesExist, RowsAreMadeInTurn, Moved, Papers!Working, PapersTypes, Papers!Row
<1>7. ASSUME ~overlapped' PROVE VersionsInTurn'
  <2>1. PICK n \in Nat : Numbered(RowsOf(k), n)
    BY <1>0, <1>1, <1>7 DEF VersionsInTurn
  <2>2. x.version - 1 = n
    BY <1>3, <2>1, NumberedAreCounted
  <2>3. \A l \in Papers!Kinds : RowsOf(l)' = RowsOf(l)
    BY <1>1 DEF RowsOf
  <2> HIDE DEF k
  <2> QED
    BY <1>0, <1>1, <1>3, <1>4, <1>7, <2>1, <2>2, <2>3
       DEF VersionsInTurn, Papers!Working, Moved, Records
<1> QED
  BY <1>1, <1>5, <1>6, <1>7, GenerationAlone DEF PapersTypes

LEMMA CheckKeeps ==
  ASSUME PapersParameters, PapersInv, NEW g \in Papers!Generations, Papers!Check(g)
  PROVE  PapersInv'
<1> USE DEF PapersInv
<1> DEFINE bytes == pdf[gen[g].kind][gen[g].version]
<1>0. gen \in [Papers!Generations -> Records] /\ gen[g] \in Records /\ gen[g].at = "check"
  BY DEF PapersTypes, Papers!Check
<1>1. /\ bytes \in Papers!Content
      /\ UNCHANGED <<docs, pdf, agent, profile, sender, reader, others, overlapped>>
  <2>1. pdf[gen[g].kind] \in [Papers!Versions -> Papers!Content \union {None}]
    BY <1>0 DEF PapersTypes, Records
  <2>2. bytes \in Papers!Content \union {None}
    BY <1>0, <2>1 DEF Records
  <2>3. bytes # None
    BY <1>0 DEF FilesExist
  <2> QED
    BY <2>2, <2>3 DEF Papers!Check
<1>2. PICK x \in Records :
        /\ gen' = [gen EXCEPT ![g] = x] /\ x.at \in {"compile", "store"} /\ x.kind = gen[g].kind
        /\ x.version = gen[g].version /\ x.attempt # None
  <2> DEFINE y(to, made, a) == [gen[g] EXCEPT !.at = to, !.form = made, !.attempt = a]
  <2>1. \A to \in {"compile", "store"}, made \in {"tailored", "master"}, a \in Papers!Content :
          /\ y(to, made, a) \in Records /\ y(to, made, a).at = to
          /\ y(to, made, a).kind = gen[g].kind
          /\ y(to, made, a).version = gen[g].version /\ y(to, made, a).attempt # None
    <3> SUFFICES ASSUME NEW to \in {"compile", "store"}, NEW made \in {"tailored", "master"},
                        NEW a \in Papers!Content
                 PROVE  /\ y(to, made, a) \in Records /\ y(to, made, a).at = to
                        /\ y(to, made, a).kind = gen[g].kind
                        /\ y(to, made, a).version = gen[g].version /\ y(to, made, a).attempt # None
      OBVIOUS
    <3>1. gen[g] \in Records /\ a # None
      BY <1>0 DEF PapersParameters
    <3>2. y(to, made, a) \in Records
      BY <3>1 DEF Records
    <3>3. /\ y(to, made, a).at = to /\ y(to, made, a).attempt = a
          /\ y(to, made, a).kind = gen[g].kind /\ y(to, made, a).version = gen[g].version
      BY <3>1 DEF Records
    <3> QED
      BY <3>1, <3>2, <3>3
  <2>2. CASE gen[g].form = "tailored"
    <3>1. PICK to \in {"compile", "store"} :
            gen' = [gen EXCEPT ![g].at = to, ![g].attempt = bytes,
                               ![g].form = IF to = "compile" THEN "master" ELSE @]
      BY <2>2 DEF Papers!Check
    <3>2. gen' = [gen EXCEPT ![g] = y(to, IF to = "compile" THEN "master" ELSE "tailored", bytes)]
      BY <1>0, <2>2, <3>1 DEF Records
    <3> HIDE DEF y, bytes
    <3> QED
      BY <1>1, <2>1, <3>2
  <2>3. CASE gen[g].form = "master"
    <3>1. gen[g].attempt \in Papers!Content
      BY <1>0, <2>3 DEF FilesExist, Records
    <3>2. PICK a \in Papers!Content : gen' = [gen EXCEPT ![g].at = "store", ![g].attempt = a]
      BY <1>1, <2>3, <3>1 DEF Papers!Check
    <3>3. gen' = [gen EXCEPT ![g] = y("store", "master", a)]
      BY <1>0, <2>3, <3>2 DEF Records
    <3> HIDE DEF y
    <3> QED
      BY <2>1, <3>3
  <2> QED
    BY <1>0, <2>2, <2>3 DEF Records
<1>3. Moved(g) /\ gen'[g] = x
  BY <1>0, <1>2, MovesTo
<1>4. PapersTypes'
  BY <1>1, <1>3 DEF PapersTypes, Moved
<1>5. FilesExist' /\ RowsAreMadeInTurn'
  BY <1>0, <1>1, <1>2, <1>3
     DEF FilesExist, RowsAreMadeInTurn, Moved, Papers!Working, PapersTypes, Papers!Row
<1>6. ASSUME ~overlapped' PROVE VersionsInTurn'
  <2>1. \A l \in Papers!Kinds : RowsOf(l)' = RowsOf(l)
    BY <1>1 DEF RowsOf
  <2>2. /\ gen'[g].at \in {"compile", "store"} /\ gen'[g].kind = gen[g].kind
        /\ gen'[g].version = gen[g].version
    BY <1>2, <1>3
  <2> QED
    BY <1>0, <1>1, <1>3, <1>6, <2>1, <2>2
       DEF VersionsInTurn, Papers!Working, Moved, Records
<1> QED
  BY <1>1, <1>4, <1>5, <1>6, GenerationAlone DEF PapersTypes

LEMMA FailKeeps ==
  ASSUME PapersParameters, PapersInv, NEW g \in Papers!Generations, Papers!Fail(g)
  PROVE  PapersInv'
<1> USE DEF PapersInv
<1>1. /\ Papers!Working(g) /\ gen' = [gen EXCEPT ![g] = Papers!Done]
      /\ UNCHANGED <<docs, pdf, agent, profile, sender, reader, others, overlapped>>
  BY DEF Papers!Fail
<1>2. Papers!Done \in Records /\ Papers!Done.at = "done" /\ Papers!Done.form = "tailored"
  BY DEF Papers!Done, Papers!Idle, Records, Papers!Kinds, Papers!Identities, Papers!Versions,
         Papers!Generations, PapersParameters
<1>3. Moved(g) /\ gen'[g] = Papers!Done
  BY <1>1, <1>2, MovesTo DEF PapersTypes
<1>4. PapersTypes'
  BY <1>1, <1>3 DEF PapersTypes, Moved
<1>5. FilesExist' /\ RowsAreMadeInTurn'
  BY <1>1, <1>2, <1>3
     DEF FilesExist, RowsAreMadeInTurn, Moved, Papers!Working, PapersTypes, Papers!Row
<1>6. ASSUME ~overlapped' PROVE VersionsInTurn'
  BY <1>1, <1>2, <1>3, <1>6 DEF VersionsInTurn, RowsOf, Papers!Working, Moved
<1> QED
  BY <1>1, <1>4, <1>5, <1>6, GenerationAlone DEF PapersTypes

\* A file that is written belongs to no row while generations do not overlap.
LEMMA NewVersionIsFree ==
  ASSUME PapersInv, NEW g \in Papers!Generations, gen[g].at \in {"compile", "store"}, ~overlapped,
         NEW r \in docs, r.kind = gen[g].kind
  PROVE  r.version # gen[g].version
<1>1. Numbered(RowsOf(gen[g].kind), gen[g].version - 1) /\ r \in RowsOf(gen[g].kind)
  BY DEF PapersInv, VersionsInTurn, RowsOf
<1>2. r.version \in 1..(gen[g].version - 1) /\ gen[g].version \in Nat
  BY <1>1 DEF Numbered, PapersInv, PapersTypes, Records, Papers!Versions
<1> QED
  BY <1>2

\* A generation writes one file, which no row has.
LEMMA FileIsWritten ==
  ASSUME PapersParameters, PapersInv, NEW g \in Papers!Generations,
         gen[g].at \in {"compile", "store"}, NEW c \in Papers!Content,
         pdf' = [pdf EXCEPT ![gen[g].kind][gen[g].version] = c],
         NEW x \in Records, gen' = [gen EXCEPT ![g] = x],
         x.kind = gen[g].kind, x.version = gen[g].version, x.attempt = gen[g].attempt,
         x.form = gen[g].form,
         \/ gen[g].at = "compile" /\ x.at = "check"
         \/ gen[g].at = "store" /\ x.at = "row" /\ x.attempt = c,
         UNCHANGED <<docs, agent, profile, sender, reader, others, overlapped>>
  PROVE  PapersInv'
<1> USE DEF PapersInv
<1>0. gen \in [Papers!Generations -> Records] /\ gen[g] \in Records
      /\ gen[g].kind \in Papers!Kinds /\ gen[g].version \in Papers!Versions
  BY DEF PapersTypes, Records
<1>1. Moved(g) /\ gen'[g] = x
  BY <1>0, MovesTo
<1>2. /\ pdf' \in [Papers!Kinds -> [Papers!Versions -> Papers!Content \union {None}]]
      /\ pdf'[gen[g].kind][gen[g].version] = c
      /\ \A k \in Papers!Kinds, v \in Papers!Versions :
           pdf'[k][v] = pdf[k][v] \/ (k = gen[g].kind /\ v = gen[g].version /\ pdf'[k][v] = c)
  BY <1>0 DEF PapersTypes
<1>3. PapersTypes'
  BY <1>1, <1>2 DEF PapersTypes, Moved
<1>4. c # None /\ \A k \in Papers!Kinds, v \in Papers!Versions : pdf[k][v] # None => pdf'[k][v] # None
  BY <1>2 DEF PapersParameters
<1>5. FilesExist'
  <2>1. \A h \in Papers!Generations :
          gen[h].kind \in Papers!Kinds /\ gen[h].version \in Papers!Versions
    BY <1>0 DEF Records
  <2> QED
    BY <1>1, <1>2, <1>4, <2>1 DEF FilesExist, Moved
<1>6. RowsAreMadeInTurn'
  BY <1>0, <1>1 DEF RowsAreMadeInTurn, Moved, Papers!Working, PapersTypes, Papers!Row
<1>7. PassedDidPass'
  BY DEF PassedDidPass
<1>8. ASSUME ~overlapped'
      PROVE  VersionsInTurn' /\ Papers!KeptAsChecked' /\ SenderHoldsPassed' /\ ReaderHoldsPassed'
  <2>1. \A l \in Papers!Kinds : RowsOf(l)' = RowsOf(l)
    BY DEF RowsOf
  <2>2. \A h \in Papers!Generations \ {g} : ~Papers!Working(h)
    BY <1>8 DEF VersionsInTurn, Papers!Working
  <2>3. VersionsInTurn'
    BY <1>0, <1>1, <1>2, <1>8, <2>1, <2>2 DEF VersionsInTurn, Papers!Working, Moved
  <2>4. \A r \in docs : r.kind \in Papers!Kinds /\ r.version \in Papers!Versions
    BY DEF PapersTypes, Papers!Row
  <2>5. \A r \in docs : pdf'[r.kind][r.version] = pdf[r.kind][r.version]
    BY <1>2, <1>8, <2>4, NewVersionIsFree
  <2>6. Papers!KeptAsChecked'
    BY <1>8, <2>5 DEF Papers!KeptAsChecked
  <2>7. SenderHoldsPassed' /\ ReaderHoldsPassed'
    BY <1>8 DEF SenderHoldsPassed, ReaderHoldsPassed, Recorded
  <2> QED
    BY <2>3, <2>6, <2>7
<1>9. ~overlapped' \/ others' = 0 => AgentIsBacked'
  BY DEF AgentIsBacked
<1> QED
  BY <1>3, <1>5, <1>6, <1>7, <1>8, <1>9

LEMMA CompileKeeps ==
  ASSUME PapersParameters, PapersInv, NEW g \in Papers!Generations,
         Papers!Compile(g) \/ Papers!Store(g)
  PROVE  PapersInv'
<1> DEFINE x == [gen[g] EXCEPT !.at = IF gen[g].at = "compile" THEN "check" ELSE "row"]
<1>0. gen \in [Papers!Generations -> Records] /\ gen[g] \in Records
  BY DEF PapersTypes, PapersInv
<1>1. /\ x \in Records /\ x.kind = gen[g].kind /\ x.version = gen[g].version
      /\ x.attempt = gen[g].attempt /\ x.form = gen[g].form
      /\ x.at = IF gen[g].at = "compile" THEN "check" ELSE "row"
  BY <1>0 DEF Records
<1>2. CASE Papers!Compile(g)
  <2>1. PICK verdict \in {"pass", "layout", "fail"} :
          pdf' = [pdf EXCEPT ![gen[g].kind][gen[g].version] =
                    [by |-> g, verdict |-> verdict, identity |-> gen[g].identity]]
    BY <1>2 DEF Papers!Compile
  <2>2. [by |-> g, verdict |-> verdict, identity |-> gen[g].identity] \in Papers!Content
    BY <1>0 DEF Records, Papers!Content
  <2>3. gen' = [gen EXCEPT ![g] = x] /\ gen[g].at = "compile"
        /\ UNCHANGED <<docs, agent, profile, sender, reader, others, overlapped>>
    BY <1>0, <1>2 DEF Papers!Compile
  <2> HIDE DEF x
  <2> QED
    BY <1>1, <2>1, <2>2, <2>3, FileIsWritten
<1>3. CASE Papers!Store(g)
  <2>1. pdf' = [pdf EXCEPT ![gen[g].kind][gen[g].version] = gen[g].attempt]
    BY <1>3 DEF Papers!Store
  <2>2. gen[g].attempt \in Papers!Content
    BY <1>0, <1>3 DEF Papers!Store, Records, PapersInv, FilesExist
  <2>3. gen' = [gen EXCEPT ![g] = x] /\ gen[g].at = "store"
        /\ UNCHANGED <<docs, agent, profile, sender, reader, others, overlapped>>
    BY <1>0, <1>3 DEF Papers!Store
  <2> HIDE DEF x
  <2> QED
    BY <1>1, <2>1, <2>2, <2>3, FileIsWritten
<1> QED
  BY <1>2, <1>3

\* A row with the next version continues the numbers.
LEMMA NumbersContinue ==
  ASSUME NEW S, NEW n \in Nat, Numbered(S, n), NEW x, x.version = n + 1
  PROVE  Numbered(S \union {x}, n + 1)
<1>1. \A r \in S : r.version # n + 1
  BY DEF Numbered
<1>2. \A v \in 1..(n + 1) : v = n + 1 \/ v \in 1..n
  OBVIOUS
<1>3. 1..n \subseteq 1..(n + 1) /\ n + 1 \in 1..(n + 1)
  OBVIOUS
<1> QED
  BY <1>1, <1>2, <1>3 DEF Numbered

\* Generations start over, or end, in their records.
LEMMA GenerationsEnd ==
  ASSUME PapersParameters, NEW g \in Papers!Generations, NEW i \in Papers!Identities
  PROVE  /\ Papers!Done \in Records /\ Papers!Done.at = "done" /\ Papers!Done.form = "tailored"
         /\ LET y == [Papers!Idle EXCEPT !.at = "count", !.kind = "coverLetter", !.identity = i]
            IN  y \in Records /\ y.at = "count" /\ y.kind = "coverLetter" /\ y.form = "tailored"
<1>1. 1 \in Papers!Versions
  BY DEF Papers!Versions, Papers!Generations, PapersParameters
<1> QED
  BY <1>1 DEF Papers!Done, Papers!Idle, Records, Papers!Kinds, Papers!Identities

LEMMA CreateRowKeeps ==
  ASSUME PapersParameters, PapersInv, NEW g \in Papers!Generations, Papers!CreateRow(g)
  PROVE  PapersInv'
<1> USE DEF PapersInv
<1> DEFINE k == gen[g].kind
           new == [by |-> g, kind |-> k, version |-> gen[g].version, bytes |-> gen[g].attempt,
                   qa |-> Papers!QaStatus(g), identityVerified |-> Papers!Theirs(g, gen[g].attempt)]
           x == IF Papers!QaStatus(g) = "pass" THEN [gen[g] EXCEPT !.at = "deliver"] ELSE Papers!Done
<1>0. /\ gen \in [Papers!Generations -> Records] /\ gen[g] \in Records /\ gen[g].at = "row"
      /\ k \in Papers!Kinds /\ gen[g].version \in Papers!Versions
      /\ gen[g].attempt \in Papers!Content
      /\ UNCHANGED <<pdf, agent, profile, sender, reader, others, overlapped>>
  <2>1. gen \in [Papers!Generations -> Records] /\ gen[g] \in Records /\ gen[g].at = "row"
    BY DEF PapersTypes, Papers!CreateRow
  <2>2. gen[g].attempt # None
    BY <2>1 DEF FilesExist
  <2> QED
    BY <2>1, <2>2 DEF Records, Papers!CreateRow
<1>1. Papers!Done \in Records /\ Papers!Done.at = "done" /\ Papers!Done.form = "tailored"
  BY GenerationsEnd DEF Papers!Identities
<1>2. docs' = docs \union {new} /\ gen' = [gen EXCEPT ![g] = x]
  BY <1>0 DEF Papers!CreateRow
<1>3. /\ x \in Records
      /\ \/ x = Papers!Done
         \/ /\ x.at = "deliver" /\ x.kind = k /\ x.attempt = gen[g].attempt
            /\ Papers!QaStatus(g) = "pass"
  BY <1>0, <1>1 DEF Records
<1>4. /\ Papers!QaStatus(g) \in {"pass", "fail", "INVALID_TEST_DATA"}
      /\ Papers!QaStatus(g) = "pass" => gen[g].attempt.verdict = "pass"
  BY DEF Papers!QaStatus
<1>5. /\ new \in Papers!Row /\ new.by = g /\ new.kind = k /\ new.version = gen[g].version
      /\ new.bytes = gen[g].attempt /\ new.qa = Papers!QaStatus(g)
  BY <1>0, <1>4 DEF Papers!Row, Papers!Theirs
<1>6. Moved(g) /\ gen'[g] = x
  BY <1>0, <1>2, <1>3, MovesTo
<1> HIDE DEF x, new
<1>7. PapersTypes'
  BY <1>0, <1>2, <1>5, <1>6 DEF PapersTypes, Moved
<1>8. FilesExist'
  BY <1>0, <1>1, <1>3, <1>6 DEF FilesExist, Moved, PapersParameters
<1>9. RowsAreMadeInTurn'
  <2>1. \A r \in docs : r.by = g => k = "coverLetter" /\ r.kind = "resume"
    BY <1>0 DEF RowsAreMadeInTurn
  <2>2. \A r, s \in docs' : r.by = s.by /\ r.kind = s.kind => r = s
    BY <1>2, <1>5, <2>1 DEF RowsAreMadeInTurn
  <2>3. \A r \in docs' :
          \/ gen'[r.by].at = "done"
          \/ gen'[r.by].at = "deliver" /\ (gen'[r.by].kind = "resume" => r.kind = "resume")
          \/ Papers!Working(r.by)' /\ gen'[r.by].kind = "coverLetter" /\ r.kind = "resume"
    <3>1. ASSUME NEW r \in docs', r.by = g
          PROVE  \/ gen'[g].at = "done"
                 \/ gen'[g].at = "deliver" /\ (gen'[g].kind = "resume" => r.kind = "resume")
      BY <1>1, <1>2, <1>3, <1>5, <1>6, <2>1, <3>1
    <3>2. ASSUME NEW r \in docs, r.by # g
          PROVE  gen'[r.by] = gen[r.by] /\ (Papers!Working(r.by)' <=> Papers!Working(r.by))
      BY <1>6, <3>2 DEF Moved, PapersTypes, Papers!Row, Papers!Working
    <3> QED
      BY <1>2, <1>5, <3>1, <3>2 DEF RowsAreMadeInTurn
  <2>4. \A h \in Papers!Generations : gen'[h].at = "deliver" =>
          /\ gen'[h].attempt.verdict = "pass"
          /\ \E r \in docs' : r.kind = gen'[h].kind /\ r.bytes = gen'[h].attempt
    BY <1>1, <1>2, <1>3, <1>4, <1>5, <1>6 DEF RowsAreMadeInTurn, Moved
  <2> QED
    BY <2>2, <2>3, <2>4 DEF RowsAreMadeInTurn
<1>10. PassedDidPass'
  BY <1>2, <1>4, <1>5 DEF PassedDidPass
<1>11. ASSUME ~overlapped'
       PROVE  VersionsInTurn' /\ Papers!KeptAsChecked' /\ SenderHoldsPassed' /\ ReaderHoldsPassed'
  <2>1. RowsOf(k) \in SUBSET docs /\ Numbered(RowsOf(k), gen[g].version - 1)
    BY <1>0, <1>11 DEF VersionsInTurn, RowsOf
  <2>2. Numbered(RowsOf(k) \union {new}, gen[g].version)
    BY <1>0, <1>5, <2>1, NumbersContinue DEF Papers!Versions
  <2>3. \A l \in Papers!Kinds : (RowsOf(l))' =
          IF l = k THEN RowsOf(k) \union {new} ELSE RowsOf(l)
    BY <1>2, <1>5 DEF RowsOf
  <2>4. ASSUME NEW l \in Papers!Kinds PROVE \E n \in Nat : Numbered((RowsOf(l))', n)
    <3>1. CASE l = k
      <4>1. gen[g].version \in Nat /\ Numbered((RowsOf(l))', gen[g].version)
        BY <1>0, <2>2, <2>3, <3>1 DEF Papers!Versions
      <4> QED
        BY <4>1
    <3>2. CASE l # k
      <4>1. (RowsOf(l))' = RowsOf(l)
        BY <2>3, <3>2
      <4> QED
        BY <1>0, <1>11, <4>1 DEF VersionsInTurn
    <3> QED
      BY <3>1, <3>2
  <2>5. \A h \in Papers!Generations \ {g} : ~Papers!Working(h)
    BY <1>0, <1>11 DEF VersionsInTurn, Papers!Working
  <2>6. gen'[g].at \in {"deliver", "done"} /\ \A h \in Papers!Generations \ {g} : gen'[h] = gen[h]
    BY <1>1, <1>3, <1>6 DEF Moved
  <2>7. VersionsInTurn'
    BY <2>4, <2>5, <2>6 DEF VersionsInTurn, Papers!Working
  <2>8. Papers!KeptAsChecked'
    BY <1>0, <1>2, <1>5, <1>11 DEF Papers!KeptAsChecked, VersionsInTurn
  <2>9. SenderHoldsPassed' /\ ReaderHoldsPassed'
    BY <1>0, <1>2, <1>11 DEF SenderHoldsPassed, ReaderHoldsPassed, Recorded
  <2> QED
    BY <2>7, <2>8, <2>9
<1>12. ~overlapped' \/ others' = 0 => AgentIsBacked'
  BY <1>0, <1>2 DEF AgentIsBacked
<1> QED
  BY <1>7, <1>8, <1>9, <1>10, <1>11, <1>12

LEMMA DeliverKeeps ==
  ASSUME PapersParameters, PapersInv, NEW g \in Papers!Generations, Papers!Deliver(g)
  PROVE  PapersInv'
<1> USE DEF PapersInv
<1>0. /\ gen \in [Papers!Generations -> Records] /\ gen[g] \in Records /\ gen[g].at = "deliver"
      /\ gen[g].kind \in Papers!Kinds /\ gen[g].attempt \in Papers!Content
      /\ gen[g].identity \in Papers!Identities
      /\ UNCHANGED <<docs, pdf, profile, sender, reader, others, overlapped>>
  BY DEF PapersTypes, Records, FilesExist, Papers!Deliver
<1>1. agent' = agent \/ agent' = [agent EXCEPT ![gen[g].kind] = gen[g].attempt]
  BY DEF Papers!Deliver
<1>2. PICK x \in Records :
        /\ gen' = [gen EXCEPT ![g] = x] /\ x.form = "tailored"
        /\ \/ x.at = "done"
           \/ x.at = "count" /\ x.kind = "coverLetter" /\ gen[g].kind = "resume"
  <2> DEFINE y == [Papers!Idle EXCEPT !.at = "count", !.kind = "coverLetter",
                                      !.identity = gen[g].identity]
  <2>1. /\ y \in Records /\ y.at = "count" /\ y.kind = "coverLetter" /\ y.form = "tailored"
        /\ Papers!Done \in Records /\ Papers!Done.at = "done" /\ Papers!Done.form = "tailored"
    BY <1>0, GenerationsEnd
  <2>2. \/ gen' = [gen EXCEPT ![g] = y] /\ gen[g].kind = "resume"
        \/ gen' = [gen EXCEPT ![g] = Papers!Done]
    BY DEF Papers!Deliver
  <2> HIDE DEF y
  <2> QED
    BY <2>1, <2>2
<1>3. Moved(g) /\ gen'[g] = x
  BY <1>0, <1>2, MovesTo
<1>4. PapersTypes'
  BY <1>0, <1>1, <1>3 DEF PapersTypes, Moved
<1>5. FilesExist' /\ PassedDidPass'
  BY <1>0, <1>2, <1>3 DEF FilesExist, PassedDidPass, Moved
<1>6. RowsAreMadeInTurn'
  <2>1. \A r \in docs : r.by = g => (gen[g].kind = "resume" => r.kind = "resume")
    BY <1>0 DEF RowsAreMadeInTurn
  <2>2. ASSUME NEW r \in docs, r.by # g
        PROVE  gen'[r.by] = gen[r.by] /\ (Papers!Working(r.by)' <=> Papers!Working(r.by))
    BY <1>3, <2>2 DEF Moved, PapersTypes, Papers!Row, Papers!Working
  <2>3. ASSUME NEW r \in docs, r.by = g
        PROVE  \/ gen'[g].at = "done"
               \/ Papers!Working(g)' /\ gen'[g].kind = "coverLetter" /\ r.kind = "resume"
    BY <1>2, <1>3, <2>1, <2>3 DEF Papers!Working
  <2> QED
    BY <1>0, <1>2, <1>3, <2>2, <2>3 DEF RowsAreMadeInTurn, Moved
<1>7. ASSUME ~overlapped'
      PROVE  VersionsInTurn' /\ Papers!KeptAsChecked' /\ SenderHoldsPassed' /\ ReaderHoldsPassed'
  <2>1. \A l \in Papers!Kinds : RowsOf(l)' = RowsOf(l)
    BY <1>0 DEF RowsOf
  <2>2. \A h \in Papers!Generations \ {g} : ~Papers!Working(h)
    BY <1>0, <1>7 DEF VersionsInTurn, Papers!Working
  <2>3. VersionsInTurn'
    BY <1>0, <1>2, <1>3, <1>7, <2>1, <2>2 DEF VersionsInTurn, Papers!Working, Moved
  <2>4. Papers!KeptAsChecked' /\ SenderHoldsPassed' /\ ReaderHoldsPassed'
    BY <1>0, <1>7 DEF Papers!KeptAsChecked, SenderHoldsPassed, ReaderHoldsPassed, Recorded
  <2> QED
    BY <2>3, <2>4
<1>8. ~overlapped' \/ others' = 0 => AgentIsBacked'
  <2>1. gen[g].attempt.verdict = "pass"
        /\ \E r \in docs : r.kind = gen[g].kind /\ r.bytes = gen[g].attempt
    BY <1>0 DEF RowsAreMadeInTurn
  <2> QED
    BY <1>0, <1>1, <2>1 DEF AgentIsBacked, PapersTypes
<1> QED
  BY <1>4, <1>5, <1>6, <1>7, <1>8

\* The resend and the extension's request change neither files nor generations.
LEMMA RequestsAlone ==
  ASSUME PapersInv, UNCHANGED <<docs, pdf, gen, overlapped>>, PapersTypes',
         ~overlapped => SenderHoldsPassed' /\ ReaderHoldsPassed',
         ~overlapped \/ others' = 0 => AgentIsBacked'
  PROVE  PapersInv'
<1>1. FilesExist' /\ PassedDidPass'
  BY DEF PapersInv, FilesExist, PassedDidPass
<1>2. RowsAreMadeInTurn'
  BY DEF PapersInv, RowsAreMadeInTurn, Papers!Working
<1>3. ~overlapped' => VersionsInTurn' /\ Papers!KeptAsChecked'
  BY DEF PapersInv, VersionsInTurn, Papers!KeptAsChecked, Papers!Working, RowsOf
<1> QED
  BY <1>1, <1>2, <1>3 DEF PapersInv

LEMMA SenderKeeps ==
  ASSUME PapersParameters, PapersInv,
         Papers!Resend \/ Papers!FindLatest \/ Papers!ReadStored \/ Papers!Send
  PROVE  PapersInv'
<1> USE DEF PapersInv
<1>0. /\ PapersTypes /\ others \in Nat
      /\ UNCHANGED <<docs, pdf, gen, profile, reader, overlapped>>
  BY DEF Papers!Resend, Papers!FindLatest, Papers!ReadStored, Papers!Send, PapersTypes
<1>1. ~overlapped => ReaderHoldsPassed'
  BY <1>0 DEF ReaderHoldsPassed, Recorded
<1>2. CASE Papers!Resend
  <2>1. others' = others + 1 /\ agent' = agent /\ sender' = [sender EXCEPT !.at = "find"]
    BY <1>2 DEF Papers!Resend, Papers!Asks
  <2>2. PapersTypes'
    BY <1>0, <2>1 DEF PapersTypes
  <2>3. SenderHoldsPassed'
    BY <1>0, <2>1 DEF PapersTypes, SenderHoldsPassed
  <2>4. ~overlapped \/ others' = 0 => AgentIsBacked'
    BY <1>0, <2>1 DEF AgentIsBacked
  <2> QED
    BY <1>0, <1>1, <2>2, <2>3, <2>4, RequestsAlone
<1>3. Papers!AfterKind(sender.kind) \in
        [at : {"idle", "find"}, kind : Papers!Kinds, row : {None}, bytes : {None}]
  BY DEF Papers!AfterKind, Papers!Waiting, Papers!Kinds
<1>4. CASE Papers!FindLatest
  <2>1. agent' = agent /\ others' = others /\ others # 0
    BY <1>0, <1>4 DEF Papers!FindLatest, PapersTypes
  <2>2. CASE \E r \in docs : /\ r.kind = sender.kind /\ r.qa = "pass"
                             /\ sender' = [sender EXCEPT !.at = "read", !.row = r]
    <3>1. PICK r \in docs : /\ r.kind = sender.kind /\ r.qa = "pass"
                            /\ sender' = [sender EXCEPT !.at = "read", !.row = r]
      BY <2>2
    <3>2. PapersTypes'
      BY <1>0, <2>1, <3>1 DEF PapersTypes
    <3>3. SenderHoldsPassed'
      <4>1. sender'.at = "read" /\ sender'.row = r /\ sender'.kind = sender.kind
        BY <1>0, <3>1 DEF PapersTypes
      <4> QED
        BY <1>0, <3>1, <4>1 DEF SenderHoldsPassed, Recorded, PassedDidPass
    <3>4. ~overlapped => AgentIsBacked'
      BY <1>0, <2>1 DEF AgentIsBacked
    <3> QED
      BY <1>0, <1>1, <2>1, <3>2, <3>3, <3>4, RequestsAlone
  <2>3. CASE sender' = Papers!AfterKind(sender.kind)
    <3>1. PapersTypes'
      BY <1>0, <1>3, <2>1, <2>3 DEF PapersTypes
    <3>2. SenderHoldsPassed'
      BY <1>3, <2>3 DEF SenderHoldsPassed
    <3>3. ~overlapped => AgentIsBacked'
      BY <1>0, <2>1 DEF AgentIsBacked
    <3> QED
      BY <1>0, <1>1, <2>1, <3>1, <3>2, <3>3, RequestsAlone
  <2> QED
    BY <1>4, <2>2, <2>3 DEF Papers!FindLatest, Papers!LatestRow, Papers!Eligible
<1>5. CASE Papers!ReadStored
  <2>1. /\ agent' = agent /\ others' = others /\ others # 0 /\ sender.at = "read"
        /\ sender' = [sender EXCEPT !.at = "send", !.bytes = pdf[sender.kind][sender.row.version]]
    BY <1>0, <1>5 DEF Papers!ReadStored, PapersTypes
  <2>2. sender.row \in Papers!Row /\ sender.row.version \in Papers!Versions /\ sender.kind \in Papers!Kinds
    BY <1>0, <2>1 DEF PapersTypes, Papers!Row
  <2>3. pdf[sender.kind][sender.row.version] \in Papers!Content \union {None}
    BY <1>0, <2>2 DEF PapersTypes
  <2>4. PapersTypes'
    BY <1>0, <2>1, <2>3 DEF PapersTypes
  <2>5. ASSUME ~overlapped PROVE SenderHoldsPassed'
    <3>1. PICK r \in docs : /\ r.kind = sender.kind /\ r.version = sender.row.version
                            /\ r.bytes = sender.row.bytes /\ r.bytes.verdict = "pass"
      BY <2>1, <2>5 DEF SenderHoldsPassed, Recorded
    <3>2. pdf[sender.kind][sender.row.version] = r.bytes
      BY <2>5, <3>1 DEF Papers!KeptAsChecked
    <3>3. sender'.at = "send" /\ sender'.bytes = r.bytes /\ sender'.kind = r.kind
      BY <1>0, <2>1, <3>1, <3>2 DEF PapersTypes
    <3> QED
      BY <1>0, <3>1, <3>3 DEF SenderHoldsPassed
  <2>6. ~overlapped => AgentIsBacked'
    BY <1>0, <2>1 DEF AgentIsBacked
  <2> QED
    BY <1>0, <1>1, <2>1, <2>4, <2>5, <2>6, RequestsAlone
<1>6. CASE Papers!Send
  <2>1. /\ others' = others /\ others # 0 /\ sender.at = "send"
        /\ sender' = Papers!AfterKind(sender.kind)
        /\ agent' = agent \/ agent' = [agent EXCEPT ![sender.kind] = sender.bytes]
    BY <1>0, <1>6 DEF Papers!Send, PapersTypes
  <2>2. PapersTypes'
    BY <1>0, <1>3, <2>1 DEF PapersTypes
  <2>3. SenderHoldsPassed'
    BY <1>3, <2>1 DEF SenderHoldsPassed
  <2>4. ASSUME ~overlapped PROVE AgentIsBacked'
    <3>1. sender.bytes.verdict = "pass" /\ \E r \in docs : r.kind = sender.kind /\ r.bytes = sender.bytes
      BY <2>1, <2>4 DEF SenderHoldsPassed
    <3> QED
      BY <1>0, <2>1, <2>4, <3>1 DEF AgentIsBacked, PapersTypes
  <2> QED
    BY <1>0, <1>1, <2>1, <2>2, <2>3, <2>4, RequestsAlone
<1> QED
  BY <1>2, <1>4, <1>5, <1>6

LEMMA ReaderKeeps ==
  ASSUME PapersParameters, PapersInv,
         Papers!ProfileChanges \/ Papers!Request \/ Papers!Look \/ Papers!HandOver \/ Papers!Answered
  PROVE  PapersInv'
<1> USE DEF PapersInv
<1>0. PapersTypes /\ others \in Nat /\ UNCHANGED <<docs, pdf, gen, agent, sender, overlapped>>
  BY DEF Papers!ProfileChanges, Papers!Request, Papers!Look, Papers!HandOver, Papers!Answered,
         PapersTypes
<1>1. ~overlapped => SenderHoldsPassed'
  BY <1>0 DEF SenderHoldsPassed, Recorded
<1>2. others' = others \/ others' = others + 1
  BY DEF Papers!ProfileChanges, Papers!Request, Papers!Asks, Papers!Look, Papers!HandOver,
         Papers!Answered
<1>3. ~overlapped \/ others' = 0 => AgentIsBacked'
  BY <1>0, <1>2 DEF AgentIsBacked
<1>4. PapersTypes' /\ (~overlapped => ReaderHoldsPassed')
  <2>1. CASE Papers!ProfileChanges
    BY <1>0, <2>1 DEF Papers!ProfileChanges, PapersTypes, ReaderHoldsPassed, Recorded, Papers!Identities
  <2>2. CASE Papers!Request
    <3>1. PICK r \in docs : r.qa = "pass" /\ reader' = [Papers!NoRequest EXCEPT !.at = "look", !.row = r]
      BY <2>2 DEF Papers!Request
    <3>2. others' = others + 1 /\ profile' = profile
      BY <2>2 DEF Papers!Request, Papers!Asks
    <3>4. reader'.at = "look" /\ reader'.row = r
      BY <3>1 DEF Papers!NoRequest
    <3>5. r \in Papers!Row /\ others' \in Nat /\ others' # 0
      BY <1>0, <3>2 DEF PapersTypes
    <3>6. reader' \in [at : {"idle", "look", "mark", "open", "handed"},
                      row : Papers!Row \union {None}, issues : BOOLEAN,
                      profile : Papers!Identities, bytes : Papers!Content \union {None}]
      BY <3>1, <3>5 DEF Papers!NoRequest, Papers!Identities
    <3>3. PapersTypes'
      BY <1>0, <3>2, <3>4, <3>5, <3>6 DEF PapersTypes
    <3> QED
      BY <1>0, <3>1, <3>3, <3>4 DEF ReaderHoldsPassed, Recorded, PassedDidPass
  <2>3. CASE Papers!Look
    <3>1. /\ reader.at = "look" /\ profile' = profile /\ others' = others
          /\ reader' = [reader EXCEPT !.at = "mark", !.profile = profile,
               !.issues = pdf[reader.row.kind][reader.row.version].identity # profile]
      BY <2>3 DEF Papers!Look
    <3>2. PapersTypes'
      BY <1>0, <3>1 DEF PapersTypes
    <3>3. /\ reader'.at = "mark" /\ reader'.row = reader.row /\ reader'.profile = profile
          /\ ~reader'.issues => pdf[reader.row.kind][reader.row.version].identity = profile
      BY <1>0, <3>1 DEF PapersTypes
    <3>4. ASSUME ~overlapped PROVE ReaderHoldsPassed'
      <4>1. Recorded(reader.row) /\ reader.row.bytes.verdict = "pass"
        BY <3>1, <3>4 DEF ReaderHoldsPassed
      <4>2. pdf[reader.row.kind][reader.row.version] = reader.row.bytes
        BY <3>4, <4>1 DEF Recorded, Papers!KeptAsChecked
      <4> QED
        BY <1>0, <3>3, <4>1, <4>2 DEF ReaderHoldsPassed, Recorded
    <3> QED
      BY <3>2, <3>4
  <2>4. CASE Papers!HandOver
    <3>1. /\ reader.at = "open" /\ profile' = profile /\ others' = others
          /\ reader' = [reader EXCEPT !.at = "handed", !.bytes = pdf[reader.row.kind][reader.row.version]]
      BY <2>4 DEF Papers!HandOver
    <3>2. reader.row.kind \in Papers!Kinds /\ reader.row.version \in Papers!Versions
      BY <1>0, <3>1 DEF PapersTypes, Papers!Row
    <3>3. pdf[reader.row.kind][reader.row.version] \in Papers!Content \union {None}
      BY <1>0, <3>2 DEF PapersTypes
    <3>4. PapersTypes'
      BY <1>0, <3>1, <3>3 DEF PapersTypes
    <3>5. /\ reader'.at = "handed" /\ reader'.profile = reader.profile
          /\ reader'.bytes = pdf[reader.row.kind][reader.row.version]
      BY <1>0, <3>1 DEF PapersTypes
    <3>6. ASSUME ~overlapped PROVE ReaderHoldsPassed'
      <4>1. Recorded(reader.row) /\ reader.row.bytes.verdict = "pass"
            /\ reader.row.bytes.identity = reader.profile
        BY <3>1, <3>6 DEF ReaderHoldsPassed
      <4>2. pdf[reader.row.kind][reader.row.version] = reader.row.bytes
        BY <3>6, <4>1 DEF Recorded, Papers!KeptAsChecked
      <4> QED
        BY <3>5, <4>1, <4>2 DEF ReaderHoldsPassed
    <3> QED
      BY <3>4, <3>6
  <2>5. CASE Papers!Answered
    BY <1>0, <2>5 DEF Papers!Answered, Papers!NoRequest, PapersTypes, ReaderHoldsPassed, Papers!Identities
  <2> QED
    BY <2>1, <2>2, <2>3, <2>4, <2>5
<1> QED
  BY <1>0, <1>1, <1>3, <1>4, RequestsAlone

\* What the check of a stored file makes of a row: only its marks change.
Marked(r) ==
  IF <<r.by, r.kind>> # <<reader.row.by, reader.row.kind>> THEN r
  ELSE IF reader.issues
    THEN [r EXCEPT !.qa = "INVALID_TEST_DATA", !.identityVerified = FALSE]
    ELSE [r EXCEPT !.identityVerified = TRUE]

LEMMA OnlyMarksChange ==
  ASSUME NEW r \in Papers!Row
  PROVE  /\ Marked(r) \in Papers!Row /\ Marked(r).by = r.by /\ Marked(r).kind = r.kind
         /\ Marked(r).version = r.version /\ Marked(r).bytes = r.bytes
         /\ Marked(r).qa = "pass" => r.qa = "pass"
  BY DEF Marked, Papers!Row

LEMMA NumbersAreKept ==
  ASSUME docs \subseteq Papers!Row, docs' = {Marked(r) : r \in docs},
         NEW k \in Papers!Kinds, NEW n, Numbered(RowsOf(k), n)
  PROVE  Numbered((RowsOf(k))', n)
<1> DEFINE S == {Marked(r) : r \in RowsOf(k)}
<1>1. (RowsOf(k))' = S
  BY OnlyMarksChange DEF RowsOf
<1>2. \A r \in RowsOf(k) : r \in Papers!Row
  BY DEF RowsOf
<1>3. \A x \in S : \E r \in RowsOf(k) : x = Marked(r) /\ x.version = r.version
  BY <1>2, OnlyMarksChange
<1>4. \A r \in RowsOf(k) : Marked(r) \in S /\ Marked(r).version = r.version
  BY <1>2, OnlyMarksChange
<1> HIDE DEF S
<1>5. \A x \in S : x.version \in 1..n
  BY <1>3 DEF Numbered
<1>6. \A v \in 1..n : \E x \in S : x.version = v
  BY <1>4 DEF Numbered
<1>7. \A x, y \in S : x.version = y.version => x = y
  BY <1>3 DEF Numbered
<1> QED
  BY <1>1, <1>5, <1>6, <1>7 DEF Numbered

LEMMA MarkKeeps ==
  ASSUME PapersParameters, PapersInv, Papers!Mark
  PROVE  PapersInv'
<1> USE DEF PapersInv
<1>0. /\ PapersTypes /\ docs \subseteq Papers!Row /\ reader.at = "mark" /\ others # 0
      /\ UNCHANGED <<pdf, agent, profile, gen, sender, others, overlapped>>
  BY DEF Papers!Mark, PapersTypes
<1>1. docs' = {Marked(r) : r \in docs}
  BY DEF Papers!Mark, Marked
<1>2. \A x \in docs' : \E r \in docs :
        /\ x = Marked(r) /\ x \in Papers!Row /\ x.by = r.by /\ x.kind = r.kind
        /\ x.version = r.version /\ x.bytes = r.bytes /\ (x.qa = "pass" => r.qa = "pass")
  BY <1>0, <1>1, OnlyMarksChange
<1>3. \A r \in docs : \E x \in docs' :
        x.by = r.by /\ x.kind = r.kind /\ x.version = r.version /\ x.bytes = r.bytes
  BY <1>0, <1>1, OnlyMarksChange
<1>4. reader' = IF reader.issues THEN Papers!NoRequest ELSE [reader EXCEPT !.at = "open"]
  BY DEF Papers!Mark
<1>5. /\ reader' \in [at : {"idle", "open"}, row : Papers!Row \union {None}, issues : BOOLEAN,
                      profile : Papers!Identities, bytes : Papers!Content \union {None}]
      /\ reader'.at = "open" =>
           reader'.row = reader.row /\ reader'.profile = reader.profile /\ ~reader.issues
  BY <1>0, <1>4 DEF PapersTypes, Papers!NoRequest, Papers!Identities
<1>6. PapersTypes'
  <2>1. docs' \subseteq Papers!Row
    BY <1>2
  <2>2. reader' \in [at : {"idle", "look", "mark", "open", "handed"},
                     row : Papers!Row \union {None}, issues : BOOLEAN,
                     profile : Papers!Identities, bytes : Papers!Content \union {None}]
    BY <1>5
  <2>3. reader'.at \in {"look", "mark", "open"} => reader'.row \in Papers!Row
    BY <1>0, <1>5 DEF PapersTypes
  <2> QED
    BY <1>0, <2>1, <2>2, <2>3 DEF PapersTypes
<1>7. FilesExist' /\ PassedDidPass'
  BY <1>0, <1>2 DEF FilesExist, PassedDidPass
<1>8. RowsAreMadeInTurn'
  <2>1. \A x, y \in docs' : x.by = y.by /\ x.kind = y.kind => x = y
    BY <1>2 DEF RowsAreMadeInTurn
  <2>2. \A x \in docs' :
          \/ gen[x.by].at = "done"
          \/ gen[x.by].at = "deliver" /\ (gen[x.by].kind = "resume" => x.kind = "resume")
          \/ Papers!Working(x.by) /\ gen[x.by].kind = "coverLetter" /\ x.kind = "resume"
    BY <1>2 DEF RowsAreMadeInTurn
  <2>3. \A g \in Papers!Generations : gen[g].at = "deliver" =>
          /\ gen[g].attempt.verdict = "pass"
          /\ \E x \in docs' : x.kind = gen[g].kind /\ x.bytes = gen[g].attempt
    BY <1>3 DEF RowsAreMadeInTurn
  <2> QED
    BY <1>0, <2>1, <2>2, <2>3 DEF RowsAreMadeInTurn, Papers!Working
<1>9. ASSUME ~overlapped
      PROVE  VersionsInTurn' /\ Papers!KeptAsChecked' /\ SenderHoldsPassed' /\ ReaderHoldsPassed'
  <2>1. VersionsInTurn'
    <3>1. \A k \in Papers!Kinds : \A n \in Nat : Numbered(RowsOf(k), n) => Numbered((RowsOf(k))', n)
      BY <1>0, <1>1, NumbersAreKept
    <3>2. ASSUME NEW k \in Papers!Kinds PROVE \E n \in Nat : Numbered((RowsOf(k))', n)
      BY <1>9, <3>1 DEF VersionsInTurn
    <3>3. ASSUME NEW g \in Papers!Generations, gen[g].at \in {"compile", "check", "store", "row"}
          PROVE  Numbered((RowsOf(gen[g].kind))', gen[g].version - 1)
      <4>1. gen[g].kind \in Papers!Kinds /\ Numbered(RowsOf(gen[g].kind), gen[g].version - 1)
        BY <1>0, <1>9, <3>3 DEF VersionsInTurn, PapersTypes, Records
      <4>2. (RowsOf(gen[g].kind))' = {x \in docs' : x.kind = gen[g].kind}
        BY <1>0 DEF RowsOf
      <4>3. PICK k \in Papers!Kinds : k = gen[g].kind
        BY <4>1
      <4>4. Numbered((RowsOf(k))', gen[g].version - 1)
        BY <1>0, <1>1, <4>1, <4>3, NumbersAreKept
      <4>5. (RowsOf(k))' = {x \in docs' : x.kind = k}
        BY DEF RowsOf
      <4> QED
        BY <4>2, <4>3, <4>4, <4>5
    <3>4. \A g, h \in Papers!Generations : Papers!Working(g)' /\ Papers!Working(h)' => g = h
      BY <1>0, <1>9 DEF VersionsInTurn, Papers!Working
    <3> QED
      BY <1>0, <1>9, <3>2, <3>3, <3>4 DEF VersionsInTurn
  <2>2. Papers!KeptAsChecked'
    BY <1>0, <1>2, <1>9 DEF Papers!KeptAsChecked
  <2>3. \A x : Recorded(x) => Recorded(x)'
    BY <1>3 DEF Recorded
  <2>4. SenderHoldsPassed'
    BY <1>0, <1>3, <1>9 DEF SenderHoldsPassed, Recorded
  <2>5. ReaderHoldsPassed'
    <3>1. Recorded(reader.row) /\ reader.row.bytes.verdict = "pass"
          /\ (~reader.issues => reader.row.bytes.identity = reader.profile)
      BY <1>0, <1>9 DEF ReaderHoldsPassed
    <3>2. \E x \in docs' : /\ x.by = reader.row.by /\ x.kind = reader.row.kind
                           /\ x.version = reader.row.version /\ x.bytes = reader.row.bytes
      BY <1>3, <3>1 DEF Recorded
    <3> QED
      BY <1>5, <3>1, <3>2 DEF ReaderHoldsPassed, Recorded
  <2> QED
    BY <2>1, <2>2, <2>4, <2>5
<1>10. ~overlapped' \/ others' = 0 => AgentIsBacked'
  BY <1>0, <1>3 DEF AgentIsBacked
<1> QED
  BY <1>0, <1>6, <1>7, <1>8, <1>9, <1>10

LEMMA PapersInvStep ==
  ASSUME PapersParameters, PapersInv, [Papers!Next]_documentVars PROVE PapersInv'
<1>1. CASE UNCHANGED documentVars
  <2>1. UNCHANGED <<docs, pdf, agent, profile, gen, sender, reader, others, overlapped>>
    BY <1>1 DEF documentVars
  <2>2. PapersTypes' /\ SenderHoldsPassed' = SenderHoldsPassed
        /\ ReaderHoldsPassed' = ReaderHoldsPassed /\ AgentIsBacked' = AgentIsBacked
    BY <2>1
       DEF PapersInv, PapersTypes, SenderHoldsPassed, ReaderHoldsPassed, AgentIsBacked, Recorded
  <2> QED
    BY <2>1, <2>2, RequestsAlone DEF PapersInv
<1>2. ASSUME NEW g \in Papers!Generations, Papers!GenerationSteps(g) PROVE PapersInv'
  BY <1>2, BeginKeeps, CountKeeps, CompileKeeps, CheckKeeps, CreateRowKeeps, DeliverKeeps, FailKeeps
     DEF Papers!GenerationSteps
<1> QED
  BY <1>1, <1>2, SenderKeeps, ReaderKeeps, MarkKeeps DEF Papers!Next

LEMMA PapersInvSuffices ==
  PapersInv => /\ Papers!DocumentsTypeOK /\ Papers!KeptAsChecked
               /\ Papers!AgentHoldsPassed /\ Papers!HandedOverIsTheirs
<1> SUFFICES ASSUME PapersInv
             PROVE  /\ Papers!DocumentsTypeOK /\ Papers!KeptAsChecked
                    /\ Papers!AgentHoldsPassed /\ Papers!HandedOverIsTheirs
  OBVIOUS
<1>1. Papers!DocumentsTypeOK
  BY DEF PapersInv, PapersTypes, Papers!DocumentsTypeOK, Records
<1>2. Papers!KeptAsChecked
  BY DEF PapersInv, Papers!KeptAsChecked
<1>3. Papers!AgentHoldsPassed
  BY DEF PapersInv, AgentIsBacked, Papers!AgentHoldsPassed
<1>4. Papers!HandedOverIsTheirs
  BY DEF PapersInv, ReaderHoldsPassed, Papers!HandedOverIsTheirs
<1> QED
  BY <1>1, <1>2, <1>3, <1>4

\* While one generation works at a time, the file of a version stays as it was checked
\* (generate.ts writes it before it makes the row), and neither the agent nor
\* the extension ever gets a file that did not pass: for any number of generations,
\* resends and requests.
THEOREM DocumentsStayAsChecked ==
  ASSUME PapersParameters
  PROVE  Papers!Spec => []( /\ Papers!DocumentsTypeOK /\ Papers!KeptAsChecked
                            /\ Papers!AgentHoldsPassed /\ Papers!HandedOverIsTheirs )
<1>1. Papers!Init => PapersInv
  BY PapersInvAtFirst
<1>2. PapersInv /\ [Papers!Next]_(Papers!documentVars) => PapersInv'
  BY PapersInvStep DEF documentVars, Papers!documentVars
<1> QED
  BY <1>1, <1>2, PapersInvSuffices, PTL DEF Papers!Spec

\* Beside the other services, too.
THEOREM DocumentsAreKeptBesideOthers ==
  ASSUME PapersParameters
  PROVE  Services => []DocumentsAreKept
<1>1. ServicesInit => PapersInv
  BY PapersInvAtFirst DEF ServicesInit
<1>2. PapersInv /\ [ServicesNext]_servicesVars => PapersInv'
  <2> SUFFICES ASSUME PapersInv, [ServicesNext]_servicesVars PROVE PapersInv'
    OBVIOUS
  <2>1. [Papers!Next]_documentVars
    BY Zenon DEF ServicesNext, Only, servicesVars
  <2> QED
    BY <2>1, PapersInvStep
<1>3. PapersInv => DocumentsAreKept
  BY PapersInvSuffices DEF DocumentsAreKept
<1> QED
  BY <1>1, <1>2, <1>3, PTL DEF Services

-----------------------------------------------------------------------------
(* The browser of the worker                                                 *)

\* What "no context", "no page" and "no run" are called is none.
BrowserParameters ==
  /\ MaxLaunches \in Nat
  /\ None \notin Browser!Contexts /\ None \notin Browser!Page /\ None \notin BrowserRuns

\* A context closes once.
ClosedOnce == live \cap closings = {}

\* The manager's context is the one launched last; it has one from the probe until the
\* worker is done with its page, and none while it replaces one.
ContextIsTheLast ==
  /\ context \in {None, generation}
  /\ at \in {"probe", "probed", "acquire", "newPage", "working"} => context = generation
  /\ at \in {"close", "launch"} => context = None
  /\ at # "close" => stale = None

\* A context that is not marked closed runs, or its close is still to be heard of.
OpenIsLive == context # None /\ ~contextClosed => context \in live \union closings

\* The worker holds a run once it asks for a page, and its page is in the context in use.
WorkIsInHand ==
  /\ at \in {"acquire", "newPage", "working"} => run \in BrowserRuns
  /\ at = "working" => page.in = context

\* The browser is not healthy while it is replaced.
Replacing ==
  at \in {"marked", "restart", "close", "launch", "probe", "probed"} => browserState # "healthy"

BrowserInv ==
  /\ Browser!BrowserTypeOK /\ page \in Browser!Page \union {None}
  /\ ClosedOnce /\ ContextIsTheLast /\ OpenIsLive /\ WorkIsInHand /\ Replacing
  /\ Browser!RetainedAreCurrent /\ Browser!NoStrayBrowser

LEMMA BrowserInvAtFirst == ASSUME BrowserParameters, Browser!Init PROVE BrowserInv
<1> USE DEF BrowserParameters, Browser!Init, Browser!NoPages
<1>1. Browser!BrowserTypeOK /\ page \in Browser!Page \union {None}
  <2>1. pausedPages \in [BrowserRuns -> Browser!Page \union {None}] /\ page = None
    OBVIOUS
  <2>2. /\ live \subseteq 1..generation /\ closings \subseteq 1..generation
        /\ generation \in 0..MaxLaunches /\ abandoned \subseteq Browser!Contexts
    OBVIOUS
  <2> QED
    BY <2>1, <2>2 DEF Browser!BrowserTypeOK
<1>2. ClosedOnce /\ ContextIsTheLast /\ OpenIsLive /\ WorkIsInHand /\ Replacing
  BY DEF ClosedOnce, ContextIsTheLast, OpenIsLive, WorkIsInHand, Replacing
<1>3. Browser!RetainedAreCurrent /\ Browser!NoStrayBrowser
  BY DEF Browser!RetainedAreCurrent, Browser!NoStrayBrowser
<1> QED
  BY <1>1, <1>2, <1>3 DEF BrowserInv

\* A page that closes is the page it was.
LEMMA ShutPage ==
  ASSUME BrowserParameters, NEW p \in Browser!Page \union {None}, NEW c
  PROVE  /\ Browser!Shut(p, c) \in Browser!Page \union {None}
         /\ p = None => Browser!Shut(p, c) = None
         /\ p \in Browser!Page => /\ Browser!Shut(p, c) \in Browser!Page
                                 /\ Browser!Shut(p, c).of = p.of
                                 /\ Browser!Shut(p, c).in = p.in
  BY DEF BrowserParameters, Browser!Shut, Browser!Page

LEMMA ClosedPage ==
  ASSUME NEW p \in Browser!Page
  PROVE  LET q == [p EXCEPT !.open = FALSE]
         IN  q \in Browser!Page /\ q.of = p.of /\ q.in = p.in
  BY DEF Browser!Page

LEMMA BrowserInvStep ==
  ASSUME BrowserParameters, BrowserInv, [Browser!Next]_(Browser!managerVars)
  PROVE  BrowserInv'
<1> USE DEF BrowserParameters, BrowserInv, Browser!BrowserTypeOK, ClosedOnce, ContextIsTheLast,
     OpenIsLive, WorkIsInHand, Replacing, Browser!RetainedAreCurrent, Browser!NoStrayBrowser,
     Browser!IsContextHealthy, Browser!ForgetPages, Browser!NoPages, Browser!ClearReferences,
     Browser!Failed, Browser!Contexts, Browser!MarkUnhealthy
<1>1. CASE UNCHANGED Browser!managerVars
  BY <1>1 DEF Browser!managerVars
<1>2. CASE Browser!Take
  BY <1>2 DEF Browser!Take
<1>3. CASE Browser!Ensure
  <2>1. /\ UNCHANGED <<live, closings, context, generation, stale, run, resuming, page, retrying,
                       abandoned>>
        /\ browserState' \in {browserState, "restarting", "unhealthy"}
        /\ contextClosed' = contextClosed \/ contextClosed' = TRUE
        /\ pausedPages' = pausedPages \/ pausedPages' = [r \in BrowserRuns |-> None]
        /\ \/ Browser!IsContextHealthy /\ at' \in {"idle", "acquire"} /\ (at' = "acquire" => run # None)
           \/ at' \in {"restart", "marked"} /\ browserState' # "healthy"
        /\ at = "ensure"
    BY <1>3 DEF Browser!Ensure
  <2>2. pausedPages' \in [BrowserRuns -> Browser!Page \union {None}]
    BY <2>1
  <2>3. Browser!BrowserTypeOK'
    BY <2>1, <2>2
  <2>4. Browser!RetainedAreCurrent' /\ Browser!NoStrayBrowser'
    BY <2>1
  <2>5. ClosedOnce' /\ Replacing'
    BY <2>1
  <2>6. WorkIsInHand'
    BY <2>1
  <2>8. OpenIsLive'
    BY <2>1
  <2>7. ContextIsTheLast'
    BY <2>1
  <2> QED
    BY <2>1, <2>3, <2>4, <2>5, <2>6, <2>7, <2>8
<1>18. CASE Browser!Restart
  BY <1>18 DEF Browser!Restart
<1>4. CASE Browser!DropStale
  BY <1>4 DEF Browser!DropStale
<1>5. CASE Browser!CloseStale
  BY <1>5 DEF Browser!CloseStale
<1>6. CASE Browser!Launch
  <2>1. generation' \in Browser!Contexts /\ generation' = generation + 1
    BY <1>6 DEF Browser!Launch
  <2>2. Browser!BrowserTypeOK'
    <3>1. live' \subseteq 1..generation' /\ closings' \subseteq 1..generation'
      BY <1>6, <2>1 DEF Browser!Launch
    <3>2. generation' \in 0..MaxLaunches /\ context' \in Browser!Contexts
      BY <1>6, <2>1 DEF Browser!Launch
    <3> QED
      BY <1>6, <3>1, <3>2 DEF Browser!Launch
  <2>3. Browser!RetainedAreCurrent'
    <3>1. \A r \in BrowserRuns : pausedPages[r] = None
      BY <1>6 DEF Browser!Launch, Browser!Page
    <3> QED
      BY <1>6, <3>1 DEF Browser!Launch
  <2> QED
    BY <1>6, <2>1, <2>2, <2>3 DEF Browser!Launch
<1>7. CASE Browser!LaunchFails
  BY <1>7 DEF Browser!LaunchFails
<1>8. CASE Browser!Probe
  BY <1>8 DEF Browser!Probe
<1>9. CASE Browser!ProbeFails
  <2>1. pausedPages' \in [BrowserRuns -> Browser!Page \union {None}]
    BY <1>9 DEF Browser!ProbeFails
  <2>2. Browser!BrowserTypeOK'
    <3>1. abandoned' \subseteq Browser!Contexts
      BY <1>9 DEF Browser!ProbeFails
    <3> QED
      BY <1>9, <2>1, <3>1 DEF Browser!ProbeFails
  <2>3. Browser!NoStrayBrowser'
    BY <1>9 DEF Browser!ProbeFails
  <2> QED
    BY <1>9, <2>2, <2>3 DEF Browser!ProbeFails
<1>10. CASE Browser!Healthy
  BY <1>10 DEF Browser!Healthy
<1>11. CASE Browser!Acquire
  BY <1>11 DEF Browser!Acquire
<1>12. CASE Browser!NewPage
  BY <1>12 DEF Browser!NewPage, Browser!Page
<1>13. CASE Browser!NewPageFails
  <2>1. CASE pausedPages' = pausedPages
    BY <1>13, <2>1 DEF Browser!NewPageFails
  <2>2. CASE pausedPages' = [r \in BrowserRuns |-> None]
    BY <1>13, <2>2 DEF Browser!NewPageFails
  <2> QED
    BY <1>13, <2>1, <2>2 DEF Browser!NewPageFails
<1>14. CASE Browser!Finish
  <2>1. PICK keepOpen \in BOOLEAN : pausedPages' = [pausedPages EXCEPT ![run] =
               IF keepOpen /\ page.open /\ Browser!IsContextHealthy THEN page ELSE None]
    BY <1>14, Zenon DEF Browser!Finish
  <2>2. pausedPages' \in [BrowserRuns -> Browser!Page \union {None}]
    BY <1>14, <2>1 DEF Browser!Finish
  <2>3. Browser!RetainedAreCurrent'
    BY <1>14, <2>1 DEF Browser!Finish
  <2>4. Browser!BrowserTypeOK'
    BY <1>14, <2>2 DEF Browser!Finish
  <2> QED
    BY <1>14, <2>3, <2>4 DEF Browser!Finish
<1>15. CASE Browser!Crash
  BY <1>15 DEF Browser!Crash, Browser!workerVars
<1>16. CASE Browser!CloseEvent
  <2>1. PICK c \in closings :
          /\ closings' = closings \ {c}
          /\ page' = Browser!Shut(page, c)
          /\ IF context = c
               THEN browserState' = "unhealthy" /\ contextClosed' = TRUE /\ Browser!ForgetPages
               ELSE /\ pausedPages' = [r \in BrowserRuns |-> Browser!Shut(pausedPages[r], c)]
                    /\ UNCHANGED <<browserState, contextClosed>>
    BY <1>16, Zenon DEF Browser!CloseEvent
  <2>2. UNCHANGED <<live, context, generation, stale, abandoned, at, run, resuming, retrying>>
    BY <1>16 DEF Browser!CloseEvent
  <2>3. page' \in Browser!Page \union {None} /\ (page \in Browser!Page =>
           page' \in Browser!Page /\ page'.of = page.of /\ page'.in = page.in)
    BY <2>1, ShutPage
  <2>4. \A r \in BrowserRuns :
          /\ pausedPages'[r] \in Browser!Page \union {None}
          /\ pausedPages'[r] # None => /\ pausedPages[r] # None
                                       /\ pausedPages'[r].of = pausedPages[r].of
                                       /\ pausedPages'[r].in = pausedPages[r].in
    BY <2>1, ShutPage
  <2>5. pausedPages' \in [BrowserRuns -> Browser!Page \union {None}]
    BY <2>1, <2>4
  <2>6. Browser!BrowserTypeOK'
    <3>1. closings' \subseteq closings /\ browserState' \in {browserState, "unhealthy"}
      BY <2>1
    <3>2. contextClosed' \in BOOLEAN
      BY <2>1
    <3>3. browserState' \in {"healthy", "unhealthy", "restarting"}
      BY <3>1
    <3>4. at' = "working" => page' \in Browser!Page /\ page'.of = run'
      BY <2>2, <2>3
    <3> QED
      BY <2>2, <2>5, <3>1, <3>2, <3>3, <3>4
  <2>7. Browser!RetainedAreCurrent'
    BY <2>2, <2>4
  <2>8. WorkIsInHand' /\ ClosedOnce' /\ ContextIsTheLast' /\ Browser!NoStrayBrowser'
    BY <2>1, <2>2, <2>3
  <2>9. OpenIsLive' /\ Replacing'
    BY <2>1, <2>2
  <2> QED
    <3> HIDE DEF Browser!BrowserTypeOK, ClosedOnce, ContextIsTheLast, OpenIsLive,
         WorkIsInHand, Replacing, Browser!RetainedAreCurrent, Browser!NoStrayBrowser
    <3> QED
      BY <2>3, <2>6, <2>7, <2>8, <2>9
<1>17. CASE Browser!TabCloses
  <2>1. PICK r \in BrowserRuns :
          pausedPages[r] # None /\ pausedPages' = [pausedPages EXCEPT ![r].open = FALSE]
    BY <1>17 DEF Browser!TabCloses
  <2> DEFINE q == [pausedPages[r] EXCEPT !.open = FALSE]
  <2>2. q \in Browser!Page /\ q.of = pausedPages[r].of /\ q.in = pausedPages[r].in
    <3>1. pausedPages[r] \in Browser!Page
      BY <2>1
    <3> QED
      BY <3>1, ClosedPage
  <2>3. pausedPages' = [pausedPages EXCEPT ![r] = q]
    BY <2>1
  <2> HIDE DEF q
  <2>4. UNCHANGED <<live, closings, context, contextClosed, browserState, generation, stale,
                    abandoned, at, run, resuming, page, retrying>>
    BY <1>17 DEF Browser!TabCloses, Browser!workerVars
  <2>5. Browser!BrowserTypeOK'
    BY <2>2, <2>3, <2>4
  <2>6. Browser!RetainedAreCurrent'
    BY <2>1, <2>2, <2>3, <2>4
  <2> QED
    BY <2>4, <2>5, <2>6
<1> QED
  BY <1>1, <1>2, <1>3, <1>4, <1>5, <1>6, <1>7, <1>8, <1>9, <1>10, <1>11, <1>12, <1>13, <1>14,
     <1>15, <1>16, <1>17, <1>18 DEF Browser!Next

LEMMA BrowserInvSuffices ==
  ASSUME BrowserInv
  PROVE  Browser!RetainedAreCurrent /\ Browser!UsableIsLive /\ Browser!NoStrayBrowser
  BY DEF BrowserInv, OpenIsLive, Browser!UsableIsLive, Browser!IsContextHealthy

\* Only the event of its own end marks the context while the worker stays where it is.
LEMMA MarkedByItsOwn ==
  ASSUME BrowserInv, [Browser!Next]_(Browser!managerVars), ~contextClosed, contextClosed'
  PROVE  at' # at \/ context \notin live
<1> SUFFICES ASSUME at' = at PROVE context \notin live
  OBVIOUS
<1>1. CASE Browser!CloseEvent
  BY <1>1 DEF BrowserInv, ClosedOnce, Browser!CloseEvent
<1>2. CASE UNCHANGED contextClosed
  BY <1>2
<1>3. CASE Browser!Ensure \/ Browser!DropStale \/ Browser!LaunchFails \/ Browser!ProbeFails
           \/ Browser!NewPageFails
  BY <1>3 DEF Browser!Ensure, Browser!DropStale, Browser!LaunchFails, Browser!ProbeFails,
              Browser!NewPageFails, Browser!Failed
<1> QED
  BY <1>1, <1>2, <1>3 DEF Browser!Next, Browser!Take, Browser!Restart, Browser!CloseStale,
     Browser!Launch, Browser!Probe, Browser!Healthy, Browser!Acquire, Browser!NewPage,
     Browser!Finish, Browser!Crash, Browser!TabCloses, Browser!managerVars

\* For any runs and any number of launches: the page a run resumes on is its own and in the
\* context in use, no browser is left running but by a restart that failed, and the late
\* end of a replaced browser does not mark its successor as closed.
THEOREM BrowserIsOwned ==
  ASSUME BrowserParameters
  PROVE  Browser!Spec => /\ [](Browser!RetainedAreCurrent /\ Browser!UsableIsLive
                               /\ Browser!NoStrayBrowser)
                         /\ Browser!LateEventsSpareTheNew
<1>1. BrowserInv /\ [Browser!Next]_(Browser!managerVars) =>
        [~contextClosed /\ contextClosed' => at' # at \/ context \notin live]_(Browser!managerVars)
  BY MarkedByItsOwn
<1> QED
  BY <1>1, BrowserInvAtFirst, BrowserInvStep, BrowserInvSuffices, PTL
     DEF Browser!Spec, Browser!LateEventsSpareTheNew

\* So does the browser beside the other services.
THEOREM OneBrowserIsOwnedBesideOthers ==
  ASSUME BrowserParameters
  PROVE  Services => OneBrowserIsOwned
<1>1. ServicesInit => BrowserInv
  BY BrowserInvAtFirst DEF ServicesInit
<1>2. [ServicesNext]_servicesVars => [Browser!Next]_(Browser!managerVars)
  BY Zenon DEF ServicesNext, Only, servicesVars, managerVars, Browser!managerVars
<1>3. BrowserInv /\ [Browser!Next]_(Browser!managerVars) =>
        [~contextClosed /\ contextClosed' => at' # at \/ context \notin live]_(Browser!managerVars)
  BY MarkedByItsOwn
<1>4. BrowserInv => (focus = "browser" =>
        Browser!RetainedAreCurrent /\ Browser!UsableIsLive /\ Browser!NoStrayBrowser)
  BY BrowserInvSuffices
<1> QED
  BY <1>1, <1>2, <1>3, <1>4, BrowserInvStep, PTL
     DEF Services, OneBrowserIsOwned, Browser!LateEventsSpareTheNew

-----------------------------------------------------------------------------
(* The board of an employer                                                  *)

BoardRows == [state : {"RESOLVED", "UNRESOLVED", "STALE"}, board : Boards!Boards \union {None},
              due : BOOLEAN, old : BOOLEAN]
BoardAnswers == [board : Boards!Boards \union {None}, cached : BOOLEAN]

\* What "no row" and "no board" are called is neither; the employer has a board.
BoardsParameters ==
  /\ MaxBoards \in Nat \ {0} /\ MaxBoardFaults \in Nat
  /\ None \notin BoardRows /\ None \notin BoardAnswers /\ None \notin Boards!Boards
  /\ None \notin BoardTasks

BoardTypes ==
  /\ home \in Boards!Boards /\ open \in BOOLEAN /\ boardFaults \in 0..MaxBoardFaults
  /\ boardRow \in BoardRows \union {None} /\ tasksCrossed \in BOOLEAN
  /\ boardRow # None =>
       /\ boardRow.state = "RESOLVED" <=> boardRow.board \in Boards!Boards
       /\ ~boardRow.due => boardRow.state = "UNRESOLVED"
  /\ shared \in [Boards!Runs -> BoardTasks \union {None}]
  /\ promise \in [BoardTasks -> BoardAnswers \union {None}]
  /\ task = [t \in BoardTasks |-> task[t]]
  /\ \A t \in BoardTasks :
       /\ task[t].step = "wait" => task[t].on \in BoardTasks
       /\ task[t].step = "check" => task[t].was \in BoardRows \union {None}
       /\ task[t].step = "store" => task[t].found \in Boards!Boards \union {None}
       /\ task[t].step = "list" => task[t].cached \in BOOLEAN
       /\ task[t].step = "invalidate" => task[t] = [step |-> "invalidate"]

\* What came from a row, or is about to clear it, has one.
CachedHasARow ==
  \A t \in BoardTasks :
    /\ promise[t] # None /\ promise[t].cached => boardRow # None
    /\ task[t].step = "list" /\ task[t].cached => boardRow # None
    /\ task[t].step \in {"invalidate", "clear"} => boardRow # None
    /\ task[t].step = "check" /\ task[t].was # None => boardRow # None

\* Unless resolutions crossed, the row is as it was read, but for the time that passed; who
\* crawls found nothing or what is due, and who clears the row found it resolved.
LooksAreCurrent ==
  ~tasksCrossed => \A t \in BoardTasks :
    /\ task[t].step = "check" =>
         IF task[t].was = None THEN boardRow = None
         ELSE /\ boardRow # None /\ boardRow.state = task[t].was.state
              /\ task[t].was.due => boardRow.due
    /\ task[t].step \in {"crawl", "store"} => boardRow = None \/ boardRow.due
    /\ task[t].step = "clear" => boardRow.state = "RESOLVED"

BoardsInv == BoardTypes /\ CachedHasARow /\ LooksAreCurrent

LEMMA BoardsInvAtFirst == ASSUME BoardsParameters, Boards!Init PROVE BoardsInv
<1> USE DEF BoardsParameters, Boards!Init, Boards!Idle
<1>1. BoardTypes
  <2>0. 1 \in Boards!Boards /\ 0 \in 0..MaxBoardFaults
    BY DEF Boards!Boards
  <2>1. /\ home \in Boards!Boards /\ open \in BOOLEAN /\ boardFaults \in 0..MaxBoardFaults
        /\ boardRow = None /\ tasksCrossed \in BOOLEAN
    BY <2>0, Zenon
  <2>2. shared \in [Boards!Runs -> BoardTasks \union {None}]
    OBVIOUS
  <2>3. promise \in [BoardTasks -> BoardAnswers \union {None}]
    OBVIOUS
  <2>4. task = [t \in BoardTasks |-> task[t]] /\ \A t \in BoardTasks : task[t].step = "idle"
    OBVIOUS
  <2> QED
    BY <2>1, <2>2, <2>3, <2>4 DEF BoardTypes
<1>2. CachedHasARow /\ LooksAreCurrent
  BY DEF CachedHasARow, LooksAreCurrent
<1> QED
  BY <1>1, <1>2 DEF BoardsInv

\* A record of the row after an attempt, and after it was cleared.
LEMMA FoundRow ==
  ASSUME BoardsParameters, NEW found \in Boards!Boards \union {None}
  PROVE  /\ Boards!Found(found) \in BoardRows /\ Boards!Found(found) # None
         /\ Boards!Found(found).state = "RESOLVED" <=> Boards!Found(found).board \in Boards!Boards
         /\ ~Boards!Found(found).due => Boards!Found(found).state = "UNRESOLVED"
<1>1. CASE found = None
  <2>1. Boards!Found(found) = [state |-> "UNRESOLVED", board |-> None, due |-> FALSE, old |-> FALSE]
    BY <1>1 DEF Boards!Found
  <2>2. Boards!Found(found) \in BoardRows
    BY <2>1 DEF BoardRows
  <2>3. Boards!Found(found) # None
    BY <2>2 DEF BoardsParameters
  <2> QED
    BY <2>1, <2>2, <2>3 DEF BoardsParameters
<1>2. CASE found # None
  <2>1. Boards!Found(found) = [state |-> "RESOLVED", board |-> found, due |-> TRUE, old |-> FALSE]
    BY <1>2 DEF Boards!Found
  <2>2. Boards!Found(found) \in BoardRows
    BY <2>1 DEF BoardRows
  <2>3. Boards!Found(found) # None
    BY <2>2 DEF BoardsParameters
  <2> QED
    BY <1>2, <2>1, <2>2, <2>3
<1> QED
  BY <1>1, <1>2

\* What the answer of a resolution makes of its task.
LEMMA AnswersTask ==
  ASSUME BoardsParameters, BoardTypes, NEW t \in BoardTasks, NEW again, NEW answer \in BoardAnswers,
         Boards!Answers(t, again, answer), answer.cached => boardRow' # None,
         boardRow # None => boardRow' # None, CachedHasARow
  PROVE  /\ promise' \in [BoardTasks -> BoardAnswers \union {None}]
         /\ \A u \in BoardTasks : promise'[u] # None /\ promise'[u].cached => boardRow' # None
         /\ task' = [u \in BoardTasks |-> task'[u]]
         /\ \A u \in BoardTasks \ {t} : task'[u] = task[u]
         /\ task'[t].step \in {"done", "list"}
         /\ task'[t].step = "list" => /\ task'[t].cached \in BOOLEAN
                                      /\ task'[t].cached => boardRow' # None
<1> DEFINE next == IF answer = Boards!Miss THEN [step |-> "done"]
                   ELSE [step |-> "list", again |-> again, board |-> answer.board,
                         cached |-> answer.cached]
<1>1. task' = [task EXCEPT ![t] = next]
  BY DEF Boards!Answers
<1>2. /\ next.step \in {"done", "list"}
      /\ next.step = "list" => next.cached = answer.cached
  OBVIOUS
<1>3. answer.cached \in BOOLEAN
  BY DEF BoardAnswers
<1>4. promise' = promise \/ promise' = [promise EXCEPT ![t] = answer]
  BY DEF Boards!Answers
<1> HIDE DEF next
<1>5. /\ task' = [u \in BoardTasks |-> task'[u]] /\ task'[t] = next
      /\ \A u \in BoardTasks \ {t} : task'[u] = task[u]
  BY <1>1 DEF BoardTypes
<1>6. /\ promise' \in [BoardTasks -> BoardAnswers \union {None}]
      /\ \A u \in BoardTasks : promise'[u] # None /\ promise'[u].cached => boardRow' # None
  BY <1>4 DEF BoardTypes, CachedHasARow
<1> QED
  BY <1>2, <1>3, <1>5, <1>6

\* Steps that leave the row alone.
LEMMA RowIsKeptStep ==
  ASSUME BoardsParameters, BoardsInv, UNCHANGED <<boardRow, tasksCrossed>>,
         NEW t \in BoardTasks,
         \/ Boards!Ask(t) \/ Boards!GetsAnswer(t) \/ Boards!Read(t) \/ Boards!Crawl(t)
         \/ Boards!List(t) \/ Boards!Invalidate(t)
  PROVE  BoardsInv'
<1> USE DEF BoardsInv
<1>t. task = [u \in BoardTasks |-> task[u]]
  BY DEF BoardTypes
<1>1. CASE Boards!Ask(t)
  <2> DEFINE r == BoardRunOf[t]
  <2>1. /\ task[t].step = "ask" /\ UNCHANGED <<home, open, promise, lists, boardFaults>>
        /\ \/ /\ shared' = [shared EXCEPT ![r] = t]
              /\ task' = [task EXCEPT ![t] = [step |-> "read", again |-> FALSE]]
           \/ /\ shared[r] # None /\ shared' = shared
              /\ task' = [task EXCEPT ![t] = [step |-> "wait", on |-> shared[r]]]
    BY <1>1 DEF Boards!Ask
  <2>2. r \in Boards!Runs
    BY DEF Boards!Runs
  <2>3. shared' \in [Boards!Runs -> BoardTasks \union {None}]
    BY <2>1, <2>2 DEF BoardTypes
  <2>4. shared[r] # None => shared[r] \in BoardTasks
    BY <2>2 DEF BoardTypes
  <2>5. /\ task' = [u \in BoardTasks |-> task'[u]]
        /\ \A u \in BoardTasks \ {t} : task'[u] = task[u]
        /\ \/ task'[t].step = "read" \/ (task'[t].step = "wait" /\ task'[t].on \in BoardTasks)
    BY <1>t, <2>1, <2>4
  <2> QED
    BY <2>1, <2>3, <2>5 DEF BoardTypes, CachedHasARow, LooksAreCurrent
<1>2. CASE Boards!GetsAnswer(t)
  <2> DEFINE answer == promise[task[t].on]
             next == IF answer = Boards!Miss THEN [step |-> "done"]
                     ELSE [step |-> "list", again |-> FALSE, board |-> answer.board,
                           cached |-> answer.cached]
  <2>1. /\ answer # None /\ task[t].on \in BoardTasks /\ task' = [task EXCEPT ![t] = next]
        /\ UNCHANGED <<home, open, shared, promise, lists, boardFaults>>
    BY <1>2 DEF Boards!GetsAnswer, BoardTypes
  <2>2. answer.cached \in BOOLEAN /\ (answer.cached => boardRow # None)
    BY <2>1 DEF BoardTypes, CachedHasARow, BoardAnswers
  <2>3. next.step \in {"done", "list"} /\ (next.step = "list" => next.cached = answer.cached)
    OBVIOUS
  <2> HIDE DEF next
  <2>4. /\ task' = [u \in BoardTasks |-> task'[u]] /\ task'[t] = next
        /\ \A u \in BoardTasks \ {t} : task'[u] = task[u]
    BY <1>t, <2>1
  <2> QED
    BY <2>1, <2>2, <2>3, <2>4 DEF BoardTypes, CachedHasARow, LooksAreCurrent
<1>3. CASE Boards!Read(t)
  <2>1. /\ task' = [u \in BoardTasks |-> task'[u]]
        /\ \A u \in BoardTasks \ {t} : task'[u] = task[u]
        /\ task'[t].step = "check" /\ task'[t].was = boardRow
        /\ UNCHANGED <<home, open, shared, promise, lists, boardFaults>>
    BY <1>t, <1>3 DEF Boards!Read
  <2>2. BoardTypes'
    BY <2>1 DEF BoardTypes
  <2>3. CachedHasARow'
    BY <2>1 DEF CachedHasARow
  <2>4. LooksAreCurrent'
    BY <2>1 DEF LooksAreCurrent
  <2> QED
    BY <2>2, <2>3, <2>4
<1>4. CASE Boards!Crawl(t)
  <2>1. PICK found \in {home, None} :
          task' = [task EXCEPT ![t] = [step |-> "store", again |-> @.again, found |-> found]]
    BY <1>4 DEF Boards!Crawl
  <2>2. /\ task[t].step = "crawl" /\ UNCHANGED <<home, open, shared, promise, lists>>
        /\ boardFaults' \in 0..MaxBoardFaults
    BY <1>4 DEF Boards!Crawl, BoardTypes, BoardsParameters
  <2>3. /\ task' = [u \in BoardTasks |-> task'[u]]
        /\ \A u \in BoardTasks \ {t} : task'[u] = task[u]
        /\ task'[t].step = "store" /\ task'[t].found = found
    BY <1>t, <2>1
  <2>4. found \in Boards!Boards \union {None}
    BY <2>1 DEF BoardTypes
  <2>5. BoardTypes'
    BY <2>2, <2>3, <2>4 DEF BoardTypes
  <2>6. CachedHasARow'
    BY <2>2, <2>3 DEF CachedHasARow
  <2>7. LooksAreCurrent'
    BY <2>2, <2>3 DEF LooksAreCurrent
  <2> QED
    BY <2>5, <2>6, <2>7
<1>5. CASE Boards!List(t)
  <2>1. /\ task[t].step = "list" /\ UNCHANGED <<home, open, shared, promise>>
        /\ \/ task' = [task EXCEPT ![t] = [step |-> "invalidate"]] /\ task[t].cached
           \/ task' = [task EXCEPT ![t] = [step |-> "done"]]
        /\ boardFaults' = boardFaults \/ (boardFaults < MaxBoardFaults /\ boardFaults' = boardFaults + 1)
    BY <1>5 DEF Boards!List, Boards!GivenUp
  <2>2. boardFaults' \in 0..MaxBoardFaults
    BY <2>1 DEF BoardTypes, BoardsParameters
  <2>3. /\ task' = [u \in BoardTasks |-> task'[u]]
        /\ \A u \in BoardTasks \ {t} : task'[u] = task[u]
        /\ task'[t].step \in {"done", "invalidate"}
        /\ task'[t].step = "invalidate" => task[t].cached
    BY <1>t, <2>1
  <2>5. BoardTypes'
    BY <2>1, <2>2, <2>3 DEF BoardTypes
  <2>6. CachedHasARow'
    BY <2>1, <2>3 DEF CachedHasARow
  <2>7. LooksAreCurrent'
    BY <2>3 DEF LooksAreCurrent
  <2> QED
    BY <2>5, <2>6, <2>7
<1>6. CASE Boards!Invalidate(t)
  <2> DEFINE next == IF boardRow.state = "RESOLVED" THEN "clear" ELSE "done"
  <2>1. /\ task[t].step = "invalidate" /\ UNCHANGED <<home, open, shared, promise, boardFaults>>
        /\ task' = [task EXCEPT ![t].step = next]
    BY <1>6 DEF Boards!Invalidate
  <2>2. next \in {"clear", "done"} /\ (next = "clear" => boardRow.state = "RESOLVED")
    OBVIOUS
  <2> HIDE DEF next
  <2>3. /\ task' = [u \in BoardTasks |-> task'[u]]
        /\ \A u \in BoardTasks \ {t} : task'[u] = task[u]
        /\ task'[t] = [task[t] EXCEPT !.step = next]
    BY <1>t, <2>1
  <2>4. task'[t].step = next
    BY <2>1, <2>3 DEF BoardTypes
  <2>5. BoardTypes'
    BY <2>1, <2>2, <2>3, <2>4 DEF BoardTypes
  <2>6. CachedHasARow'
    BY <2>1, <2>2, <2>3, <2>4 DEF CachedHasARow
  <2>7. LooksAreCurrent'
    BY <2>2, <2>3, <2>4 DEF LooksAreCurrent
  <2> QED
    BY <2>5, <2>6, <2>7
<1> QED
  BY <1>1, <1>2, <1>3, <1>4, <1>5, <1>6

\* A resolution asks the row, or crawls.
LEMMA BoardCheckStep ==
  ASSUME BoardsParameters, BoardsInv, NEW t \in BoardTasks, Boards!Check(t)
  PROVE  BoardsInv' /\ UNCHANGED <<boardRow, tasksCrossed>>
<1> USE DEF BoardsInv
<1> DEFINE was == task[t].was
           again == task[t].again
<1>1. /\ task[t].step = "check"
      /\ UNCHANGED <<home, open, boardRow, shared, lists, tasksCrossed>>
      /\ \/ /\ Boards!Trusted(was) /\ boardFaults' = boardFaults
            /\ Boards!Answers(t, again, [board |-> was.board, cached |-> TRUE])
         \/ /\ Boards!Settled(was) /\ boardFaults' = boardFaults
            /\ Boards!Answers(t, again, Boards!Miss)
         \/ /\ Boards!Trusted(was) \/ (~Boards!Trusted(was) /\ ~Boards!Settled(was))
            /\ \/ boardFaults' = boardFaults
               \/ boardFaults < MaxBoardFaults /\ boardFaults' = boardFaults + 1
            /\ task' = [task EXCEPT ![t] = [step |-> "crawl", again |-> again]]
            /\ promise' = promise
  BY DEF Boards!Check
<1>2. boardFaults' \in 0..MaxBoardFaults
  BY <1>1 DEF BoardTypes, BoardsParameters
<1>3. was \in BoardRows \union {None} /\ (was # None => boardRow # None)
  BY <1>1 DEF BoardTypes, CachedHasARow
<1> HIDE DEF was, again
<1>4. ASSUME NEW answer \in BoardAnswers, Boards!Answers(t, again, answer),
             answer.cached => boardRow # None
      PROVE  BoardsInv'
  <2>1. /\ promise' \in [BoardTasks -> BoardAnswers \union {None}]
        /\ \A u \in BoardTasks : promise'[u] # None /\ promise'[u].cached => boardRow' # None
        /\ task' = [u \in BoardTasks |-> task'[u]]
        /\ \A u \in BoardTasks \ {t} : task'[u] = task[u]
        /\ task'[t].step \in {"done", "list"}
        /\ task'[t].step = "list" => /\ task'[t].cached \in BOOLEAN
                                     /\ task'[t].cached => boardRow' # None
    BY <1>1, <1>4, AnswersTask
  <2>2. BoardTypes'
    BY <1>1, <1>2, <2>1 DEF BoardTypes
  <2>3. CachedHasARow'
    BY <1>1, <2>1 DEF CachedHasARow
  <2>4. LooksAreCurrent'
    BY <1>1, <2>1 DEF LooksAreCurrent
  <2> QED
    BY <2>2, <2>3, <2>4
<1>5. CASE Boards!Trusted(was) /\ Boards!Answers(t, again, [board |-> was.board, cached |-> TRUE])
  <2>1. [board |-> was.board, cached |-> TRUE] \in BoardAnswers /\ boardRow # None
    BY <1>3, <1>5 DEF Boards!Trusted, BoardAnswers, BoardRows
  <2> QED
    BY <1>1, <1>4, <1>5, <2>1
<1>6. CASE Boards!Answers(t, again, Boards!Miss)
  <2>1. Boards!Miss \in BoardAnswers /\ ~Boards!Miss.cached
    BY DEF Boards!Miss, BoardAnswers
  <2> QED
    BY <1>1, <1>4, <1>6, <2>1
<1>7. CASE /\ Boards!Trusted(was) \/ (~Boards!Trusted(was) /\ ~Boards!Settled(was))
           /\ task' = [task EXCEPT ![t] = [step |-> "crawl", again |-> again]]
           /\ promise' = promise
  <2>1. /\ task' = [u \in BoardTasks |-> task'[u]]
        /\ \A u \in BoardTasks \ {t} : task'[u] = task[u]
        /\ task'[t].step = "crawl"
    BY <1>7 DEF BoardTypes
  <2>2. was = None \/ was.state = "RESOLVED" \/ was.due
    BY <1>7 DEF Boards!Trusted, Boards!Settled
  <2>3. ~tasksCrossed => boardRow = None \/ boardRow.due
    BY <1>1, <1>3, <2>2 DEF LooksAreCurrent, BoardTypes, was
  <2>4. BoardTypes'
    BY <1>1, <1>2, <1>7, <2>1 DEF BoardTypes
  <2>5. CachedHasARow'
    BY <1>1, <1>7, <2>1 DEF CachedHasARow
  <2>6. LooksAreCurrent'
    BY <1>1, <2>1, <2>3 DEF LooksAreCurrent
  <2> QED
    BY <1>1, <2>4, <2>5, <2>6
<1> QED
  BY <1>1, <1>5, <1>6, <1>7

\* An attempt, or the end of a board's use, is written.
LEMMA BoardStoreStep ==
  ASSUME BoardsParameters, BoardsInv, NEW t \in BoardTasks, Boards!Store(t)
  PROVE  BoardsInv' /\ (~tasksCrossed => boardRow = None \/ boardRow.due)
                    /\ (~tasksCrossed' => ~tasksCrossed)
<1> USE DEF BoardsInv
<1> DEFINE found == task[t].found
           answer == IF found = None THEN Boards!Miss ELSE [board |-> found, cached |-> FALSE]
<1>1. /\ task[t].step = "store" /\ UNCHANGED <<home, open, shared, lists, boardFaults>>
      /\ boardRow' = Boards!Found(found)
      /\ tasksCrossed' = (tasksCrossed \/ Boards!UnderWay(t))
      /\ Boards!Answers(t, task[t].again, answer)
  BY DEF Boards!Store
<1>2. found \in Boards!Boards \union {None}
  BY <1>1 DEF BoardTypes
<1>3. answer \in BoardAnswers /\ ~answer.cached
  BY <1>2 DEF BoardAnswers, Boards!Miss
<1> HIDE DEF found, answer
<1>4. /\ boardRow' \in BoardRows /\ boardRow' # None
      /\ boardRow'.state = "RESOLVED" <=> boardRow'.board \in Boards!Boards
      /\ ~boardRow'.due => boardRow'.state = "UNRESOLVED"
  BY <1>1, <1>2, FoundRow
<1>5. /\ promise' \in [BoardTasks -> BoardAnswers \union {None}]
      /\ \A u \in BoardTasks : promise'[u] # None /\ promise'[u].cached => boardRow' # None
      /\ task' = [u \in BoardTasks |-> task'[u]]
      /\ \A u \in BoardTasks \ {t} : task'[u] = task[u]
      /\ task'[t].step \in {"done", "list"}
      /\ task'[t].step = "list" => /\ task'[t].cached \in BOOLEAN
                                   /\ task'[t].cached => boardRow' # None
  BY <1>1, <1>3, <1>4, AnswersTask
<1>6. /\ tasksCrossed' \in BOOLEAN
      /\ ~tasksCrossed' => /\ ~tasksCrossed
                           /\ \A u \in BoardTasks \ {t} : task[u].step \in {"idle", "ask", "wait", "done"}
  BY <1>1 DEF Boards!UnderWay, BoardTypes
<1>7. BoardTypes'
  BY <1>1, <1>4, <1>5, <1>6 DEF BoardTypes
<1>8. CachedHasARow'
  BY <1>4, <1>5 DEF CachedHasARow
<1>9. LooksAreCurrent'
  BY <1>5, <1>6 DEF LooksAreCurrent
<1> QED
  BY <1>1, <1>6, <1>7, <1>8, <1>9 DEF LooksAreCurrent

LEMMA BoardClearStep ==
  ASSUME BoardsParameters, BoardsInv, NEW t \in BoardTasks, Boards!Clear(t)
  PROVE  BoardsInv' /\ (~tasksCrossed => boardRow = None \/ boardRow.due)
                    /\ (~tasksCrossed' => ~tasksCrossed)
<1> USE DEF BoardsInv
<1>1. /\ task[t].step = "clear" /\ UNCHANGED <<home, open, promise, boardFaults>>
      /\ boardRow' = [boardRow EXCEPT !.state = "STALE", !.board = None, !.due = TRUE]
      /\ shared' = [shared EXCEPT ![BoardRunOf[t]] = None]
      /\ task' = [task EXCEPT ![t] = [step |-> "read", again |-> TRUE]]
      /\ tasksCrossed' = (tasksCrossed \/ Boards!UnderWay(t))
  BY DEF Boards!Clear
<1>2. boardRow \in BoardRows /\ boardRow # None
  BY <1>1 DEF BoardTypes, CachedHasARow
<1>3. /\ boardRow' \in BoardRows /\ boardRow' # None /\ boardRow'.state = "STALE"
      /\ boardRow'.board = None /\ boardRow'.due
  BY <1>1, <1>2 DEF BoardRows, BoardsParameters
<1>4. shared' \in [Boards!Runs -> BoardTasks \union {None}]
  BY <1>1 DEF BoardTypes
<1>5. /\ task' = [u \in BoardTasks |-> task'[u]]
      /\ \A u \in BoardTasks \ {t} : task'[u] = task[u]
      /\ task'[t].step = "read"
  BY <1>1 DEF BoardTypes
<1>6. /\ tasksCrossed' \in BOOLEAN
      /\ ~tasksCrossed' => /\ ~tasksCrossed
                           /\ \A u \in BoardTasks \ {t} : task[u].step \in {"idle", "ask", "wait", "done"}
  BY <1>1 DEF Boards!UnderWay, BoardTypes
<1>7. BoardTypes'
  BY <1>1, <1>3, <1>4, <1>5, <1>6 DEF BoardTypes, BoardsParameters
<1>8. CachedHasARow'
  BY <1>3 DEF CachedHasARow
<1>9. LooksAreCurrent'
  BY <1>5, <1>6 DEF LooksAreCurrent
<1>10. ~tasksCrossed => boardRow.due
  BY <1>1, <1>2 DEF LooksAreCurrent, BoardTypes
<1> QED
  BY <1>6, <1>7, <1>8, <1>9, <1>10

\* The employer, time, and the runs.
LEMMA BoardTurnStep ==
  ASSUME BoardsParameters, BoardsInv,
         \/ Boards!EmployerMoves \/ \E r \in Boards!Runs : Boards!Begin(r) \/ Boards!End(r)
  PROVE  BoardsInv' /\ UNCHANGED <<boardRow, tasksCrossed>>
<1> USE DEF BoardsInv
<1>1. CASE Boards!EmployerMoves
  <2>0. /\ (home < MaxBoards /\ home' = home + 1 /\ open') \/ (~open' /\ home' = home)
        /\ open' \in BOOLEAN
        /\ UNCHANGED <<boardRow, task, shared, promise, lists, tasksCrossed, boardFaults>>
    BY <1>1 DEF Boards!EmployerMoves
  <2>1. home' \in Boards!Boards
    BY <2>0 DEF BoardTypes, Boards!Boards, BoardsParameters
  <2> QED
    BY <2>0, <2>1 DEF BoardTypes, CachedHasARow, LooksAreCurrent
<1>2. ASSUME NEW r \in Boards!Runs, Boards!Begin(r)
      PROVE  BoardsInv' /\ UNCHANGED <<boardRow, tasksCrossed>>
  <2>1. /\ task' = [t \in BoardTasks |-> IF BoardRunOf[t] = r THEN [step |-> "ask"] ELSE task[t]]
        /\ shared' = [shared EXCEPT ![r] = None]
        /\ promise' = [t \in BoardTasks |-> IF BoardRunOf[t] = r THEN None ELSE promise[t]]
        /\ UNCHANGED <<home, open, boardRow, tasksCrossed, boardFaults>>
    BY <1>2 DEF Boards!Begin
  <2>2. /\ task' = [t \in BoardTasks |-> task'[t]]
        /\ \A t \in BoardTasks : task'[t] = task[t] \/ task'[t].step = "ask"
    BY <2>1
  <2>3. /\ promise' \in [BoardTasks -> BoardAnswers \union {None}]
        /\ \A t \in BoardTasks : promise'[t] = promise[t] \/ promise'[t] = None
    BY <2>1 DEF BoardTypes
  <2>4. shared' \in [Boards!Runs -> BoardTasks \union {None}]
    BY <2>1 DEF BoardTypes
  <2>5. BoardTypes'
    BY <2>1, <2>2, <2>3, <2>4 DEF BoardTypes
  <2>6. CachedHasARow'
    BY <2>1, <2>2, <2>3 DEF CachedHasARow
  <2>7. LooksAreCurrent'
    BY <2>1, <2>2 DEF LooksAreCurrent
  <2> QED
    BY <2>1, <2>5, <2>6, <2>7
<1>3. ASSUME NEW r \in Boards!Runs, Boards!End(r)
      PROVE  BoardsInv' /\ UNCHANGED <<boardRow, tasksCrossed>>
  <2>1. /\ task' = [t \in BoardTasks |-> IF BoardRunOf[t] = r THEN Boards!Idle ELSE task[t]]
        /\ UNCHANGED <<home, open, boardRow, shared, promise, tasksCrossed, boardFaults>>
    BY <1>3 DEF Boards!End
  <2>2. /\ task' = [t \in BoardTasks |-> task'[t]]
        /\ \A t \in BoardTasks : task'[t] = task[t] \/ task'[t].step = "idle"
    BY <2>1 DEF Boards!Idle
  <2>5. BoardTypes'
    BY <2>1, <2>2 DEF BoardTypes
  <2>6. CachedHasARow'
    BY <2>1, <2>2 DEF CachedHasARow
  <2>7. LooksAreCurrent'
    BY <2>1, <2>2 DEF LooksAreCurrent
  <2> QED
    BY <2>1, <2>5, <2>6, <2>7
<1> QED
  BY <1>1, <1>2, <1>3

LEMMA BoardTimeStep ==
  ASSUME BoardsParameters, BoardsInv, Boards!ComesDue \/ Boards!GrowsOld
  PROVE  /\ BoardsInv'
         /\ \/ boardRow.due \/ [boardRow' EXCEPT !.due = FALSE] = boardRow
            \/ [boardRow' EXCEPT !.old = boardRow.old] = boardRow
<1> USE DEF BoardsInv
<1>1. /\ boardRow # None
      /\ UNCHANGED <<home, open, task, shared, promise, lists, tasksCrossed, boardFaults>>
      /\ \/ ~boardRow.due /\ boardRow' = [boardRow EXCEPT !.due = TRUE]
         \/ boardRow' = [boardRow EXCEPT !.old = TRUE]
  BY DEF Boards!ComesDue, Boards!GrowsOld
<1>2. boardRow \in BoardRows
  BY <1>1 DEF BoardTypes
<1>3. /\ boardRow' \in BoardRows
      /\ boardRow'.state = boardRow.state /\ boardRow'.board = boardRow.board
      /\ boardRow'.due = boardRow.due \/ boardRow'.due = TRUE
  BY <1>1, <1>2 DEF BoardRows
<1>8. boardRow' # None
  BY <1>3 DEF BoardsParameters
<1>4. \/ boardRow.due \/ [boardRow' EXCEPT !.due = FALSE] = boardRow
      \/ [boardRow' EXCEPT !.old = boardRow.old] = boardRow
  BY <1>1, <1>2 DEF BoardRows
<1>5. BoardTypes'
  BY <1>1, <1>3, <1>8 DEF BoardTypes
<1>6. CachedHasARow'
  BY <1>1, <1>3, <1>8 DEF CachedHasARow
<1>7. LooksAreCurrent'
  BY <1>1, <1>3, <1>8 DEF LooksAreCurrent
<1> QED
  BY <1>4, <1>5, <1>6, <1>7

MissStays ==
  boardRow # None =>
    \/ boardRow.due \/ tasksCrossed' \/ [boardRow' EXCEPT !.old = boardRow.old] = boardRow
    \/ [boardRow' EXCEPT !.due = FALSE] = boardRow

LEMMA BoardsStep ==
  ASSUME BoardsParameters, BoardsInv, Boards!Next PROVE BoardsInv' /\ MissStays
<1>1. ASSUME boardRow' = boardRow PROVE MissStays
  <2>1. boardRow # None => boardRow \in BoardRows
    BY DEF BoardsInv, BoardTypes
  <2> QED
    BY <1>1, <2>1 DEF MissStays, BoardRows
<1>2. CASE Boards!ComesDue \/ Boards!GrowsOld
  BY <1>2, BoardTimeStep DEF MissStays
<1>3. CASE Boards!EmployerMoves \/ \E r \in Boards!Runs : Boards!Begin(r) \/ Boards!End(r)
  BY <1>1, <1>3, BoardTurnStep
<1>4. ASSUME NEW t \in BoardTasks, Boards!TaskSteps(t)
      PROVE  BoardsInv' /\ MissStays
  <2>1. CASE Boards!Store(t)
    BY <2>1, BoardStoreStep DEF MissStays
  <2>2. CASE Boards!Clear(t)
    BY <2>2, BoardClearStep DEF MissStays
  <2>3. CASE Boards!Check(t)
    BY <1>1, <2>3, BoardCheckStep
  <2>4. CASE \/ Boards!Ask(t) \/ Boards!GetsAnswer(t) \/ Boards!Read(t) \/ Boards!Crawl(t)
             \/ Boards!List(t) \/ Boards!Invalidate(t)
    <3>1. UNCHANGED <<boardRow, tasksCrossed>>
      BY <2>4 DEF Boards!Ask, Boards!GetsAnswer, Boards!Read, Boards!Crawl, Boards!List,
         Boards!Invalidate
    <3> QED
      BY <1>1, <2>4, <3>1, RowIsKeptStep
  <2> QED
    BY <1>4, <2>1, <2>2, <2>3, <2>4 DEF Boards!TaskSteps
<1> QED
  BY <1>2, <1>3, <1>4 DEF Boards!Next, Boards!RunSteps

LEMMA BoardsInvStep ==
  ASSUME BoardsParameters, BoardsInv, [Boards!Next]_boardVars
  PROVE  BoardsInv' /\ [MissStays]_boardVars
<1>1. CASE Boards!Next
  BY <1>1, BoardsStep
<1>2. CASE UNCHANGED boardVars
  BY <1>2 DEF BoardsInv, BoardTypes, CachedHasARow, LooksAreCurrent, boardVars
<1> QED
  BY <1>1, <1>2

\* What employerBoardResolution keeps of an employer: while no two resolutions cross, a board
\* that was not found is not looked for again before its time, however many runs ask for
\* it, share the answer of one of them, fail or find the cached board gone.
THEOREM MissesStay ==
  ASSUME BoardsParameters
  PROVE  Boards!Spec => Boards!SettledMissStays
<1>1. Boards!Init => BoardsInv
  BY BoardsInvAtFirst
<1>2. BoardsInv /\ [Boards!Next]_(Boards!boardVars) => BoardsInv' /\ [MissStays]_(Boards!boardVars)
  BY BoardsInvStep DEF boardVars, Boards!boardVars
<1> QED
  BY <1>1, <1>2, PTL DEF Boards!Spec, Boards!SettledMissStays, MissStays

-----------------------------------------------------------------------------
(* The fresh radar                                                           *)

FreshParameters ==
  /\ MaxSignals \in Nat /\ MaxFreshFaults \in Nat
  /\ None \notin Fresh!SignalRow

\* A run looks at signals that were published, and knows the rows it goes on with.
RunTyped(r) ==
  /\ radar[r] = Fresh!Idle \/ radar[r].step \in {"load", "create", "mark", "work", "out of time"}
  /\ radar[r].step = "load" => radar[r].selected \subseteq 1..published
  /\ radar[r].step \in {"create", "mark"} =>
       /\ radar[r] = [step |-> radar[r].step, selected |-> radar[r].selected,
                      official |-> radar[r].official, was |-> radar[r].was]
       /\ radar[r].selected \subseteq 1..published
       /\ \A s \in radar[r].selected :
            radar[r].was[s] # None \/ radar[r].step = "mark" => signals[s] # None
  /\ radar[r].step \in {"work", "out of time"} =>
       /\ radar[r] = [step |-> radar[r].step, left |-> radar[r].left,
                      official |-> radar[r].official, was |-> radar[r].was,
                      hand |-> radar[r].hand]
       /\ radar[r].left \subseteq 1..published /\ DOMAIN radar[r].hand \subseteq 1..published
       /\ radar[r].left \cap DOMAIN radar[r].hand = {}
       /\ radar[r].hand \in [DOMAIN radar[r].hand ->
                               {Fresh!Searching, "RESOLVED", "CLOSED", "PENDING"}]
       /\ \A s \in radar[r].left \union DOMAIN radar[r].hand : signals[s] # None

RadarTypes ==
  /\ Fresh!FreshTypeOK /\ runsCrossed \in BOOLEAN
  /\ radar = [r \in FreshRuns |-> radar[r]]
  /\ \A r \in FreshRuns : RunTyped(r)

\* An outcome that is about to be recorded is true.
OutcomesAreTrue ==
  \A r \in FreshRuns : \A s \in Fresh!InHand(r) : radar[r].hand[s] = "RESOLVED" => s \in promoted

\* A run knows which of its signals are resolved, and has none of them in its hands.
RowResolved(s) == signals[s] # None /\ signals[s].state = "RESOLVED"
KnowsTheResolved(r) ==
  /\ radar[r].step \in {"create", "mark"} =>
       \A s \in radar[r].selected : RowResolved(s) =>
         radar[r].was[s] # None /\ radar[r].was[s].state = "RESOLVED"
  /\ radar[r].step \in {"work", "out of time"} =>
       \A s \in radar[r].left : RowResolved(s) =>
         radar[r].was[s] # None /\ radar[r].was[s].state = "RESOLVED"
  /\ \A s \in Fresh!InHand(r) : ~RowResolved(s)

\* Unless runs crossed, there is one, and it knows.
RunsKnowTheResolved ==
  ~runsCrossed =>
    /\ \A q, r \in FreshRuns : radar[q] # Fresh!Idle /\ radar[r] # Fresh!Idle => q = r
    /\ \A r \in FreshRuns : KnowsTheResolved(r)

RadarInv == RadarTypes /\ Fresh!ResolvedHasPosting /\ OutcomesAreTrue /\ RunsKnowTheResolved

LEMMA RadarInvAtFirst == ASSUME FreshParameters, Fresh!Init PROVE RadarInv
<1> USE DEF FreshParameters, Fresh!Init
<1>1. /\ radar = [r \in FreshRuns |-> Fresh!Idle] /\ Fresh!Idle.step = "idle"
      /\ \A s \in Fresh!Signals : signals[s] = None
  BY DEF Fresh!Idle
<1>2. Fresh!FreshTypeOK
  <2>1. published \in 0..MaxSignals /\ radarFaults \in 0..MaxFreshFaults
    OBVIOUS
  <2>2. faded \subseteq 1..published /\ promoted \subseteq 1..published
    OBVIOUS
  <2>3. signals \in [Fresh!Signals -> Fresh!SignalRow \union {None}]
    OBVIOUS
  <2> QED
    BY <1>1, <2>1, <2>2, <2>3 DEF Fresh!FreshTypeOK
<1>3. \A r \in FreshRuns : radar[r] = Fresh!Idle /\ Fresh!InHand(r) = {}
  BY <1>1 DEF Fresh!InHand
<1>4. RadarTypes
  BY <1>1, <1>2, <1>3 DEF RadarTypes, RunTyped
<1>5. Fresh!ResolvedHasPosting
  BY <1>1 DEF Fresh!ResolvedHasPosting
<1>6. OutcomesAreTrue /\ RunsKnowTheResolved
  BY <1>1, <1>3 DEF OutcomesAreTrue, RunsKnowTheResolved, KnowsTheResolved
<1> QED
  BY <1>4, <1>5, <1>6 DEF RadarInv

\* The runs that stand still keep what they know, while the feed grows and no row is lost.
LEMMA RunsStayTyped ==
  ASSUME RadarTypes, NEW r, published' \in 0..MaxSignals, published <= published',
         radar' = [q \in FreshRuns |-> radar'[q]],
         \A q \in FreshRuns \ {r} : radar'[q] = radar[q],
         r \in FreshRuns => RunTyped(r)',
         \A s \in 1..published : signals[s] # None => signals'[s] # None
  PROVE  /\ radar' = [q \in FreshRuns |-> radar'[q]]
         /\ \A q \in FreshRuns : RunTyped(q)'
<1>1. 1..published \subseteq 1..published'
  BY DEF RadarTypes, Fresh!FreshTypeOK
<1>2. ASSUME NEW q \in FreshRuns \ {r} PROVE RunTyped(q)'
  <2>1. radar'[q] = radar[q] /\ RunTyped(q)
    BY DEF RadarTypes
  <2> QED
    BY <1>1, <2>1 DEF RunTyped
<1> QED
  BY <1>2

LEMMA OneRunKnows ==
  ASSUME NEW r \in FreshRuns,
         ~runsCrossed' => /\ \A q \in FreshRuns \ {r} : radar'[q] = Fresh!Idle
                          /\ KnowsTheResolved(r)'
  PROVE  RunsKnowTheResolved'
<1> SUFFICES ASSUME ~runsCrossed'
             PROVE  /\ \A q, p \in FreshRuns : radar'[q] # Fresh!Idle /\ radar'[p] # Fresh!Idle => q = p
                    /\ \A q \in FreshRuns : KnowsTheResolved(q)'
  BY DEF RunsKnowTheResolved
<1>1. ASSUME NEW q \in FreshRuns \ {r} PROVE KnowsTheResolved(q)'
  <2>1. radar'[q].step = "idle"
    BY DEF Fresh!Idle
  <2> QED
    BY <2>1 DEF KnowsTheResolved, Fresh!InHand
<1> QED
  BY <1>1

\* The run is the only one, unless runs crossed.
LEMMA AloneUnlessCrossed ==
  ASSUME RadarInv, NEW r \in FreshRuns, radar[r] # Fresh!Idle, ~runsCrossed
  PROVE  \A q \in FreshRuns \ {r} : radar[q] = Fresh!Idle
  BY DEF RadarInv, RunsKnowTheResolved

\* A step of a run that changes no row.
LEMMA RunAloneStep ==
  ASSUME FreshParameters, RadarInv, NEW r \in FreshRuns,
         UNCHANGED <<published, faded, signals>>,
         promoted \subseteq promoted', promoted' \subseteq 1..published,
         radarFaults' \in 0..MaxFreshFaults,
         runsCrossed' \in BOOLEAN,
         runsCrossed => runsCrossed',
         radar' = [q \in FreshRuns |-> radar'[q]],
         \A q \in FreshRuns \ {r} : radar'[q] = radar[q],
         ~runsCrossed' => \A q \in FreshRuns \ {r} : radar[q] = Fresh!Idle,
         RunTyped(r)',
         \A s \in Fresh!InHand(r)' : radar'[r].hand[s] = "RESOLVED" => s \in promoted',
         ~runsCrossed' => KnowsTheResolved(r)'
  PROVE  RadarInv'
<1> USE DEF RadarInv
<1>1. RadarTypes'
  <2>1. Fresh!FreshTypeOK'
    BY DEF RadarTypes, Fresh!FreshTypeOK
  <2>2. published' \in 0..MaxSignals /\ published <= published'
    BY DEF RadarTypes, Fresh!FreshTypeOK, FreshParameters
  <2>3. \A q \in FreshRuns : RunTyped(q)'
    BY <2>2, RunsStayTyped
  <2> QED
    BY <2>1, <2>3 DEF RadarTypes
<1>2. Fresh!ResolvedHasPosting'
  BY DEF Fresh!ResolvedHasPosting
<1>3. OutcomesAreTrue'
  <2>1. ASSUME NEW q \in FreshRuns \ {r}, NEW s \in Fresh!InHand(q)', radar'[q].hand[s] = "RESOLVED"
        PROVE  s \in promoted'
    <3>1. s \in Fresh!InHand(q) /\ radar[q].hand[s] = "RESOLVED"
      BY <2>1 DEF Fresh!InHand
    <3> QED
      BY <3>1 DEF OutcomesAreTrue
  <2> QED
    BY <2>1 DEF OutcomesAreTrue
<1>4. RunsKnowTheResolved'
  BY OneRunKnows
<1> QED
  BY <1>1, <1>2, <1>3, <1>4

\* A run that is over, or dies.
LEMMA RunEndsStep ==
  ASSUME FreshParameters, RadarInv, NEW r \in FreshRuns, Fresh!End(r) \/ Fresh!Killed(r)
  PROVE  RadarInv' /\ signals' = signals
<1> USE DEF RadarInv
<1>1. /\ UNCHANGED <<published, faded, signals, promoted, runsCrossed>>
      /\ radar' = [radar EXCEPT ![r] = Fresh!Idle]
      /\ \/ radarFaults' = radarFaults
         \/ radarFaults < MaxFreshFaults /\ radarFaults' = radarFaults + 1
  BY DEF Fresh!End, Fresh!Killed
<1>2. radar[r] # Fresh!Idle
  <2>1. CASE Fresh!Killed(r)
    BY <2>1 DEF Fresh!Killed
  <2>2. CASE Fresh!End(r)
    <3>1. radar[r].step # "idle"
      BY <2>2 DEF Fresh!End
    <3> QED
      BY <3>1 DEF Fresh!Idle
  <2> QED
    BY <2>1, <2>2
<1>3. /\ radar' = [q \in FreshRuns |-> radar'[q]] /\ radar'[r] = Fresh!Idle
      /\ \A q \in FreshRuns \ {r} : radar'[q] = radar[q]
      /\ radar'[r].step = "idle"
  BY <1>1 DEF RadarTypes, Fresh!Idle
<1>4. RunTyped(r)' /\ KnowsTheResolved(r)' /\ Fresh!InHand(r)' = {}
  BY <1>3 DEF RunTyped, KnowsTheResolved, Fresh!InHand
<1>5. /\ radarFaults' \in 0..MaxFreshFaults
      /\ promoted \subseteq promoted' /\ promoted' \subseteq 1..published
      /\ runsCrossed' \in BOOLEAN
  BY <1>1 DEF RadarTypes, Fresh!FreshTypeOK, FreshParameters
<1> QED
  BY <1>1, <1>2, <1>3, <1>4, <1>5, AloneUnlessCrossed, RunAloneStep

\* A run that begins, and reads the rows.
LEMMA RunReadsStep ==
  ASSUME FreshParameters, RadarInv, NEW r \in FreshRuns, Fresh!Fetch(r) \/ Fresh!Load(r)
  PROVE  RadarInv' /\ signals' = signals
<1> USE DEF RadarInv
<1>t. /\ radarFaults \in 0..MaxFreshFaults
      /\ promoted \subseteq 1..published /\ runsCrossed \in BOOLEAN
  BY DEF RadarTypes, Fresh!FreshTypeOK
<1>1. CASE Fresh!Fetch(r)
  <2>1. /\ UNCHANGED <<published, faded, signals, promoted, radarFaults>>
        /\ radar' = [radar EXCEPT ![r] = [step |-> "load", selected |-> Fresh!Selected]]
        /\ runsCrossed' = (runsCrossed \/ \E q \in FreshRuns \ {r} : radar[q] # Fresh!Idle)
    BY <1>1 DEF Fresh!Fetch
  <2>2. /\ radar' = [q \in FreshRuns |-> radar'[q]]
        /\ radar'[r] = [step |-> "load", selected |-> Fresh!Selected]
        /\ \A q \in FreshRuns \ {r} : radar'[q] = radar[q]
    BY <2>1 DEF RadarTypes
  <2>3. Fresh!Selected \subseteq 1..published
    BY DEF Fresh!Selected, Fresh!Shown
  <2>4. radar'[r].step = "load" /\ radar'[r].selected = Fresh!Selected
    BY <2>2
  <2>5. RunTyped(r)' /\ KnowsTheResolved(r)' /\ Fresh!InHand(r)' = {}
    BY <2>1, <2>3, <2>4 DEF RunTyped, KnowsTheResolved, Fresh!InHand
  <2>6. runsCrossed' \in BOOLEAN /\ (runsCrossed => runsCrossed')
        /\ (~runsCrossed' => \A q \in FreshRuns \ {r} : radar[q] = Fresh!Idle)
    BY <2>1, <1>t
  <2> QED
    BY <1>t, <2>1, <2>2, <2>5, <2>6, RunAloneStep
<1>2. CASE Fresh!Load(r)
  <2> DEFINE chosen == radar[r].selected
             next == [step |-> "create", selected |-> chosen, official |-> promoted,
                     was |-> [s \in chosen |-> signals[s]]]
  <2>1. /\ radar[r].step = "load"
        /\ UNCHANGED <<published, faded, signals, promoted, runsCrossed, radarFaults>>
        /\ radar' = [radar EXCEPT ![r] = next]
    BY <1>2 DEF Fresh!Load
  <2>2. /\ radar' = [q \in FreshRuns |-> radar'[q]] /\ radar'[r] = next
        /\ \A q \in FreshRuns \ {r} : radar'[q] = radar[q]
    BY <2>1 DEF RadarTypes
  <2>3. chosen \subseteq 1..published
    BY <2>1 DEF RadarTypes, RunTyped
  <2>4. /\ radar'[r].step = "create" /\ radar'[r].selected = chosen
        /\ radar'[r].official = promoted /\ radar'[r].was = [s \in chosen |-> signals[s]]
    BY <2>2
  <2>5. RunTyped(r)' /\ KnowsTheResolved(r)' /\ Fresh!InHand(r)' = {}
    <3> HIDE DEF chosen
    <3>1. \A s \in chosen : radar'[r].was[s] = signals[s]
      BY <2>4
    <3> QED
      BY <2>1, <2>2, <2>3, <2>4, <3>1 DEF RunTyped, KnowsTheResolved, RowResolved, Fresh!InHand
  <2>6. radar[r] # Fresh!Idle
    BY <2>1 DEF Fresh!Idle
  <2> QED
    BY <1>t, <2>1, <2>2, <2>5, <2>6, AloneUnlessCrossed, RunAloneStep
<1> QED
  BY <1>1, <1>2

\* What a run at work looks like.
LEMMA RunAtWork ==
  ASSUME RadarInv, NEW r \in FreshRuns, radar[r].step \in {"work", "out of time"}
  PROVE  /\ radar[r] # Fresh!Idle /\ Fresh!InHand(r) = DOMAIN radar[r].hand
         /\ radar[r] = [step |-> radar[r].step, left |-> radar[r].left,
                        official |-> radar[r].official, was |-> radar[r].was,
                        hand |-> radar[r].hand]
<1>1. radar[r] # Fresh!Idle
  <2>1. radar[r].step # "idle"
    OBVIOUS
  <2>2. Fresh!Idle.step = "idle"
    BY DEF Fresh!Idle
  <2> QED
    BY <2>1, <2>2
<1>2. Fresh!InHand(r) = DOMAIN radar[r].hand
  BY DEF Fresh!InHand
<1>3. RunTyped(r)
  BY DEF RadarInv, RadarTypes
<1> QED
  BY <1>1, <1>2, <1>3 DEF RunTyped

\* A run is out of time, passes a signal over, or loses an outcome.
LEMMA RunPassesStep ==
  ASSUME FreshParameters, RadarInv, NEW r \in FreshRuns,
         radar[r].step \in {"work", "out of time"},
         UNCHANGED <<published, faded, signals, promoted, runsCrossed>>,
         radarFaults' \in 0..MaxFreshFaults,
         NEW st \in {"work", "out of time"}, NEW left \in SUBSET radar[r].left,
         NEW kept \in SUBSET DOMAIN radar[r].hand,
         radar' = [radar EXCEPT ![r] =
           [step |-> st, left |-> left, official |-> radar[r].official, was |-> radar[r].was,
            hand |-> [s \in kept |-> radar[r].hand[s]]]]
  PROVE  RadarInv'
<1> USE DEF RadarInv
<1>1. /\ radar' = [q \in FreshRuns |-> radar'[q]]
      /\ \A q \in FreshRuns \ {r} : radar'[q] = radar[q]
      /\ radar'[r] = [step |-> st, left |-> left, official |-> radar[r].official,
                      was |-> radar[r].was, hand |-> [s \in kept |-> radar[r].hand[s]]]
  BY DEF RadarTypes
<1>2. /\ radar'[r].step = st /\ radar'[r].left = left /\ radar'[r].was = radar[r].was
      /\ radar'[r].official = radar[r].official
      /\ radar'[r].hand = [s \in kept |-> radar[r].hand[s]]
  BY <1>1
<1>3. Fresh!InHand(r)' = kept /\ \A s \in kept : radar'[r].hand[s] = radar[r].hand[s]
  BY <1>2 DEF Fresh!InHand
<1>4. RunTyped(r)'
  <2>1. RunTyped(r)
    BY DEF RadarTypes
  <2>2. /\ radar[r].left \subseteq 1..published /\ DOMAIN radar[r].hand \subseteq 1..published
        /\ radar[r].left \cap DOMAIN radar[r].hand = {}
        /\ radar[r].hand \in [DOMAIN radar[r].hand ->
                                {Fresh!Searching, "RESOLVED", "CLOSED", "PENDING"}]
        /\ \A s \in radar[r].left \union DOMAIN radar[r].hand : signals[s] # None
    BY <2>1 DEF RunTyped
  <2>3. /\ DOMAIN radar'[r].hand = kept
        /\ radar'[r].hand \in [kept -> {Fresh!Searching, "RESOLVED", "CLOSED", "PENDING"}]
    <3>1. \A s \in kept : radar[r].hand[s] \in {Fresh!Searching, "RESOLVED", "CLOSED", "PENDING"}
      BY <2>2
    <3>2. [s \in kept |-> radar[r].hand[s]] \in
             [kept -> {Fresh!Searching, "RESOLVED", "CLOSED", "PENDING"}]
      BY <3>1, Zenon
    <3> QED
      BY <1>2, <3>2, Zenon
  <2>4. radar'[r] = [step |-> radar'[r].step, left |-> radar'[r].left,
                     official |-> radar'[r].official, was |-> radar'[r].was,
                     hand |-> radar'[r].hand]
    BY <1>1, <1>2
  <2> QED
    BY <1>2, <2>2, <2>3, <2>4 DEF RunTyped
<1>5. KnowsTheResolved(r) => KnowsTheResolved(r)'
  <2>1. Fresh!InHand(r) = DOMAIN radar[r].hand /\ \A s : RowResolved(s)' = RowResolved(s)
    BY RunAtWork DEF RowResolved
  <2>2. radar'[r].step \notin {"create", "mark"}
    BY <1>2
  <2> QED
    BY <1>2, <1>3, <2>1, <2>2 DEF KnowsTheResolved
<1>6. ~runsCrossed => KnowsTheResolved(r) /\ \A q \in FreshRuns \ {r} : radar[q] = Fresh!Idle
  BY RunAtWork, AloneUnlessCrossed DEF RunsKnowTheResolved
<1>7. \A s \in Fresh!InHand(r)' : radar'[r].hand[s] = "RESOLVED" => s \in promoted'
  BY <1>3, RunAtWork DEF OutcomesAreTrue
<1>8. promoted \subseteq 1..published /\ runsCrossed \in BOOLEAN
  BY DEF RadarTypes, Fresh!FreshTypeOK
<1> QED
  BY <1>1, <1>4, <1>5, <1>6, <1>7, <1>8, RunAloneStep

ResolvedRowsStay ==
  \A s \in Fresh!Signals : signals[s] # None =>
    (signals[s].state = "RESOLVED" => signals'[s] = signals[s] \/ runsCrossed)

\* What the two state columns say of each other, and of the delay.
RowFits(entry) ==
  entry # None =>
    /\ ~runsCrossed => (entry.state = "RESOLVED" <=> entry.flow = "OFFICIAL_RESOLVED")
    /\ ~entry.due => entry.state = "PENDING"

\* A step of a run that changes rows without resolving one.
LEMMA RowsGoOnStep ==
  ASSUME FreshParameters, RadarInv, NEW r \in FreshRuns, radar[r] # Fresh!Idle,
         UNCHANGED <<published, faded, promoted, runsCrossed, radarFaults>>,
         signals' \in [Fresh!Signals -> Fresh!SignalRow \union {None}],
         \A s \in Fresh!Signals :
           /\ signals[s] # None => signals'[s] # None
           /\ RowResolved(s)' => s \in promoted
           /\ ~runsCrossed /\ RowResolved(s) => signals'[s] = signals[s]
           /\ signals'[s] = signals[s] \/ RowFits(signals'[s]),
         radar' = [q \in FreshRuns |-> radar'[q]],
         \A q \in FreshRuns \ {r} : radar'[q] = radar[q],
         RunTyped(r)',
         \A s \in Fresh!InHand(r)' : radar'[r].hand[s] = "RESOLVED" => s \in promoted,
         ~runsCrossed => KnowsTheResolved(r)'
  PROVE  RadarInv' /\ ResolvedRowsStay
<1> USE DEF RadarInv
<1>t. /\ published \in 0..MaxSignals /\ runsCrossed \in BOOLEAN
      /\ 1..published \subseteq Fresh!Signals
  BY DEF RadarTypes, Fresh!FreshTypeOK, Fresh!Signals, FreshParameters
<1>1. RadarTypes'
  <2>1. published' \in 0..MaxSignals /\ published <= published'
    BY <1>t DEF FreshParameters
  <2>2. \A q \in FreshRuns : RunTyped(q)'
    BY <1>t, <2>1, RunsStayTyped
  <2>3. Fresh!FreshTypeOK'
    BY DEF RadarTypes, Fresh!FreshTypeOK, RowFits
  <2> QED
    BY <1>t, <2>2, <2>3 DEF RadarTypes
<1>2. Fresh!ResolvedHasPosting'
  BY DEF Fresh!ResolvedHasPosting, RowResolved
<1>3. OutcomesAreTrue'
  <2>1. ASSUME NEW q \in FreshRuns \ {r}, NEW s \in Fresh!InHand(q)', radar'[q].hand[s] = "RESOLVED"
        PROVE  s \in promoted'
    <3>1. s \in Fresh!InHand(q) /\ radar[q].hand[s] = "RESOLVED"
      BY <2>1 DEF Fresh!InHand
    <3> QED
      BY <3>1 DEF OutcomesAreTrue
  <2> QED
    BY <2>1 DEF OutcomesAreTrue
<1>4. RunsKnowTheResolved'
  BY AloneUnlessCrossed, OneRunKnows
<1>5. ResolvedRowsStay
  BY DEF ResolvedRowsStay, RowResolved
<1> QED
  BY <1>1, <1>2, <1>3, <1>4, <1>5

\* The rows of new signals.
LEMMA RunCreatesStep ==
  ASSUME FreshParameters, RadarInv, NEW r \in FreshRuns, Fresh!CreateRows(r)
  PROVE  RadarInv' /\ ResolvedRowsStay
<1> USE DEF RadarInv
<1> DEFINE chosen == radar[r].selected
           was == radar[r].was
           next == [step |-> "mark", selected |-> chosen, official |-> radar[r].official,
                    was |-> was]
<1>1. /\ radar[r].step = "create"
      /\ UNCHANGED <<published, faded, promoted, runsCrossed, radarFaults>>
      /\ signals' = [s \in Fresh!Signals |->
           IF s \in chosen /\ was[s] = None /\ signals[s] = None THEN Fresh!Queued ELSE signals[s]]
      /\ radar' = [radar EXCEPT ![r].step = "mark"]
  BY DEF Fresh!CreateRows
<1>2. RunTyped(r) /\ signals \in [Fresh!Signals -> Fresh!SignalRow \union {None}]
  BY DEF RadarTypes, Fresh!FreshTypeOK
<1>3. /\ radar[r] = [step |-> "create", selected |-> chosen, official |-> radar[r].official, was |-> was]
      /\ chosen \subseteq 1..published
      /\ \A s \in chosen : was[s] # None => signals[s] # None
  BY <1>1, <1>2 DEF RunTyped
<1> HIDE DEF chosen, was
<1>4. /\ radar' = [q \in FreshRuns |-> radar'[q]] /\ radar'[r] = next
      /\ \A q \in FreshRuns \ {r} : radar'[q] = radar[q]
  BY <1>1, <1>3 DEF RadarTypes
<1>5. radar[r] # Fresh!Idle
  <2>1. Fresh!Idle.step = "idle"
    BY DEF Fresh!Idle
  <2> QED
    BY <1>1, <2>1
<1>6. /\ Fresh!Queued \in Fresh!SignalRow /\ Fresh!Queued.state = "PENDING"
      /\ Fresh!Queued.flow = "SIGNAL_SEEN" /\ Fresh!Queued.due
  BY DEF Fresh!Queued, Fresh!SignalRow, Fresh!Flows
<1>7. Fresh!Queued # None
  BY <1>6 DEF FreshParameters
<1>8. signals' \in [Fresh!Signals -> Fresh!SignalRow \union {None}]
  BY <1>1, <1>2, <1>6
<1>9. ASSUME NEW s \in Fresh!Signals
      PROVE  /\ signals[s] # None => signals'[s] = signals[s]
             /\ signals[s] = None => signals'[s] \in {None, Fresh!Queued}
             /\ s \in chosen => signals'[s] # None
  BY <1>1, <1>3, <1>7
<1>10. ASSUME NEW s \in Fresh!Signals
       PROVE  /\ signals[s] # None => signals'[s] # None
              /\ RowResolved(s)' => RowResolved(s)
              /\ RowResolved(s)' => s \in promoted
              /\ ~runsCrossed /\ RowResolved(s) => signals'[s] = signals[s]
              /\ signals'[s] = signals[s] \/ RowFits(signals'[s])
  BY <1>6, <1>9 DEF RowResolved, RowFits, Fresh!ResolvedHasPosting
<1>11. /\ radar'[r].step = "mark" /\ radar'[r].selected = chosen /\ radar'[r].was = was
       /\ radar'[r].official = radar[r].official
  BY <1>4
<1>12. published' = published /\ 1..published \subseteq Fresh!Signals
  BY <1>1 DEF RadarTypes, Fresh!FreshTypeOK, Fresh!Signals, FreshParameters
<1>13. RunTyped(r)' /\ Fresh!InHand(r)' = {}
  BY <1>3, <1>4, <1>9, <1>11, <1>12 DEF RunTyped, Fresh!InHand
<1>14. ~runsCrossed => KnowsTheResolved(r)'
  <2>1. ~runsCrossed => \A s \in chosen : RowResolved(s) => was[s] # None /\ was[s].state = "RESOLVED"
    BY <1>1 DEF RunsKnowTheResolved, KnowsTheResolved, chosen, was
  <2>2. \A s \in chosen : RowResolved(s)' => RowResolved(s)
    BY <1>3, <1>10, <1>12
  <2> QED
    BY <1>11, <1>13, <2>1, <2>2 DEF KnowsTheResolved
<1> QED
  BY <1>1, <1>4, <1>5, <1>8, <1>10, <1>13, <1>14, RowsGoOnStep

LEMMA RunMarksStep ==
  ASSUME FreshParameters, RadarInv, NEW r \in FreshRuns, Fresh!MarkQueued(r)
  PROVE  RadarInv' /\ ResolvedRowsStay
<1> USE DEF RadarInv
<1> DEFINE chosen == radar[r].selected
           was == radar[r].was
           next == [step |-> "work", left |-> chosen, official |-> radar[r].official,
                    was |-> was, hand |-> [s \in {} |-> Fresh!Searching]]
<1>1. /\ radar[r].step = "mark"
      /\ UNCHANGED <<published, faded, promoted, runsCrossed, radarFaults>>
      /\ signals' = [s \in Fresh!Signals |->
           IF s \in chosen THEN Fresh!Marked(s, signals[s]) ELSE signals[s]]
      /\ radar' = [radar EXCEPT ![r] = next]
  BY DEF Fresh!MarkQueued
<1>2. RunTyped(r) /\ signals \in [Fresh!Signals -> Fresh!SignalRow \union {None}]
  BY DEF RadarTypes, Fresh!FreshTypeOK
<1>3. chosen \subseteq 1..published /\ \A s \in chosen : signals[s] # None
  BY <1>1, <1>2 DEF RunTyped
<1> HIDE DEF chosen, was
<1>4. /\ radar' = [q \in FreshRuns |-> radar'[q]] /\ radar'[r] = next
      /\ \A q \in FreshRuns \ {r} : radar'[q] = radar[q]
  BY <1>1 DEF RadarTypes
<1>5. radar[r] # Fresh!Idle
  <2>1. Fresh!Idle.step = "idle"
    BY DEF Fresh!Idle
  <2> QED
    BY <1>1, <2>1
<1>6. ASSUME NEW s \in Fresh!Signals
      PROVE  /\ signals'[s] \in Fresh!SignalRow \union {None}
             /\ signals[s] = None => signals'[s] = None
             /\ signals[s] # None => signals'[s] # None
             /\ RowResolved(s)' <=> RowResolved(s)
             /\ RowResolved(s) => signals'[s] = signals[s]
             /\ signals'[s] = signals[s] \/ RowFits(signals'[s])
  <2>1. CASE signals'[s] = signals[s]
    BY <1>2, <2>1 DEF RowResolved
  <2>2. CASE signals'[s] # signals[s]
    <3> DEFINE entry == signals[s]
    <3>1. s \in chosen /\ signals'[s] = Fresh!Marked(s, entry)
      BY <1>1, <2>2
    <3>2. entry \in Fresh!SignalRow /\ entry # None
      BY <1>2, <1>3, <3>1
    <3>3. signals'[s] = [entry EXCEPT !.flow = "OFFICIAL_SEARCH_QUEUED"] /\ entry.state # "RESOLVED"
      BY <2>2, <3>1 DEF Fresh!Marked
    <3>4. ~entry.due => entry.state = "PENDING"
      BY <3>2 DEF RadarTypes, Fresh!FreshTypeOK
    <3> HIDE DEF entry
    <3>5. /\ signals'[s] \in Fresh!SignalRow /\ signals'[s].state = entry.state
          /\ signals'[s].due = entry.due /\ signals'[s].flow = "OFFICIAL_SEARCH_QUEUED"
      BY <3>2, <3>3 DEF Fresh!SignalRow, Fresh!Flows
    <3>6. signals'[s] # None
      BY <3>5 DEF FreshParameters
    <3> QED
      BY <3>2, <3>3, <3>4, <3>5, <3>6 DEF entry, RowResolved, RowFits
  <2> QED
    BY <2>1, <2>2
<1>7. signals' \in [Fresh!Signals -> Fresh!SignalRow \union {None}]
  BY <1>1, <1>6
<1>8. \A s \in Fresh!Signals : RowResolved(s)' => s \in promoted
  BY <1>6 DEF RowResolved, Fresh!ResolvedHasPosting
<1>9. /\ radar'[r].step = "work" /\ radar'[r].left = chosen /\ radar'[r].was = was
      /\ radar'[r].official = radar[r].official
      /\ radar'[r].hand = [s \in {} |-> Fresh!Searching] /\ DOMAIN radar'[r].hand = {}
  BY <1>4
<1>10. published' = published /\ 1..published \subseteq Fresh!Signals
  BY <1>1 DEF RadarTypes, Fresh!FreshTypeOK, Fresh!Signals, FreshParameters
<1>11. Fresh!InHand(r)' = {}
  BY <1>9 DEF Fresh!InHand
<1>12. RunTyped(r)'
  <2>1. \A s \in chosen : signals'[s] # None
    BY <1>3, <1>6, <1>10
  <2>2. radar'[r].hand \in [DOMAIN radar'[r].hand -> {Fresh!Searching, "RESOLVED", "CLOSED", "PENDING"}]
    BY <1>9
  <2>3. radar'[r] = [step |-> radar'[r].step, left |-> radar'[r].left,
                     official |-> radar'[r].official, was |-> radar'[r].was,
                     hand |-> radar'[r].hand]
    BY <1>4, <1>9
  <2> QED
    BY <1>3, <1>9, <1>10, <2>1, <2>2, <2>3 DEF RunTyped
<1>13. ~runsCrossed => KnowsTheResolved(r)'
  <2>1. ~runsCrossed => \A s \in chosen : RowResolved(s) => was[s] # None /\ was[s].state = "RESOLVED"
    BY <1>1 DEF RunsKnowTheResolved, KnowsTheResolved, chosen, was
  <2>2. \A s \in chosen : RowResolved(s)' => RowResolved(s)
    BY <1>3, <1>6, <1>10
  <2> QED
    BY <1>9, <1>11, <2>1, <2>2 DEF KnowsTheResolved
<1> QED
  BY <1>1, <1>4, <1>5, <1>6, <1>7, <1>8, <1>11, <1>12, <1>13, RowsGoOnStep

\* A worker takes a signal, or passes it over.
LEMMA RunTakesStep ==
  ASSUME FreshParameters, RadarInv, NEW r \in FreshRuns, NEW s \in Fresh!Signals, Fresh!Take(r, s)
  PROVE  RadarInv' /\ ResolvedRowsStay
<1> USE DEF RadarInv
<1> DEFINE u == radar[r]
           wanted == Fresh!Wanted(u.was[s])
<1>1. /\ u.step = "work" /\ s \in u.left
      /\ UNCHANGED <<published, faded, promoted, runsCrossed, radarFaults>>
      /\ \/ /\ wanted /\ signals' = [signals EXCEPT ![s].flow = "OFFICIAL_SEARCHING"]
            /\ radar' = [radar EXCEPT ![r].left = @ \ {s},
                 ![r].hand = [t \in DOMAIN @ \union {s} |-> IF t = s THEN Fresh!Searching ELSE @[t]]]
         \/ radar' = [radar EXCEPT ![r].left = @ \ {s}] /\ signals' = signals
  BY DEF Fresh!Take
<1>2. RunTyped(r) /\ signals \in [Fresh!Signals -> Fresh!SignalRow \union {None}]
      /\ radarFaults \in 0..MaxFreshFaults
  BY DEF RadarTypes, Fresh!FreshTypeOK
<1>3. /\ u # Fresh!Idle /\ Fresh!InHand(r) = DOMAIN u.hand
      /\ u = [step |-> "work", left |-> u.left, official |-> u.official, was |-> u.was,
              hand |-> u.hand]
  BY <1>1, RunAtWork
<1>4. /\ u.left \subseteq 1..published /\ DOMAIN u.hand \subseteq 1..published
      /\ u.left \cap DOMAIN u.hand = {}
      /\ u.hand \in [DOMAIN u.hand -> {Fresh!Searching, "RESOLVED", "CLOSED", "PENDING"}]
      /\ \A t \in u.left \union DOMAIN u.hand : signals[t] # None
  BY <1>1, <1>2 DEF RunTyped
<1> HIDE DEF wanted
<1>5. CASE radar' = [radar EXCEPT ![r].left = @ \ {s}] /\ signals' = signals
  <2>1. u.hand = [t \in DOMAIN u.hand |-> u.hand[t]]
    BY <1>4
  <2>2. radar' = [radar EXCEPT ![r] =
          [step |-> "work", left |-> u.left \ {s}, official |-> u.official, was |-> u.was,
           hand |-> [t \in DOMAIN u.hand |-> u.hand[t]]]]
    <3>1. radar' = [radar EXCEPT ![r] = [u EXCEPT !.left = @ \ {s}]]
      BY <1>5
    <3> HIDE DEF u
    <3>2. [u EXCEPT !.left = @ \ {s}] =
            [step |-> "work", left |-> u.left \ {s}, official |-> u.official, was |-> u.was,
             hand |-> u.hand]
      BY <1>3
    <3> QED
      BY <2>1, <3>1, <3>2
  <2>3. RadarInv'
    <3>1. /\ radar[r].step \in {"work", "out of time"}
          /\ UNCHANGED <<published, faded, signals, promoted, runsCrossed>>
          /\ radarFaults' \in 0..MaxFreshFaults
      BY <1>1, <1>2, <1>5
    <3>2. /\ "work" \in {"work", "out of time"} /\ u.left \ {s} \in SUBSET radar[r].left
          /\ DOMAIN u.hand \in SUBSET DOMAIN radar[r].hand
      OBVIOUS
    <3> QED
      BY <2>2, <3>1, <3>2, RunPassesStep
  <2>4. ResolvedRowsStay
    BY <1>5 DEF ResolvedRowsStay
  <2> HIDE DEF RadarInv
  <2> QED
    BY <2>3, <2>4
<1>6. CASE /\ wanted /\ signals' = [signals EXCEPT ![s].flow = "OFFICIAL_SEARCHING"]
           /\ radar' = [radar EXCEPT ![r].left = @ \ {s},
                ![r].hand = [t \in DOMAIN @ \union {s} |-> IF t = s THEN Fresh!Searching ELSE @[t]]]
  <2> DEFINE hand == [t \in DOMAIN u.hand \union {s} |-> IF t = s THEN Fresh!Searching ELSE u.hand[t]]
             next == [step |-> "work", left |-> u.left \ {s}, official |-> u.official,
                      was |-> u.was, hand |-> hand]
  <2>1. radar' = [radar EXCEPT ![r] = next]
    <3> DEFINE v == [u EXCEPT !.left = @ \ {s}]
    <3>1. radar' = [radar EXCEPT ![r] = [v EXCEPT !.hand =
             [t \in DOMAIN @ \union {s} |-> IF t = s THEN Fresh!Searching ELSE @[t]]]]
      BY <1>6
    <3> HIDE DEF u, hand
    <3>2. v = [step |-> "work", left |-> u.left \ {s}, official |-> u.official, was |-> u.was,
               hand |-> u.hand]
      BY <1>3
    <3>3. hand = [t \in DOMAIN v.hand \union {s} |-> IF t = s THEN Fresh!Searching ELSE v.hand[t]]
      BY <3>2 DEF hand
    <3> HIDE DEF v
    <3>4. [v EXCEPT !.hand = hand] = next
      BY <3>2
    <3> QED
      BY <3>1, <3>3, <3>4
  <2>2. /\ DOMAIN hand = DOMAIN u.hand \union {s} /\ hand[s] = Fresh!Searching
        /\ \A t \in DOMAIN u.hand : hand[t] = u.hand[t]
        /\ hand \in [DOMAIN hand -> {Fresh!Searching, "RESOLVED", "CLOSED", "PENDING"}]
    <3>1. s \notin DOMAIN u.hand
      BY <1>1, <1>4
    <3>2. DOMAIN hand = DOMAIN u.hand \union {s} /\ hand[s] = Fresh!Searching
      OBVIOUS
    <3>3. \A t \in DOMAIN u.hand : hand[t] = u.hand[t]
      BY <3>1
    <3>4. \A t \in DOMAIN u.hand \union {s} :
            hand[t] \in {Fresh!Searching, "RESOLVED", "CLOSED", "PENDING"}
      BY <1>4, <3>2, <3>3
    <3>5. hand = [t \in DOMAIN u.hand \union {s} |-> hand[t]]
      OBVIOUS
    <3> HIDE DEF hand
    <3>6. hand \in [DOMAIN u.hand \union {s} -> {Fresh!Searching, "RESOLVED", "CLOSED", "PENDING"}]
      BY <3>4, <3>5, Zenon
    <3> QED
      BY <3>2, <3>3, <3>6
  <2> HIDE DEF hand
  <2>3. /\ radar' = [q \in FreshRuns |-> radar'[q]] /\ radar'[r] = next
        /\ \A q \in FreshRuns \ {r} : radar'[q] = radar[q]
    BY <2>1 DEF RadarTypes
  <2>4. /\ radar'[r].step = "work" /\ radar'[r].left = u.left \ {s} /\ radar'[r].was = u.was
        /\ radar'[r].official = u.official /\ radar'[r].hand = hand
    BY <2>3
  <2>5. Fresh!InHand(r)' = DOMAIN u.hand \union {s}
    BY <2>2, <2>4 DEF Fresh!InHand
  <2>6. signals[s] \in Fresh!SignalRow /\ signals[s] # None
    BY <1>1, <1>2, <1>4
  <2>7. /\ signals'[s] = [signals[s] EXCEPT !.flow = "OFFICIAL_SEARCHING"]
        /\ \A t \in Fresh!Signals \ {s} : signals'[t] = signals[t]
        /\ signals' = [t \in Fresh!Signals |-> signals'[t]]
    BY <1>2, <1>6
  <2>8. /\ signals'[s] \in Fresh!SignalRow /\ signals'[s].state = signals[s].state
        /\ signals'[s].due = signals[s].due /\ signals'[s].flow = "OFFICIAL_SEARCHING"
    BY <2>6, <2>7 DEF Fresh!SignalRow, Fresh!Flows
  <2>9. signals'[s] # None
    BY <2>8 DEF FreshParameters
  <2>10. signals' \in [Fresh!Signals -> Fresh!SignalRow \union {None}]
    BY <1>2, <2>7, <2>8
  <2>11. ~runsCrossed => ~RowResolved(s)
    <3>1. ~runsCrossed /\ RowResolved(s) => u.was[s] # None /\ u.was[s].state = "RESOLVED"
      BY <1>1 DEF RunsKnowTheResolved, KnowsTheResolved
    <3> QED
      BY <1>6, <3>1 DEF wanted, Fresh!Wanted
  <2>12. RowFits(signals'[s])
    <3>1. ~signals[s].due => signals[s].state = "PENDING"
      BY <2>6 DEF RadarTypes, Fresh!FreshTypeOK
    <3> QED
      BY <2>6, <2>8, <2>11, <3>1 DEF RowFits, RowResolved
  <2>13. \A t : RowResolved(t)' /\ t \in Fresh!Signals => RowResolved(t)
    BY <2>6, <2>7, <2>8 DEF RowResolved
  <2>14. ASSUME NEW t \in Fresh!Signals
        PROVE  /\ signals[t] # None => signals'[t] # None
               /\ RowResolved(t)' => t \in promoted
               /\ ~runsCrossed /\ RowResolved(t) => signals'[t] = signals[t]
               /\ signals'[t] = signals[t] \/ RowFits(signals'[t])
    BY <2>7, <2>9, <2>11, <2>12, <2>13 DEF RowResolved, Fresh!ResolvedHasPosting
  <2>15. published' = published /\ 1..published \subseteq Fresh!Signals
    BY <1>1 DEF RadarTypes, Fresh!FreshTypeOK, Fresh!Signals, FreshParameters
  <2>16. RunTyped(r)'
    <3>1. \A t \in u.left \union DOMAIN u.hand : signals'[t] # None
      BY <1>4, <2>14, <2>15
    <3>2. radar'[r] = [step |-> radar'[r].step, left |-> radar'[r].left,
                       official |-> radar'[r].official, was |-> radar'[r].was,
                       hand |-> radar'[r].hand]
      BY <2>3, <2>4
    <3> QED
      BY <1>1, <1>4, <2>2, <2>4, <2>15, <3>1, <3>2 DEF RunTyped
  <2>17. \A t \in Fresh!InHand(r)' : radar'[r].hand[t] = "RESOLVED" => t \in promoted
    BY <1>3, <2>2, <2>4, <2>5 DEF OutcomesAreTrue, Fresh!Searching
  <2>18. ~runsCrossed => KnowsTheResolved(r)'
    <3>1. ~runsCrossed => KnowsTheResolved(r)
      BY DEF RunsKnowTheResolved
    <3>2. ~runsCrossed => ~RowResolved(s)'
      BY <2>11, <2>13
    <3>3. \A t \in u.left \union DOMAIN u.hand : RowResolved(t)' => RowResolved(t)
      BY <1>4, <2>13, <2>15
    <3> QED
      BY <1>1, <1>3, <2>4, <2>5, <3>1, <3>2, <3>3 DEF KnowsTheResolved
  <2> QED
    BY <1>1, <1>3, <2>3, <2>10, <2>14, <2>16, <2>17, <2>18, RowsGoOnStep
<1> QED
  BY <1>1, <1>5, <1>6

\* What a step makes of the record of a run.
AtWork(st, left, official, was, hand) ==
  [step |-> st, left |-> left, official |-> official, was |-> was, hand |-> hand]
LEMMA RunRewritten ==
  ASSUME NEW r, NEW new,
         radar[r] = [step |-> radar[r].step, left |-> radar[r].left,
                     official |-> radar[r].official, was |-> radar[r].was,
                     hand |-> radar[r].hand]
  PROVE  /\ [radar[r] EXCEPT !.step = new] =
              AtWork(new, radar[r].left, radar[r].official, radar[r].was, radar[r].hand)
         /\ [radar[r] EXCEPT !.hand = new] =
              AtWork(radar[r].step, radar[r].left, radar[r].official, radar[r].was, new)
<1> DEFINE u == radar[r]
<1>1. u \in [step : {u.step}, left : {u.left}, official : {u.official}, was : {u.was},
             hand : {u.hand}]
  OBVIOUS
<1> HIDE DEF u
<1>2. [u EXCEPT !.step = new] = AtWork(new, u.left, u.official, u.was, u.hand)
  BY <1>1 DEF AtWork
<1>3. [u EXCEPT !.hand = new] = AtWork(u.step, u.left, u.official, u.was, new)
  BY <1>1 DEF AtWork
<1> QED
  BY <1>2, <1>3 DEF u

\* The time of a run is up, or an outcome of it gets lost.
LEMMA RunLosesStep ==
  ASSUME FreshParameters, RadarInv, NEW r \in FreshRuns,
         Fresh!OutOfTime(r) \/ \E s \in Fresh!Signals : Fresh!RecordFails(r, s)
  PROVE  RadarInv' /\ signals' = signals
<1> USE DEF RadarInv
<1> DEFINE u == radar[r]
<1>t. /\ RunTyped(r) /\ radarFaults \in 0..MaxFreshFaults
  BY DEF RadarTypes, Fresh!FreshTypeOK
<1>1. CASE Fresh!OutOfTime(r)
  <2>1. /\ u.step = "work" /\ radar' = [radar EXCEPT ![r].step = "out of time"]
        /\ UNCHANGED <<published, faded, signals, promoted, runsCrossed, radarFaults>>
    BY <1>1 DEF Fresh!OutOfTime
  <2>2. u = [step |-> "work", left |-> u.left, official |-> u.official, was |-> u.was,
             hand |-> u.hand]
    BY <2>1, RunAtWork
  <2>3. u.hand = [t \in DOMAIN u.hand |-> u.hand[t]]
    BY <1>t, <2>1 DEF RunTyped
  <2>4. radar' = [radar EXCEPT ![r] = [u EXCEPT !.step = "out of time"]]
    BY <2>1
  <2>5. radar' = [radar EXCEPT ![r] =
          [step |-> "out of time", left |-> u.left, official |-> u.official, was |-> u.was,
           hand |-> [t \in DOMAIN u.hand |-> u.hand[t]]]]
    <3>2. [u EXCEPT !.step = "out of time"] = AtWork("out of time", u.left, u.official, u.was, u.hand)
      BY <2>1, RunAtWork, RunRewritten
    <3> QED
      BY <2>3, <2>4, <3>2 DEF AtWork
  <2>7. radarFaults' \in 0..MaxFreshFaults
    BY <1>t, <2>1
  <2>8. u.left \in SUBSET u.left /\ DOMAIN u.hand \in SUBSET DOMAIN u.hand
    OBVIOUS
  <2> QED
    BY <2>1, <2>5, <2>7, <2>8, RunPassesStep
<1>2. ASSUME NEW s \in Fresh!Signals, Fresh!RecordFails(r, s)
      PROVE  RadarInv' /\ signals' = signals
  <2>1. /\ s \in Fresh!InHand(r)
        /\ radar' = [radar EXCEPT ![r].hand = [t \in DOMAIN @ \ {s} |-> @[t]]]
        /\ UNCHANGED <<published, faded, signals, promoted, runsCrossed>>
        /\ radarFaults < MaxFreshFaults /\ radarFaults' = radarFaults + 1
    BY <1>2 DEF Fresh!RecordFails, Fresh!LetGo
  <2>2. u.step \in {"work", "out of time"}
    BY <2>1 DEF Fresh!InHand
  <2>3. u = [step |-> u.step, left |-> u.left, official |-> u.official, was |-> u.was,
             hand |-> u.hand]
    BY <2>2, RunAtWork
  <2> DEFINE hand == [t \in DOMAIN u.hand \ {s} |-> u.hand[t]]
  <2>4. radar' = [radar EXCEPT ![r] = [u EXCEPT !.hand = hand]]
    BY <2>1
  <2>5. radar' = [radar EXCEPT ![r] =
          [step |-> u.step, left |-> u.left, official |-> u.official, was |-> u.was,
           hand |-> hand]]
    <3> HIDE DEF hand
    <3>1. [u EXCEPT !.hand = hand] = AtWork(u.step, u.left, u.official, u.was, hand)
      BY <2>3, RunRewritten
    <3> QED
      BY <2>4, <3>1 DEF AtWork
  <2>6. radarFaults < MaxFreshFaults /\ radarFaults' = radarFaults + 1
    BY <2>1
  <2>7. radarFaults' \in 0..MaxFreshFaults
    BY <1>t, <2>6 DEF FreshParameters
  <2> DEFINE kept == DOMAIN u.hand \ {s}
             st == u.step
  <2>8. u.left \in SUBSET u.left /\ kept \in SUBSET DOMAIN u.hand /\ st \in {"work", "out of time"}
    BY <2>2
  <2>9. radar' = [radar EXCEPT ![r] =
          [step |-> st, left |-> u.left, official |-> u.official, was |-> u.was,
           hand |-> [t \in kept |-> u.hand[t]]]]
    BY <2>5
  <2> HIDE DEF kept, st, hand
  <2> QED
    BY <2>1, <2>2, <2>7, <2>8, <2>9, RunPassesStep
<1> QED
  BY <1>1, <1>2

\* A search comes to an outcome.
LEMMA RunSearchesStep ==
  ASSUME FreshParameters, RadarInv, NEW r \in FreshRuns, NEW s \in Fresh!Signals, Fresh!Search(r, s)
  PROVE  RadarInv' /\ signals' = signals
<1> USE DEF RadarInv
<1> DEFINE u == radar[r]
<1>1. PICK outcome \in {"RESOLVED", "CLOSED", "PENDING"} :
        /\ radar' = [radar EXCEPT ![r].hand[s] = outcome]
        /\ promoted' \in Fresh!Promotes(outcome, s)
  BY DEF Fresh!Search, Fresh!Outcomes
<1>2. /\ s \in Fresh!InHand(r)
      /\ UNCHANGED <<published, faded, signals, runsCrossed, radarFaults>>
  BY DEF Fresh!Search
<1>3. /\ promoted' = promoted \/ promoted' = promoted \union {s}
      /\ outcome = "RESOLVED" => s \in promoted'
  BY <1>1 DEF Fresh!Promotes
<1>4. /\ u.step \in {"work", "out of time"} /\ s \in DOMAIN u.hand
      /\ u # Fresh!Idle /\ Fresh!InHand(r) = DOMAIN u.hand
      /\ u = [step |-> u.step, left |-> u.left, official |-> u.official, was |-> u.was,
              hand |-> u.hand]
  <2>1. u.step \in {"work", "out of time"}
    BY <1>2 DEF Fresh!InHand
  <2> QED
    BY <1>2, <2>1, RunAtWork
<1>5. /\ u.left \subseteq 1..published /\ DOMAIN u.hand \subseteq 1..published
      /\ u.left \cap DOMAIN u.hand = {}
      /\ u.hand \in [DOMAIN u.hand -> {Fresh!Searching, "RESOLVED", "CLOSED", "PENDING"}]
      /\ \A t \in u.left \union DOMAIN u.hand : signals[t] # None
  BY <1>4 DEF RadarTypes, RunTyped
<1> DEFINE hand == [u.hand EXCEPT ![s] = outcome]
           next == [step |-> u.step, left |-> u.left, official |-> u.official, was |-> u.was,
                    hand |-> hand]
<1>6. radar' = [radar EXCEPT ![r] = next]
  <2>1. radar' = [radar EXCEPT ![r] = [u EXCEPT !.hand = hand]]
    BY <1>1
  <2> HIDE DEF hand
  <2>3. [u EXCEPT !.hand = hand] = AtWork(u.step, u.left, u.official, u.was, hand)
    BY <1>4, RunRewritten
  <2> QED
    BY <2>1, <2>3 DEF AtWork
<1>7. /\ DOMAIN hand = DOMAIN u.hand /\ hand[s] = outcome
      /\ \A t \in DOMAIN u.hand \ {s} : hand[t] = u.hand[t]
      /\ hand \in [DOMAIN u.hand -> {Fresh!Searching, "RESOLVED", "CLOSED", "PENDING"}]
  BY <1>4, <1>5
<1> HIDE DEF hand
<1>8. /\ radar' = [q \in FreshRuns |-> radar'[q]] /\ radar'[r] = next
      /\ \A q \in FreshRuns \ {r} : radar'[q] = radar[q]
  BY <1>6 DEF RadarTypes
<1>9. /\ radar'[r].step = u.step /\ radar'[r].left = u.left /\ radar'[r].was = u.was
      /\ radar'[r].official = u.official /\ radar'[r].hand = hand
  BY <1>8
<1>10. Fresh!InHand(r)' = DOMAIN u.hand
  BY <1>4, <1>7, <1>9 DEF Fresh!InHand
<1>11. RunTyped(r)'
  <2>1. radar'[r] = [step |-> radar'[r].step, left |-> radar'[r].left,
                     official |-> radar'[r].official, was |-> radar'[r].was,
                     hand |-> radar'[r].hand]
    BY <1>8, <1>9
  <2> QED
    BY <1>2, <1>4, <1>5, <1>7, <1>9, <2>1 DEF RunTyped
<1>12. \A t \in Fresh!InHand(r)' : radar'[r].hand[t] = "RESOLVED" => t \in promoted'
  BY <1>3, <1>4, <1>7, <1>9, <1>10 DEF OutcomesAreTrue
<1>13. ~runsCrossed => KnowsTheResolved(r)'
  <2>1. ~runsCrossed => KnowsTheResolved(r)
    BY DEF RunsKnowTheResolved
  <2>2. \A t : RowResolved(t)' = RowResolved(t)
    BY <1>2 DEF RowResolved
  <2> QED
    BY <1>4, <1>9, <1>10, <2>1, <2>2 DEF KnowsTheResolved
<1>14. /\ promoted \subseteq promoted' /\ promoted' \subseteq 1..published
       /\ runsCrossed' \in BOOLEAN /\ radarFaults' \in 0..MaxFreshFaults
  BY <1>2, <1>3, <1>4, <1>5 DEF RadarTypes, Fresh!FreshTypeOK
<1> QED
  BY <1>2, <1>4, <1>8, <1>11, <1>12, <1>13, <1>14, AloneUnlessCrossed, RunAloneStep

\* An outcome is recorded.
LEMMA RunRecordsStep ==
  ASSUME FreshParameters, RadarInv, NEW r \in FreshRuns, NEW s \in Fresh!Signals, Fresh!Record(r, s)
  PROVE  RadarInv' /\ ResolvedRowsStay
<1> USE DEF RadarInv
<1> DEFINE u == radar[r]
           outcome == u.hand[s]
<1>1. /\ s \in Fresh!InHand(r) /\ outcome # Fresh!Searching
      /\ signals' = [signals EXCEPT ![s] = Fresh!Recorded(outcome)]
      /\ radar' = [radar EXCEPT ![r].hand = [t \in DOMAIN @ \ {s} |-> @[t]]]
      /\ UNCHANGED <<published, faded, promoted, runsCrossed, radarFaults>>
  BY DEF Fresh!Record, Fresh!LetGo
<1>2. /\ u.step \in {"work", "out of time"} /\ s \in DOMAIN u.hand
      /\ u # Fresh!Idle /\ Fresh!InHand(r) = DOMAIN u.hand
      /\ u = [step |-> u.step, left |-> u.left, official |-> u.official, was |-> u.was,
              hand |-> u.hand]
  <2>1. u.step \in {"work", "out of time"}
    BY <1>1 DEF Fresh!InHand
  <2> QED
    BY <1>1, <2>1, RunAtWork
<1>3. /\ u.left \subseteq 1..published /\ DOMAIN u.hand \subseteq 1..published
      /\ u.left \cap DOMAIN u.hand = {}
      /\ u.hand \in [DOMAIN u.hand -> {Fresh!Searching, "RESOLVED", "CLOSED", "PENDING"}]
      /\ \A t \in u.left \union DOMAIN u.hand : signals[t] # None
  BY <1>2 DEF RadarTypes, RunTyped
<1> DEFINE hand == [t \in DOMAIN u.hand \ {s} |-> u.hand[t]]
           next == [step |-> u.step, left |-> u.left, official |-> u.official, was |-> u.was,
                    hand |-> hand]
<1>4. radar' = [radar EXCEPT ![r] = next]
  <2>1. radar' = [radar EXCEPT ![r] = [u EXCEPT !.hand = hand]]
    BY <1>1
  <2> HIDE DEF hand
  <2>3. [u EXCEPT !.hand = hand] = AtWork(u.step, u.left, u.official, u.was, hand)
    BY <1>2, RunRewritten
  <2> QED
    BY <2>1, <2>3 DEF AtWork
<1>5. outcome \in {"RESOLVED", "CLOSED", "PENDING"} /\ (outcome = "RESOLVED" => s \in promoted)
  BY <1>1, <1>2, <1>3 DEF OutcomesAreTrue
<1>6. /\ DOMAIN hand = DOMAIN u.hand \ {s}
      /\ \A t \in DOMAIN u.hand \ {s} : hand[t] = u.hand[t]
      /\ hand \in [DOMAIN hand -> {Fresh!Searching, "RESOLVED", "CLOSED", "PENDING"}]
  BY <1>3
<1> HIDE DEF hand, outcome
<1>7. /\ radar' = [q \in FreshRuns |-> radar'[q]] /\ radar'[r] = next
      /\ \A q \in FreshRuns \ {r} : radar'[q] = radar[q]
  BY <1>4 DEF RadarTypes
<1>8. /\ radar'[r].step = u.step /\ radar'[r].left = u.left /\ radar'[r].was = u.was
      /\ radar'[r].official = u.official /\ radar'[r].hand = hand
  BY <1>7
<1>9. Fresh!InHand(r)' = DOMAIN u.hand \ {s}
  BY <1>2, <1>6, <1>8 DEF Fresh!InHand
<1>10. LET new == Fresh!Recorded(outcome) IN
       /\ new \in Fresh!SignalRow
       /\ new.state = "RESOLVED" <=> outcome = "RESOLVED"
       /\ new.state = "RESOLVED" <=> new.flow = "OFFICIAL_RESOLVED"
       /\ ~new.due => new.state = "PENDING"
  <2>1. CASE outcome = "RESOLVED"
    BY <2>1 DEF Fresh!Recorded, Fresh!SignalRow, Fresh!Flows
  <2>2. CASE outcome = "CLOSED"
    BY <2>2 DEF Fresh!Recorded, Fresh!SignalRow, Fresh!Flows
  <2>3. CASE outcome = "PENDING"
    BY <2>3 DEF Fresh!Recorded, Fresh!SignalRow, Fresh!Flows
  <2> QED
    BY <1>5, <2>1, <2>2, <2>3
<1>11. Fresh!Recorded(outcome) # None
  BY <1>10 DEF FreshParameters
<1>12. /\ signals'[s] = Fresh!Recorded(outcome)
       /\ \A t \in Fresh!Signals \ {s} : signals'[t] = signals[t]
       /\ signals' \in [Fresh!Signals -> Fresh!SignalRow \union {None}]
  BY <1>1, <1>10 DEF RadarTypes, Fresh!FreshTypeOK
<1>13. ~runsCrossed => KnowsTheResolved(r) /\ ~RowResolved(s)
  BY <1>1 DEF RunsKnowTheResolved, KnowsTheResolved
<1>14. RowFits(signals'[s])
  BY <1>10, <1>12 DEF RowFits
<1>15. ASSUME NEW t \in Fresh!Signals
       PROVE  /\ signals[t] # None => signals'[t] # None
              /\ RowResolved(t)' => t \in promoted
              /\ ~runsCrossed /\ RowResolved(t) => signals'[t] = signals[t]
              /\ signals'[t] = signals[t] \/ RowFits(signals'[t])
  BY <1>5, <1>10, <1>11, <1>12, <1>13, <1>14 DEF RowResolved, Fresh!ResolvedHasPosting
<1>16. published' = published /\ 1..published \subseteq Fresh!Signals
  BY <1>1 DEF RadarTypes, Fresh!FreshTypeOK, Fresh!Signals, FreshParameters
<1>17. RunTyped(r)'
  <2>1. \A t \in u.left \union DOMAIN u.hand : signals'[t] # None
    BY <1>3, <1>15, <1>16
  <2>2. radar'[r] = [step |-> radar'[r].step, left |-> radar'[r].left,
                     official |-> radar'[r].official, was |-> radar'[r].was,
                     hand |-> radar'[r].hand]
    BY <1>7, <1>8
  <2> QED
    BY <1>2, <1>3, <1>6, <1>8, <1>16, <2>1, <2>2 DEF RunTyped
<1>18. \A t \in Fresh!InHand(r)' : radar'[r].hand[t] = "RESOLVED" => t \in promoted
  BY <1>2, <1>6, <1>8, <1>9 DEF OutcomesAreTrue
<1>19. ~runsCrossed => KnowsTheResolved(r)'
  <2>1. \A t \in (u.left \union DOMAIN u.hand) \ {s} : RowResolved(t)' = RowResolved(t)
    BY <1>3, <1>12, <1>16 DEF RowResolved
  <2>2. s \notin u.left
    BY <1>2, <1>3
  <2> QED
    BY <1>2, <1>8, <1>9, <1>13, <2>1, <2>2 DEF KnowsTheResolved
<1> QED
  BY <1>1, <1>2, <1>7, <1>12, <1>15, <1>17, <1>18, <1>19, RowsGoOnStep

\* The feed and time.
LEMMA FeedStep ==
  ASSUME FreshParameters, RadarInv,
         Fresh!Publish \/ \E s \in Fresh!Signals : Fresh!Fade(s) \/ Fresh!ComesDue(s)
  PROVE  RadarInv' /\ ResolvedRowsStay
<1> USE DEF RadarInv
<1>1. /\ UNCHANGED <<radar, promoted, runsCrossed, radarFaults>>
      /\ published' \in 0..MaxSignals /\ published <= published'
      /\ faded' \subseteq 1..published'
  BY DEF Fresh!Publish, Fresh!Fade, Fresh!ComesDue, Fresh!Shown, RadarTypes, Fresh!FreshTypeOK,
     FreshParameters
<1>2. ASSUME NEW t \in Fresh!Signals
      PROVE  /\ signals'[t] \in Fresh!SignalRow \union {None}
             /\ signals[t] = None => signals'[t] = None
             /\ signals[t] # None => signals'[t] # None
             /\ RowResolved(t)' = RowResolved(t)
             /\ RowResolved(t) => signals'[t] = signals[t]
             /\ signals'[t] = signals[t] \/ RowFits(signals'[t])
  <2>1. CASE signals'[t] = signals[t]
    BY <2>1 DEF RadarTypes, Fresh!FreshTypeOK, RowResolved
  <2>2. CASE signals'[t] # signals[t]
    <3>1. /\ signals[t] # None /\ ~signals[t].due
          /\ signals'[t] = [signals[t] EXCEPT !.due = TRUE]
      BY <2>2 DEF Fresh!Publish, Fresh!Fade, Fresh!ComesDue, RadarTypes, Fresh!FreshTypeOK
    <3>2. /\ signals[t] \in Fresh!SignalRow /\ signals[t].state = "PENDING"
          /\ ~runsCrossed => (signals[t].state = "RESOLVED" <=> signals[t].flow = "OFFICIAL_RESOLVED")
      BY <3>1 DEF RadarTypes, Fresh!FreshTypeOK
    <3>3. /\ signals'[t] \in Fresh!SignalRow /\ signals'[t].state = "PENDING"
          /\ signals'[t].flow = signals[t].flow /\ signals'[t].due
      BY <3>1, <3>2 DEF Fresh!SignalRow
    <3>4. signals'[t] # None
      BY <3>3 DEF FreshParameters
    <3> QED
      BY <3>1, <3>2, <3>3, <3>4 DEF RowResolved, RowFits
  <2> QED
    BY <2>1, <2>2
<1>3. signals' \in [Fresh!Signals -> Fresh!SignalRow \union {None}]
  <2>1. signals' = [t \in Fresh!Signals |-> signals'[t]]
    BY DEF Fresh!Publish, Fresh!Fade, Fresh!ComesDue, RadarTypes, Fresh!FreshTypeOK
  <2> QED
    BY <1>2, <2>1
<1>4. 1..published \subseteq Fresh!Signals /\ 1..published \subseteq 1..published'
  BY <1>1 DEF RadarTypes, Fresh!FreshTypeOK, Fresh!Signals, FreshParameters
<1>5. RadarTypes'
  <2>1. Fresh!FreshTypeOK'
    BY <1>1, <1>2, <1>3, <1>4 DEF RadarTypes, Fresh!FreshTypeOK, RowFits
  <2>2. ASSUME NEW q \in FreshRuns PROVE RunTyped(q)'
    <3>1. RunTyped(q) /\ radar'[q] = radar[q]
      BY <1>1 DEF RadarTypes
    <3>2. \A t \in 1..published : signals[t] # None => signals'[t] # None
      BY <1>2, <1>4
    <3> QED
      BY <1>4, <3>1, <3>2 DEF RunTyped
  <2> QED
    BY <1>1, <2>1, <2>2 DEF RadarTypes
<1>6. Fresh!ResolvedHasPosting'
  BY <1>1, <1>2 DEF Fresh!ResolvedHasPosting, RowResolved
<1>7. OutcomesAreTrue'
  BY <1>1 DEF OutcomesAreTrue, Fresh!InHand
<1>8. RunsKnowTheResolved'
  <2>1. ASSUME NEW q \in FreshRuns, KnowsTheResolved(q) PROVE KnowsTheResolved(q)'
    <3>1. RunTyped(q) /\ radar'[q] = radar[q] /\ Fresh!InHand(q)' = Fresh!InHand(q)
      BY <1>1 DEF RadarTypes, Fresh!InHand
    <3>2. \A t \in 1..published : RowResolved(t)' = RowResolved(t)
      BY <1>2, <1>4
    <3>3. Fresh!InHand(q) \subseteq 1..published
      BY <3>1 DEF RunTyped, Fresh!InHand
    <3> QED
      BY <2>1, <3>1, <3>2, <3>3 DEF RunTyped, KnowsTheResolved
  <2> QED
    BY <1>1, <2>1 DEF RunsKnowTheResolved
<1> QED
  BY <1>2, <1>5, <1>6, <1>7, <1>8 DEF ResolvedRowsStay, RowResolved

LEMMA RadarInvStep ==
  ASSUME FreshParameters, RadarInv, [Fresh!Next]_freshVars
  PROVE  RadarInv' /\ [ResolvedRowsStay]_freshVars
<1>1. CASE UNCHANGED freshVars
  <2> USE <1>1 DEF freshVars, RadarInv
  <2>1. \A r \in FreshRuns : RunTyped(r)' = RunTyped(r)
    BY DEF RunTyped
  <2>2. RadarTypes'
    BY <2>1 DEF RadarTypes, Fresh!FreshTypeOK
  <2>3. Fresh!ResolvedHasPosting'
    BY DEF Fresh!ResolvedHasPosting
  <2>4. OutcomesAreTrue'
    BY DEF OutcomesAreTrue, Fresh!InHand
  <2>5. \A r \in FreshRuns : KnowsTheResolved(r)' = KnowsTheResolved(r)
    BY DEF KnowsTheResolved, RowResolved, Fresh!InHand
  <2>6. RunsKnowTheResolved'
    BY <2>5 DEF RunsKnowTheResolved
  <2> QED
    BY <2>2, <2>3, <2>4, <2>6
<1>2. signals' = signals => ResolvedRowsStay
  BY DEF ResolvedRowsStay
<1>3. CASE Fresh!Publish \/ \E s \in Fresh!Signals : Fresh!Fade(s) \/ Fresh!ComesDue(s)
  BY <1>3, FeedStep
<1>4. ASSUME NEW r \in FreshRuns,
             Fresh!RunSteps(r) \/ Fresh!OutOfTime(r) \/ Fresh!Killed(r)
               \/ \E s \in Fresh!Signals : Fresh!RecordFails(r, s)
      PROVE  RadarInv' /\ ResolvedRowsStay
  <2>1. CASE Fresh!End(r) \/ Fresh!Killed(r)
    BY <1>2, <2>1, RunEndsStep
  <2>2. CASE Fresh!Fetch(r) \/ Fresh!Load(r)
    BY <1>2, <2>2, RunReadsStep
  <2>3. CASE Fresh!CreateRows(r)
    BY <2>3, RunCreatesStep
  <2>4. CASE Fresh!MarkQueued(r)
    BY <2>4, RunMarksStep
  <2>5. CASE Fresh!OutOfTime(r) \/ \E s \in Fresh!Signals : Fresh!RecordFails(r, s)
    BY <1>2, <2>5, RunLosesStep
  <2>6. ASSUME NEW s \in Fresh!Signals, Fresh!Take(r, s) \/ Fresh!Search(r, s) \/ Fresh!Record(r, s)
        PROVE  RadarInv' /\ ResolvedRowsStay
    BY <1>2, <2>6, RunTakesStep, RunSearchesStep, RunRecordsStep
  <2> QED
    BY <1>4, <2>1, <2>2, <2>3, <2>4, <2>5, <2>6 DEF Fresh!RunSteps
<1> QED
  BY <1>1, <1>3, <1>4 DEF Fresh!Next

\* What jobrightFreshDiscovery keeps of its signals, for any number of runs that may stop
\* anywhere: a signal recorded as resolved has its posting, and while runs do not cross it
\* stays resolved.
THEOREM ResolvedAreKept ==
  ASSUME FreshParameters
  PROVE  Fresh!Spec => /\ [](Fresh!FreshTypeOK /\ Fresh!ResolvedHasPosting)
                       /\ Fresh!ResolvedStays
<1>1. Fresh!Init => RadarInv
  BY RadarInvAtFirst
<1>2. RadarInv /\ [Fresh!Next]_(Fresh!radarVars) => RadarInv' /\ [ResolvedRowsStay]_(Fresh!radarVars)
  BY RadarInvStep DEF freshVars, Fresh!radarVars
<1>3. RadarInv => Fresh!FreshTypeOK /\ Fresh!ResolvedHasPosting
  BY DEF RadarInv, RadarTypes
<1> QED
  BY <1>1, <1>2, <1>3, PTL DEF Fresh!Spec, Fresh!ResolvedStays, ResolvedRowsStay

-----------------------------------------------------------------------------
(* The checks of the companies                                               *)

CompanyRows == [ats : {None, "vendor", "custom"}, hash : Polling!Contents \union {None},
                tier : {"A", "B", "C"}, ever : BOOLEAN, due : BOOLEAN]

CompaniesParameters ==
  /\ None \notin Polling!Contents /\ None \notin {"vendor", "custom"}
  /\ None \notin Polling!Runs

\* The records of a check on its way, and the steps of those that carry the row it began with.
Looking == [step : {"detect"}, was : CompanyRows]
Listing == [step : {"approve", "confirm", "create", "list"}, was : CompanyRows,
            ats : {"vendor", "custom"}]
Keeping == [step : {"ingest", "write"}, was : CompanyRows, ats : {"vendor", "custom"},
            relevant : BOOLEAN, hash : Polling!Contents \union {None}]
Detected == {"approve", "confirm", "create", "list", "ingest", "write"}
WithRow == {"detect"} \union Detected

CheckTyped(k) ==
  k.step \in {"idle", "ready", "done", "fail"} \/ k \in Looking \/ k \in Listing \/ k \in Keeping

CompanyTypes ==
  /\ siteOf \in [Companies -> {"vendor", "page"}] /\ openings \in [Companies -> Polling!Contents]
  /\ companyRow \in [Companies -> CompanyRows]
  /\ checksCrossed \in BOOLEAN /\ edits \in Nat
  /\ check = [r \in Polling!Runs |-> [c \in Companies |-> check[r][c]]]
  /\ \A r \in Polling!Runs, c \in Companies : CheckTyped(check[r][c])

\* The page a check knows as unchanged was ingested, and so is the one it is about to book;
\* it keeps the board it began with, if there was one.
CheckIsSound(k, ingested) ==
  /\ k.step \in WithRow /\ k.was.hash = "roles" => ingested
  /\ k.step = "detect" => k.was.ats = None
  /\ k.step = "ingest" /\ k.hash = "roles" => k.relevant \/ ingested
  /\ k.step = "write" /\ k.hash = "roles" => ingested
  /\ k.step \in Detected /\ k.was.ats # None => k.ats = k.was.ats
ChecksAreSound ==
  \A r \in Polling!Runs, c \in Companies : CheckIsSound(check[r][c], c \in taken)

\* Unless checks crossed, the row is as the check found it.
CheckIsCurrent(k, entry) ==
  k.step \in WithRow => entry.ats = k.was.ats /\ entry.ever = k.was.ever
ChecksAreCurrent ==
  ~checksCrossed =>
    \A r \in Polling!Runs, c \in Companies : CheckIsCurrent(check[r][c], companyRow[c])

CompaniesInv ==
  /\ CompanyTypes /\ ChecksAreSound /\ ChecksAreCurrent
  /\ Polling!UnchangedIsIngested /\ Polling!TierRemembers

\* What is known of the companies is the same, but for the time of the next check.
SameKnowledge ==
  /\ companyRow' \in [Companies -> CompanyRows]
  /\ \A c \in Companies :
       /\ companyRow'[c].ats = companyRow[c].ats /\ companyRow'[c].hash = companyRow[c].hash
       /\ companyRow'[c].tier = companyRow[c].tier /\ companyRow'[c].ever = companyRow[c].ever

BoardStays ==
  \A c \in Companies : companyRow[c].ats = "vendor" /\ companyRow'[c].ats # "vendor" =>
    checksCrossed' \/ edits' # edits

LEMMA NewCompany ==
  ASSUME CompaniesParameters
  PROVE  /\ Polling!New \in CompanyRows /\ Polling!New.hash # "roles"
         /\ Polling!New.tier = "C" /\ Polling!New.ever = FALSE
<1>1. "roles" \in Polling!Contents
  BY DEF Polling!Contents
<1> QED
  BY <1>1 DEF Polling!New, CompanyRows, CompaniesParameters

LEMMA CompaniesInvAtFirst == ASSUME CompaniesParameters, Polling!Init PROVE CompaniesInv
<1>1. /\ siteOf \in [Companies -> {"vendor", "page"}] /\ openings \in [Companies -> Polling!Contents]
      /\ companyRow = [c \in Companies |-> Polling!New] /\ checksCrossed = FALSE
      /\ check = [r \in Polling!Runs |-> [c \in Companies |-> Polling!Idle]]
      /\ edits = 0
  BY DEF Polling!Init
<1>2. Polling!Idle.step = "idle"
  BY DEF Polling!Idle
<1>3. \A r \in Polling!Runs, c \in Companies : check[r][c].step = "idle"
  BY <1>1, <1>2
<1>4. CompanyTypes
  BY <1>1, <1>3, NewCompany DEF CompanyTypes, CheckTyped
<1>5. ChecksAreSound
  BY <1>3 DEF ChecksAreSound, CheckIsSound, WithRow, Detected
<1>6. ChecksAreCurrent
  BY <1>3 DEF ChecksAreCurrent, CheckIsCurrent, WithRow, Detected
<1>7. Polling!UnchangedIsIngested /\ Polling!TierRemembers
  BY <1>1, NewCompany DEF Polling!UnchangedIsIngested, Polling!TierRemembers
<1> QED
  BY <1>4, <1>5, <1>6, <1>7 DEF CompaniesInv

LEMMA CheckGoes ==
  ASSUME CompanyTypes, NEW r \in Polling!Runs, NEW c \in Companies, NEW next,
         Polling!Goes(r, c, next)
  PROVE  /\ check' = [q \in Polling!Runs |-> [d \in Companies |-> check'[q][d]]]
         /\ check'[r][c] = next
         /\ \A q \in Polling!Runs, d \in Companies : q # r \/ d # c => check'[q][d] = check[q][d]
<1>1. check' = [check EXCEPT ![r] = [check[r] EXCEPT ![c] = next]]
  BY DEF Polling!Goes
<1>2. check = [q \in Polling!Runs |-> [d \in Companies |-> check[q][d]]]
  BY DEF CompanyTypes
<1>3. check[r] = [d \in Companies |-> check[r][d]]
  BY <1>2
<1> DEFINE mine == [check[r] EXCEPT ![c] = next]
<1>4. /\ mine = [d \in Companies |-> mine[d]] /\ mine[c] = next
      /\ \A d \in Companies \ {c} : mine[d] = check[r][d]
  BY <1>3
<1> HIDE DEF mine
<1>5. check' = [check EXCEPT ![r] = mine]
  BY <1>1 DEF mine
<1>6. check'[r] = mine /\ \A q \in Polling!Runs \ {r} : check'[q] = check[q]
  BY <1>2, <1>5
<1>7. check' = [q \in Polling!Runs |-> check'[q]]
  BY <1>2, <1>5
<1>8. \A q \in Polling!Runs : check'[q] = [d \in Companies |-> check'[q][d]]
  BY <1>2, <1>4, <1>6
<1>9. check' = [q \in Polling!Runs |-> [d \in Companies |-> check'[q][d]]]
  BY <1>7, <1>8
<1> QED
  BY <1>4, <1>6, <1>9

\* Checks that go on in the same knowledge of the companies.
LEMMA ChecksGoOn ==
  ASSUME CompaniesInv, SameKnowledge, UNCHANGED checksCrossed,
         siteOf' \in [Companies -> {"vendor", "page"}],
         openings' \in [Companies -> Polling!Contents],
         edits' \in Nat, taken \subseteq taken',
         check' = [q \in Polling!Runs |-> [d \in Companies |-> check'[q][d]]],
         \A q \in Polling!Runs, d \in Companies :
           \/ check'[q][d] = check[q][d]
           \/ /\ CheckTyped(check'[q][d]) /\ CheckIsSound(check'[q][d], d \in taken')
              /\ ~checksCrossed => CheckIsCurrent(check'[q][d], companyRow'[d])
  PROVE  CompaniesInv' /\ BoardStays
<1> USE DEF CompaniesInv
<1>1. CompanyTypes'
  BY DEF CompanyTypes, SameKnowledge
<1>2. ChecksAreSound'
  <2>1. ASSUME NEW q \in Polling!Runs, NEW d \in Companies, check'[q][d] = check[q][d]
        PROVE  CheckIsSound(check'[q][d], d \in taken')
    <3>1. CheckIsSound(check[q][d], d \in taken) /\ (d \in taken => d \in taken')
      BY DEF ChecksAreSound
    <3> QED
      BY <2>1, <3>1 DEF CheckIsSound
  <2> QED
    BY <2>1 DEF ChecksAreSound
<1>3. ChecksAreCurrent'
  <2>1. ASSUME NEW q \in Polling!Runs, NEW d \in Companies, check'[q][d] = check[q][d],
               ~checksCrossed
        PROVE  CheckIsCurrent(check'[q][d], companyRow'[d])
    BY <2>1 DEF SameKnowledge, ChecksAreCurrent, CheckIsCurrent
  <2> QED
    BY <2>1 DEF ChecksAreCurrent
<1>4. Polling!UnchangedIsIngested'
  BY DEF SameKnowledge, Polling!UnchangedIsIngested
<1>5. Polling!TierRemembers'
  BY DEF SameKnowledge, Polling!TierRemembers
<1>6. BoardStays
  BY DEF SameKnowledge, BoardStays
<1> QED
  BY <1>1, <1>2, <1>3, <1>4, <1>5, <1>6

LEMMA CheckGoesOn ==
  ASSUME CompaniesInv, NEW r \in Polling!Runs, NEW c \in Companies, NEW next,
         Polling!Goes(r, c, next), SameKnowledge, UNCHANGED <<siteOf, openings, checksCrossed, edits>>,
         taken \subseteq taken',
         CheckTyped(next), CheckIsSound(next, c \in taken'),
         ~checksCrossed => CheckIsCurrent(next, companyRow'[c])
  PROVE  CompaniesInv' /\ BoardStays
<1>1. /\ check' = [q \in Polling!Runs |-> [d \in Companies |-> check'[q][d]]]
      /\ check'[r][c] = next
      /\ \A q \in Polling!Runs, d \in Companies : q # r \/ d # c => check'[q][d] = check[q][d]
  BY CheckGoes DEF CompaniesInv
<1>3. /\ siteOf' \in [Companies -> {"vendor", "page"}]
      /\ openings' \in [Companies -> Polling!Contents] /\ edits' \in Nat
  BY DEF CompaniesInv, CompanyTypes
<1> QED
  BY <1>1, <1>3, ChecksGoOn

\* What a check of company c is before its step.
LEMMA CheckBefore ==
  ASSUME CompaniesInv, NEW r \in Polling!Runs, NEW c \in Companies
  PROVE  /\ CheckTyped(check[r][c]) /\ CheckIsSound(check[r][c], c \in taken)
         /\ ~checksCrossed => CheckIsCurrent(check[r][c], companyRow[c])
  BY DEF CompaniesInv, CompanyTypes, ChecksAreSound, ChecksAreCurrent

LEMMA KnowledgeStands == ASSUME CompaniesInv, UNCHANGED companyRow PROVE SameKnowledge
  BY DEF CompaniesInv, CompanyTypes, SameKnowledge

\* The books change the time of the next check alone.
LEMMA KnowledgeIsBooked ==
  ASSUME CompaniesInv, NEW c \in Companies, NEW due \in BOOLEAN,
         companyRow' = [companyRow EXCEPT ![c] = [companyRow[c] EXCEPT !.due = due]]
  PROVE  SameKnowledge
<1>1. companyRow \in [Companies -> CompanyRows]
  BY DEF CompaniesInv, CompanyTypes
<1> DEFINE entry == [companyRow[c] EXCEPT !.due = due]
<1>2. /\ entry \in CompanyRows /\ entry.ats = companyRow[c].ats /\ entry.hash = companyRow[c].hash
      /\ entry.tier = companyRow[c].tier /\ entry.ever = companyRow[c].ever
  <2>1. companyRow[c] \in CompanyRows
    BY <1>1
  <2> QED
    BY <2>1 DEF CompanyRows
<1> HIDE DEF entry
<1>3. companyRow' = [companyRow EXCEPT ![c] = entry]
  BY DEF entry
<1> QED
  BY <1>1, <1>2, <1>3 DEF SameKnowledge

\* The pages, and time.
LEMMA PageStep ==
  ASSUME CompaniesParameters, CompaniesInv,
         Polling!ResolveReads \/ \E c \in Companies : Polling!PageChanges(c) \/ Polling!ComesDue(c)
  PROVE  CompaniesInv' /\ BoardStays
<1>1. check = [q \in Polling!Runs |-> [d \in Companies |-> check[q][d]]]
  BY DEF CompaniesInv, CompanyTypes
<1>2. CASE Polling!ResolveReads
  <2>1. /\ UNCHANGED <<siteOf, openings, companyRow, taken, check, checksCrossed>>
        /\ edits' = edits + 1
    BY <1>2 DEF Polling!ResolveReads, Polling!pageVars
  <2>2. SameKnowledge
    BY <2>1, KnowledgeStands
  <2> QED
    BY <1>1, <2>1, <2>2, ChecksGoOn DEF CompaniesInv, CompanyTypes
<1>3. ASSUME NEW c \in Companies, Polling!PageChanges(c)
      PROVE  CompaniesInv' /\ BoardStays
  <2>1. /\ UNCHANGED <<siteOf, companyRow, taken, check, checksCrossed, edits>>
        /\ \E new \in Polling!Contents : openings' = [openings EXCEPT ![c] = new]
    BY <1>3 DEF Polling!PageChanges
  <2>2. SameKnowledge
    BY <2>1, KnowledgeStands
  <2>3. /\ openings' \in [Companies -> Polling!Contents] /\ edits' \in Nat
        /\ siteOf' \in [Companies -> {"vendor", "page"}]
    BY <2>1 DEF CompaniesInv, CompanyTypes
  <2> QED
    BY <1>1, <2>1, <2>2, <2>3, ChecksGoOn
<1>4. ASSUME NEW c \in Companies, Polling!ComesDue(c)
      PROVE  CompaniesInv' /\ BoardStays
  <2>1. /\ UNCHANGED <<siteOf, openings, taken, check, checksCrossed, edits>>
        /\ companyRow' = [companyRow EXCEPT ![c] = [companyRow[c] EXCEPT !.due = TRUE]]
    BY <1>4 DEF Polling!ComesDue, Polling!pageVars
  <2>2. SameKnowledge
    BY <2>1, KnowledgeIsBooked
  <2> QED
    BY <1>1, <2>1, <2>2, ChecksGoOn DEF CompaniesInv, CompanyTypes
<1> QED
  BY <1>2, <1>3, <1>4

\* A run begins, ends a wave, or dies.
LEMMA PollTurnStep ==
  ASSUME CompaniesParameters, CompaniesInv, NEW r \in Polling!Runs,
         Polling!Begin(r) \/ Polling!WaveEnds(r) \/ Polling!Killed(r)
  PROVE  CompaniesInv' /\ BoardStays
<1>0. UNCHANGED <<siteOf, openings, companyRow, taken, checksCrossed, edits>>
  BY DEF Polling!Begin, Polling!WaveEnds, Polling!Killed, Polling!pageVars
<1>1. \E wave : check' = [check EXCEPT ![r] =
        [c \in Companies |-> IF c \in wave THEN [step |-> "ready"] ELSE Polling!Idle]]
  <2>1. ASSUME NEW list, Polling!StartWave(r, list)
        PROVE  \E wave : check' = [check EXCEPT ![r] =
                 [c \in Companies |-> IF c \in wave THEN [step |-> "ready"] ELSE Polling!Idle]]
    BY <2>1, Zenon DEF Polling!StartWave
  <2>2. CASE check' = [check EXCEPT ![r] = [c \in Companies |-> Polling!Idle]]
    <3> DEFINE wave == {}
               ready == [c \in Companies |-> IF c \in wave THEN [step |-> "ready"] ELSE Polling!Idle]
    <3>1. ready = [c \in Companies |-> Polling!Idle]
      OBVIOUS
    <3>2. check' = [check EXCEPT ![r] = ready]
      BY <2>2, <3>1
    <3> HIDE DEF wave
    <3> QED
      BY <3>2
  <2>3. \/ check' = [check EXCEPT ![r] = [c \in Companies |-> Polling!Idle]]
        \/ \E list : Polling!StartWave(r, list)
    BY DEF Polling!Begin, Polling!WaveEnds, Polling!Killed
  <2> QED
    BY <2>1, <2>2, <2>3
<1>2. PICK wave : check' = [check EXCEPT ![r] =
        [c \in Companies |-> IF c \in wave THEN [step |-> "ready"] ELSE Polling!Idle]]
  BY <1>1
<1>3. check = [q \in Polling!Runs |-> [d \in Companies |-> check[q][d]]]
  BY DEF CompaniesInv, CompanyTypes
<1>4. /\ check' = [q \in Polling!Runs |-> [d \in Companies |-> check'[q][d]]]
      /\ \A q \in Polling!Runs \ {r} : check'[q] = check[q]
      /\ \A d \in Companies : check'[r][d].step \in {"ready", "idle"}
  BY <1>2, <1>3 DEF Polling!Idle
<1>5. SameKnowledge
  BY <1>0, KnowledgeStands
<1>6. \A q \in Polling!Runs, d \in Companies :
        \/ check'[q][d] = check[q][d]
        \/ /\ CheckTyped(check'[q][d]) /\ CheckIsSound(check'[q][d], d \in taken')
           /\ CheckIsCurrent(check'[q][d], companyRow'[d])
  BY <1>4 DEF CheckTyped, CheckIsSound, CheckIsCurrent, WithRow, Detected
<1> QED
  BY <1>0, <1>4, <1>5, <1>6, ChecksGoOn DEF CompaniesInv, CompanyTypes

\* Nobody checks the company: the row is written under no check.
LEMMA NoneUnderWay ==
  ASSUME CompaniesInv, NEW r, NEW c \in Companies, ~Polling!UnderWay(r, c),
         NEW q \in Polling!Runs \ {r}
  PROVE  check[q][c].step \notin WithRow
  BY DEF Polling!UnderWay, WithRow, Detected

\* A board is written by hand, or by a run of ats:resolve.
LEMMA BoardWrittenStep ==
  ASSUME CompaniesParameters, CompaniesInv, NEW c \in Companies,
         Polling!AdminSets(c) \/ Polling!ResolveWrites(c)
  PROVE  CompaniesInv' /\ BoardStays
<1>1. check = [q \in Polling!Runs |-> [d \in Companies |-> check[q][d]]]
  BY DEF CompaniesInv, CompanyTypes
<1>2. UNCHANGED <<siteOf, openings, taken, check>>
  BY DEF Polling!AdminSets, Polling!ResolveWrites, Polling!pageVars
<1>e. edits' \in Nat /\ (Polling!AdminSets(c) => edits' # edits)
  BY DEF Polling!AdminSets, Polling!ResolveWrites, CompaniesInv, CompanyTypes
<1>3. CASE UNCHANGED <<companyRow, checksCrossed>>
  <2>1. SameKnowledge
    BY <1>3, KnowledgeStands
  <2> QED
    BY <1>1, <1>2, <1>3, <1>e, <2>1, ChecksGoOn DEF CompaniesInv, CompanyTypes
<1>4. ASSUME NEW ats \in {None, "vendor"}, Polling!Writes(c, ats), ats = "vendor" \/ edits' # edits
      PROVE  CompaniesInv' /\ BoardStays
  <2>1. /\ companyRow' = [companyRow EXCEPT ![c] = [companyRow[c] EXCEPT !.ats = ats]]
        /\ checksCrossed' = (checksCrossed \/ Polling!UnderWay(None, c))
    BY <1>4 DEF Polling!Writes
  <2>2. companyRow \in [Companies -> CompanyRows] /\ checksCrossed \in BOOLEAN
    BY DEF CompaniesInv, CompanyTypes
  <2> DEFINE entry == [companyRow[c] EXCEPT !.ats = ats]
  <2>3. /\ entry \in CompanyRows /\ entry.ats = ats /\ entry.hash = companyRow[c].hash
        /\ entry.tier = companyRow[c].tier /\ entry.ever = companyRow[c].ever
    <3>1. companyRow[c] \in CompanyRows
      BY <2>2
    <3> QED
      BY <3>1 DEF CompanyRows
  <2> HIDE DEF entry
  <2>4. /\ companyRow' \in [Companies -> CompanyRows] /\ companyRow'[c] = entry
        /\ \A d \in Companies \ {c} : companyRow'[d] = companyRow[d]
    BY <2>1, <2>2, <2>3 DEF entry
  <2>5. checksCrossed' \in BOOLEAN /\ (~checksCrossed' => ~checksCrossed /\ ~Polling!UnderWay(None, c))
    BY <2>1, <2>2 DEF Polling!UnderWay
  <2>6. CompanyTypes'
    BY <1>2, <1>e, <2>4, <2>5 DEF CompaniesInv, CompanyTypes
  <2>7. ChecksAreSound'
    BY <1>2 DEF CompaniesInv, ChecksAreSound
  <2>8. ChecksAreCurrent'
    <3>1. ~checksCrossed' => \A q \in Polling!Runs : check[q][c].step \notin WithRow
      BY <2>5, NoneUnderWay DEF CompaniesParameters
    <3> QED
      BY <1>2, <2>4, <2>5, <3>1 DEF CompaniesInv, ChecksAreCurrent, CheckIsCurrent
  <2>9. Polling!UnchangedIsIngested'
    BY <1>2, <2>3, <2>4 DEF CompaniesInv, Polling!UnchangedIsIngested
  <2>10. Polling!TierRemembers'
    BY <2>3, <2>4, <2>5 DEF CompaniesInv, Polling!TierRemembers
  <2>11. BoardStays
    BY <1>4, <2>3, <2>4 DEF BoardStays
  <2> QED
    BY <2>6, <2>7, <2>8, <2>9, <2>10, <2>11 DEF CompaniesInv
<1>5. \/ UNCHANGED <<companyRow, checksCrossed>>
      \/ \E ats \in {None, "vendor"} : Polling!Writes(c, ats) /\ (ats = "vendor" \/ edits' # edits)
  <2>1. CASE Polling!AdminSets(c)
    BY <1>e, <2>1 DEF Polling!AdminSets
  <2>2. CASE Polling!ResolveWrites(c)
    BY <2>2 DEF Polling!ResolveWrites
  <2> QED
    BY <2>1, <2>2
<1> QED
  BY <1>3, <1>4, <1>5

\* A check looks, or goes by what the row said.
LEMMA LookStep ==
  ASSUME CompaniesParameters, CompaniesInv, NEW r \in Polling!Runs, NEW c \in Companies,
         Polling!Read(r, c) \/ Polling!Detect(r, c)
  PROVE  CompaniesInv' /\ BoardStays
<1>1. /\ CheckTyped(check[r][c]) /\ CheckIsSound(check[r][c], c \in taken)
      /\ ~checksCrossed => CheckIsCurrent(check[r][c], companyRow[c])
  BY CheckBefore
<1>2. UNCHANGED <<siteOf, openings, companyRow, taken, checksCrossed, edits>>
  BY DEF Polling!Read, Polling!Detect, Polling!pageVars
<1>3. SameKnowledge
  BY <1>2, KnowledgeStands
<1>4. ASSUME NEW was \in CompanyRows, NEW ats \in {"vendor", "custom"},
             was.ats # None => ats = was.ats, was.hash = "roles" => c \in taken,
             ~checksCrossed => companyRow[c].ats = was.ats /\ companyRow[c].ever = was.ever,
             Polling!Goes(r, c, Polling!AfterDetection(was, ats))
      PROVE  CompaniesInv' /\ BoardStays
  <2> DEFINE next == Polling!AfterDetection(was, ats)
  <2>1. /\ next \in Listing /\ next.step \in {"approve", "list"}
        /\ next.was = was /\ next.ats = ats
    BY DEF Polling!AfterDetection, Listing
  <2> HIDE DEF next
  <2>2. CheckTyped(next) /\ CheckIsSound(next, c \in taken')
    BY <1>2, <1>4, <2>1 DEF CheckTyped, CheckIsSound
  <2>3. ~checksCrossed => CheckIsCurrent(next, companyRow'[c])
    BY <1>2, <1>4, <2>1 DEF CheckIsCurrent
  <2>4. Polling!Goes(r, c, next)
    BY <1>4 DEF next
  <2> QED
    BY <1>2, <1>3, <2>2, <2>3, <2>4, CheckGoesOn
<1>5. CASE Polling!Read(r, c)
  <2> DEFINE was == companyRow[c]
  <2>1. /\ was \in CompanyRows /\ (was.hash = "roles" => c \in taken)
        /\ was.ats \in {None, "vendor", "custom"}
    BY DEF CompaniesInv, CompanyTypes, CompanyRows, Polling!UnchangedIsIngested
  <2>2. Polling!Goes(r, c, IF Polling!Detects(was) THEN [step |-> "detect", was |-> was]
                           ELSE Polling!AfterDetection(was, was.ats))
    BY <1>5 DEF Polling!Read
  <2>3. CASE was.ats = None
    <3> DEFINE next == [step |-> "detect", was |-> was]
    <3>1. next \in Looking /\ next.step = "detect" /\ next.was = was
      BY <2>1 DEF Looking
    <3>2. Polling!Goes(r, c, next)
      BY <2>2, <2>3 DEF Polling!Detects
    <3> HIDE DEF next
    <3>3. CheckTyped(next) /\ CheckIsSound(next, c \in taken')
      BY <1>2, <2>1, <2>3, <3>1 DEF CheckTyped, CheckIsSound, Detected
    <3>4. CheckIsCurrent(next, companyRow'[c])
      BY <1>2, <3>1 DEF CheckIsCurrent
    <3> QED
      BY <1>2, <1>3, <3>2, <3>3, <3>4, CheckGoesOn
  <2>4. CASE was.ats # None
    <3>1. Polling!Goes(r, c, Polling!AfterDetection(was, was.ats))
      BY <2>2, <2>4 DEF Polling!Detects
    <3> QED
      BY <1>4, <2>1, <2>4, <3>1
  <2> QED
    BY <2>3, <2>4
<1>6. CASE Polling!Detect(r, c)
  <2> DEFINE was == check[r][c].was
  <2>1. check[r][c].step = "detect"
    BY <1>6 DEF Polling!Detect
  <2>2. \E ats \in {"vendor", "custom"} : Polling!Goes(r, c, Polling!AfterDetection(was, ats))
    BY <1>6 DEF Polling!Detect
  <2>3. /\ was \in CompanyRows /\ (was.hash = "roles" => c \in taken) /\ was.ats = None
        /\ ~checksCrossed => companyRow[c].ats = was.ats /\ companyRow[c].ever = was.ever
    BY <1>1, <2>1
    DEF CheckTyped, CheckIsSound, CheckIsCurrent, WithRow, Looking, Listing, Keeping
  <2> QED
    BY <2>1, <2>2, <2>3, <1>4
<1> QED
  BY <1>5, <1>6


\* A check with its tenant to approve, or its board to list.
LEMMA ListingBefore ==
  ASSUME CompaniesInv, NEW r \in Polling!Runs, NEW c \in Companies,
         check[r][c].step \in {"approve", "confirm", "create", "list"}
  PROVE  check[r][c] \in Listing
BY CheckBefore DEF CheckTyped, Looking, Listing, Keeping

LEMMA KeepingBefore ==
  ASSUME CompaniesInv, NEW r \in Polling!Runs, NEW c \in Companies,
         check[r][c].step \in {"ingest", "write"}
  PROVE  check[r][c] \in Keeping
BY CheckBefore DEF CheckTyped, Looking, Listing, Keeping

\* A check that ends, or fails.
LEMMA CheckEnds ==
  ASSUME CompaniesInv, NEW r \in Polling!Runs, NEW c \in Companies, NEW next,
         next.step \in {"done", "fail"}, Polling!Goes(r, c, next), SameKnowledge,
         UNCHANGED <<siteOf, openings, taken, checksCrossed, edits>>
  PROVE  CompaniesInv' /\ BoardStays
<1>1. CheckTyped(next) /\ CheckIsSound(next, c \in taken') /\ CheckIsCurrent(next, companyRow'[c])
  BY DEF CheckTyped, CheckIsSound, CheckIsCurrent, WithRow, Detected
<1> QED
  BY <1>1, CheckGoesOn

\* The tenant is looked up, confirmed and approved; or the check ends.
LEMMA TenantStep ==
  ASSUME CompaniesParameters, CompaniesInv, NEW r \in Polling!Runs, NEW c \in Companies,
         Polling!Approve(r, c) \/ Polling!Confirm(r, c) \/ Polling!Create(r, c)
  PROVE  CompaniesInv' /\ BoardStays
<1> DEFINE k == check[r][c]
<1>1. /\ CheckTyped(k) /\ CheckIsSound(k, c \in taken)
      /\ ~checksCrossed => CheckIsCurrent(k, companyRow[c])
  BY CheckBefore
<1>2. UNCHANGED <<siteOf, openings, taken, checksCrossed, edits>>
  BY DEF Polling!Approve, Polling!Confirm, Polling!Create, Polling!pageVars
<1>3. k.step \in {"approve", "confirm", "create"} /\ k \in Listing
  BY ListingBefore DEF Polling!Approve, Polling!Confirm, Polling!Create
<1>4. ASSUME NEW to \in {"confirm", "create", "list"}, UNCHANGED companyRow,
             Polling!Goes(r, c, [k EXCEPT !.step = to])
      PROVE  CompaniesInv' /\ BoardStays
  <2> DEFINE next == [k EXCEPT !.step = to]
  <2>1. next \in Listing /\ next.step = to /\ next.was = k.was /\ next.ats = k.ats
    BY <1>3 DEF Listing
  <2> HIDE DEF next
  <2>2. CheckTyped(next) /\ CheckIsSound(next, c \in taken')
    BY <1>1, <1>2, <1>3, <2>1 DEF CheckTyped, CheckIsSound, WithRow, Detected
  <2>3. ~checksCrossed => CheckIsCurrent(next, companyRow'[c])
    BY <1>1, <1>3, <1>4, <2>1 DEF CheckIsCurrent, WithRow, Detected
  <2>4. Polling!Goes(r, c, next)
    BY <1>4 DEF next
  <2> QED
    BY <1>2, <1>4, <2>2, <2>3, <2>4, CheckGoesOn, KnowledgeStands
<1>5. CASE Polling!Approve(r, c)
  <2>1. /\ UNCHANGED companyRow
        /\ \E to \in {"confirm", "list"} : Polling!Goes(r, c, [k EXCEPT !.step = to])
    BY <1>5 DEF Polling!Approve
  <2> QED
    BY <1>4, <2>1
<1>6. ASSUME UNCHANGED companyRow, Polling!Goes(r, c, Polling!Done)
      PROVE  CompaniesInv' /\ BoardStays
  <2>1. Polling!Done.step = "done"
    BY DEF Polling!Done
  <2> QED
    BY <1>2, <1>6, <2>1, CheckEnds, KnowledgeStands
<1>7. CASE Polling!Confirm(r, c)
  <2>1. CASE Polling!Booked(companyRow[c], c) /\ Polling!Goes(r, c, Polling!Done)
    <3>1. SameKnowledge
      BY <2>1, KnowledgeIsBooked DEF Polling!Booked
    <3>2. Polling!Done.step = "done"
      BY DEF Polling!Done
    <3> QED
      BY <1>2, <2>1, <3>1, <3>2, CheckEnds
  <2>2. \/ UNCHANGED companyRow /\ Polling!Goes(r, c, [k EXCEPT !.step = "create"])
        \/ UNCHANGED companyRow /\ Polling!Goes(r, c, Polling!Done)
        \/ Polling!Booked(companyRow[c], c) /\ Polling!Goes(r, c, Polling!Done)
    BY <1>7 DEF Polling!Confirm, Polling!Unbooked
  <2> QED
    BY <1>4, <1>6, <2>1, <2>2
<1>8. CASE Polling!Create(r, c)
  <2>1. /\ UNCHANGED companyRow
        /\ \/ Polling!Goes(r, c, [k EXCEPT !.step = "list"])
           \/ Polling!Goes(r, c, Polling!Done)
    BY <1>8 DEF Polling!Create
  <2> QED
    BY <1>4, <1>6, <2>1
<1> QED
  BY <1>5, <1>7, <1>8

\* The openings are listed.
LEMMA ListStep ==
  ASSUME CompaniesParameters, CompaniesInv, NEW r \in Polling!Runs, NEW c \in Companies,
         Polling!List(r, c)
  PROVE  CompaniesInv' /\ BoardStays
<1> DEFINE k == check[r][c]
           found(relevant, hash) ==
             [step |-> "ingest", was |-> k.was, ats |-> k.ats, relevant |-> relevant, hash |-> hash]
<1>1. /\ CheckIsSound(k, c \in taken)
      /\ ~checksCrossed => CheckIsCurrent(k, companyRow[c])
  BY CheckBefore
<1>2. UNCHANGED <<siteOf, openings, companyRow, taken, checksCrossed, edits>> /\ SameKnowledge
  BY KnowledgeStands DEF Polling!List, Polling!pageVars
<1>3. k.step = "list" /\ k \in Listing
  BY ListingBefore DEF Polling!List
<1>4. openings[c] \in Polling!Contents
  BY DEF CompaniesInv, CompanyTypes
<1>5. ASSUME NEW relevant \in BOOLEAN, NEW hash \in Polling!Contents \union {None},
             hash = "roles" => relevant \/ c \in taken,
             Polling!Goes(r, c, found(relevant, hash))
      PROVE  CompaniesInv' /\ BoardStays
  <2> DEFINE next == found(relevant, hash)
  <2>1. /\ next \in Keeping /\ next.step = "ingest" /\ next.was = k.was /\ next.ats = k.ats
        /\ next.relevant = relevant /\ next.hash = hash
    BY <1>3 DEF Listing, Keeping
  <2> HIDE DEF next
  <2>2. CheckTyped(next) /\ CheckIsSound(next, c \in taken')
    BY <1>1, <1>2, <1>3, <1>5, <2>1 DEF CheckTyped, CheckIsSound, WithRow, Detected
  <2>3. ~checksCrossed => CheckIsCurrent(next, companyRow'[c])
    BY <1>1, <1>2, <1>3, <2>1 DEF CheckIsCurrent, WithRow, Detected
  <2>4. Polling!Goes(r, c, next)
    BY <1>5 DEF next
  <2> QED
    BY <1>2, <2>2, <2>3, <2>4, CheckGoesOn
<1>6. None # "roles"
  BY DEF CompaniesParameters, Polling!Contents
<1>7. CASE Polling!Goes(r, c, [step |-> "fail", hash |-> None])
  <2> DEFINE next == [step |-> "fail", hash |-> None]
  <2>1. next.step = "fail"
    OBVIOUS
  <2> QED
    BY <1>2, <1>7, <2>1, CheckEnds
<1>8. CASE Polling!Goes(r, c, found(openings[c] = "roles", None))
  BY <1>5, <1>6, <1>8
<1>9. CASE Polling!Goes(r, c, found(FALSE, None))
  BY <1>5, <1>6, <1>9
<1>10. CASE Polling!Goes(r, c,
              found(openings[c] = "roles" /\ ~Polling!NotModified(k.was, openings[c]), openings[c]))
  <2> DEFINE relevant == openings[c] = "roles" /\ ~Polling!NotModified(k.was, openings[c])
  <2>1. relevant \in BOOLEAN
    OBVIOUS
  <2>2. openings[c] = "roles" => relevant \/ c \in taken
    BY <1>1, <1>3 DEF Polling!NotModified, CheckIsSound, WithRow, Detected
  <2>3. Polling!Goes(r, c, found(relevant, openings[c]))
    BY <1>10
  <2> HIDE DEF relevant, found
  <2> QED
    BY <1>4, <1>5, <2>1, <2>2, <2>3
<1> QED
  BY <1>7, <1>8, <1>9, <1>10 DEF Polling!List


\* The openings are ingested.
LEMMA IngestStep ==
  ASSUME CompaniesParameters, CompaniesInv, NEW r \in Polling!Runs, NEW c \in Companies,
         Polling!Ingest(r, c)
  PROVE  CompaniesInv' /\ BoardStays
<1> DEFINE k == check[r][c]
<1>1. /\ CheckIsSound(k, c \in taken)
      /\ ~checksCrossed => CheckIsCurrent(k, companyRow[c])
  BY CheckBefore
<1>2. UNCHANGED <<siteOf, openings, companyRow, checksCrossed, edits>> /\ SameKnowledge
  BY KnowledgeStands DEF Polling!Ingest, Polling!pageVars
<1>3. k.step = "ingest" /\ k \in Keeping
  BY KeepingBefore DEF Polling!Ingest
<1>4. CASE /\ Polling!Goes(r, c, [k EXCEPT !.step = "write"])
           /\ taken' = IF k.relevant THEN taken \union {c} ELSE taken
  <2> DEFINE next == [k EXCEPT !.step = "write"]
  <2>1. /\ next \in Keeping /\ next.step = "write" /\ next.was = k.was /\ next.ats = k.ats
        /\ next.relevant = k.relevant /\ next.hash = k.hash
    BY <1>3 DEF Keeping
  <2>2. taken \subseteq taken' /\ (k.relevant \/ c \in taken => c \in taken')
    BY <1>4
  <2> HIDE DEF next
  <2>3. CheckTyped(next) /\ CheckIsSound(next, c \in taken')
    BY <1>1, <1>3, <2>1, <2>2 DEF CheckTyped, CheckIsSound, WithRow, Detected
  <2>4. ~checksCrossed => CheckIsCurrent(next, companyRow'[c])
    BY <1>1, <1>2, <1>3, <2>1 DEF CheckIsCurrent, WithRow, Detected
  <2>5. Polling!Goes(r, c, next)
    BY <1>4 DEF next
  <2> QED
    BY <1>2, <2>2, <2>3, <2>4, <2>5, CheckGoesOn
<1>5. CASE UNCHANGED taken /\ Polling!Goes(r, c, [step |-> "fail", hash |-> k.hash])
  <2> DEFINE next == [step |-> "fail", hash |-> k.hash]
  <2>1. next.step = "fail"
    OBVIOUS
  <2> HIDE DEF next
  <2>2. Polling!Goes(r, c, next)
    BY <1>5 DEF next
  <2> QED
    BY <1>2, <1>5, <2>1, <2>2, CheckEnds
<1> QED
  BY <1>4, <1>5 DEF Polling!Ingest

\* The books are kept of a check that went well: the row knows what the check found.
LEMMA WrittenStep ==
  ASSUME CompaniesParameters, CompaniesInv, NEW r \in Polling!Runs, NEW c \in Companies,
         check[r][c].step = "write", Polling!Goes(r, c, Polling!Done),
         checksCrossed' = (checksCrossed \/ Polling!UnderWay(r, c)),
         Polling!Booked([companyRow[c] EXCEPT !.ats = check[r][c].ats,
             !.tier = Polling!Activity(check[r][c]), !.ever = @ \/ check[r][c].relevant,
             !.hash = IF check[r][c].ats = "vendor" THEN @ ELSE check[r][c].hash], c),
         UNCHANGED <<siteOf, openings, taken, edits>>
  PROVE  CompaniesInv' /\ BoardStays
<1> DEFINE k == check[r][c]
           entry == companyRow[c]
           next == [[entry EXCEPT !.ats = k.ats, !.tier = Polling!Activity(k),
                       !.ever = @ \/ k.relevant,
                       !.hash = IF k.ats = "vendor" THEN @ ELSE k.hash] EXCEPT !.due = FALSE]
<1>1. /\ CheckIsSound(k, c \in taken)
      /\ ~checksCrossed => CheckIsCurrent(k, entry)
  BY CheckBefore
<1>2. /\ k \in Keeping /\ entry \in CompanyRows /\ checksCrossed \in BOOLEAN
      /\ companyRow \in [Companies -> CompanyRows]
  BY KeepingBefore DEF CompaniesInv, CompanyTypes
<1>3. Polling!Activity(k) \in {"A", "B", "C"}
  BY DEF Polling!Activity
<1>4. /\ next.ats = k.ats /\ next.tier = Polling!Activity(k)
      /\ next.ever = (entry.ever \/ k.relevant)
      /\ next.hash = IF k.ats = "vendor" THEN entry.hash ELSE k.hash
      /\ next \in CompanyRows
  <2> DEFINE ats == k.ats  tier == Polling!Activity(k)  ever == entry.ever \/ k.relevant
             hash == IF k.ats = "vendor" THEN entry.hash ELSE k.hash
             written == [entry EXCEPT !.ats = ats, !.tier = tier, !.ever = ever, !.hash = hash]
  <2>1. /\ ats \in {None, "vendor", "custom"} /\ tier \in {"A", "B", "C"} /\ ever \in BOOLEAN
        /\ hash \in Polling!Contents \union {None}
    BY <1>2, <1>3 DEF CompanyRows, Keeping
  <2>2. next = [written EXCEPT !.due = FALSE]
    BY <1>2 DEF CompanyRows
  <2> HIDE DEF ats, tier, ever, hash, next
  <2>3. /\ written \in CompanyRows /\ written.ats = ats /\ written.tier = tier
        /\ written.ever = ever /\ written.hash = hash
    BY <1>2, <2>1 DEF CompanyRows
  <2> HIDE DEF written
  <2>4. /\ next \in CompanyRows /\ next.ats = ats /\ next.tier = tier
        /\ next.ever = ever /\ next.hash = hash
    BY <2>2, <2>3 DEF CompanyRows
  <2> QED
    BY <2>4 DEF ats, tier, ever, hash
<1>5. companyRow' = [companyRow EXCEPT ![c] = next]
  BY DEF Polling!Booked
<1> HIDE DEF next
<1>6. /\ companyRow' \in [Companies -> CompanyRows] /\ companyRow'[c] = next
      /\ \A d \in Companies \ {c} : companyRow'[d] = companyRow[d]
  BY <1>2, <1>4, <1>5
<1>7. /\ check' = [q \in Polling!Runs |-> [d \in Companies |-> check'[q][d]]]
      /\ check'[r][c] = Polling!Done
      /\ \A q \in Polling!Runs, d \in Companies : q # r \/ d # c => check'[q][d] = check[q][d]
  BY CheckGoes DEF CompaniesInv
<1>8. checksCrossed' \in BOOLEAN /\ (~checksCrossed' => ~checksCrossed /\ ~Polling!UnderWay(r, c))
  BY <1>2 DEF Polling!UnderWay
<1>9. CompanyTypes'
  <2>1. \A q \in Polling!Runs, d \in Companies : CheckTyped(check'[q][d])
    BY <1>7 DEF CompaniesInv, CompanyTypes, CheckTyped, Polling!Done
  <2>2. /\ siteOf' \in [Companies -> {"vendor", "page"}]
        /\ openings' \in [Companies -> Polling!Contents] /\ edits' \in Nat
    BY DEF CompaniesInv, CompanyTypes
  <2> QED
    BY <1>6, <1>7, <1>8, <2>1, <2>2 DEF CompanyTypes
<1>10. ChecksAreSound'
  BY <1>7 DEF CompaniesInv, ChecksAreSound, CheckIsSound, Polling!Done, WithRow, Detected
<1>11. ChecksAreCurrent'
  <2>1. ASSUME ~checksCrossed', NEW q \in Polling!Runs, NEW d \in Companies
        PROVE  CheckIsCurrent(check'[q][d], companyRow'[d])
    <3>1. CASE d # c
      BY <1>6, <1>7, <1>8, <2>1, <3>1 DEF CompaniesInv, ChecksAreCurrent, CheckIsCurrent
    <3>2. CASE d = c /\ q = r
      BY <1>7, <3>2 DEF CheckIsCurrent, Polling!Done, WithRow, Detected
    <3>3. CASE d = c /\ q # r
      <4>1. check[q][c].step \notin WithRow
        BY <1>8, <2>1, <3>3, NoneUnderWay
      <4> QED
        BY <1>7, <3>3, <4>1 DEF CheckIsCurrent
    <3> QED
      BY <3>1, <3>2, <3>3
  <2> QED
    BY <2>1 DEF ChecksAreCurrent
<1>12. Polling!UnchangedIsIngested'
  BY <1>1, <1>4, <1>6 DEF CompaniesInv, Polling!UnchangedIsIngested, CheckIsSound
<1>13. Polling!TierRemembers'
  <2>1. ~checksCrossed' => (next.tier = "C" <=> ~next.ever)
    <3>1. ~checksCrossed' => k.was.ever = entry.ever
      BY <1>1, <1>8 DEF CheckIsCurrent, WithRow, Detected
    <3>2. k.was.ever \in BOOLEAN /\ k.relevant \in BOOLEAN /\ entry.ever \in BOOLEAN
      BY <1>2 DEF Keeping, CompanyRows
    <3> QED
      BY <1>4, <3>1, <3>2 DEF Polling!Activity
  <2> QED
    BY <1>6, <1>8, <2>1 DEF CompaniesInv, Polling!TierRemembers
<1>14. BoardStays
  <2>1. ~checksCrossed' /\ entry.ats = "vendor" => next.ats = "vendor"
    BY <1>1, <1>4, <1>8 DEF CheckIsCurrent, CheckIsSound, WithRow, Detected, CompaniesParameters
  <2> QED
    BY <1>6, <2>1 DEF BoardStays
<1> QED
  BY <1>9, <1>10, <1>11, <1>12, <1>13, <1>14 DEF CompaniesInv

\* The books are kept, or the failure is; or neither.
LEMMA BooksStep ==
  ASSUME CompaniesParameters, CompaniesInv, NEW r \in Polling!Runs, NEW c \in Companies,
         Polling!Write(r, c) \/ Polling!Fail(r, c)
  PROVE  CompaniesInv' /\ BoardStays
<1>1. UNCHANGED <<siteOf, openings, taken, edits>>
  BY DEF Polling!Write, Polling!Fail, Polling!pageVars
<1>2. Polling!Done.step = "done"
  BY DEF Polling!Done
<1>3. CASE Polling!Write(r, c)
  <2>1. CASE UNCHANGED <<companyRow, checksCrossed>> /\
             Polling!Goes(r, c, [step |-> "fail", hash |-> check[r][c].hash])
    <3> DEFINE next == [step |-> "fail", hash |-> check[r][c].hash]
    <3>1. next.step = "fail"
      OBVIOUS
    <3> HIDE DEF next
    <3>2. Polling!Goes(r, c, next)
      BY <2>1 DEF next
    <3> QED
      BY <1>1, <2>1, <3>1, <3>2, CheckEnds, KnowledgeStands
  <2> QED
    BY <1>1, <1>3, <2>1, WrittenStep DEF Polling!Write, Polling!Unbooked
<1>4. CASE Polling!Fail(r, c)
  <2>1. Polling!Goes(r, c, Polling!Done) /\ UNCHANGED checksCrossed
    BY <1>4 DEF Polling!Fail
  <2>2. \/ UNCHANGED companyRow
        \/ companyRow' = [companyRow EXCEPT ![c] = [companyRow[c] EXCEPT !.due = FALSE]]
    BY <1>4 DEF Polling!Fail, Polling!Booked, Polling!Failed, Polling!Unbooked
  <2>3. SameKnowledge
    BY <2>2, KnowledgeStands, KnowledgeIsBooked
  <2> QED
    BY <1>1, <1>2, <2>1, <2>3, CheckEnds
<1> QED
  BY <1>3, <1>4

\* Whatever happens to the companies, or nothing.
LEMMA CompaniesInvStep ==
  ASSUME CompaniesParameters, CompaniesInv, [Polling!Next]_(Polling!companyVars)
  PROVE  CompaniesInv' /\ [BoardStays]_(Polling!companyVars)
<1>1. CASE UNCHANGED Polling!companyVars
  <2>1. UNCHANGED <<siteOf, openings, companyRow, taken, check, checksCrossed, edits>>
    BY <1>1 DEF Polling!companyVars
  <2>2. check' = [q \in Polling!Runs |-> [d \in Companies |-> check'[q][d]]]
    BY <2>1 DEF CompaniesInv, CompanyTypes
  <2>3. /\ siteOf' \in [Companies -> {"vendor", "page"}]
        /\ openings' \in [Companies -> Polling!Contents] /\ edits' \in Nat
    BY <2>1 DEF CompaniesInv, CompanyTypes
  <2> QED
    BY <1>1, <2>1, <2>2, <2>3, ChecksGoOn, KnowledgeStands
<1>2. ASSUME NEW c \in Companies,
             \/ Polling!PageChanges(c) \/ Polling!ComesDue(c)
             \/ Polling!AdminSets(c) \/ Polling!ResolveWrites(c)
      PROVE  CompaniesInv' /\ BoardStays
  BY <1>2, PageStep, BoardWrittenStep
<1>3. ASSUME NEW r \in Polling!Runs, Polling!RunSteps(r) \/ Polling!Killed(r)
      PROVE  CompaniesInv' /\ BoardStays
  <2>1. ASSUME NEW c \in Companies, Polling!CheckSteps(r, c)
        PROVE  CompaniesInv' /\ BoardStays
    BY <2>1, LookStep, TenantStep, ListStep, IngestStep, BooksStep DEF Polling!CheckSteps
  <2> QED
    BY <1>3, <2>1, PollTurnStep DEF Polling!RunSteps
<1> QED
  BY <1>1, <1>2, <1>3, PageStep DEF Polling!Next

\* The registry of the companies, whatever runs sweep and poll it, crash or overlap: a page
\* is skipped as unchanged (checkCompany) only when its openings were ingested; unless
\* checks crossed, the tier tells of the past; and no check takes a vendor's board away.
THEOREM RegistryIsKept ==
  ASSUME CompaniesParameters
  PROVE  Polling!Spec =>
           [](Polling!UnchangedIsIngested /\ Polling!TierRemembers) /\ Polling!KnownBoardStays
<1>1. Polling!Init => CompaniesInv
  BY CompaniesInvAtFirst
<1>2. CompaniesInv /\ [Polling!Next]_(Polling!companyVars) =>
        CompaniesInv' /\ [BoardStays]_(Polling!companyVars)
  BY CompaniesInvStep
<1>3. CompaniesInv => Polling!UnchangedIsIngested /\ Polling!TierRemembers
  BY DEF CompaniesInv
<1> QED
  BY <1>1, <1>2, <1>3, PTL DEF Polling!Spec, Polling!KnownBoardStays, BoardStays

-----------------------------------------------------------------------------
(* What was settled stays settled                                            *)

\* The fresh radar, the board of an employer and the registry of the companies keep what
\* they settled (jobrightFreshDiscovery, employerBoardResolution, checkCompany), beside the
\* other services.
THEOREM SettledStaysBesideOthers ==
  ASSUME FreshParameters, BoardsParameters, CompaniesParameters
  PROVE  Services => SettledStays
<1>1. ServicesInit => RadarInv /\ BoardsInv /\ CompaniesInv
  <2> SUFFICES ASSUME ServicesInit PROVE RadarInv /\ BoardsInv /\ CompaniesInv
    OBVIOUS
  <2>1. Fresh!Init /\ Boards!Init /\ Polling!Init
    BY DEF ServicesInit
  <2> QED
    BY <2>1, RadarInvAtFirst, BoardsInvAtFirst, CompaniesInvAtFirst
<1>2. [ServicesNext]_servicesVars => [Fresh!Next]_(Fresh!radarVars)
  BY Zenon DEF ServicesNext, Only, servicesVars, freshVars, Fresh!radarVars
<1>3. [ServicesNext]_servicesVars => [Boards!Next]_(Boards!boardVars)
  BY Zenon DEF ServicesNext, Only, servicesVars, boardVars, Boards!boardVars
<1>4. [ServicesNext]_servicesVars => [Polling!Next]_(Polling!companyVars)
  BY Zenon DEF ServicesNext, Only, servicesVars, companyVars, Polling!companyVars
<1>5. RadarInv /\ [ServicesNext]_servicesVars => RadarInv' /\ [ResolvedRowsStay]_(Fresh!radarVars)
  BY <1>2, RadarInvStep DEF freshVars, Fresh!radarVars
<1>6. BoardsInv /\ [ServicesNext]_servicesVars => BoardsInv' /\ [MissStays]_(Boards!boardVars)
  BY <1>3, BoardsInvStep DEF boardVars, Boards!boardVars
<1>7. CompaniesInv /\ [ServicesNext]_servicesVars =>
        CompaniesInv' /\ [BoardStays]_(Polling!companyVars)
  BY <1>4, CompaniesInvStep
<1>8. /\ RadarInv => Fresh!ResolvedHasPosting
      /\ CompaniesInv => Polling!UnchangedIsIngested /\ Polling!TierRemembers
  BY DEF RadarInv, CompaniesInv
<1> QED
  BY <1>1, <1>5, <1>6, <1>7, <1>8, PTL
     DEF Services, SettledStays, Fresh!ResolvedStays, Boards!SettledMissStays,
         Polling!KnownBoardStays, ResolvedRowsStay, MissStays, BoardStays

-----------------------------------------------------------------------------
(* The order of the company checks remains one of all companies.             *)

\* The places in the rotation, and whom the sets are about.
RotationInv ==
  /\ order \in Polling!SetToSeqs(Companies)
  /\ approved \union taken \union resolving \subseteq Companies

LEMMA SameCardinality == ASSUME NEW S PROVE Polling!Cardinality(S) = Cardinality(S)
  BY DEF Polling!Cardinality, Cardinality

\* Who is checked goes to the end, and everybody keeps a place.
LEMMA MovedToTheEnd ==
  ASSUME IsFiniteSet(Companies), NEW list \in Polling!SetToSeqs(Companies),
         NEW place \in DOMAIN list
  PROVE  Append(Polling!RemoveAt(list, place), list[place]) \in Polling!SetToSeqs(Companies)
<1> DEFINE n == Cardinality(Companies)
           moved == [i \in 1..n |-> IF i < place THEN list[i] ELSE
                                    IF i < n THEN list[i + 1] ELSE list[place]]
<1>1. n \in Nat /\ Polling!Cardinality(Companies) = n
  BY FS_CardinalityType, SameCardinality
<1>2. /\ list \in [1..n -> Companies] /\ place \in 1..n
      /\ \A i, j \in 1..n : i # j => list[i] # list[j]
  BY <1>1 DEF Polling!SetToSeqs
<1> HIDE DEF n
<1>3. moved \in Polling!SetToSeqs(Companies)
  <2>1. moved \in [1..n -> Companies]
    BY <1>1, <1>2
  <2>2. \A i, j \in 1..n : i # j => moved[i] # moved[j]
    BY <1>1, <1>2
  <2> HIDE DEF moved
  <2> QED
    BY <1>1, <2>1, <2>2 DEF Polling!SetToSeqs
<1>4. Append(Polling!RemoveAt(list, place), list[place]) = moved
  <2>1. list \in Seq(Companies) /\ Len(list) = n
    BY <1>1, <1>2
  <2> DEFINE front == SubSeq(list, 1, place - 1)
             back == SubSeq(list, place + 1, n)
  <2>2. /\ front \in Seq(Companies) /\ Len(front) = place - 1
        /\ \A i \in 1..(place - 1) : front[i] = list[i]
    BY <1>1, <1>2, <2>1
  <2>3. /\ back \in Seq(Companies) /\ Len(back) = n - place
        /\ \A i \in 1..(n - place) : back[i] = list[place + i]
    BY <1>1, <1>2, <2>1
  <2> HIDE DEF front, back
  <2> DEFINE rest == front \o back
  <2>4. /\ rest \in Seq(Companies) /\ Len(rest) = n - 1
        /\ \A i \in 1..(n - 1) : rest[i] = IF i < place THEN list[i] ELSE list[i + 1]
    <3>1. rest \in Seq(Companies) /\ Len(rest) = n - 1
      <4>1. rest \in Seq(Companies) /\ Len(rest) = Len(front) + Len(back)
        BY <2>2, <2>3, ConcatProperties
      <4>2. Len(front) + Len(back) = n - 1
        BY <1>1, <1>2, <2>2, <2>3
      <4> QED
        BY <4>1, <4>2
    <3>2. ASSUME NEW i \in 1..(n - 1), i < place PROVE rest[i] = list[i]
      <4>1. rest[i] = front[i] /\ i \in 1..(place - 1)
        BY <1>1, <1>2, <2>2, <2>3, <3>2
      <4> QED
        BY <2>2, <4>1
    <3>3. ASSUME NEW i \in 1..(n - 1), ~(i < place) PROVE rest[i] = list[i + 1]
      <4>1. rest[i] = back[i - (place - 1)] /\ i - (place - 1) \in 1..(n - place)
        BY <1>1, <1>2, <2>2, <2>3, <3>3
      <4>2. back[i - (place - 1)] = list[place + (i - (place - 1))]
        BY <2>3, <4>1
      <4>3. place + (i - (place - 1)) = i + 1
        BY <1>2, <1>1
      <4> QED
        BY <4>1, <4>2, <4>3
    <3> QED
      BY <3>1, <3>2, <3>3
  <2>5. Polling!RemoveAt(list, place) = rest
    BY <2>1 DEF Polling!RemoveAt, front, back
  <2> HIDE DEF rest
  <2>6. /\ Append(rest, list[place]) \in Seq(Companies)
        /\ Len(Append(rest, list[place])) = n
        /\ \A i \in 1..n : Append(rest, list[place])[i] = moved[i]
    BY <1>1, <1>2, <2>4
  <2>7. moved \in Seq(Companies) /\ Len(moved) = n
    BY <1>1, <1>2
  <2> HIDE DEF moved
  <2>8. Append(rest, list[place]) = moved
    BY <1>1, <2>6, <2>7, SeqEqual
  <2> QED
    BY <2>5, <2>8
<1> QED
  BY <1>3, <1>4

\* A check moves the company it books, and adds it alone; an edit adds those there are.
LEMMA RotationStep ==
  ASSUME IsFiniteSet(Companies), RotationInv, [Polling!Next]_(Polling!companyVars)
  PROVE  RotationInv'
<1> DEFINE Stays == order' = order /\ taken' = taken /\ approved' = approved
                    /\ resolving' = resolving
           Known(c) == approved' \union taken' \union resolving'
                         \subseteq approved \union taken \union resolving \union {c}
<1>1. ASSUME NEW c \in Companies, order' = order, Known(c) PROVE RotationInv'
  BY <1>1 DEF RotationInv
<1>2. ASSUME NEW c \in Companies, NEW entry, Polling!Booked(entry, c),
             UNCHANGED <<approved, taken, resolving>>
      PROVE  RotationInv'
  <2>1. \E place \in DOMAIN order : order' = Append(Polling!RemoveAt(order, place), order[place])
    BY <1>2 DEF Polling!Booked
  <2> QED
    BY <1>2, <2>1, MovedToTheEnd DEF RotationInv
<1>3. CASE Stays
  BY <1>3 DEF RotationInv
<1>4. CASE UNCHANGED Polling!companyVars
  BY <1>3, <1>4 DEF Polling!companyVars
<1>5. CASE Polling!ResolveReads
  BY <1>5 DEF Polling!ResolveReads, RotationInv
<1>6. ASSUME NEW c \in Companies,
             \/ Polling!PageChanges(c) \/ Polling!ComesDue(c)
             \/ Polling!AdminSets(c) \/ Polling!ResolveWrites(c)
      PROVE  RotationInv'
  <2>1. order' = order /\ Known(c)
    BY <1>6 DEF Polling!PageChanges, Polling!ComesDue, Polling!AdminSets, Polling!ResolveWrites
  <2> QED
    BY <1>1, <2>1
<1>7. ASSUME NEW r \in Polling!Runs, Polling!Begin(r) \/ Polling!WaveEnds(r) \/ Polling!Killed(r)
      PROVE  RotationInv'
  BY <1>3, <1>7 DEF Polling!Begin, Polling!WaveEnds, Polling!Killed
<1>8. ASSUME NEW r \in Polling!Runs, NEW c \in Companies, Polling!CheckSteps(r, c)
      PROVE  RotationInv'
  <2>1. CASE Polling!Read(r, c) \/ Polling!Detect(r, c) \/ Polling!Approve(r, c) \/ Polling!List(r, c)
    BY <1>3, <2>1 DEF Polling!Read, Polling!Detect, Polling!Approve, Polling!List
  <2>2. CASE Polling!Create(r, c) \/ Polling!Ingest(r, c)
    <3>1. order' = order /\ Known(c)
      BY <2>2 DEF Polling!Create, Polling!Ingest
    <3> QED
      BY <1>1, <3>1
  <2>3. CASE Polling!Confirm(r, c) \/ Polling!Write(r, c) \/ Polling!Fail(r, c)
    <3>1. /\ UNCHANGED <<approved, taken, resolving>>
          /\ Stays \/ \E entry : Polling!Booked(entry, c)
      BY <2>3 DEF Polling!Confirm, Polling!Write, Polling!Fail, Polling!Unbooked
    <3> QED
      BY <1>2, <1>3, <3>1
  <2> QED
    BY <1>8, <2>1, <2>2, <2>3 DEF Polling!CheckSteps
<1> QED
  BY <1>4, <1>5, <1>6, <1>7, <1>8 DEF Polling!Next, Polling!RunSteps

LEMMA RotationAtFirst == ASSUME Polling!Init PROVE RotationInv
  BY DEF Polling!Init, RotationInv

LEMMA RegistryIsTyped == ASSUME CompaniesInv, RotationInv PROVE Polling!CompaniesTypeOK
  BY DEF CompaniesInv, CompanyTypes, CompanyRows, RotationInv, Polling!CompaniesTypeOK,
         Polling!Rank
=============================================================================
