--------------------------- MODULE LiveServicesProofs ---------------------------
(***************************************************************************)
(* Proofs about the services of MCLiveServices whose constants are its own *)
(* (the postings of PostingFeed, the radar records of RadarRecord, the     *)
(* legacy queue of ScoringQueue and the lock of WorkerLock), each for any  *)
(* number of tasks at once and any bounds, and side by side.               *)
(***************************************************************************)
EXTENDS MCLiveServices, TLAPS

-----------------------------------------------------------------------------
(* The postings                                                              *)

\* The names of the checks are not those of the other tasks; the bound is a number.
PostingParameters == Checks \cap Others = {} /\ MaxChanges \in Nat

-----------------------------------------------------------------------------
(* What the writes do to the row                                             *)

LEMMA FieldTypes ==
  ASSUME row \in Row
  PROVE  /\ row.source \in {"aggregator", "vendor", "other"} /\ row.id \in {"board", "index"}
         /\ row.url \in {"own", "stray", "none"} /\ row.status \in Statuses
         /\ row.active \in BOOLEAN /\ row.qualifying \in BOOLEAN /\ row.tenant \in BOOLEAN
         /\ row.misses \in 0..2 /\ row.closedAt \in BOOLEAN
  BY DEF Row, BOARD_MISSES_BEFORE_CLOSE

LEMMA SightingIs ==
  ASSUME NEW t
  PROVE  Sighting(t).source \in {"vendor", "other"} /\ Sighting(t).tenant \in BOOLEAN
  BY DEF Sighting

LEMMA IdsAre == ASSUME NEW t PROVE Ids(t) \subseteq {"board", "index"}
  BY DEF Ids

\* An ingestion verifies the row, or leaves its state alone.
LEMMA RowOfIngests ==
  ASSUME row \in Row, NEW t \in Tasks, Upsert(t) \/ promoteCanonicalDirectJob(t)
  PROVE  /\ row' \in Row /\ row'.url = "own"
         /\ \/ row'.source # "aggregator"
            \/ row'.source = row.source /\ (row'.active => row.active)
         /\ promoteCanonicalDirectJob(t) => row'.source # "aggregator"
         /\ row'.misses \in {0, row.misses}
         /\ row'.closedAt => row.closedAt
         /\ \/ row'.status = Verified
            \/ row'.status = row.status /\ (row.closedAt => row'.closedAt)
<1> DEFINE source == Sighting(t).source
           tenant == Sighting(t).tenant
<1>1. source \in {"vendor", "other"} /\ tenant \in BOOLEAN
  BY SightingIs, Zenon
<1>2. Ids(t) \subseteq {"board", "index"}
  BY IdsAre
<1>0. Upsert(t) => ~promoteCanonicalDirectJob(t)
  BY DEF Upsert, promoteCanonicalDirectJob
<1>3. CASE Upsert(t) /\ found[t] = "stale"
  <2>1. PICK id \in Ids(t) :
          row' = [source |-> source, id |-> id, url |-> "own",
                  status |-> Verified, active |-> TRUE, qualifying |-> TRUE,
                  tenant |-> tenant, misses |-> 0, closedAt |-> FALSE]
    BY <1>3, Zenon DEF Upsert
  <2> HIDE DEF source, tenant
  <2> QED
    BY <1>0, <1>1, <1>2, <1>3, <2>1 DEF Row, Statuses, BOARD_MISSES_BEFORE_CLOSE
<1>4. CASE Upsert(t) /\ found[t] # "stale"
  <2>1. row' = [row EXCEPT !.qualifying = TRUE, !.url = "own"]
    BY <1>4, Zenon DEF Upsert
  <2> QED
    BY <1>0, <1>4, <2>1 DEF Row
<1>5. CASE promoteCanonicalDirectJob(t)
  <2>1. PICK id \in Ids(t) :
          row' = [row EXCEPT !.source = source, !.id = id, !.url = "own",
                             !.status = Verified, !.qualifying = TRUE,
                             !.tenant = tenant, !.active = TRUE]
    BY <1>5, Zenon DEF promoteCanonicalDirectJob
  <2> HIDE DEF source, tenant
  <2> QED
    BY <1>1, <1>2, <2>1 DEF Row, Statuses
<1> QED
  BY <1>3, <1>4, <1>5

LEMMA RowOfDelta ==
  ASSUME row \in Row, NEW c \in Checks, DeltaPresent(c) \/ DeltaMisses(c) \/ DeltaCloses(c)
  PROVE  /\ row' \in Row /\ row'.source = row.source /\ row'.url = row.url
         /\ row'.active => row.active
         /\ DeltaPresent(c) => row'.misses = 0
         /\ DeltaMisses(c) => row'.misses = IF row.misses = 2 THEN 2 ELSE row.misses + 1
         /\ DeltaCloses(c) => row'.misses = row.misses /\ row'.closedAt
         /\ ~DeltaCloses(c) => row'.status = row.status /\ row'.closedAt = row.closedAt
<1>1. CASE DeltaPresent(c)
  BY <1>1 DEF DeltaPresent, DeltaMisses, DeltaCloses, Row, BOARD_MISSES_BEFORE_CLOSE
<1>2. CASE DeltaMisses(c)
  BY <1>2 DEF DeltaPresent, DeltaMisses, DeltaCloses, Row, BOARD_MISSES_BEFORE_CLOSE
<1>3. CASE DeltaCloses(c)
  BY <1>3 DEF DeltaPresent, DeltaMisses, DeltaCloses, Row, Statuses
<1> QED
  BY <1>1, <1>2, <1>3

Writers ==
  \/ ResolutionSettles \/ ResolutionShows
  \/ RecheckWrites \/ VerifyWrites \/ RecomputeWrites \/ VerifyQuarantines
  \/ FreshnessWrites \/ AgentWrites \/ MaintenanceWrites

\* Those that show a row.
Showing ==
  \/ task["resolution"] = "canonical"
  \/ task["verify"] = "show"
  \/ task["maintenance"] = "reconcile" /\ found["maintenance"] = "stale"

Probing == {"verify", "freshness", "agent", "resolution"}

\* The other writers leave the source and the counts alone.
RowOfWriters ==
  /\ row' \in Row /\ row'.source = row.source
  /\ row'.misses = row.misses /\ row'.closedAt = row.closedAt
  /\ row'.active => row.active \/ Showing
  /\ row'.url = "stray" => row.url = "stray" \/ strayed'
  /\ row'.status = "Closed" =>
       row.status = "Closed" \/ strayed' \/ \E t \in Probing : found[t] = "closed"

LEMMA WritersKeepTheRow == ASSUME row \in Row, Writers PROVE RowOfWriters
<1> USE DEF Probing
<1>1. CASE ResolutionSettles
  <2>1. CASE row' = [row EXCEPT !.url = "none"] \/ row' = [row EXCEPT !.url = "own"]
    BY <2>1 DEF Row, RowOfWriters
  <2>2. CASE /\ found["resolution"] = "closed"
             /\ row' = [row EXCEPT !.url = "own", !.status = "Closed", !.qualifying = FALSE,
                                   !.active = FALSE]
    BY <2>2 DEF Row, Statuses, RowOfWriters
  <2>3. CASE strayed' /\ row' = [row EXCEPT !.url = "stray"]
    BY <2>3 DEF Row, RowOfWriters
  <2>4. CASE strayed' /\ row' = [row EXCEPT !.url = "stray", !.status = "Closed",
                                            !.qualifying = FALSE, !.active = FALSE]
    BY <2>4 DEF Row, Statuses, RowOfWriters
  <2> QED
    BY <1>1, <2>1, <2>2, <2>3, <2>4, Zenon DEF ResolutionSettles
<1>2. CASE ResolutionShows
  BY <1>2 DEF ResolutionShows, Row, RowOfWriters, Showing
<1>3. CASE RecheckWrites
  BY <1>3 DEF RecheckWrites, Row, Statuses, RowOfWriters
<1>4. CASE VerifyWrites
  <2>1. CASE found["verify"] = "unknown"
    <3>1. PICK url \in {row.url, "none"} :
            row' = [row EXCEPT !.status = "ACTIVE_SOURCE_LISTED", !.tenant = FALSE, !.url = url]
      BY <1>4, <2>1, Zenon DEF VerifyWrites
    <3> QED
      BY <3>1 DEF Row, Statuses, RowOfWriters
  <2>2. CASE found["verify"] # "unknown"
    <3>1. PICK verdict \in {Verified, "ACTIVE_SOURCE_LISTED"}, same \in BOOLEAN :
            row' = [row EXCEPT !.status = verdict, !.tenant = same /\ verdict = Verified,
                               !.url = IF found["verify"] = "open" THEN "own" ELSE "stray"]
      BY <1>4, <2>2, Zenon DEF VerifyWrites
    <3> DEFINE tenant == same /\ verdict = Verified
               url == IF found["verify"] = "open" THEN "own" ELSE "stray"
    <3>2. tenant \in BOOLEAN /\ url \in {"own", "stray"}
      OBVIOUS
    <3>3. row' = [row EXCEPT !.status = verdict, !.tenant = tenant, !.url = url]
      BY <3>1
    <3>4. row'.url = "stray" => strayed'
      BY <1>4 DEF VerifyWrites
    <3> HIDE DEF tenant, url
    <3> QED
      BY <3>2, <3>3, <3>4 DEF Row, Statuses, RowOfWriters, Verified
  <2> QED
    BY <2>1, <2>2
<1>5. CASE RecomputeWrites
  <2>1. row' = [row EXCEPT !.active = (task["verify"] = "show")]
    BY <1>5, Zenon DEF RecomputeWrites
  <2> QED
    BY <2>1 DEF Row, RowOfWriters, Showing
<1>6. CASE VerifyQuarantines
  BY <1>6 DEF VerifyQuarantines, Row, Statuses, RowOfWriters
<1>7. CASE FreshnessWrites
  BY <1>7 DEF FreshnessWrites, Row, Statuses, RowOfWriters, Verified
<1>8. CASE AgentWrites
  BY <1>8 DEF AgentWrites, Row, Statuses, RowOfWriters
<1>9. CASE MaintenanceWrites
  BY <1>9 DEF MaintenanceWrites, Row, Statuses, RowOfWriters, Showing, Verified
<1> QED
  BY <1>1, <1>2, <1>3, <1>4, <1>5, <1>6, <1>7, <1>8, <1>9 DEF Writers
-----------------------------------------------------------------------------
(* Types                                                                     *)

\* The types of what is not in the row.
TasksTyped ==
  /\ task \in [Tasks -> TaskSteps] /\ found \in [Tasks -> Findings]
  /\ absences \in 0..BOARD_MISSES_BEFORE_CLOSE /\ misread \in BOOLEAN /\ strayed \in BOOLEAN
  /\ kind \in Kinds /\ listed \in BOOLEAN /\ changes \in 0..MaxChanges /\ wasGone \in BOOLEAN

LEMMA TypesOfChecks ==
  ASSUME TasksTyped, NEW c \in Checks, ListBoard(c) \/ CheckSteps(c)
  PROVE  TasksTyped'
<1> USE DEF TasksTyped, TaskTo, Learns, Ends, World, Histories, TaskSteps, Findings, Tasks,
            BOARD_MISSES_BEFORE_CLOSE
<1>1. CASE ListBoard(c)
  BY <1>1 DEF ListBoard
<1>2. CASE IngestReads(c)
  BY <1>2 DEF IngestReads
<1>3. CASE Upsert(c) \/ promoteCanonicalDirectJob(c)
  BY <1>3 DEF Upsert, promoteCanonicalDirectJob
<1>4. CASE DeltaReads(c)
  <2>1. absences' \in 0..2 /\ UNCHANGED <<World, strayed>>
    BY <1>4 DEF DeltaReads
  <2>2. misread' \in BOOLEAN
    BY <1>4, Zenon DEF DeltaReads
  <2>3. task' \in [Tasks -> TaskSteps] /\ found' \in [Tasks -> Findings]
    BY <1>4 DEF DeltaReads
  <2> QED
    BY <2>1, <2>2, <2>3
<1>5. CASE DeltaPresent(c) \/ DeltaMisses(c) \/ DeltaCloses(c)
  BY <1>5 DEF DeltaPresent, DeltaMisses, DeltaCloses
<1> QED
  BY <1>1, <1>2, <1>3, <1>4, <1>5 DEF CheckSteps, Ingests

LEMMA TypesOfLanes ==
  ASSUME TasksTyped, IndexNames \/ ResolutionLooks \/ LaneSteps
  PROVE  TasksTyped'
<1> USE DEF TasksTyped, TaskTo, Learns, Ends, World, Histories, TaskSteps, Findings, Tasks,
            Others, Lanes
<1>1. CASE IndexNames
  BY <1>1 DEF IndexNames
<1>2. CASE ResolutionLooks
  <2>1. UNCHANGED <<World, Histories>>
    BY <1>2, Zenon DEF ResolutionLooks
  <2>2. PICK s \in {"ingest", "settle"}, f \in {"open", "closed", "unknown", "unresolved", "other"} :
          TaskTo("resolution", s) /\ Learns("resolution", f)
    BY <1>2 DEF ResolutionLooks, ProbeResults
  <2> QED
    BY <2>1, <2>2
<1>3. ASSUME NEW t \in Lanes, Ingests(t) PROVE TasksTyped'
  <2>1. CASE IngestReads(t)
    BY <2>1 DEF IngestReads
  <2>2. CASE Upsert(t)
    BY <2>2 DEF Upsert
  <2>3. CASE promoteCanonicalDirectJob(t)
    BY <2>3 DEF promoteCanonicalDirectJob
  <2> QED
    BY <1>3, <2>1, <2>2, <2>3 DEF Ingests
<1>4. CASE ResolutionSettles
  <2>1. strayed' \in BOOLEAN
    BY <1>4, Zenon DEF ResolutionSettles
  <2> QED
    BY <1>4, <2>1 DEF ResolutionSettles
<1>5. CASE ResolutionShows
  BY <1>5 DEF ResolutionShows
<1> QED
  BY <1>1, <1>2, <1>3, <1>4, <1>5 DEF LaneSteps

LEMMA TypesOfVerify ==
  ASSUME TasksTyped, VerifyLooks \/ VerifySteps
  PROVE  TasksTyped'
<1> USE DEF TasksTyped, TaskTo, Learns, Ends, World, Histories, TaskSteps, Findings, Tasks, Others
<1>1. CASE VerifyLooks
  BY <1>1 DEF VerifyLooks, PageAnswers, ProbeResults
<1>2. CASE RecheckWrites
  BY <1>2 DEF RecheckWrites
<1>3. CASE VerifyWrites
  <2>1. UNCHANGED <<World, absences, misread>> /\ TaskTo("verify", "recompute")
    BY <1>3, Zenon DEF VerifyWrites
  <2>2. PICK f \in {"open", "nothing"} : Learns("verify", f)
    BY <1>3, Zenon DEF VerifyWrites
  <2>3. strayed' \in BOOLEAN
    BY <1>3, Zenon DEF VerifyWrites
  <2> QED
    BY <2>1, <2>2, <2>3
<1>4. CASE RecomputeReads \/ RecomputeWrites
  BY <1>4 DEF RecomputeReads, RecomputeWrites, AfterRecompute
<1>5. CASE VerifyQuarantines
  BY <1>5 DEF VerifyQuarantines
<1> QED
  BY <1>1, <1>2, <1>3, <1>4, <1>5 DEF VerifySteps

LEMMA TypesOfOthers ==
  ASSUME PostingParameters, TasksTyped,
         \/ FreshnessProbes \/ FreshnessWrites \/ AgentRechecks \/ AgentWrites
         \/ MaintenanceReads \/ MaintenanceWrites \/ EmployerChanges
  PROVE  TasksTyped'
<1> USE DEF TasksTyped, TaskTo, Learns, Ends, World, Histories, TaskSteps, Findings, Tasks, Others
<1>1. CASE FreshnessProbes \/ AgentRechecks
  BY <1>1 DEF FreshnessProbes, AgentRechecks, PageAnswers, ProbeResults
<1>2. CASE FreshnessWrites \/ AgentWrites \/ MaintenanceWrites
  BY <1>2 DEF FreshnessWrites, AgentWrites, MaintenanceWrites
<1>3. CASE MaintenanceReads
  BY <1>3 DEF MaintenanceReads
<1>4. CASE EmployerChanges
  <2>1. wasGone' \in BOOLEAN /\ listed' \in BOOLEAN
    BY <1>4, Zenon DEF EmployerChanges
  <2> QED
    BY <1>4, <2>1 DEF EmployerChanges, PostingParameters
<1> QED
  BY <1>1, <1>2, <1>3, <1>4

\* Everything that does not write the row.
Readers ==
  \/ \E c \in Checks : ListBoard(c) \/ DeltaReads(c)
  \/ \E t \in Tasks : IngestReads(t)
  \/ IndexNames \/ ResolutionLooks \/ VerifyLooks \/ RecomputeReads
  \/ FreshnessProbes \/ AgentRechecks \/ MaintenanceReads \/ EmployerChanges
  \/ UNCHANGED postingVars

LEMMA ReadersKeepTheRow == Readers => row' = row
  BY Zenon
     DEF Readers, ListBoard, DeltaReads, IngestReads, IndexNames, ResolutionLooks, VerifyLooks,
         RecomputeReads, FreshnessProbes, AgentRechecks, MaintenanceReads, EmployerChanges,
         postingVars

\* A step reads, or it writes the row in one of the three ways.
LEMMA StepsReadOrWrite ==
  ASSUME [PostingNext]_postingVars
  PROVE  \/ Readers
         \/ \E t \in Tasks : Upsert(t) \/ promoteCanonicalDirectJob(t)
         \/ \E c \in Checks : DeltaPresent(c) \/ DeltaMisses(c) \/ DeltaCloses(c)
         \/ Writers
  BY Zenon
     DEF PostingNext, CheckSteps, LaneSteps, VerifySteps, Ingests, Readers, Writers, Tasks,
         Others, Lanes

LEMMA PostingTypesStep ==
  ASSUME PostingParameters, PostingTypeOK, [PostingNext]_postingVars PROVE PostingTypeOK'
<1>1. row \in Row /\ TasksTyped
  BY DEF PostingTypeOK, TasksTyped
<1>2. row' \in Row
  BY <1>1, StepsReadOrWrite, ReadersKeepTheRow, RowOfIngests, RowOfDelta, WritersKeepTheRow
     DEF RowOfWriters
<1>3. TasksTyped'
  <2>1. CASE UNCHANGED postingVars
    BY <1>1, <2>1 DEF postingVars, TasksTyped
  <2>2. CASE PostingNext
    BY <1>1, <2>2, TypesOfChecks, TypesOfLanes, TypesOfVerify, TypesOfOthers DEF PostingNext
  <2> QED
    BY <2>1, <2>2
<1> QED
  BY <1>2, <1>3 DEF PostingTypeOK, TasksTyped

\* A posting at first, posted or not.
LEMMA PostingsAtFirst ==
  ASSUME PostingParameters, PostingInit \/ NotPosted
  PROVE  /\ TasksTyped /\ (~listed => wasGone)
         /\ row \in Row /\ row.misses = 0 /\ row.closedAt = FALSE /\ row.url = "own"
         /\ row.status # "Closed" /\ (row.active => row.source = "vendor")
         /\ \A t \in Tasks : task[t] = "idle" /\ found[t] = "nothing"
         /\ absences = 0
<1> DEFINE sighted(source, id, standing, b) ==
      [source |-> source, id |-> id, url |-> "own", status |-> standing, active |-> b,
       qualifying |-> b, tenant |-> b, misses |-> 0, closedAt |-> FALSE]
<1>1. \/ row = sighted("aggregator", "index", "Pending", FALSE)
      \/ row = sighted("vendor", "board", Verified, TRUE)
  BY Zenon DEF PostingInit, NotPosted, FirstSightings
<1>2. sighted("aggregator", "index", "Pending", FALSE) \in Row
  BY DEF Row, Statuses, BOARD_MISSES_BEFORE_CLOSE
<1>3. sighted("vendor", "board", Verified, TRUE) \in Row
  BY DEF Row, Statuses, BOARD_MISSES_BEFORE_CLOSE
<1>4. row \in Row
  BY <1>1, <1>2, <1>3, Zenon
<1>5. /\ row.misses = 0 /\ row.closedAt = FALSE /\ row.url = "own"
      /\ row.status # "Closed" /\ (row.active => row.source = "vendor")
  BY <1>1 DEF Verified
<1>6. wasGone \in BOOLEAN /\ (~listed => wasGone)
  BY Zenon DEF PostingInit, NotPosted
<1>7. listed \in BOOLEAN /\ (changes = 0 \/ changes = MaxChanges) /\ kind \in Kinds
  BY Zenon DEF PostingInit, NotPosted, Kinds
<1>8. changes \in 0..MaxChanges
  BY <1>7 DEF PostingParameters
<1>9. /\ task = [t \in Tasks |-> "idle"] /\ found = [t \in Tasks |-> "nothing"]
      /\ absences = 0 /\ misread = FALSE /\ strayed = FALSE
  BY Zenon DEF PostingInit, NotPosted, NoTasks
<1>10. task \in [Tasks -> TaskSteps] /\ found \in [Tasks -> Findings]
  BY <1>9 DEF TaskSteps, Findings
<1>11. TasksTyped
  <2>1. misread \in BOOLEAN /\ strayed \in BOOLEAN /\ wasGone \in BOOLEAN /\ listed \in BOOLEAN
    BY <1>6, <1>7, <1>9, Zenon
  <2>2. absences \in 0..BOARD_MISSES_BEFORE_CLOSE
    BY <1>9 DEF BOARD_MISSES_BEFORE_CLOSE
  <2> QED
    BY <1>7, <1>8, <1>10, <2>1, <2>2, Zenon DEF TasksTyped
<1> HIDE DEF sighted
<1> QED
  BY <1>4, <1>5, <1>6, <1>9, <1>11


-----------------------------------------------------------------------------
(* Aggregators stay hidden                                                   *)

\* The three writes that show a row rely on an earlier read: the row they read was
\* not an aggregator's, and no row becomes an aggregator's again.
ShownIsDirect == row.source = "aggregator" => ~row.active /\ ~Showing

\* No step decides to show the row of an aggregator.
LEMMA WhoDecidesToShow ==
  ASSUME PostingParameters, PostingTypeOK, [PostingNext]_postingVars,
         row.source = "aggregator", row'.source = "aggregator", ~Showing
  PROVE  ~Showing'
<1> USE DEF Showing, PostingTypeOK, TaskTo, Learns, Ends, World, Histories, Tasks, Others,
            Lanes, PostingParameters
<1>1. CASE UNCHANGED postingVars
  BY <1>1 DEF postingVars
<1>2. ASSUME NEW c \in Checks, ListBoard(c) \/ DeltaReads(c) PROVE ~Showing'
  BY <1>2 DEF ListBoard, DeltaReads
<1>3. ASSUME NEW t \in Tasks, IngestReads(t) \/ Upsert(t) PROVE ~Showing'
  BY <1>3 DEF IngestReads, Upsert
<1>4. ASSUME NEW t \in Tasks, promoteCanonicalDirectJob(t) PROVE FALSE
  BY <1>4, RowOfIngests
<1>5. ASSUME NEW c \in Checks, DeltaPresent(c) \/ DeltaMisses(c) \/ DeltaCloses(c)
      PROVE  ~Showing'
  BY <1>5 DEF DeltaPresent, DeltaMisses, DeltaCloses
<1>6. CASE IndexNames \/ ResolutionLooks
  BY <1>6 DEF IndexNames, ResolutionLooks
<1>7. CASE ResolutionSettles \/ ResolutionShows
  BY <1>7 DEF ResolutionSettles, ResolutionShows
<1>8. CASE VerifyLooks \/ RecheckWrites \/ VerifyQuarantines
  BY <1>8 DEF VerifyLooks, RecheckWrites, VerifyQuarantines
<1>9. CASE VerifyWrites
  <2>1. TaskTo("verify", "recompute")
        /\ \E f \in {"open", "nothing"} : Learns("verify", f)
    BY <1>9, Zenon DEF VerifyWrites
  <2> QED
    BY <2>1
<1>10. CASE RecomputeReads \/ RecomputeWrites
  BY <1>10 DEF RecomputeReads, RecomputeWrites, AfterRecompute, computeActiveFeed
<1>11. CASE FreshnessProbes \/ FreshnessWrites \/ AgentRechecks \/ AgentWrites \/ EmployerChanges
  BY <1>11 DEF FreshnessProbes, FreshnessWrites, AgentRechecks, AgentWrites, EmployerChanges
<1>12. CASE MaintenanceReads \/ MaintenanceWrites
  BY <1>12 DEF MaintenanceReads, MaintenanceWrites
<1> QED
  BY <1>1, <1>2, <1>3, <1>4, <1>5, <1>6, <1>7, <1>8, <1>9, <1>10, <1>11, <1>12
     DEF PostingNext, CheckSteps, LaneSteps, VerifySteps, Ingests

LEMMA ShownIsDirectStep ==
  ASSUME PostingParameters, PostingTypeOK, ShownIsDirect, [PostingNext]_postingVars
  PROVE  ShownIsDirect'
<1> SUFFICES ASSUME row'.source = "aggregator" PROVE ~row'.active /\ ~Showing'
  BY DEF ShownIsDirect
<1>0. row \in Row
  BY DEF PostingTypeOK
<1>1. row.source = "aggregator" /\ (row'.active => row.active \/ Showing)
  <2>1. CASE Readers
    BY <2>1, ReadersKeepTheRow
  <2>2. CASE \E t \in Tasks : Upsert(t) \/ promoteCanonicalDirectJob(t)
    BY <1>0, <2>2, RowOfIngests
  <2>3. CASE \E c \in Checks : DeltaPresent(c) \/ DeltaMisses(c) \/ DeltaCloses(c)
    BY <1>0, <2>3, RowOfDelta
  <2>4. CASE Writers
    BY <1>0, <2>4, WritersKeepTheRow DEF RowOfWriters
  <2> QED
    BY <2>1, <2>2, <2>3, <2>4, StepsReadOrWrite
<1> QED
  BY <1>1, WhoDecidesToShow DEF ShownIsDirect

-----------------------------------------------------------------------------
(* A closure has two absences behind it                                      *)

\* A check that did not see the posting, and has not counted it yet.
Absent(c) == task[c] = "count" \/ (task[c] = "delta" /\ found[c] = "nothing")

\* The misses of the row and the absences that are still to be counted come from
\* different listings, each of which is counted in the history.
CountsAreBacked ==
  /\ row.misses >= 1 => absences >= 1
  /\ row.misses = 2 => absences = 2
  /\ \A c \in Checks : Absent(c) => absences >= 1 /\ (row.misses >= 1 => absences = 2)
  /\ \A c, d \in Checks : Absent(c) /\ Absent(d) /\ c # d => absences = 2

\* Whoever decided to close the posting, or closed it, has seen two misses.
ClosuresAreBacked ==
  /\ \A c \in Checks : task[c] \in {"count", "close"} /\ found[c] = "again" => absences = 2
  /\ \A c \in Checks : task[c] = "close" => found[c] = "again"
  /\ row.closedAt => absences = 2

\* A check that ingested the posting knows that it saw it, another one does not.
SightingsAreKnown ==
  \A c \in Checks :
    /\ task[c] \in {"promote", "upsert"} => found[c] \in {"stale", "current"}
    /\ task[c] \in {"idle", "ingest"} => found[c] = "nothing"
    /\ task[c] = "delta" => found[c] \in {"nothing", "stale", "current"}
    /\ task[c] = "count" => found[c] \in {"first", "again"}

ClosureInv == CountsAreBacked /\ ClosuresAreBacked /\ SightingsAreKnown

\* What is not a check leaves the counts alone, or begins them again.
LEMMA OthersCountNothing ==
  ASSUME PostingParameters, PostingTypeOK,
         \/ IndexNames \/ ResolutionLooks \/ LaneSteps
         \/ VerifyLooks \/ VerifySteps \/ FreshnessProbes \/ FreshnessWrites
         \/ AgentRechecks \/ AgentWrites \/ MaintenanceReads \/ MaintenanceWrites
         \/ EmployerChanges \/ UNCHANGED postingVars
  PROVE  /\ row'.misses \in {0, row.misses} /\ (row'.closedAt => row.closedAt)
         /\ absences' = absences /\ misread' = misread
         /\ \A c \in Checks : task'[c] = task[c] /\ found'[c] = found[c]
<1> USE DEF PostingTypeOK, TaskTo, Learns, Ends, World, Histories, Tasks, Others, Lanes,
            PostingParameters
<1>0. row \in Row
  OBVIOUS
<1>1. ASSUME NEW t \in Lanes, Ingests(t)
      PROVE  /\ row'.misses \in {0, row.misses} /\ (row'.closedAt => row.closedAt)
             /\ absences' = absences /\ misread' = misread
             /\ \A c \in Checks : task'[c] = task[c] /\ found'[c] = found[c]
  <2>1. CASE IngestReads(t)
    BY <1>1, <2>1 DEF IngestReads
  <2>2. CASE Upsert(t) \/ promoteCanonicalDirectJob(t)
    <3>1. row'.misses \in {0, row.misses} /\ (row'.closedAt => row.closedAt)
      BY <1>0, <1>1, <2>2, RowOfIngests
    <3> QED
      BY <1>1, <2>2, <3>1 DEF Upsert, promoteCanonicalDirectJob
  <2> QED
    BY <1>1, <2>1, <2>2 DEF Ingests
<1>2. CASE IndexNames \/ ResolutionLooks \/ VerifyLooks \/ RecomputeReads
  BY <1>2 DEF IndexNames, ResolutionLooks, VerifyLooks, RecomputeReads, AfterRecompute
<1>3. CASE FreshnessProbes \/ AgentRechecks \/ MaintenanceReads
  BY <1>3 DEF FreshnessProbes, AgentRechecks, MaintenanceReads
<1>4. CASE EmployerChanges \/ UNCHANGED postingVars
  BY <1>4 DEF EmployerChanges, postingVars
<1>5. CASE Writers
  <2>1. row'.misses = row.misses /\ row'.closedAt = row.closedAt
    BY <1>0, <1>5, WritersKeepTheRow DEF RowOfWriters
  <2>2. CASE ResolutionSettles \/ ResolutionShows
    BY <2>1, <2>2 DEF ResolutionSettles, ResolutionShows
  <2>3. CASE RecheckWrites \/ RecomputeWrites \/ VerifyQuarantines
    BY <2>1, <2>3 DEF RecheckWrites, RecomputeWrites, VerifyQuarantines, AfterRecompute
  <2>4. CASE VerifyWrites
    <3>1. UNCHANGED <<absences, misread>> /\ TaskTo("verify", "recompute")
          /\ \E f \in {"open", "nothing"} : Learns("verify", f)
      BY <2>4, Zenon DEF VerifyWrites
    <3> QED
      BY <2>1, <3>1
  <2>5. CASE FreshnessWrites \/ AgentWrites \/ MaintenanceWrites
    BY <2>1, <2>5 DEF FreshnessWrites, AgentWrites, MaintenanceWrites
  <2> QED
    BY <1>5, <2>2, <2>3, <2>4, <2>5 DEF Writers
<1> QED
  BY <1>1, <1>2, <1>3, <1>4, <1>5 DEF LaneSteps, VerifySteps, Writers

\* The steps of a check keep the invariant.
LEMMA ClosureInvOfChecks ==
  ASSUME PostingParameters, PostingTypeOK, ClosureInv, NEW c \in Checks,
         ListBoard(c) \/ CheckSteps(c)
  PROVE  ClosureInv'
<1> USE DEF PostingTypeOK, TaskTo, Learns, Ends, World, Histories, Tasks, BOARD_MISSES_BEFORE_CLOSE
<1>0. row.misses \in 0..2 /\ absences \in 0..2 /\ row \in Row /\ c \in Tasks
  BY FieldTypes
<1>1. CASE ListBoard(c)
  BY <1>0, <1>1
     DEF ListBoard, Starts, ClosureInv, CountsAreBacked, ClosuresAreBacked, SightingsAreKnown, Absent
<1>2. CASE IngestReads(c)
  BY <1>0, <1>2
     DEF IngestReads, ClosureInv, CountsAreBacked, ClosuresAreBacked, SightingsAreKnown, Absent
<1>3. CASE Upsert(c) \/ promoteCanonicalDirectJob(c)
  <2>1. row'.misses \in {0, row.misses} /\ (row'.closedAt => row.closedAt)
    BY <1>0, <1>3, RowOfIngests
  <2>2. CASE Upsert(c)
    BY <1>0, <2>1, <2>2
       DEF Upsert, ClosureInv, CountsAreBacked, ClosuresAreBacked, SightingsAreKnown, Absent
  <2>3. CASE promoteCanonicalDirectJob(c)
    <3>1. c # "index"
      BY DEF PostingParameters, Others, Lanes
    <3>2. /\ task[c] = "promote" /\ UNCHANGED <<found, absences>>
          /\ task' = [task EXCEPT ![c] = "delta"]
      BY <2>3, <3>1 DEF promoteCanonicalDirectJob
    <3> QED
      BY <1>0, <2>1, <3>2
         DEF ClosureInv, CountsAreBacked, ClosuresAreBacked, SightingsAreKnown, Absent
  <2> QED
    BY <1>3, <2>2, <2>3
<1>4. CASE DeltaReads(c)
  BY <1>0, <1>4
     DEF DeltaReads, ClosureInv, CountsAreBacked, ClosuresAreBacked, SightingsAreKnown, Absent
<1>5. CASE DeltaPresent(c)
  <2>1. row'.misses = 0 /\ row'.closedAt = row.closedAt
    BY <1>0, <1>5, RowOfDelta DEF DeltaPresent, DeltaCloses
  <2> QED
    BY <1>0, <1>5, <2>1
       DEF DeltaPresent, ClosureInv, CountsAreBacked, ClosuresAreBacked, SightingsAreKnown, Absent
<1>6. CASE DeltaMisses(c)
  <2>1. /\ row'.misses = IF row.misses = 2 THEN 2 ELSE row.misses + 1
        /\ row'.closedAt = row.closedAt
    BY <1>0, <1>6, RowOfDelta DEF DeltaMisses, DeltaCloses
  <2> QED
    BY <1>0, <1>6, <2>1
       DEF DeltaMisses, ClosureInv, CountsAreBacked, ClosuresAreBacked, SightingsAreKnown, Absent
<1>7. CASE DeltaCloses(c)
  <2>1. row'.misses = row.misses
    BY <1>0, <1>7, RowOfDelta
  <2> QED
    BY <1>0, <1>7, <2>1
       DEF DeltaCloses, ClosureInv, CountsAreBacked, ClosuresAreBacked, SightingsAreKnown, Absent
<1> QED
  BY <1>1, <1>2, <1>3, <1>4, <1>5, <1>6, <1>7 DEF CheckSteps, Ingests

LEMMA ClosureInvStep ==
  ASSUME PostingParameters, PostingTypeOK, ClosureInv, [PostingNext]_postingVars
  PROVE  ClosureInv'
<1>1. ASSUME NEW c \in Checks, ListBoard(c) \/ CheckSteps(c) PROVE ClosureInv'
  BY <1>1, ClosureInvOfChecks
<1>2. CASE \/ IndexNames \/ ResolutionLooks \/ LaneSteps
           \/ VerifyLooks \/ VerifySteps \/ FreshnessProbes \/ FreshnessWrites
           \/ AgentRechecks \/ AgentWrites \/ MaintenanceReads \/ MaintenanceWrites
           \/ EmployerChanges \/ UNCHANGED postingVars
  BY <1>2, OthersCountNothing
     DEF ClosureInv, CountsAreBacked, ClosuresAreBacked, SightingsAreKnown, Absent
<1> QED
  BY <1>1, <1>2 DEF PostingNext


-----------------------------------------------------------------------------
(* A closed posting was gone                                                 *)

\* Every piece of evidence of a closure was gathered while the posting was gone, or
\* is a misunderstanding the histories know of.
EvidenceIsTrue ==
  /\ ~listed => wasGone
  /\ absences >= 1 => wasGone \/ misread
  /\ \A t \in Probing : found[t] = "closed" => wasGone \/ strayed
  /\ row.url = "stray" => strayed
  /\ ClosedWasGone

\* What the step of a check adds to the histories.
LEMMA EvidenceOfChecks ==
  ASSUME PostingParameters, PostingTypeOK, EvidenceIsTrue, ClosureInv,
         NEW c \in Checks, ListBoard(c) \/ CheckSteps(c)
  PROVE  /\ UNCHANGED <<listed, wasGone, strayed>> /\ (misread => misread')
         /\ absences' = absences \/ ~listed \/ misread'
         /\ \A t \in Probing : found'[t] = found[t] \/ (t = c /\ found'[t] # "closed")
<1> USE DEF PostingTypeOK, TaskTo, Learns, Ends, World, Histories, Tasks, Others, Lanes, Probing
<1>1. CASE ListBoard(c)
  BY <1>1 DEF ListBoard
<1>2. CASE Ingests(c)
  BY <1>2 DEF Ingests, IngestReads, Upsert, promoteCanonicalDirectJob
<1>3. CASE DeltaReads(c)
  <2>1. \/ UNCHANGED <<absences, misread>>
        \/ misread' = (misread \/ found[c] # "nothing")
           /\ (found[c] = "nothing" => absences' = absences)
    BY <1>3, Zenon DEF DeltaReads
  <2>2. /\ UNCHANGED <<listed, wasGone, strayed>>
        /\ \A t \in Probing : found'[t] = found[t] \/ (t = c /\ found'[t] # "closed")
    BY <1>3 DEF DeltaReads
  <2> QED
    BY <2>1, <2>2, Zenon
<1>4. CASE DeltaPresent(c) \/ DeltaMisses(c) \/ DeltaCloses(c)
  BY <1>4 DEF DeltaPresent, DeltaMisses, DeltaCloses
<1> QED
  BY <1>1, <1>2, <1>3, <1>4 DEF CheckSteps

\* What the steps of the others add.
LEMMA EvidenceOfOthers ==
  ASSUME PostingParameters, PostingTypeOK, EvidenceIsTrue,
         \/ IndexNames \/ ResolutionLooks \/ LaneSteps
         \/ VerifyLooks \/ VerifySteps \/ FreshnessProbes \/ FreshnessWrites
         \/ AgentRechecks \/ AgentWrites \/ MaintenanceReads \/ MaintenanceWrites
         \/ EmployerChanges \/ UNCHANGED postingVars
  PROVE  /\ (wasGone => wasGone') /\ (strayed => strayed') /\ (~listed' => wasGone')
         /\ \A t \in Probing : found'[t] = "closed" => wasGone' \/ strayed'
<1> USE DEF PostingTypeOK, EvidenceIsTrue, TaskTo, Learns, Ends, World, Histories, Tasks,
            Others, Lanes, Probing
<1>1. CASE IndexNames \/ UNCHANGED postingVars
  BY <1>1 DEF IndexNames, postingVars
<1>2. CASE ResolutionLooks
  <2>1. UNCHANGED <<World, Histories>>
    BY <1>2, Zenon DEF ResolutionLooks
  <2>2. PICK f \in ProbeResults \cup {"unresolved", "other", "open"} : Learns("resolution", f)
    BY <1>2 DEF ResolutionLooks
  <2> QED
    BY <2>1, <2>2 DEF ProbeResults
<1>3. ASSUME NEW t \in Lanes, Ingests(t)
      PROVE  /\ (wasGone => wasGone') /\ (strayed => strayed') /\ (~listed' => wasGone')
             /\ \A u \in Probing : found'[u] = "closed" => wasGone' \/ strayed'
  BY <1>3 DEF Ingests, IngestReads, Upsert, promoteCanonicalDirectJob
<1>4. CASE ResolutionSettles
  <2>1. strayed => strayed'
    BY <1>4, Zenon DEF ResolutionSettles
  <2> QED
    BY <1>4, <2>1 DEF ResolutionSettles
<1>5. CASE ResolutionShows
  BY <1>5 DEF ResolutionShows
<1>6. CASE VerifyLooks
  BY <1>6 DEF VerifyLooks, PageAnswers, ProbeResults, Row
<1>7. CASE VerifyWrites
  <2>1. UNCHANGED <<World, absences, misread>>
        /\ \E f \in {"open", "nothing"} : Learns("verify", f)
    BY <1>7, Zenon DEF VerifyWrites
  <2>2. strayed => strayed'
    BY <1>7, Zenon DEF VerifyWrites
  <2> QED
    BY <2>1, <2>2
<1>8. CASE RecheckWrites \/ RecomputeReads \/ RecomputeWrites \/ VerifyQuarantines
  BY <1>8 DEF RecheckWrites, RecomputeReads, RecomputeWrites, VerifyQuarantines, AfterRecompute
<1>9. CASE FreshnessProbes \/ AgentRechecks
  BY <1>9 DEF FreshnessProbes, AgentRechecks, Eligible, PageAnswers, ProbeResults, Row
<1>10. CASE FreshnessWrites \/ AgentWrites \/ MaintenanceReads \/ MaintenanceWrites
  BY <1>10 DEF FreshnessWrites, AgentWrites, MaintenanceReads, MaintenanceWrites
<1>11. CASE EmployerChanges
  BY <1>11 DEF EmployerChanges
<1> QED
  BY <1>1, <1>2, <1>3, <1>4, <1>5, <1>6, <1>7, <1>8, <1>9, <1>10, <1>11
     DEF LaneSteps, VerifySteps

\* The step of a check closes a row with two absences behind it.
LEMMA EvidenceStepOfChecks ==
  ASSUME PostingParameters, PostingTypeOK, EvidenceIsTrue, ClosureInv,
         NEW c \in Checks, ListBoard(c) \/ CheckSteps(c)
  PROVE  EvidenceIsTrue'
<1> USE DEF EvidenceIsTrue, ClosedWasGone
<1>0. row \in Row /\ c \in Tasks /\ absences \in 0..2
  BY DEF PostingTypeOK, Tasks, BOARD_MISSES_BEFORE_CLOSE
<1>1. /\ UNCHANGED <<listed, wasGone, strayed>> /\ (misread => misread')
      /\ absences' = absences \/ ~listed \/ misread'
      /\ \A t \in Probing : found'[t] = found[t] \/ found'[t] # "closed"
  BY EvidenceOfChecks
<1>2. /\ ~listed' => wasGone'
      /\ absences' >= 1 => wasGone' \/ misread'
      /\ \A t \in Probing : found'[t] = "closed" => wasGone' \/ strayed'
  BY <1>1
<1>3. /\ row'.url = "stray" => row.url = "stray"
      /\ \/ row'.status # "Closed"
         \/ row'.status = row.status /\ (row.closedAt => row'.closedAt)
         \/ DeltaCloses(c) /\ row'.closedAt
  <2>1. CASE ListBoard(c) \/ IngestReads(c) \/ DeltaReads(c)
    <3>1. row' = row
      BY <2>1, <1>0, ReadersKeepTheRow DEF Readers
    <3> QED
      BY <3>1
  <2>2. CASE Upsert(c) \/ promoteCanonicalDirectJob(c)
    BY <1>0, <2>2, RowOfIngests DEF Verified
  <2>3. CASE DeltaPresent(c) \/ DeltaMisses(c) \/ DeltaCloses(c)
    BY <1>0, <2>3, RowOfDelta
  <2> QED
    BY <2>1, <2>2, <2>3 DEF CheckSteps, Ingests
<1>4. DeltaCloses(c) => wasGone \/ misread
  <2>1. DeltaCloses(c) => absences = 2
    BY DEF DeltaCloses, ClosureInv, ClosuresAreBacked
  <2> QED
    BY <1>0, <2>1
<1>5. ClosedWasGone'
  BY <1>1, <1>3, <1>4
<1> QED
  BY <1>1, <1>2, <1>3, <1>5

\* Who is not a check closes a row on an answer.
LEMMA EvidenceStepOfOthers ==
  ASSUME PostingParameters, PostingTypeOK, EvidenceIsTrue,
         \/ IndexNames \/ ResolutionLooks \/ LaneSteps
         \/ VerifyLooks \/ VerifySteps \/ FreshnessProbes \/ FreshnessWrites
         \/ AgentRechecks \/ AgentWrites \/ MaintenanceReads \/ MaintenanceWrites
         \/ EmployerChanges \/ UNCHANGED postingVars
  PROVE  EvidenceIsTrue'
<1> USE DEF EvidenceIsTrue, ClosedWasGone
<1>0. row \in Row
  BY DEF PostingTypeOK
<1>1. /\ (wasGone => wasGone') /\ (strayed => strayed') /\ (~listed' => wasGone')
      /\ \A t \in Probing : found'[t] = "closed" => wasGone' \/ strayed'
  BY EvidenceOfOthers
<1>2. absences' = absences /\ (misread => misread')
  <2>1. absences' = absences /\ misread' = misread
    BY OthersCountNothing
  <2> QED
    BY <2>1, Zenon
<1>3. /\ row'.url = "stray" => row.url = "stray" \/ strayed'
      /\ \/ row'.status # "Closed"
         \/ row'.status = row.status /\ (row.closedAt => row'.closedAt)
         \/ row.status = "Closed" /\ (row.closedAt => row'.closedAt)
         \/ strayed' \/ \E t \in Probing : found[t] = "closed"
  <2>1. CASE Readers
    BY <2>1, ReadersKeepTheRow
  <2>2. ASSUME NEW t \in Lanes, Upsert(t) \/ promoteCanonicalDirectJob(t)
        PROVE  /\ row'.url = "own"
               /\ \/ row'.status = Verified
                  \/ row'.status = row.status /\ (row.closedAt => row'.closedAt)
    BY <1>0, <2>2, RowOfIngests DEF Tasks, Others
  <2>3. CASE Writers
    BY <1>0, <2>3, WritersKeepTheRow DEF RowOfWriters
  <2>4. \/ Readers \/ Writers
        \/ \E t \in Lanes : Upsert(t) \/ promoteCanonicalDirectJob(t)
    BY Zenon DEF LaneSteps, VerifySteps, Ingests, Readers, Writers, Tasks, Others, Lanes
  <2> QED
    BY <2>1, <2>2, <2>3, <2>4 DEF Verified
<1>4. (\E t \in Probing : found[t] = "closed") => wasGone \/ strayed
  OBVIOUS
<1>5. ClosedWasGone'
  BY <1>1, <1>2, <1>3, <1>4
<1> QED
  BY <1>1, <1>2, <1>3, <1>5

LEMMA EvidenceStep ==
  ASSUME PostingParameters, PostingTypeOK, EvidenceIsTrue, ClosureInv, [PostingNext]_postingVars
  PROVE  EvidenceIsTrue'
BY EvidenceStepOfChecks, EvidenceStepOfOthers DEF PostingNext

-----------------------------------------------------------------------------
(* What is shown of a posting                                                *)

\* The inductive invariant of the postings.
PostingInv == PostingTypeOK /\ ShownIsDirect /\ ClosureInv /\ EvidenceIsTrue

LEMMA PostingInvAtFirst ==
  ASSUME PostingParameters, PostingInit \/ NotPosted PROVE PostingInv
<1>1. PostingTypeOK
  BY PostingsAtFirst DEF PostingTypeOK, TasksTyped
<1>2. \A t \in Tasks : task[t] = "idle" /\ found[t] = "nothing"
  BY PostingsAtFirst
<1>3. ShownIsDirect
  BY <1>2, PostingsAtFirst DEF ShownIsDirect, Showing, Tasks, Others, Lanes
<1>4. ClosureInv
  BY <1>2, PostingsAtFirst
     DEF ClosureInv, CountsAreBacked, ClosuresAreBacked, SightingsAreKnown, Absent, Tasks
<1>5. EvidenceIsTrue
  <2>1. ~listed => wasGone
    BY PostingsAtFirst, Zenon
  <2>2. absences = 0 /\ row.status # "Closed" /\ row.url # "stray"
    BY PostingsAtFirst
  <2> QED
    BY <1>2, <2>1, <2>2 DEF EvidenceIsTrue, ClosedWasGone, Probing, Tasks, Others, Lanes
<1> QED
  BY <1>1, <1>3, <1>4, <1>5 DEF PostingInv

LEMMA PostingInvStep ==
  ASSUME PostingParameters, PostingInv, [PostingNext]_postingVars PROVE PostingInv'
  BY PostingTypesStep, ShownIsDirectStep, ClosureInvStep, EvidenceStep DEF PostingInv

LEMMA PostingInvariant ==
  ASSUME PostingParameters
  PROVE  PostingSpec => []PostingInv
<1>1. PostingInit => PostingInv
  BY PostingInvAtFirst
<1>2. PostingInv /\ [PostingNext]_postingVars => PostingInv'
  BY PostingInvStep
<1> QED
  BY <1>1, <1>2, PTL DEF PostingSpec

\* Every variable keeps its type.
THEOREM PostingTypes ==
  ASSUME PostingParameters
  PROVE  PostingSpec => []PostingTypeOK
<1>1. PostingInv => PostingTypeOK
  BY DEF PostingInv
<1> QED
  BY <1>1, PostingInvariant, PTL

\* sourcePolicy.ts: a row whose source is an aggregator is never in the feed,
\* however the checks, the lanes that read an index, the resolution, the
\* verification, the freshness batch, the worker and the maintenance interleave their
\* reads and writes: who shows a row has made its source the employer's first.
THEOREM AggregatorRowsStayHidden ==
  ASSUME PostingParameters
  PROVE  PostingSpec => []AggregatorsStayHidden
<1>1. PostingInv => AggregatorsStayHidden
  BY DEF PostingInv, ShownIsDirect, AggregatorsStayHidden
<1> QED
  BY <1>1, PostingInvariant, PTL

\* officialBoardDelta.ts: the board closes a posting only after two accepted
\* listings without the id of its row, however many checks of the company overlap,
\* and whatever other lanes name the row meanwhile.
THEOREM ClosuresHaveTwoAbsences ==
  ASSUME PostingParameters
  PROVE  PostingSpec => []ClosedForTwoAbsences
<1>1. PostingInv => ClosedForTwoAbsences
  BY DEF PostingInv, ClosureInv, ClosuresAreBacked, ClosedForTwoAbsences, BOARD_MISSES_BEFORE_CLOSE
<1> QED
  BY <1>1, PostingInvariant, PTL

\* "Never falsely closed": whichever task closes a posting, it was off the board at
\* some time - unless its row was taken for another posting, or the board closed it
\* for an id that another lane had given it.
THEOREM ClosedPostingsWereGone ==
  ASSUME PostingParameters
  PROVE  PostingSpec => []ClosedWasGone
<1>1. PostingInv => ClosedWasGone
  BY DEF PostingInv, EvidenceIsTrue
<1> QED
  BY <1>1, PostingInvariant, PTL

\* What the feed shows has another source than an aggregator, and what is closed was
\* gone or misunderstood: the three invariants together.
THEOREM FeedIsFounded ==
  ASSUME PostingParameters
  PROVE  PostingSpec => []FeedFollowsEvidence
<1>1. AggregatorsStayHidden /\ ClosedForTwoAbsences /\ ClosedWasGone => FeedFollowsEvidence
  BY DEF FeedFollowsEvidence
<1> QED
  BY <1>1, AggregatorRowsStayHidden, ClosuresHaveTwoAbsences, ClosedPostingsWereGone, PTL

-----------------------------------------------------------------------------
(* The radar records                                                         *)

RecordParameters ==
  /\ MAX_ATTEMPTS \in Nat \ {0} /\ MaxDeaths \in Nat
  /\ NoRecord \notin Record

Queued == {"pending", "retry"}

\* A record that is due for another attempt has not used all of them, and what a
\* pass works on was due when it took its snapshot.
AttemptsRemain ==
  /\ record # NoRecord /\ record.state \in Queued => record.attempts < MAX_ATTEMPTS
  /\ \A p \in Passes : work[p].step \in {"resolve", "write"} =>
       work[p].snapshot # NoRecord /\ work[p].snapshot.attempts < MAX_ATTEMPTS

\* A pass that is to write has an answer.
AnswersAreKnown ==
  \A p \in Passes : work[p].step = "write" => work[p].answer # "none"

RecordInv == RecordTypeOK /\ AttemptsRemain /\ AnswersAreKnown

LEMMA IdleType == Idle \in Work
  BY DEF Idle, Work

LEMMA SnapshotType ==
  ASSUME NEW r \in Record
  PROVE  [step |-> "resolve", snapshot |-> r, answer |-> "none"] \in Work
  BY DEF Work

\* What Write makes of a snapshot.
LEMMA WrittenType ==
  ASSUME RecordParameters, NEW s \in {"retry"} \cup Terminal, NEW n \in 0..MAX_ATTEMPTS
  PROVE  [state |-> s, attempts |-> n, due |-> (s # "retry")] \in Record
  BY DEF Record

LEMMA FirstType ==
  ASSUME RecordParameters
  PROVE  [state |-> "pending", attempts |-> 0, due |-> TRUE] \in Record
  BY DEF RecordParameters, Record

\* The record that a pass writes: an attempt is counted, and it is due for another
\* one only when attempts remain.
LEMMA WhatIsWritten ==
  ASSUME RecordParameters, RecordInv, NEW p \in Passes, Write(p), record # NoRecord
  PROVE  /\ record' \in Record
         /\ record'.state \in Queued => record'.attempts < MAX_ATTEMPTS
<1>1. PICK tooOld \in BOOLEAN :
        LET outcome == IF ShouldAbandon(p, tooOld) THEN "abandoned" ELSE work[p].answer IN
          record' = [state |-> outcome, attempts |-> work[p].snapshot.attempts + 1,
                     due |-> (outcome # "retry")]
  BY Zenon DEF Write
<1> DEFINE outcome == IF ShouldAbandon(p, tooOld) THEN "abandoned" ELSE work[p].answer
           n == work[p].snapshot.attempts + 1
<1>2. work[p] \in Work /\ work[p].step = "write"
  BY DEF RecordInv, RecordTypeOK, Write
<1>3. work[p].snapshot \in Record /\ work[p].snapshot.attempts < MAX_ATTEMPTS
  BY <1>2 DEF RecordInv, AttemptsRemain, Work
<1>4. work[p].answer \in {"resolved", "closed", "retry"}
  BY <1>2 DEF RecordInv, AnswersAreKnown, Work
<1>5. outcome \in {"retry"} \cup Terminal
  BY <1>4 DEF Terminal
<1>6. n \in 0..MAX_ATTEMPTS
  BY <1>3 DEF Record, RecordParameters
<1>7. outcome = "retry" => n < MAX_ATTEMPTS
  <2>1. outcome = "retry" => ~ShouldAbandon(p, tooOld) /\ work[p].answer = "retry"
    OBVIOUS
  <2>2. outcome = "retry" => ~(n >= MAX_ATTEMPTS)
    BY <2>1 DEF ShouldAbandon
  <2> QED
    BY <1>6, <2>2 DEF RecordParameters
<1>8. record' = [state |-> outcome, attempts |-> n, due |-> (outcome # "retry")]
  BY <1>1
<1> HIDE DEF outcome, n
<1>9. record' \in Record
  BY <1>5, <1>6, <1>8, WrittenType
<1>10. record'.state = outcome /\ record'.attempts = n
  BY <1>8
<1> QED
  BY <1>5, <1>7, <1>9, <1>10 DEF Queued, Terminal

LEMMA RecordInvOfPasses ==
  ASSUME RecordParameters, RecordInv, NEW p \in Passes,
         EnqueueReads(p) \/ Snapshot(p) \/ PassSteps(p) \/ Dies(p)
  PROVE  RecordInv'
<1> USE DEF RecordInv, RecordTypeOK, AttemptsRemain, AnswersAreKnown
<1>0. work[p] \in Work /\ Idle \in Work /\ Idle.step = "idle"
  BY IdleType DEF Idle
<1>1. CASE EnqueueReads(p)
  <2>1. [work[p] EXCEPT !.step = "create"] \in Work
    BY <1>0 DEF Work
  <2>2. work' = [work EXCEPT ![p] = [work[p] EXCEPT !.step = "create"]]
    BY <1>1 DEF EnqueueReads
  <2>3. [work[p] EXCEPT !.step = "create"].step = "create"
    BY <1>0 DEF Work
  <2> DEFINE v == [work[p] EXCEPT !.step = "create"]
  <2> HIDE DEF v
  <2>4. v \in Work /\ v.step = "create" /\ work' = [work EXCEPT ![p] = v]
    BY <2>1, <2>2, <2>3 DEF v
  <2> QED
    BY <1>1, <2>4 DEF EnqueueReads
<1>2. CASE CreateMany(p)
  <2>1. work' = [work EXCEPT ![p] = Idle] /\ UNCHANGED <<age, deaths>>
    BY <1>2 DEF CreateMany
  <2>2. CASE record = NoRecord
    <3> DEFINE r == [state |-> "pending", attempts |-> 0, due |-> TRUE]
    <3>1. record' = r /\ queuings' = IF queuings = 2 THEN 2 ELSE queuings + 1
      BY <1>2, <2>2 DEF CreateMany
    <3>2. r \in Record /\ r.attempts = 0
      BY FirstType
    <3>3. queuings' \in 0..2
      BY <3>1
    <3> HIDE DEF r
    <3> QED
      BY <1>0, <2>1, <3>1, <3>2, <3>3 DEF RecordParameters
  <2>3. CASE record # NoRecord
    <3>1. UNCHANGED <<record, queuings>>
      BY <1>2, <2>3 DEF CreateMany
    <3> QED
      BY <1>0, <2>1, <3>1
  <2> QED
    BY <2>2, <2>3
<1>3. CASE Snapshot(p)
  <2> DEFINE v == [step |-> "resolve", snapshot |-> record, answer |-> "none"]
  <2>1. record \in Record /\ record.state \in Queued
    BY <1>3 DEF Snapshot, Record, Queued
  <2>2. v \in Work
    BY <2>1, SnapshotType
  <2>3. v.step = "resolve" /\ v.snapshot = record
    OBVIOUS
  <2>4. work' = [work EXCEPT ![p] = v] /\ UNCHANGED <<record, age, deaths, queuings>>
    BY <1>3 DEF Snapshot
  <2>5. record # NoRecord
    BY <1>3 DEF Snapshot
  <2> HIDE DEF v
  <2> QED
    BY <2>1, <2>2, <2>3, <2>4, <2>5
<1>4. CASE Resolve(p)
  <2>1. PICK answer \in {"resolved", "closed", "retry"} :
          work' = [work EXCEPT ![p].step = "write", ![p].answer = answer]
    BY <1>4, Zenon DEF Resolve
  <2> DEFINE v == [work[p] EXCEPT !.step = "write", !.answer = answer]
  <2>2. v \in Work /\ v.step = "write" /\ v.answer = answer /\ v.snapshot = work[p].snapshot
    BY <1>0 DEF Work
  <2>3. work' = [work EXCEPT ![p] = v]
    BY <2>1
  <2>4. work[p].step = "resolve" /\ UNCHANGED <<record, age, deaths, queuings>>
    BY <1>4 DEF Resolve
  <2> HIDE DEF v
  <2> QED
    BY <2>2, <2>3, <2>4
<1>5. CASE Write(p)
  <2>1. work' = [work EXCEPT ![p] = Idle] /\ UNCHANGED <<deaths, queuings>>
    BY <1>5, Zenon DEF Write
  <2>2. CASE record = NoRecord
    <3>1. UNCHANGED <<record, age>>
      BY <1>5, <2>2 DEF Write
    <3> QED
      BY <1>0, <2>1, <2>2, <3>1
  <2>3. CASE record # NoRecord
    <3>1. record' \in Record /\ (record'.state \in Queued => record'.attempts < MAX_ATTEMPTS)
      BY <1>5, <2>3, WhatIsWritten
    <3>2. age' = IF age = "expired" THEN "old" ELSE age
      BY <1>5, <2>3, Zenon DEF Write
    <3> QED
      BY <1>0, <2>1, <3>1, <3>2
  <2> QED
    BY <2>2, <2>3
<1>6. CASE Dies(p)
  <2>1. /\ work' = [work EXCEPT ![p] = Idle] /\ UNCHANGED <<record, age, queuings>>
        /\ deaths' \in 0..MaxDeaths
    BY <1>6 DEF Dies, RecordParameters
  <2> QED
    BY <1>0, <2>1
<1> QED
  BY <1>1, <1>2, <1>3, <1>4, <1>5, <1>6 DEF PassSteps

LEMMA RecordInvAtFirst == ASSUME RecordParameters, RecordInit PROVE RecordInv
  BY IdleType
     DEF RecordInit, RecordInv, RecordTypeOK, AttemptsRemain, AnswersAreKnown, Idle, RecordParameters

LEMMA RecordInvStep ==
  ASSUME RecordParameters, RecordInv, [RecordNext]_recordVars PROVE RecordInv'
<1>1. CASE UNCHANGED recordVars
  BY <1>1 DEF recordVars, RecordInv, RecordTypeOK, AttemptsRemain, AnswersAreKnown
<1>2. ASSUME NEW p \in Passes, EnqueueReads(p) \/ Snapshot(p) \/ PassSteps(p) \/ Dies(p)
      PROVE  RecordInv'
  BY <1>2, RecordInvOfPasses
<1>3. CASE ComesDue
  <2>1. record \in Record
    BY <1>3 DEF ComesDue, RecordInv, RecordTypeOK
  <2>2. record' \in Record /\ record'.state = record.state /\ record'.attempts = record.attempts
    BY <1>3, <2>1 DEF ComesDue, Record
  <2>3. record # NoRecord /\ UNCHANGED <<age, work, deaths, queuings>>
    BY <1>3 DEF ComesDue
  <2> QED
    BY <2>2, <2>3 DEF RecordInv, RecordTypeOK, AttemptsRemain, AnswersAreKnown
<1>4. CASE Prune \/ GrowsOld \/ Expires
  BY <1>4 DEF Prune, GrowsOld, Expires, RecordInv, RecordTypeOK, AttemptsRemain, AnswersAreKnown
<1> QED
  BY <1>1, <1>2, <1>3, <1>4 DEF RecordNext

LEMMA RecordInvariant ==
  ASSUME RecordParameters
  PROVE  RecordSpec => []RecordInv
<1>1. RecordInit => RecordInv
  BY RecordInvAtFirst
<1>2. RecordInv /\ [RecordNext]_recordVars => RecordInv'
  BY RecordInvStep
<1> QED
  BY <1>1, <1>2, PTL DEF RecordSpec

\* The types, and with them the bound: passes that overwrite each other's records
\* take attempts back, but never beyond their limit.
THEOREM AttemptsStayBounded ==
  ASSUME RecordParameters
  PROVE  RecordSpec => []RecordTypeOK
<1>1. RecordInv => RecordTypeOK
  BY DEF RecordInv
<1> QED
  BY <1>1, RecordInvariant, PTL

-----------------------------------------------------------------------------
(* A pruned signal does not return                                           *)

\* A record that was queued is missing only after it was pruned, when no pass that
\* saw the feed without it is still at work.
PrunedForGood ==
  /\ queuings <= 1
  /\ queuings = 1 /\ record = NoRecord => age = "expired"
  /\ age = "expired" => \A p \in Passes : work[p].step # "create"

LEMMA PrunedForGoodStep ==
  ASSUME RecordParameters, RecordInv, PrunedForGood, [RecordNext]_recordVars
  PROVE  PrunedForGood'
<1> USE DEF PrunedForGood, RecordInv, RecordTypeOK
<1>0. Idle \in Work /\ Idle.step = "idle"
  BY IdleType DEF Idle
<1>1. CASE UNCHANGED recordVars
  BY <1>1 DEF recordVars
<1>2. ASSUME NEW p \in Passes, EnqueueReads(p) PROVE PrunedForGood'
  BY <1>2 DEF EnqueueReads
<1>3. ASSUME NEW p \in Passes, CreateMany(p) PROVE PrunedForGood'
  <2>1. work' = [work EXCEPT ![p] = Idle] /\ UNCHANGED <<age, deaths>> /\ work[p].step = "create"
    BY <1>3 DEF CreateMany
  <2>2. CASE record = NoRecord
    <3>1. record' = [state |-> "pending", attempts |-> 0, due |-> TRUE]
          /\ queuings' = IF queuings = 2 THEN 2 ELSE queuings + 1
      BY <1>3, <2>2 DEF CreateMany
    <3>2. record' # NoRecord
      BY <3>1, FirstType DEF RecordParameters
    <3> QED
      BY <1>0, <2>1, <2>2, <3>1, <3>2
  <2>3. CASE record # NoRecord
    <3>1. UNCHANGED <<record, queuings>>
      BY <1>3, <2>3 DEF CreateMany
    <3> QED
      BY <1>0, <2>1, <3>1
  <2> QED
    BY <2>2, <2>3
<1>4. ASSUME NEW p \in Passes, Snapshot(p) PROVE PrunedForGood'
  <2>1. work' = [work EXCEPT ![p] = [step |-> "resolve", snapshot |-> record, answer |-> "none"]]
        /\ UNCHANGED <<record, age, deaths, queuings>>
    BY <1>4 DEF Snapshot
  <2>2. \A q \in Passes : work'[q].step = "create" => work[q].step = "create"
    BY <2>1
  <2> QED
    BY <2>1, <2>2
<1>5. ASSUME NEW p \in Passes, Resolve(p) PROVE PrunedForGood'
  <2>1. \A q \in Passes : work'[q].step = "create" => work[q].step = "create"
    BY <1>5 DEF Resolve, Work
  <2>2. UNCHANGED <<record, age, queuings>>
    BY <1>5 DEF Resolve
  <2> QED
    BY <2>1, <2>2
<1>6. ASSUME NEW p \in Passes, Write(p) PROVE PrunedForGood'
  <2>1. work' = [work EXCEPT ![p] = Idle] /\ queuings' = queuings
    BY <1>6, Zenon DEF Write
  <2>2. CASE record = NoRecord
    <3>1. UNCHANGED <<record, age>>
      BY <1>6, <2>2 DEF Write
    <3> QED
      BY <1>0, <2>1, <2>2, <3>1
  <2>3. CASE record # NoRecord
    <3>1. record' # NoRecord
      BY <1>6, <2>3, WhatIsWritten DEF RecordParameters
    <3>2. age' # "expired"
      BY <1>6, <2>3, Zenon DEF Write
    <3> QED
      BY <2>1, <3>1, <3>2
  <2> QED
    BY <2>2, <2>3
<1>7. ASSUME NEW p \in Passes, Dies(p) PROVE PrunedForGood'
  BY <1>0, <1>7 DEF Dies
<1>8. CASE ComesDue
  <2>1. record \in Record
    BY <1>8 DEF ComesDue
  <2>2. record' \in Record
    BY <1>8, <2>1 DEF ComesDue, Record
  <2> QED
    BY <1>8, <2>2 DEF ComesDue, RecordParameters
<1>9. CASE Prune \/ GrowsOld \/ Expires
  BY <1>0, <1>9 DEF Prune, GrowsOld, Expires
<1> QED
  BY <1>1, <1>2, <1>3, <1>4, <1>5, <1>6, <1>7, <1>8, <1>9 DEF RecordNext, PassSteps

\* liveDiscoveryMaintenance.ts: a signal whose record was pruned is not queued
\* again, although the pruning looks neither at the feed nor at the passes.
THEOREM PrunedSignalsStayAway ==
  ASSUME RecordParameters
  PROVE  RecordSpec => []QueuedOnce
<1>1. RecordInit => PrunedForGood
  BY DEF RecordInit, PrunedForGood
<1>2. RecordInv /\ PrunedForGood /\ [RecordNext]_recordVars => PrunedForGood'
  BY PrunedForGoodStep
<1>3. PrunedForGood => QueuedOnce
  BY DEF PrunedForGood, QueuedOnce
<1> QED
  BY <1>1, <1>2, <1>3, RecordInvariant, PTL DEF RecordSpec

-----------------------------------------------------------------------------
(* The legacy queue of scores                                                *)

ScoringParameters == MaxRequests \in Nat /\ MaxScorerFaults \in Nat

ScorerSteps == {"off", "idle", "find", "stop", "claim", "score", "complete", "fail"}

\* A worker nothing has overtaken holds the posting, and its lock is fresh.
HoldersHold ==
  ~overtaken => \A w \in Scoring : w \in beating /\ state = "SCORING" /\ ~stale

ScorerInv == ScoringTypeOK /\ HoldersHold /\ OneScorer

-----------------------------------------------------------------------------
\* The workers that score are known from where they stand.
LEMMA ScoringIs ==
  \A w : w \in Scoring <=> w \in Scorers /\ scorer[w] \in {"score", "complete", "fail"}
BY DEF Scoring

\* The parts that a move of one worker leaves to be shown.
LEMMA MoveKeepsTypes ==
  ASSUME ScoringTypeOK, NEW w \in Scorers, NEW s \in ScorerSteps, ScorerTo(w, s),
         beating' \subseteq (beating \cup {w}),
         w \in beating' => s \in {"score", "complete", "fail"}
  PROVE  /\ scorer' \in [Scorers -> ScorerSteps]
         /\ beating' \subseteq Scoring'
         /\ scorer'[w] = s
         /\ \A v \in Scorers : v # w => scorer'[v] = scorer[v]
         /\ \A v \in Scorers : v # w => (v \in Scoring' <=> v \in Scoring)
         /\ w \in Scoring' <=> s \in {"score", "complete", "fail"}
<1>1. scorer \in [Scorers -> ScorerSteps] BY DEF ScoringTypeOK, ScorerSteps
<1>2. /\ scorer' \in [Scorers -> ScorerSteps]
      /\ scorer'[w] = s
      /\ \A v \in Scorers : v # w => scorer'[v] = scorer[v]
  BY <1>1 DEF ScorerTo
<1>3. \A v \in Scorers : v # w => (v \in Scoring' <=> v \in Scoring)
  BY <1>2 DEF Scoring
<1>4. w \in Scoring' <=> s \in {"score", "complete", "fail"}
  BY <1>2 DEF Scoring
<1>5. beating' \subseteq Scoring'
  BY <1>3, <1>4 DEF ScoringTypeOK, Scoring
<1> QED BY <1>2, <1>3, <1>4, <1>5

LEMMA ScorerInitEstablishes == ASSUME ScoringParameters, ScoringInit PROVE ScorerInv
<1>1. Scoring = {} BY DEF ScoringInit, Scoring
<1>2. scorer \in [Scorers -> ScorerSteps]
  BY DEF ScoringInit, ScorerSteps
<1>3. /\ state \in States /\ stale \in BOOLEAN /\ asks \in {"no", "job", "all"}
      /\ beating \subseteq Scoring /\ overtaken \in BOOLEAN
  BY DEF ScoringInit, States
<1>4. requests \in 0..MaxRequests /\ scorerFaults \in 0..MaxScorerFaults
  BY DEF ScoringInit, ScoringParameters
<1>5. ScoringTypeOK BY <1>2, <1>3, <1>4 DEF ScoringTypeOK, ScorerSteps
<1> QED BY <1>1, <1>5 DEF ScorerInv, HoldersHold, OneScorer

\* Requests, time and nothing at all move no worker.
LEMMA RestingKeeps ==
  ASSUME ScoringParameters, ScorerInv,
         RequestReads \/ QueueJob \/ GrowsStale \/ UNCHANGED scoringVars
  PROVE  ScorerInv'
<1>1. UNCHANGED <<scorer, beating>> BY DEF RequestReads, QueueJob, GrowsStale, scoringVars
<1>2. Scoring' = Scoring BY <1>1 DEF Scoring
<1>3. ScoringTypeOK'
  <2>1. CASE RequestReads
    BY <1>2, <2>1 DEF ScorerInv, ScoringTypeOK, RequestReads, ScoringParameters
  <2>2. CASE QueueJob \/ GrowsStale \/ UNCHANGED scoringVars
    BY <1>2, <2>2 DEF ScorerInv, ScoringTypeOK, QueueJob, GrowsStale, scoringVars, States
  <2> QED BY <2>1, <2>2
<1>4. HoldersHold'
  <2>1. CASE QueueJob BY <1>2, <2>1 DEF HoldersHold, QueueJob
  <2>2. CASE GrowsStale
    BY <1>2, <2>2 DEF ScorerInv, HoldersHold, GrowsStale
  <2>3. CASE RequestReads \/ UNCHANGED scoringVars
    BY <1>2, <2>3 DEF ScorerInv, HoldersHold, RequestReads, scoringVars
  <2> QED BY <2>1, <2>2, <2>3
<1>5. ~overtaken' => ~overtaken
  BY DEF RequestReads, QueueJob, GrowsStale, scoringVars, ScorerInv, ScoringTypeOK
<1>6. OneScorer' BY <1>2, <1>5 DEF ScorerInv, OneScorer
<1> QED BY <1>3, <1>4, <1>6 DEF ScorerInv

LEMMA RecoverKeeps ==
  ASSUME ScoringParameters, ScorerInv, NEW w \in Scorers, recoverAbandonedScoringJobs(w)
  PROVE  ScorerInv'
<1>1. ScorerTo(w, "find") /\ beating' = beating /\ w \notin beating
  BY DEF recoverAbandonedScoringJobs, ScorerInv, ScoringTypeOK, Scoring
<1>2. ScoringTypeOK BY DEF ScorerInv
<1>3. /\ scorer' \in [Scorers -> ScorerSteps] /\ beating' \subseteq Scoring'
      /\ \A v \in Scorers : v # w => (v \in Scoring' <=> v \in Scoring)
      /\ w \notin Scoring'
  BY <1>1, <1>2, MoveKeepsTypes DEF ScorerSteps
<1>4. ScoringTypeOK'
  BY <1>2, <1>3 DEF ScoringTypeOK, ScorerSteps, recoverAbandonedScoringJobs, States
<1>5. Scoring' \subseteq Scoring BY <1>3 DEF Scoring
<1>6. HoldersHold'
  BY <1>5 DEF ScorerInv, HoldersHold, recoverAbandonedScoringJobs
<1>7. OneScorer' BY <1>5 DEF ScorerInv, OneScorer, recoverAbandonedScoringJobs
<1> QED BY <1>4, <1>6, <1>7 DEF ScorerInv

\* A worker without work looks, ends its timer, or has it set again.
LEMMA LooksKeep ==
  ASSUME ScoringParameters, ScorerInv, NEW w \in Scorers,
         Find(w) \/ EndsTimer(w) \/ triggerScoringWorker(w)
  PROVE  ScorerInv'
<1>1. PICK s \in {"off", "idle", "stop", "claim"} : ScorerTo(w, s)
  BY DEF Find, EndsTimer, triggerScoringWorker
<1>2. /\ w \notin beating
      /\ UNCHANGED <<state, stale, asks, beating, requests, scorerFaults, overtaken>>
  BY DEF Find, EndsTimer, triggerScoringWorker, ScorerInv, ScoringTypeOK, Scoring
<1>3. ScoringTypeOK BY DEF ScorerInv
<1>4. /\ scorer' \in [Scorers -> ScorerSteps] /\ beating' \subseteq Scoring'
      /\ \A v \in Scorers : v # w => (v \in Scoring' <=> v \in Scoring)
      /\ w \notin Scoring'
  BY <1>1, <1>2, <1>3, MoveKeepsTypes DEF ScorerSteps
<1>5. ScoringTypeOK' BY <1>2, <1>3, <1>4 DEF ScoringTypeOK, ScorerSteps
<1>6. Scoring' \subseteq Scoring BY <1>4 DEF Scoring
<1>7. HoldersHold' BY <1>2, <1>6 DEF ScorerInv, HoldersHold
<1>8. OneScorer' BY <1>2, <1>6 DEF ScorerInv, OneScorer
<1> QED BY <1>5, <1>7, <1>8 DEF ScorerInv

\* The claim of a queued posting finds nobody scoring it, unless overtaken.
LEMMA ClaimKeeps ==
  ASSUME ScoringParameters, ScorerInv, NEW w \in Scorers, Claim(w)
  PROVE  ScorerInv'
<1>1. ScoringTypeOK /\ overtaken' = overtaken /\ UNCHANGED <<asks, requests, scorerFaults>>
  BY DEF ScorerInv, Claim
<1>2. CASE state = "QUEUED"
  <2>1. /\ state' = "SCORING" /\ stale' = FALSE
        /\ ScorerTo(w, "score") /\ beating' = beating \cup {w}
    BY <1>2 DEF Claim
  <2>2. /\ scorer' \in [Scorers -> ScorerSteps] /\ beating' \subseteq Scoring'
        /\ \A v \in Scorers : v # w => (v \in Scoring' <=> v \in Scoring)
    BY <1>1, <2>1, MoveKeepsTypes DEF ScorerSteps
  <2>3. ScoringTypeOK' BY <1>1, <2>1, <2>2 DEF ScoringTypeOK, ScorerSteps, States
  <2>4. ~overtaken => Scoring = {} BY <1>2 DEF ScorerInv, HoldersHold
  <2>5. ~overtaken => Scoring' \subseteq {w} BY <2>2, <2>4 DEF Scoring
  <2>6. HoldersHold' BY <1>1, <2>1, <2>5 DEF HoldersHold
  <2>7. OneScorer' BY <1>1, <2>5 DEF OneScorer
  <2> QED BY <2>3, <2>6, <2>7 DEF ScorerInv
<1>3. CASE state # "QUEUED"
  <2>1. ScorerTo(w, "idle") /\ UNCHANGED <<state, stale, beating>> BY <1>3 DEF Claim
  <2>2. w \notin beating BY <1>1 DEF Claim, ScoringTypeOK, Scoring
  <2>3. /\ scorer' \in [Scorers -> ScorerSteps] /\ beating' \subseteq Scoring'
        /\ \A v \in Scorers : v # w => (v \in Scoring' <=> v \in Scoring)
        /\ w \notin Scoring'
    BY <1>1, <2>1, <2>2, MoveKeepsTypes DEF ScorerSteps
  <2>4. ScoringTypeOK' BY <1>1, <2>1, <2>3 DEF ScoringTypeOK, ScorerSteps
  <2>5. Scoring' \subseteq Scoring BY <2>3 DEF Scoring
  <2>6. HoldersHold' BY <1>1, <2>1, <2>5 DEF ScorerInv, HoldersHold
  <2>7. OneScorer' BY <1>1, <2>5 DEF ScorerInv, OneScorer
  <2> QED BY <2>4, <2>6, <2>7 DEF ScorerInv
<1> QED BY <1>2, <1>3

LEMMA ScoreKeeps ==
  ASSUME ScoringParameters, ScorerInv, NEW w \in Scorers, Score(w)
  PROVE  ScorerInv'
<1>1. PICK s \in {"complete", "fail"} : ScorerTo(w, s) BY DEF Score
<1>2. ScoringTypeOK /\ beating' = beating BY DEF ScorerInv, Score
<1>3. /\ scorer' \in [Scorers -> ScorerSteps] /\ beating' \subseteq Scoring'
      /\ \A v \in Scorers : v # w => (v \in Scoring' <=> v \in Scoring)
  BY <1>1, <1>2, MoveKeepsTypes DEF ScorerSteps
<1>4. w \in Scoring BY DEF Score, Scoring
<1>5. ScoringTypeOK' BY <1>2, <1>3 DEF ScoringTypeOK, ScorerSteps, Score
<1>6. Scoring' \subseteq Scoring BY <1>3, <1>4 DEF Scoring
<1>7. HoldersHold' BY <1>6 DEF ScorerInv, HoldersHold, Score
<1>8. OneScorer' BY <1>6 DEF ScorerInv, OneScorer, Score
<1> QED BY <1>5, <1>7, <1>8 DEF ScorerInv

\* The only one that scores is done.
LEMMA CompleteKeeps ==
  ASSUME ScoringParameters, ScorerInv, NEW w \in Scorers, Complete(w)
  PROVE  ScorerInv'
<1>1. /\ ScoringTypeOK /\ beating' = beating \ {w} /\ ScorerTo(w, "idle")
      /\ stale' = FALSE /\ UNCHANGED <<asks, requests, scorerFaults, overtaken>>
      /\ state' \in {"SCORED", "FAILED"}
  BY DEF ScorerInv, Complete
<1>2. /\ scorer' \in [Scorers -> ScorerSteps] /\ beating' \subseteq Scoring'
      /\ \A v \in Scorers : v # w => (v \in Scoring' <=> v \in Scoring)
      /\ w \notin Scoring'
  BY <1>1, MoveKeepsTypes DEF ScorerSteps
<1>3. w \in Scoring BY DEF Complete, Scoring
<1>4. ~overtaken => Scoring' = {}
  BY <1>2, <1>3 DEF ScorerInv, OneScorer, Scoring
<1>5. ScoringTypeOK' BY <1>1, <1>2 DEF ScoringTypeOK, ScorerSteps, States
<1>6. HoldersHold' BY <1>1, <1>4 DEF HoldersHold
<1>7. OneScorer' BY <1>1, <1>4 DEF OneScorer
<1> QED BY <1>5, <1>6, <1>7 DEF ScorerInv

LEMMA LapseKeeps ==
  ASSUME ScoringParameters, ScorerInv, NEW w \in Scorers, Lapse(w)
  PROVE  ScorerInv'
<1>1. Scoring' = Scoring /\ overtaken' = TRUE BY DEF Lapse, Scoring
<1>2. ScoringTypeOK'
  BY <1>1 DEF ScorerInv, ScoringTypeOK, Lapse, ScoringParameters
<1> QED BY <1>1, <1>2 DEF ScorerInv, HoldersHold, OneScorer

\* A worker that stops for a fault holds nothing from then on.
LEMMA FaultsKeep ==
  ASSUME ScoringParameters, ScorerInv, NEW w \in Scorers, Throws(w) \/ ScorerCrash(w)
  PROVE  ScorerInv'
<1>1. /\ ScoringTypeOK /\ UNCHANGED <<state, stale, asks, requests, overtaken>>
      /\ scorerFaults < MaxScorerFaults /\ scorerFaults' = scorerFaults + 1
  BY DEF ScorerInv, Throws, ScorerCrash
<1>2. scorerFaults' \in 0..MaxScorerFaults BY <1>1 DEF ScoringTypeOK, ScoringParameters
<1>3. CASE ScorerTo(w, "off") /\ beating' = beating \ {w}
  <2>1. /\ scorer' \in [Scorers -> ScorerSteps] /\ beating' \subseteq Scoring'
        /\ \A v \in Scorers : v # w => (v \in Scoring' <=> v \in Scoring)
        /\ w \notin Scoring'
    BY <1>1, <1>3, MoveKeepsTypes DEF ScorerSteps
  <2>2. ScoringTypeOK' BY <1>1, <1>2, <2>1 DEF ScoringTypeOK, ScorerSteps
  <2>3. Scoring' \subseteq Scoring \ {w} BY <2>1 DEF Scoring
  <2>4. HoldersHold' BY <1>1, <1>3, <2>3 DEF ScorerInv, HoldersHold
  <2>5. OneScorer' BY <1>1, <2>3 DEF ScorerInv, OneScorer
  <2> QED BY <2>2, <2>4, <2>5 DEF ScorerInv
<1>4. CASE scorer[w] = "complete" /\ ScorerTo(w, "fail") /\ beating' = beating
  <2>1. /\ scorer' \in [Scorers -> ScorerSteps] /\ beating' \subseteq Scoring'
        /\ \A v \in Scorers : v # w => (v \in Scoring' <=> v \in Scoring)
    BY <1>1, <1>4, MoveKeepsTypes DEF ScorerSteps
  <2>2. ScoringTypeOK' BY <1>1, <1>2, <2>1 DEF ScoringTypeOK, ScorerSteps
  <2>3. Scoring' \subseteq Scoring BY <1>4, <2>1 DEF Scoring
  <2>4. HoldersHold' BY <1>1, <1>4, <2>3 DEF ScorerInv, HoldersHold
  <2>5. OneScorer' BY <1>1, <2>3 DEF ScorerInv, OneScorer
  <2> QED BY <2>2, <2>4, <2>5 DEF ScorerInv
<1>5. CASE scorer[w] \in {"idle", "find", "claim"} /\ ScorerTo(w, "off") /\ beating' = beating
  <2>1. beating' = beating \ {w}
    BY <1>1, <1>5 DEF ScoringTypeOK, Scoring
  <2> QED BY <1>3, <1>5, <2>1
<1> QED BY <1>3, <1>4, <1>5 DEF Throws, ScorerCrash

LEMMA ScorerStepKeeps == ASSUME ScoringParameters, ScorerInv, [ScoringNext]_scoringVars PROVE ScorerInv'
<1>1. CASE RequestReads \/ QueueJob \/ GrowsStale \/ UNCHANGED scoringVars
  BY <1>1, RestingKeeps
<1>2. CASE \E w \in Scorers :
             triggerScoringWorker(w) \/ Drain(w) \/ Lapse(w) \/ Throws(w) \/ ScorerCrash(w)
  BY <1>2, RecoverKeeps, LooksKeep, ClaimKeeps, ScoreKeeps, CompleteKeeps,
     LapseKeeps, FaultsKeep DEF Drain
<1> QED BY <1>1, <1>2 DEF ScoringNext

-----------------------------------------------------------------------------
\* Every variable keeps its type (scoringQueue.ts): only a worker that scores
\* has a heartbeat on the posting.
THEOREM ScoringTypes == ASSUME ScoringParameters PROVE ScoringSpec => []ScoringTypeOK
<1>1. ScoringInit => ScorerInv BY ScorerInitEstablishes
<1>2. ScorerInv /\ [ScoringNext]_scoringVars => ScorerInv' BY ScorerStepKeeps
<1>3. ScorerInv => ScoringTypeOK BY DEF ScorerInv
<1> QED BY <1>1, <1>2, <1>3, PTL DEF ScoringSpec

\* Two workers score the posting at once only if one of them was overtaken
\* (scoringQueue.ts: the claim and the recovery of abandoned postings).
THEOREM ScorerIsAlone == ASSUME ScoringParameters PROVE ScoringSpec => []OneScorer
<1>1. ScoringInit => ScorerInv BY ScorerInitEstablishes
<1>2. ScorerInv /\ [ScoringNext]_scoringVars => ScorerInv' BY ScorerStepKeeps
<1>3. ScorerInv => OneScorer BY DEF ScorerInv
<1> QED BY <1>1, <1>2, <1>3, PTL DEF ScoringSpec

-----------------------------------------------------------------------------
(* The worker's lock.  What excludes two workers is the health port alone,   *)
(* never the file.                                                           *)

\* A worker that polls is bound to the port.
PollersHoldThePort == \A w \in Workers : step[w] = "working" => port = w

\* A worker judges an owner, never an empty record.
OwnersAreProbed == \A w \in Workers : step[w] = "probe" => seen[w].owner # None

LockInv == LockTypeOK /\ OwnersAreProbed /\ PollersHoldThePort

\* A file somebody is about to fill.
LEMMA OpenedType ==
  ASSUME NEW ws \in SUBSET Workers
  PROVE  [owner |-> None, aged |-> FALSE, writers |-> ws] \in FileRecord
  BY DEF FileRecord

LEMMA FilledType ==
  ASSUME LockTypeOK, NEW w \in Workers, NEW f \in Filled(w)
  PROVE  f \in FileRecord \cup {None}
<1>1. CASE ~Writing(w)
  BY <1>1 DEF Filled, LockTypeOK
<1>2. CASE Writing(w)
  <2>1. file \in FileRecord
    BY <1>2 DEF Writing, LockTypeOK
  <2>2. PICK o \in {w, None} :
          f = [owner |-> o, aged |-> FALSE, writers |-> file.writers \ {w}]
    BY <1>2, Zenon DEF Filled
  <2> QED
    BY <2>1, <2>2 DEF FileRecord
<1> QED
  BY <1>1, <1>2

LEMMA ClosedType ==
  ASSUME LockTypeOK, NEW w \in Workers
  PROVE  Closed(file, w) \in FileRecord \cup {None}
  BY DEF Closed, LockTypeOK, FileRecord

\* The acquisition keeps the types.
LEMMA TypeOfAcquisition ==
  ASSUME LockTypeOK, OwnersAreProbed, NEW w \in Workers,
         Start(w) \/ Open(w) \/ Fill(w) \/ Inspect(w) \/ Probe(w) \/ Unlink(w)
  PROVE  LockTypeOK'
<1> USE DEF Goto, Steps, MaxAttempts
<1>1. CASE Start(w)
  <2>1. rival' \subseteq Workers
    BY <1>1 DEF Start, LockTypeOK
  <2> QED
    BY <1>1, <2>1 DEF Start, LockTypeOK
<1>2. CASE Open(w)
  <2>1. file' = [owner |-> None, aged |-> FALSE, writers |-> {w}] \/ file' = file
    BY <1>2, Zenon DEF Open
  <2>2. file' \in FileRecord \cup {None}
    BY <2>1, OpenedType DEF LockTypeOK
  <2> QED
    BY <1>2, <2>2 DEF Open, LockTypeOK
<1>3. CASE Fill(w)
  <2>1. file' \in FileRecord \cup {None}
    BY <1>3, FilledType DEF Fill
  <2> QED
    BY <1>3, <2>1 DEF Fill, LockTypeOK
<1>4. CASE Inspect(w)
  <2> DEFINE got == IF file = None THEN Unseen ELSE [owner |-> file.owner, aged |-> file.aged]
  <2>1. got \in SeenRecord
    BY DEF LockTypeOK, FileRecord, SeenRecord, Unseen
  <2>2. /\ seen' = [seen EXCEPT ![w] = got]
        /\ step' = [step EXCEPT ![w] = IF got.owner = None THEN "unlink" ELSE "probe"]
        /\ UNCHANGED <<file, port, attempt, hung, told, faults, rival>>
    BY <1>4 DEF Inspect
  <2> HIDE DEF got
  <2> QED
    BY <2>1, <2>2 DEF LockTypeOK
<1>5. CASE Probe(w)
  <2>1. Unseen \in SeenRecord
    BY DEF Unseen, SeenRecord
  <2>2. seen[w].owner \in Workers
    BY <1>5 DEF Probe, LockTypeOK, OwnersAreProbed, SeenRecord
  <2>3. told' \subseteq Workers
    BY <1>5, <2>2 DEF Probe, LockTypeOK
  <2>4. step' \in [Workers -> Steps] /\ attempt' \in [Workers -> 0..MaxAttempts]
    BY <1>5 DEF Probe, LockTypeOK
  <2>5. seen' \in [Workers -> SeenRecord]
    BY <1>5, <2>1 DEF Probe, LockTypeOK
  <2> QED
    BY <1>5, <2>3, <2>4, <2>5 DEF Probe, LockTypeOK
<1>6. CASE Unlink(w)
  BY <1>6 DEF Unlink, LockTypeOK
<1> QED
  BY <1>1, <1>2, <1>3, <1>4, <1>5, <1>6

\* So do the steps of a worker that holds the lock, or leaves it.
LEMMA TypeOfTenure ==
  ASSUME LockTypeOK, NEW w \in Workers,
         \/ Listen(w) \/ BeatOpens(w) \/ BeatFills(w) \/ Obey(w) \/ Stop(w)
         \/ ClosePort(w) \/ Release(w) \/ Remove(w)
  PROVE  LockTypeOK'
<1> USE DEF Goto, Exit, Steps
<1>1. CASE Listen(w)
  BY <1>1 DEF Listen, LockTypeOK
<1>2. CASE BeatOpens(w)
  <2> DEFINE ws == IF file = None THEN {w} ELSE file.writers \cup {w}
  <2>1. ws \in SUBSET Workers
    BY DEF LockTypeOK, FileRecord
  <2>2. file' = [owner |-> None, aged |-> FALSE, writers |-> ws]
    BY <1>2, Zenon DEF BeatOpens
  <2>3. file' \in FileRecord
    BY <2>1, <2>2, OpenedType
  <2> QED
    BY <1>2, <2>3 DEF BeatOpens, LockTypeOK
<1>3. CASE BeatFills(w)
  <2>1. file' \in FileRecord \cup {None}
    BY <1>3, FilledType DEF BeatFills
  <2> QED
    BY <1>3, <2>1 DEF BeatFills, LockTypeOK
<1>4. CASE Obey(w)
  BY <1>4 DEF Obey, LockTypeOK
<1>5. CASE Stop(w)
  BY <1>5, WorkersAssumption DEF Stop, LockTypeOK
<1>6. CASE ClosePort(w)
  BY <1>6 DEF ClosePort, LockTypeOK
<1>7. CASE Release(w)
  <2>1. file' \in FileRecord \cup {None}
    BY <1>7, ClosedType DEF Release, LockTypeOK
  <2> QED
    BY <1>7, <2>1 DEF Release, LockTypeOK
<1>8. CASE Remove(w)
  BY <1>8 DEF Remove, LockTypeOK
<1> QED
  BY <1>1, <1>2, <1>3, <1>4, <1>5, <1>6, <1>7, <1>8

\* So do the faults and the clock.
LEMMA TypeOfFaults ==
  ASSUME LockTypeOK,
         Ages \/ \E w \in Workers : Crash(w) \/ Hang(w) \/ Resume(w)
  PROVE  LockTypeOK'
<1> USE DEF Goto, Exit, Steps, MaxAttempts
<1>1. CASE Ages
  <2>1. file' \in FileRecord
    BY <1>1 DEF Ages, LockTypeOK, FileRecord
  <2> QED
    BY <1>1, <2>1 DEF Ages, LockTypeOK
<1>2. ASSUME NEW w \in Workers, Crash(w) PROVE LockTypeOK'
  <2>1. file' \in FileRecord \cup {None}
    BY <1>2, ClosedType DEF Crash
  <2>2. Unseen \in SeenRecord
    BY DEF Unseen, SeenRecord
  <2>3. faults' \in 0..MaxFaults
    BY <1>2, WorkersAssumption DEF Crash, LockTypeOK
  <2>4. seen' \in [Workers -> SeenRecord]
    BY <1>2, <2>2 DEF Crash, LockTypeOK
  <2> QED
    BY <1>2, <2>1, <2>3, <2>4 DEF Crash, LockTypeOK
<1>3. ASSUME NEW w \in Workers, Hang(w) PROVE LockTypeOK'
  BY <1>3, WorkersAssumption DEF Hang, LockTypeOK
<1>4. ASSUME NEW w \in Workers, Resume(w) PROVE LockTypeOK'
  BY <1>4 DEF Resume, LockTypeOK
<1> QED
  BY <1>1, <1>2, <1>3, <1>4

\* A worker comes to "probe" by reading an owner.
LEMMA OwnersAreProbedStep ==
  ASSUME LockTypeOK, OwnersAreProbed, [Next]_vars
  PROVE  OwnersAreProbed'
<1> USE DEF OwnersAreProbed, LockTypeOK, Goto, Exit
<1>1. CASE UNCHANGED vars
  BY <1>1 DEF vars
<1>2. CASE Ages
  BY <1>2 DEF Ages
<1>3. ASSUME NEW w \in Workers, Worker(w) PROVE OwnersAreProbed'
  <2>1. CASE Start(w)
    BY <2>1 DEF Start
  <2>2. CASE Open(w)
    BY <2>2 DEF Open
  <2>3. CASE Fill(w)
    BY <2>3 DEF Fill
  <2>4. CASE Inspect(w)
    <3> DEFINE got == IF file = None THEN Unseen ELSE [owner |-> file.owner, aged |-> file.aged]
    <3>1. /\ seen' = [seen EXCEPT ![w] = got]
          /\ step' = [step EXCEPT ![w] = IF got.owner = None THEN "unlink" ELSE "probe"]
      BY <2>4 DEF Inspect
    <3> HIDE DEF got
    <3> QED
      BY <3>1
  <2>5. CASE Probe(w)
    <3>1. step'[w] \in {"unlink", "refused"} /\ \A v \in Workers \ {w} : step'[v] = step[v] /\ seen'[v] = seen[v]
      BY <2>5 DEF Probe
    <3> QED
      BY <3>1
  <2>6. CASE Unlink(w)
    BY <2>6 DEF Unlink
  <2>7. CASE Listen(w)
    BY <2>7 DEF Listen
  <2>8. CASE BeatOpens(w) \/ BeatFills(w)
    BY <2>8 DEF BeatOpens, BeatFills
  <2>9. CASE Obey(w) \/ Stop(w) \/ ClosePort(w)
    BY <2>9 DEF Obey, Stop, ClosePort
  <2>10. CASE Release(w)
    BY <2>10 DEF Release
  <2>11. CASE Remove(w)
    BY <2>11 DEF Remove
  <2>12. CASE Crash(w)
    BY <2>12 DEF Crash
  <2>13. CASE Hang(w) \/ Resume(w)
    BY <2>13 DEF Hang, Resume
  <2> QED
    BY <1>3, <2>1, <2>2, <2>3, <2>4, <2>5, <2>6, <2>7, <2>8, <2>9, <2>10, <2>11, <2>12, <2>13
       DEF Worker
<1> QED
  BY <1>1, <1>2, <1>3 DEF Next

\* A worker starts to poll when nobody has the port, and leaves it only afterwards.
LEMMA PollersHoldThePortStep ==
  ASSUME LockTypeOK, PollersHoldThePort, [Next]_vars
  PROVE  PollersHoldThePort'
<1> USE DEF PollersHoldThePort, LockTypeOK, Goto, Exit
<1>1. CASE UNCHANGED vars
  BY <1>1 DEF vars
<1>2. CASE Ages
  BY <1>2 DEF Ages
<1>3. ASSUME NEW w \in Workers, Worker(w) PROVE PollersHoldThePort'
  <2>1. CASE Start(w) \/ Open(w)
    BY <2>1 DEF Start, Open
  <2>2. CASE Fill(w)
    BY <2>2 DEF Fill
  <2>3. CASE Inspect(w)
    <3>1. port' = port /\ \A v \in Workers : step'[v] = "working" => step[v] = "working"
      BY <2>3 DEF Inspect
    <3> QED
      BY <3>1
  <2>4. CASE Probe(w)
    <3>1. port' = port /\ \A v \in Workers : step'[v] = "working" => step[v] = "working"
      BY <2>4 DEF Probe
    <3> QED
      BY <3>1
  <2>5. CASE Unlink(w)
    BY <2>5 DEF Unlink
  <2>6. CASE Listen(w)
    BY <2>6, WorkersAssumption DEF Listen
  <2>7. CASE BeatOpens(w) \/ BeatFills(w)
    BY <2>7 DEF BeatOpens, BeatFills
  <2>8. CASE Obey(w) \/ Stop(w)
    BY <2>8 DEF Obey, Stop
  <2>9. CASE ClosePort(w)
    BY <2>9 DEF ClosePort
  <2>10. CASE Release(w)
    BY <2>10 DEF Release
  <2>11. CASE Remove(w)
    BY <2>11 DEF Remove
  <2>12. CASE Crash(w)
    BY <2>12 DEF Crash
  <2>13. CASE Hang(w) \/ Resume(w)
    BY <2>13 DEF Hang, Resume
  <2> QED
    BY <1>3, <2>1, <2>2, <2>3, <2>4, <2>5, <2>6, <2>7, <2>8, <2>9, <2>10, <2>11, <2>12, <2>13
       DEF Worker
<1> QED
  BY <1>1, <1>2, <1>3 DEF Next

LEMMA LockInvAtFirst == ASSUME Init PROVE LockInv
  BY WorkersAssumption
     DEF Init, LockInv, LockTypeOK, OwnersAreProbed, PollersHoldThePort, Steps, SeenRecord,
         Unseen, MaxAttempts

LEMMA LockInvStep == ASSUME LockInv, [Next]_vars PROVE LockInv'
<1>1. LockTypeOK'
  <2>1. CASE UNCHANGED vars
    BY <2>1 DEF LockInv, LockTypeOK, vars
  <2>2. CASE Next
    BY <2>2, TypeOfAcquisition, TypeOfTenure, TypeOfFaults DEF LockInv, Next, Worker
  <2> QED
    BY <2>1, <2>2
<1> QED
  BY <1>1, OwnersAreProbedStep, PollersHoldThePortStep DEF LockInv

\* Every variable keeps its type; in particular the acquisition is bounded.
THEOREM LockTypes == Spec => []LockTypeOK
<1>1. LockInv => LockTypeOK
  BY DEF LockInv
<1> QED
  BY <1>1, LockInvAtFirst, LockInvStep, PTL DEF Spec

-----------------------------------------------------------------------------
(* The refinement                                                            *)

\* Two workers that poll would have the same port.
LEMMA PollersAreOne ==
  ASSUME LockInv
  PROVE  \A v, w \in Pollers : v = w
  BY DEF LockInv, PollersHoldThePort, Pollers

\* A step moves one worker.
LEMMA OneWorkerMoves ==
  ASSUME LockTypeOK, [Next]_vars
  PROVE  \/ step' = step
         \/ \E w \in Workers : \A v \in Workers \ {w} : step'[v] = step[v]
<1> USE DEF LockTypeOK, Goto, Exit
<1>1. CASE UNCHANGED vars \/ Ages
  BY <1>1 DEF vars, Ages
<1>2. ASSUME NEW w \in Workers, Worker(w)
      PROVE  step' = step \/ \A v \in Workers \ {w} : step'[v] = step[v]
  <2>1. CASE Start(w) \/ Open(w) \/ Fill(w) \/ Unlink(w)
    BY <2>1 DEF Start, Open, Fill, Unlink
  <2>2. CASE Inspect(w) \/ Probe(w)
    BY <2>2 DEF Inspect, Probe
  <2>3. CASE Listen(w) \/ BeatOpens(w) \/ BeatFills(w) \/ Obey(w) \/ Stop(w)
    BY <2>3 DEF Listen, BeatOpens, BeatFills, Obey, Stop
  <2>4. CASE ClosePort(w) \/ Release(w) \/ Remove(w)
    BY <2>4 DEF ClosePort, Release, Remove
  <2>5. CASE Crash(w) \/ Hang(w) \/ Resume(w)
    BY <2>5 DEF Crash, Hang, Resume
  <2> QED
    BY <1>2, <2>1, <2>2, <2>3, <2>4, <2>5 DEF Worker
<1> QED
  BY <1>1, <1>2 DEF Next

\* A step admits a worker to an empty lane, empties the lane, or leaves it alone.
LEMMA PollersStep ==
  ASSUME LockInv, LockInv', [Next]_vars
  PROVE  [Queue!Next]_Pollers
<1>1. CASE step' = step
  BY <1>1 DEF Pollers
<1>2. ASSUME NEW w \in Workers, \A v \in Workers \ {w} : step'[v] = step[v]
      PROVE  [Queue!Next]_Pollers
  <2>1. \A v \in Workers \ {w} : v \in Pollers' <=> v \in Pollers
    BY <1>2 DEF Pollers
  <2>2. \A u, v \in Pollers : u = v
    BY PollersAreOne
  <2>3. \A u, v \in Pollers' : u = v
    BY DEF LockInv, PollersHoldThePort, Pollers
  <2>4. Pollers \subseteq Workers /\ Pollers' \subseteq Workers
    BY DEF Pollers
  <2>5. CASE w \in Pollers /\ w \notin Pollers'
    <3>1. Pollers = {w} /\ Pollers' = {}
      BY <2>1, <2>2, <2>4, <2>5
    <3> QED
      BY <3>1 DEF Queue!Next, Queue!Leave
  <2>6. CASE w \notin Pollers /\ w \in Pollers'
    <3>1. Pollers = {} /\ Pollers' = {w}
      BY <2>1, <2>3, <2>4, <2>6
    <3> QED
      BY <3>1 DEF Queue!Next, Queue!Enter
  <2>7. CASE w \in Pollers <=> w \in Pollers'
    BY <2>1, <2>4, <2>7
  <2> QED
    BY <2>5, <2>6, <2>7
<1> QED
  BY <1>1, <1>2, OneWorkerMoves DEF LockInv

LEMMA NobodyPollsAtFirst == ASSUME Init PROVE Queue!Init
  BY DEF Init, Queue!Init, Pollers

\* application-worker.ts: one worker polls the queue of runs at a time, whatever
\* contenders, hangs and crashes do to the file.  The detailed lock implements
\* the abstract exclusive lane.
THEOREM WorkerIsExclusive == Spec => OnePoller
  BY LockInvAtFirst, LockInvStep, NobodyPollsAtFirst, PollersStep, PTL
     DEF Spec, OnePoller, Queue!Spec

-----------------------------------------------------------------------------
(* The services side by side                                                 *)

ServicesParameters == PostingParameters /\ RecordParameters /\ ScoringParameters

\* What the proofs above keep of each service, together.
AllKept == PostingInv /\ RecordInv /\ PrunedForGood /\ ScorerInv

\* A service that does not move keeps what it has.
LEMMA RestingServicesKeep ==
  /\ PostingInv /\ UNCHANGED postingVars => PostingInv'
  /\ RecordInv /\ PrunedForGood /\ UNCHANGED recordVars => RecordInv' /\ PrunedForGood'
  /\ ScorerInv /\ UNCHANGED scoringVars => ScorerInv'
<1>1. ASSUME PostingInv, UNCHANGED postingVars PROVE PostingInv'
  BY <1>1
     DEF postingVars, PostingInv, PostingTypeOK, ShownIsDirect,
         Showing, ClosureInv, CountsAreBacked, ClosuresAreBacked, SightingsAreKnown, Absent,
         EvidenceIsTrue, ClosedWasGone
<1>2. ASSUME RecordInv, PrunedForGood, UNCHANGED recordVars PROVE RecordInv' /\ PrunedForGood'
  BY <1>2
     DEF recordVars, RecordInv, RecordTypeOK, AttemptsRemain, AnswersAreKnown, PrunedForGood
<1>3. ASSUME ScorerInv, UNCHANGED scoringVars PROVE ScorerInv'
  BY <1>3 DEF scoringVars, ScorerInv, ScoringTypeOK, HoldersHold, OneScorer, Scoring
<1> QED
  BY <1>1, <1>2, <1>3

LEMMA AllKeptStep ==
  ASSUME ServicesParameters, AllKept, [ServicesNext]_servicesVars PROVE AllKept'
<1> USE DEF ServicesParameters, AllKept
<1>1. CASE UNCHANGED servicesVars
  <2>1. UNCHANGED <<postingVars, recordVars, scoringVars>>
    BY <1>1 DEF servicesVars
  <2> QED
    BY <2>1, RestingServicesKeep
<1>2. CASE Only("posting") /\ PostingNext /\ InCast'
  <2>1. UNCHANGED <<recordVars, scoringVars>> /\ PostingNext
    BY <1>2 DEF Only
  <2> QED
    BY <2>1, PostingInvStep, RestingServicesKeep
<1>3. CASE Only("record") /\ RecordNext
  <2>1. UNCHANGED <<postingVars, scoringVars>> /\ RecordNext
    BY <1>3 DEF Only
  <2> QED
    BY <2>1, RecordInvStep, PrunedForGoodStep, RestingServicesKeep
<1>4. CASE Only("scoring") /\ ScoringNext
  <2>1. UNCHANGED <<postingVars, recordVars>> /\ ScoringNext
    BY <1>4 DEF Only
  <2> QED
    BY <2>1, ScorerStepKeeps, RestingServicesKeep
<1>5. CASE \/ Only("lock") \/ Only("answers") \/ Only("fresh") \/ Only("boards")
           \/ Only("companies")
  <2>1. UNCHANGED <<postingVars, recordVars, scoringVars>>
    BY <1>5 DEF Only
  <2> QED
    BY <2>1, RestingServicesKeep
<1> QED
  BY <1>1, <1>2, <1>3, <1>4, <1>5 DEF ServicesNext

LEMMA AllKeptInvariant ==
  ASSUME ServicesParameters
  PROVE  LiveServices => []AllKept
<1>1. ServicesInit => AllKept
  <2> SUFFICES ASSUME ServicesInit PROVE AllKept
    OBVIOUS
  <2>1. (PostingInit \/ NotPosted) /\ RecordInit /\ ScoringInit
    BY Zenon DEF ServicesInit
  <2>2. PrunedForGood
    BY <2>1 DEF RecordInit, PrunedForGood
  <2> QED
    BY <2>1, <2>2, PostingInvAtFirst, RecordInvAtFirst, ScorerInitEstablishes
       DEF AllKept, ServicesParameters
<1>2. AllKept /\ [ServicesNext]_servicesVars => AllKept'
  BY AllKeptStep
<1> QED
  BY <1>1, <1>2, PTL DEF LiveServices

\* Side by side, each service keeps the types of its variables.
THEOREM ServicesKeepTypes ==
  ASSUME ServicesParameters
  PROVE  LiveServices => []TypesOK
<1>1. AllKept => TypesOK
  BY DEF AllKept, PostingInv, RecordInv, ScorerInv, TypesOK
<1> QED
  BY <1>1, AllKeptInvariant, PTL

\* Whichever service moves, the feed follows the evidence, a record is queued once
\* and one worker scores: every invariant of the run, of the services as they are
\* composed.
THEOREM ServicesKeepInvariants ==
  ASSUME ServicesParameters
  PROVE  LiveServices => [](FeedFollowsEvidence /\ QueuedOnce /\ OneScorer)
<1>1. AllKept => AggregatorsStayHidden /\ ClosedForTwoAbsences /\ ClosedWasGone
  BY DEF AllKept, PostingInv, ShownIsDirect, AggregatorsStayHidden, ClosureInv,
         ClosuresAreBacked, EvidenceIsTrue, ClosedForTwoAbsences, BOARD_MISSES_BEFORE_CLOSE
<1>2. AllKept => FeedFollowsEvidence /\ QueuedOnce /\ OneScorer
  BY <1>1 DEF AllKept, FeedFollowsEvidence, PrunedForGood, QueuedOnce, ScorerInv
<1> QED
  BY <1>2, AllKeptInvariant, PTL

\* And one worker polls the queue of runs at a time.
THEOREM OnePollerBesideOthers == LiveServices => OnePoller
<1>1. ServicesInit => LockInv /\ Queue!Init
  BY LockInvAtFirst, NobodyPollsAtFirst DEF ServicesInit
<1>2. [ServicesNext]_servicesVars => [Next]_vars
  BY Zenon DEF ServicesNext, Only, servicesVars
<1>3. LockInv /\ [Next]_vars => LockInv'
  BY LockInvStep
<1>4. LockInv /\ LockInv' /\ [Next]_vars => [Queue!Next]_Pollers
  BY PollersStep
<1> QED
  BY <1>1, <1>2, <1>3, <1>4, PTL DEF LiveServices, OnePoller, Queue!Spec
=============================================================================
