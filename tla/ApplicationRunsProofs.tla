------------------------- MODULE ApplicationRunsProofs -------------------------
(***************************************************************************)
(* What TLAPS proves of ApplicationRuns for every set of users, postings   *)
(* and request slots, every legacy table and every bound.                  *)
(***************************************************************************)
EXTENDS ApplicationRuns, SequenceTheorems, TLAPS

-----------------------------------------------------------------------------
(* The table: what an update by id and a mass update return.                 *)

LEMMA ReplaceRow ==
  ASSUME NEW table \in Seq(ApplicationRun), NEW i \in 1..Len(table),
         NEW row \in ApplicationRun
  PROVE  /\ [table EXCEPT ![i] = row] \in Seq(ApplicationRun)
         /\ Len([table EXCEPT ![i] = row]) = Len(table)
         /\ \A k \in 1..Len(table) :
              [table EXCEPT ![i] = row][k] = IF k = i THEN row ELSE table[k]
  BY ExceptSeq

LEMMA RebuildTable ==
  ASSUME NEW n \in Nat, NEW t \in [1..n -> ApplicationRun]
  PROVE  t \in Seq(ApplicationRun) /\ Len(t) = n
  BY SeqDef, LenProperties

LEMMA SupersedeTable ==
  ASSUME NEW table \in Seq(ApplicationRun), NEW ids
  PROVE  /\ Supersede(ids, table) \in Seq(ApplicationRun)
         /\ Len(Supersede(ids, table)) = Len(table)
         /\ \A i \in 1..Len(table) : Supersede(ids, table)[i] =
              IF i \in ids THEN Superseded(table[i]) ELSE table[i]
<1> DEFINE n == Len(table)
           t == Supersede(ids, table)
<1>1. n \in Nat /\ \A i \in 1..n : table[i] \in ApplicationRun
  BY LenProperties, ElementOfSeq
<1>2. \A i \in 1..n : Superseded(table[i]) \in ApplicationRun
  BY <1>1 DEF Superseded, ApplicationRun, Statuses, Keys
<1>3. t \in [1..n -> ApplicationRun]
  BY <1>1, <1>2 DEF Supersede
<1> HIDE DEF n
<1>4. QED
  BY <1>1, <1>3, RebuildTable DEF Supersede, n

-----------------------------------------------------------------------------
(* Types.  A step of the worker and a step of a request each touch their own *)
(* record and perhaps the table, whose length never shrinks.                 *)

LEMMA WorkerRecords ==
  /\ WorkerDown \in Worker
  /\ \A phase \in WorkerPhases :
       /\ WorkerAt(phase) \in Worker
       /\ WorkerAt(phase).phase = phase /\ WorkerAt(phase).run = 0
       /\ WorkerAt(phase).keep = {} /\ WorkerAt(phase).ids = {}
BY DEF Worker, WorkerDown, WorkerAt, WorkerPhases

LEMMA WorkerMoves ==
  ASSUME worker \in Worker, NEW phase \in WorkerPhases
  PROVE  /\ [worker EXCEPT !.phase = phase] \in Worker
         /\ [worker EXCEPT !.phase = phase].phase = phase
         /\ [worker EXCEPT !.phase = phase].run = worker.run
         /\ [worker EXCEPT !.phase = phase].keep = worker.keep
         /\ [worker EXCEPT !.phase = phase].ids = worker.ids
         /\ [worker EXCEPT !.phase = phase].result = worker.result
BY DEF Worker

LEMMA WorkerFrame ==
  ASSUME TypeOK,
         runs' \in Seq(ApplicationRun), Len(runs') = Len(runs),
         UNCHANGED requests,
         tracker' \in [(Users \cup {Nobody}) \X Jobs -> TrackerStatuses],
         posting' \in [Jobs -> PostingStatuses],
         worker' \in Worker, WorkerOK',
         faults' \in Nat, lost' \in Nat
  PROVE  TypeOK'
BY DEF TypeOK, RequestOK, Rows

LEMMA RequestFrame ==
  ASSUME TypeOK, NEW r \in Requests, NEW q \in Request,
         runs' \in Seq(ApplicationRun), Len(runs') \in {Len(runs), Len(runs) + 1},
         requests' = [requests EXCEPT ![r] = q],
         tracker' \in [(Users \cup {Nobody}) \X Jobs -> TrackerStatuses],
         UNCHANGED <<posting, worker, faults, lost>>,
         RequestOK(q)'
  PROVE  TypeOK'
<1>1. Len(runs) \in Nat
  BY LenProperties DEF TypeOK
<1>2. Rows \subseteq Rows'
  BY <1>1 DEF Rows
<1>3. \A k \in Requests : RequestOK(requests[k])'
  BY <1>2 DEF TypeOK, RequestOK
<1>4. requests' \in [Requests -> Request]
  BY DEF TypeOK
<1>5. WorkerOK'
  BY <1>2 DEF TypeOK, WorkerOK
<1>6. QED
  BY <1>3, <1>4, <1>5 DEF TypeOK

LEMMA WorkerStartsTypeOK ==
  ASSUME TypeOK, WorkerStarts
  PROVE  TypeOK'
<1>1. worker' \in Worker /\ WorkerOK'
  BY WorkerRecords DEF WorkerStarts, TypeOK, Worker, WorkerPhases, ClaimPhases, WorkerOK, Rows
<1>2. QED
  BY <1>1, WorkerFrame DEF WorkerStarts, TypeOK, TrackerStatuses, PostingStatuses

LEMMA RepairEndsTypeOK ==
  ASSUME TypeOK, RepairEnds
  PROVE  TypeOK'
<1>1. worker' \in Worker /\ WorkerOK'
  BY WorkerRecords DEF RepairEnds, TypeOK, Worker, WorkerPhases, ClaimPhases, WorkerOK, Rows
<1>2. QED
  BY <1>1, WorkerFrame DEF RepairEnds, TypeOK, TrackerStatuses, PostingStatuses

LEMMA ClaimIsLostTypeOK ==
  ASSUME TypeOK, ClaimIsLost
  PROVE  TypeOK'
<1>1. worker' \in Worker /\ WorkerOK'
  BY WorkerRecords DEF ClaimIsLost, TypeOK, Worker, WorkerPhases, ClaimPhases, WorkerOK, Rows
<1>2. QED
  BY <1>1, WorkerFrame DEF ClaimIsLost, TypeOK, TrackerStatuses, PostingStatuses

LEMMA QuarantinePostingTypeOK ==
  ASSUME TypeOK, QuarantinePosting
  PROVE  TypeOK'
<1>1. worker' \in Worker /\ WorkerOK'
  BY WorkerRecords DEF QuarantinePosting, TypeOK, Worker, WorkerPhases, ClaimPhases, WorkerOK, Rows
<1>2. QED
  BY <1>1, WorkerFrame DEF QuarantinePosting, TypeOK, TrackerStatuses, PostingStatuses

LEMMA ReportTypeOK ==
  ASSUME TypeOK, Report
  PROVE  TypeOK'
<1>1. worker' \in Worker /\ WorkerOK'
  BY WorkerRecords DEF Report, Reported, TypeOK, Worker, WorkerPhases, ClaimPhases, WorkerOK, Rows
<1>2. QED
  BY <1>1, WorkerFrame DEF Report, Reported, TypeOK, TrackerStatuses, PostingStatuses

LEMMA FailPostingTypeOK ==
  ASSUME TypeOK, FailPosting
  PROVE  TypeOK'
<1>1. worker' \in Worker /\ WorkerOK'
  BY WorkerRecords DEF FailPosting, TypeOK, Worker, WorkerPhases, ClaimPhases, WorkerOK, Rows
<1>2. QED
  BY <1>1, WorkerFrame DEF FailPosting, TypeOK, TrackerStatuses, PostingStatuses

LEMMA RequeueIsLostTypeOK ==
  ASSUME TypeOK, RequeueIsLost
  PROVE  TypeOK'
<1>1. worker' \in Worker /\ WorkerOK'
  BY WorkerRecords DEF RequeueIsLost, TypeOK, Worker, WorkerPhases, ClaimPhases, WorkerOK, Rows
<1>2. QED
  BY <1>1, WorkerFrame DEF RequeueIsLost, TypeOK, TrackerStatuses, PostingStatuses

LEMMA CrashTypeOK ==
  ASSUME TypeOK, Crash
  PROVE  TypeOK'
<1>1. worker' \in Worker /\ WorkerOK'
  BY WorkerRecords DEF Crash, TypeOK, Worker, WorkerPhases, ClaimPhases, WorkerOK, Rows, WorkerDown
<1>2. QED
  BY <1>1, WorkerFrame DEF Crash, TypeOK, TrackerStatuses, PostingStatuses

\* A step that keeps the row it works on and moves to another phase of it.
LEMMA WorkerKeepsRow ==
  ASSUME TypeOK, worker.phase \in ClaimPhases, NEW phase \in WorkerPhases \ {"report"},
         worker' = [worker EXCEPT !.phase = phase], Len(runs') = Len(runs)
  PROVE  worker' \in Worker /\ WorkerOK'
<1>1. /\ worker' \in Worker /\ worker'.phase = phase /\ worker'.run = worker.run
      /\ worker'.keep = worker.keep /\ worker'.ids = worker.ids
  BY WorkerMoves DEF TypeOK
<1>2. Rows' = Rows
  BY DEF Rows
<1>3. QED
  BY <1>1, <1>2 DEF TypeOK, WorkerOK

LEMMA ProcessStartsTypeOK ==
  ASSUME TypeOK, ProcessStarts
  PROVE  TypeOK'
<1>1. PICK phase \in {"preflight", "requeue"} :
        worker' = [worker EXCEPT !.phase = phase]
  BY DEF ProcessStarts
<1>2. worker.phase \in ClaimPhases /\ UNCHANGED runs
  BY DEF ProcessStarts, ClaimPhases
<1>3. worker' \in Worker /\ WorkerOK'
  BY <1>1, <1>2, WorkerKeepsRow DEF WorkerPhases
<1>4. faults' \in Nat /\ lost' \in Nat
  BY DEF ProcessStarts, TypeOK
<1>5. QED
  BY <1>2, <1>3, <1>4, WorkerFrame DEF ProcessStarts, TypeOK

LEMMA PreflightPassesTypeOK ==
  ASSUME TypeOK, PreflightPasses
  PROVE  TypeOK'
<1>1. PICK phase \in {"fill"} :
        worker' = [worker EXCEPT !.phase = phase]
  BY DEF PreflightPasses
<1>2. worker.phase \in ClaimPhases /\ UNCHANGED runs
  BY DEF PreflightPasses, ClaimPhases
<1>3. worker' \in Worker /\ WorkerOK'
  BY <1>1, <1>2, WorkerKeepsRow DEF WorkerPhases
<1>4. faults' \in Nat /\ lost' \in Nat
  BY DEF PreflightPasses, TypeOK
<1>5. QED
  BY <1>2, <1>3, <1>4, WorkerFrame DEF PreflightPasses, TypeOK

LEMMA ProcessThrowsTypeOK ==
  ASSUME TypeOK, ProcessThrows
  PROVE  TypeOK'
<1>1. PICK phase \in {"fail"} :
        worker' = [worker EXCEPT !.phase = phase]
  BY DEF ProcessThrows
<1>2. worker.phase \in ClaimPhases /\ UNCHANGED runs
  BY DEF ProcessThrows, ClaimPhases
<1>3. worker' \in Worker /\ WorkerOK'
  BY <1>1, <1>2, WorkerKeepsRow DEF WorkerPhases
<1>4. faults' \in Nat /\ lost' \in Nat
  BY DEF ProcessThrows, TypeOK
<1>5. QED
  BY <1>2, <1>3, <1>4, WorkerFrame DEF ProcessThrows, TypeOK

LEMMA WriteThrowsTypeOK ==
  ASSUME TypeOK, WriteThrows
  PROVE  TypeOK'
<1>1. PICK phase \in {"fail", "requeue"} :
        worker' = [worker EXCEPT !.phase = phase]
  BY DEF WriteThrows
<1>2. worker.phase \in ClaimPhases /\ UNCHANGED runs
  BY DEF WriteThrows, ClaimPhases
<1>3. worker' \in Worker /\ WorkerOK'
  BY <1>1, <1>2, WorkerKeepsRow DEF WorkerPhases
<1>4. faults' \in Nat /\ lost' \in Nat
  <2>1. faults' = faults + 1 /\ lost' = lost
    BY DEF WriteThrows
  <2>2. QED
    BY <2>1 DEF TypeOK
<1>5. QED
  BY <1>2, <1>3, <1>4, WorkerFrame DEF WriteThrows, TypeOK

LEMMA AuditThrowsTypeOK ==
  ASSUME TypeOK, AuditThrows
  PROVE  TypeOK'
<1>1. PICK phase \in {"fail"} :
        worker' = [worker EXCEPT !.phase = phase]
  BY DEF AuditThrows
<1>2. worker.phase \in ClaimPhases /\ UNCHANGED runs
  BY DEF AuditThrows, ClaimPhases
<1>3. worker' \in Worker /\ WorkerOK'
  BY <1>1, <1>2, WorkerKeepsRow DEF WorkerPhases
<1>4. faults' \in Nat /\ lost' \in Nat
  BY DEF AuditThrows, TypeOK
<1>5. QED
  BY <1>2, <1>3, <1>4, WorkerFrame DEF AuditThrows, TypeOK, Reported, TrackerStatuses

LEMMA RepairReadsTypeOK ==
  ASSUME TypeOK, RepairReads
  PROVE  TypeOK'
<1>1. PICK keep \in SUBSET Rows, ids \in SUBSET Rows :
        worker' = [WorkerAt("repair") EXCEPT !.keep = keep, !.ids = ids]
  <2> DEFINE active == {i \in Rows : IsActive(i)}
             keep == {i \in active : IsCanonical(i, {k \in active : runs[k].jobId = runs[i].jobId})}
  <2>1. keep \in SUBSET Rows /\ active \ keep \in SUBSET Rows
    OBVIOUS
  <2>2. worker' = [WorkerAt("repair") EXCEPT !.keep = keep, !.ids = active \ keep]
    BY DEF RepairReads
  <2> HIDE DEF keep, active
  <2>3. QED
    BY <2>1, <2>2
<1>2. Rows \subseteq Nat
  BY DEF Rows
<1>3. worker' \in Worker /\ WorkerOK'
  <2>1. WorkerAt("repair") \in Worker
    BY WorkerRecords DEF WorkerPhases
  <2>2. /\ worker' = [phase |-> "repair", run |-> 0, keep |-> keep, ids |-> ids, result |-> "none"]
        /\ Rows' = Rows
    BY <1>1 DEF WorkerAt, WorkerDown, RepairReads, Rows
  <2>3. QED
    BY <1>2, <2>2 DEF Worker, WorkerPhases, WorkerOK, ClaimPhases
<1>4. QED
  BY <1>3, WorkerFrame DEF RepairReads, TypeOK

LEMMA RecoverReadsTypeOK ==
  ASSUME TypeOK, RecoverReads
  PROVE  TypeOK'
<1>1. PICK ids \in SUBSET Rows : worker' = [WorkerAt("recover") EXCEPT !.ids = ids]
  <2> DEFINE ids == {i \in Rows : runs[i].status = "running"}
  <2>1. ids \in SUBSET Rows /\ worker' = [WorkerAt("recover") EXCEPT !.ids = ids]
    BY DEF RecoverReads
  <2> HIDE DEF ids
  <2>2. QED
    BY <2>1
<1>2. Rows \subseteq Nat
  BY DEF Rows
<1>3. /\ worker' = [phase |-> "recover", run |-> 0, keep |-> {}, ids |-> ids, result |-> "none"]
      /\ Rows' = Rows
  BY <1>1 DEF WorkerAt, WorkerDown, RecoverReads, Rows
<1>4. worker' \in Worker /\ WorkerOK'
  BY <1>2, <1>3 DEF Worker, WorkerPhases, WorkerOK, ClaimPhases
<1>5. QED
  BY <1>4, WorkerFrame DEF RecoverReads, TypeOK

LEMMA NextQueuedRunIdTypeOK ==
  ASSUME TypeOK, nextQueuedRunId
  PROVE  TypeOK'
<1>1. PICK i \in Rows : worker' = [WorkerAt("claim") EXCEPT !.run = i]
  BY DEF nextQueuedRunId
<1>2. Rows \subseteq Nat
  BY DEF Rows
<1>3. worker' = [phase |-> "claim", run |-> i, keep |-> {}, ids |-> {}, result |-> "none"]
  BY <1>1 DEF WorkerAt, WorkerDown
<1>4. worker' \in Worker /\ WorkerOK'
  BY <1>2, <1>3 DEF Worker, WorkerPhases, WorkerOK, nextQueuedRunId, Rows
<1>5. QED
  BY <1>4, WorkerFrame DEF nextQueuedRunId, TypeOK

\* The steps of the worker that write the table.
LEMMA RowWrite ==
  ASSUME TypeOK, NEW i \in Rows, NEW row \in ApplicationRun,
         runs' = [runs EXCEPT ![i] = row]
  PROVE  /\ runs' \in Seq(ApplicationRun) /\ Len(runs') = Len(runs) /\ Rows' = Rows
         /\ runs'[i] = row
         /\ \A k \in Rows \ {i} : runs'[k] = runs[k]
<1>1. runs \in Seq(ApplicationRun)
  BY DEF TypeOK
<1>2. QED
  BY <1>1, ReplaceRow DEF Rows

LEMMA RowsAreTyped ==
  ASSUME TypeOK
  PROVE  /\ Len(runs) \in Nat /\ Rows \subseteq Nat
         /\ \A i \in Rows : runs[i] \in ApplicationRun
BY LenProperties, ElementOfSeq DEF TypeOK, Rows

LEMMA QuarantineTypeOK ==
  ASSUME TypeOK, Quarantine
  PROVE  TypeOK'
<1> DEFINE row == [runs[worker.run] EXCEPT !.status = "needs_user_action", !.stopped = TRUE]
<1>1. worker.phase \in ClaimPhases /\ worker.run \in Rows
  BY DEF Quarantine, TypeOK, WorkerOK, ClaimPhases
<1>2. row \in ApplicationRun
  BY <1>1, RowsAreTyped DEF ApplicationRun, Statuses, ACTIVE_APPLICATION_STATUSES, Keys
<1>3. runs' = [runs EXCEPT ![worker.run] = row] /\ worker' = [worker EXCEPT !.phase = "quarantined"]
  BY DEF Quarantine
<1> HIDE DEF row
<1>4. runs' \in Seq(ApplicationRun) /\ Len(runs') = Len(runs)
  BY <1>1, <1>2, <1>3, RowWrite
<1>5. worker' \in Worker /\ WorkerOK'
  BY <1>1, <1>3, <1>4, WorkerKeepsRow DEF WorkerPhases
<1>6. QED
  BY <1>4, <1>5, WorkerFrame DEF Quarantine, TypeOK

LEMMA FailRunTypeOK ==
  ASSUME TypeOK, FailRun
  PROVE  TypeOK'
<1> DEFINE row == [runs[worker.run] EXCEPT !.status = "failed", !.activeKey = NoKey,
                      !.failures = runs[worker.run].failures + 1]
<1>1. worker.phase \in ClaimPhases /\ worker.run \in Rows
  BY DEF FailRun, TypeOK, WorkerOK, ClaimPhases
<1>2. row \in ApplicationRun
  <2> DEFINE failures == runs[worker.run].failures + 1
  <2>1. runs[worker.run] \in ApplicationRun /\ failures \in Nat
    BY <1>1, RowsAreTyped DEF ApplicationRun
  <2>2. QED
    BY <2>1 DEF ApplicationRun, Statuses, Keys
<1>3. runs' = [runs EXCEPT ![worker.run] = row] /\ worker' = [worker EXCEPT !.phase = "fail posting"]
  BY DEF FailRun
<1> HIDE DEF row
<1>4. runs' \in Seq(ApplicationRun) /\ Len(runs') = Len(runs)
  BY <1>1, <1>2, <1>3, RowWrite
<1>5. worker' \in Worker /\ WorkerOK'
  BY <1>1, <1>3, <1>4, WorkerKeepsRow DEF WorkerPhases
<1>6. QED
  BY <1>4, <1>5, WorkerFrame DEF FailRun, TypeOK

LEMMA ClaimRunTypeOK ==
  ASSUME TypeOK, claimRun
  PROVE  TypeOK'
<1> DEFINE row == [runs[worker.run] EXCEPT !.status = "running"]
<1>1. worker.phase \in ClaimPhases /\ worker.run \in Rows
  BY DEF claimRun, TypeOK, WorkerOK, ClaimPhases
<1>2. row \in ApplicationRun
  BY <1>1, RowsAreTyped DEF ApplicationRun, Statuses, ACTIVE_APPLICATION_STATUSES
<1>3. CASE runs[worker.run].status = "queued"
  <2>1. runs' = [runs EXCEPT ![worker.run] = row] /\ worker' = [worker EXCEPT !.phase = "start"]
    BY <1>3 DEF claimRun
  <2> HIDE DEF row
  <2>2. runs' \in Seq(ApplicationRun) /\ Len(runs') = Len(runs)
    BY <1>1, <1>2, <2>1, RowWrite
  <2>3. worker' \in Worker /\ WorkerOK'
    BY <1>1, <2>1, <2>2, WorkerKeepsRow DEF WorkerPhases
  <2>4. QED
    BY <2>2, <2>3, WorkerFrame DEF claimRun, TypeOK
<1>4. CASE runs[worker.run].status # "queued"
  <2>1. worker' = WorkerAt("poll") /\ UNCHANGED runs
    BY <1>4 DEF claimRun
  <2>2. worker' \in Worker /\ WorkerOK'
    BY <2>1, WorkerRecords DEF WorkerPhases, ClaimPhases, WorkerOK, Rows
  <2>3. QED
    BY <2>1, <2>2, WorkerFrame DEF claimRun, TypeOK
<1>5. QED
  BY <1>3, <1>4

LEMMA RequeueTypeOK ==
  ASSUME TypeOK, Requeue
  PROVE  TypeOK'
<1> DEFINE row == [runs[worker.run] EXCEPT !.status = "queued"]
<1>1. worker.run \in Rows
  BY DEF Requeue, TypeOK, WorkerOK, ClaimPhases
<1>2. row \in ApplicationRun
  BY <1>1, RowsAreTyped DEF ApplicationRun, Statuses, ACTIVE_APPLICATION_STATUSES
<1>3. runs' = [runs EXCEPT ![worker.run] = row] \/ runs' = runs
  BY DEF Requeue
<1> HIDE DEF row
<1>4. runs' \in Seq(ApplicationRun) /\ Len(runs') = Len(runs)
  BY <1>1, <1>2, <1>3, RowWrite DEF TypeOK
<1>5. worker' \in Worker /\ WorkerOK'
  BY WorkerRecords DEF Requeue, WorkerPhases, ClaimPhases, WorkerOK
<1>6. QED
  BY <1>4, <1>5, WorkerFrame DEF Requeue, TypeOK

LEMMA RecoverInterruptedRunsTypeOK ==
  ASSUME TypeOK, recoverInterruptedRuns
  PROVE  TypeOK'
<1>1. \A i \in Rows : [runs[i] EXCEPT !.status = "queued"] \in ApplicationRun
  BY RowsAreTyped DEF ApplicationRun, Statuses, ACTIVE_APPLICATION_STATUSES
<1>2. runs' \in [1..Len(runs) -> ApplicationRun]
  BY <1>1, RowsAreTyped DEF recoverInterruptedRuns, Rows
<1>3. runs' \in Seq(ApplicationRun) /\ Len(runs') = Len(runs)
  BY <1>2, RowsAreTyped, RebuildTable
<1>4. worker' \in Worker /\ WorkerOK'
  BY WorkerRecords DEF recoverInterruptedRuns, WorkerPhases, ClaimPhases, WorkerOK
<1>5. QED
  BY <1>3, <1>4, WorkerFrame DEF recoverInterruptedRuns, TypeOK

LEMMA RecordResultTypeOK ==
  ASSUME TypeOK, NEW result \in Results, RecordResult(result)
  PROVE  TypeOK'
<1> DEFINE i == worker.run
           paused == result = "needs_user_action"
           key == IF paused THEN bareKey(runs[i].jobId) ELSE NoKey
           row == [runs[i] EXCEPT !.status = result, !.activeKey = key, !.stopped = paused,
                      !.failures = runs[i].failures + (IF result = "failed" THEN 1 ELSE 0)]
<1>1. worker.phase \in ClaimPhases /\ i \in Rows
  BY DEF RecordResult, TypeOK, WorkerOK, ClaimPhases
<1>2. row \in ApplicationRun
  <2>1. key \in Keys
    BY <1>1, RowsAreTyped DEF ApplicationRun, Keys, bareKey
  <2>2. result \in Statuses
    BY DEF Results, Statuses, ACTIVE_APPLICATION_STATUSES
  <2>3. paused \in BOOLEAN
    OBVIOUS
  <2> DEFINE failures == runs[i].failures + (IF result = "failed" THEN 1 ELSE 0)
  <2>4. runs[i] \in ApplicationRun /\ failures \in Nat
    BY <1>1, RowsAreTyped DEF ApplicationRun
  <2> HIDE DEF key, paused, i
  <2>5. QED
    BY <2>1, <2>2, <2>3, <2>4 DEF ApplicationRun
<1>3. \/ /\ runs' = [runs EXCEPT ![i] = row]
         /\ worker' = [worker EXCEPT !.phase = "report", !.result = result]
      \/ /\ runs' = runs
         /\ worker' = [worker EXCEPT !.phase = "fail"]
  BY DEF RecordResult
<1> HIDE DEF row
<1>4. runs' \in Seq(ApplicationRun) /\ Len(runs') = Len(runs)
  BY <1>1, <1>2, <1>3, RowWrite DEF TypeOK
<1>5. CASE worker' = [worker EXCEPT !.phase = "report", !.result = result]
  <2>1. worker' = [phase |-> "report", run |-> worker.run, keep |-> worker.keep,
                   ids |-> worker.ids, result |-> result]
    BY <1>5 DEF TypeOK, Worker
  <2>2. Rows' = Rows
    BY <1>4 DEF Rows
  <2>3. worker' \in Worker
    BY <2>1 DEF TypeOK, Worker, WorkerPhases
  <2>4. WorkerOK'
    BY <1>1, <2>1, <2>2 DEF TypeOK, WorkerOK
  <2>5. QED
    BY <1>4, <2>3, <2>4, WorkerFrame DEF RecordResult, TypeOK
<1>6. CASE worker' = [worker EXCEPT !.phase = "fail"]
  <2>1. worker' \in Worker /\ WorkerOK'
    BY <1>1, <1>4, <1>6, WorkerKeepsRow DEF WorkerPhases
  <2>2. QED
    BY <1>4, <2>1, WorkerFrame DEF RecordResult, TypeOK
<1>7. QED
  BY <1>3, <1>5, <1>6

LEMMA RepairTypeOK ==
  ASSUME TypeOK, NEW canonical \in worker.keep, Repair(canonical)
  PROVE  TypeOK'
<1> DEFINE job == runs[canonical].jobId
           duplicates == {i \in worker.ids : runs[i].jobId = job}
           row == [runs[canonical] EXCEPT !.activeKey = bareKey(job)]
<1>1. canonical \in Rows /\ worker \in Worker /\ worker.phase = "repair"
      /\ worker.keep \subseteq Rows /\ worker.ids \subseteq Rows
  BY DEF Repair, TypeOK, WorkerOK
<1>2. row \in ApplicationRun
  BY <1>1, RowsAreTyped DEF ApplicationRun, Keys, bareKey
<1>3. \/ /\ runs' = Supersede(duplicates, runs)
         /\ worker' = [worker EXCEPT !.ids = @ \ duplicates]
      \/ /\ runs' = [runs EXCEPT ![canonical] = row]
         /\ worker' = [worker EXCEPT !.keep = @ \ {canonical}]
      \/ /\ runs' = runs
         /\ worker' = WorkerDown
  BY DEF Repair
<1>4. /\ runs' \in Seq(ApplicationRun) /\ Len(runs') = Len(runs)
  <2> HIDE DEF row, duplicates
  <2>1. runs \in Seq(ApplicationRun)
    BY DEF TypeOK
  <2>2. Supersede(duplicates, runs) \in Seq(ApplicationRun)
        /\ Len(Supersede(duplicates, runs)) = Len(runs)
    BY <2>1, SupersedeTable
  <2>3. CASE runs' = [runs EXCEPT ![canonical] = row]
    BY <1>1, <1>2, <2>3, RowWrite
  <2>4. QED
    BY <1>3, <2>1, <2>2, <2>3
<1>5. PICK keep \in SUBSET Rows, ids \in SUBSET Rows :
        worker' = [worker EXCEPT !.keep = keep, !.ids = ids] \/ worker' = WorkerDown
  <2>1. worker.ids \ duplicates \in SUBSET Rows /\ worker.keep \ {canonical} \in SUBSET Rows
    BY <1>1
  <2> HIDE DEF duplicates
  <2>2. \/ worker' = [worker EXCEPT !.keep = worker.keep, !.ids = worker.ids \ duplicates]
        \/ worker' = [worker EXCEPT !.keep = worker.keep \ {canonical}, !.ids = worker.ids]
        \/ worker' = WorkerDown
    BY <1>1, <1>3 DEF Worker
  <2>3. QED
    BY <1>1, <2>1, <2>2
<1>6. Rows' = Rows /\ Rows \subseteq Nat
  BY <1>4 DEF Rows
<1>7. CASE worker' = [worker EXCEPT !.keep = keep, !.ids = ids]
  <2>1. worker' = [phase |-> "repair", run |-> worker.run, keep |-> keep, ids |-> ids,
                   result |-> worker.result]
    BY <1>1, <1>7 DEF Worker
  <2>2. worker' \in Worker /\ WorkerOK'
    BY <1>1, <1>6, <2>1 DEF Worker, WorkerPhases, ClaimPhases, WorkerOK
  <2>3. QED
    BY <1>4, <2>2, WorkerFrame DEF Repair, TypeOK
<1>8. CASE worker' = WorkerDown
  <2>1. worker' \in Worker /\ WorkerOK'
    BY <1>8, WorkerRecords DEF WorkerDown, ClaimPhases, WorkerOK
  <2>2. QED
    BY <1>4, <2>1, WorkerFrame DEF Repair, TypeOK
<1>9. QED
  BY <1>5, <1>7, <1>8

\* The steps of the requests: one begins, moves on or ends.
LEMMA RequestBegins ==
  ASSUME TypeOK, NEW r \in Requests, NEW q \in Request,
         q.pc # "idle", q.user \in Users, q.job \in Jobs,
         q.run \in Rows \/ q.pc = "create", q.duplicates \subseteq Rows,
         requests' = [requests EXCEPT ![r] = q],
         UNCHANGED <<runs, tracker, posting, worker, faults, lost>>
  PROVE  TypeOK'
<1>1. RequestOK(q)'
  BY DEF RequestOK, Rows
<1>2. /\ runs' \in Seq(ApplicationRun) /\ Len(runs') \in {Len(runs), Len(runs) + 1}
      /\ tracker' \in [(Users \cup {Nobody}) \X Jobs -> TrackerStatuses]
  BY DEF TypeOK
<1>3. QED
  BY <1>1, <1>2, RequestFrame

LEMMA RequestMoves ==
  ASSUME TypeOK, NEW r \in Requests, requests[r].pc # "idle",
         NEW pc \in {"adopt", "mark"}, pc = "adopt" => requests[r].run \in Rows,
         requests' = [requests EXCEPT ![r].pc = pc],
         runs' \in Seq(ApplicationRun), Len(runs') = Len(runs),
         UNCHANGED <<tracker, posting, worker, faults, lost>>
  PROVE  TypeOK'
<1>1. requests[r] \in Request /\ RequestOK(requests[r])
  BY DEF TypeOK
<1>2. PICK q \in Request : q = [requests[r] EXCEPT !.pc = pc]
  BY <1>1 DEF Request, RequestSteps
<1>3. /\ q.pc = pc /\ q.user = requests[r].user /\ q.job = requests[r].job
      /\ q.run = requests[r].run /\ q.duplicates = requests[r].duplicates
  BY <1>1, <1>2 DEF Request
<1>4. requests' = [requests EXCEPT ![r] = q]
  BY <1>2
<1>5. RequestOK(q)'
  <2>1. Rows' = Rows
    BY DEF Rows
  <2>2. QED
    BY <1>1, <1>3, <2>1 DEF RequestOK
<1>6. tracker' \in [(Users \cup {Nobody}) \X Jobs -> TrackerStatuses]
  BY DEF TypeOK
<1>7. QED
  BY <1>4, <1>5, <1>6, RequestFrame

LEMMA RequestEnds ==
  ASSUME TypeOK, NEW r \in Requests,
         requests' = [requests EXCEPT ![r] = NoRequest],
         tracker' \in [(Users \cup {Nobody}) \X Jobs -> TrackerStatuses],
         UNCHANGED <<runs, posting, worker, faults, lost>>
  PROVE  TypeOK'
<1>1. NoRequest \in Request /\ RequestOK(NoRequest)'
  BY DEF NoRequest, At, Request, RequestSteps, RequestOK
<1>2. runs' \in Seq(ApplicationRun) /\ Len(runs') \in {Len(runs), Len(runs) + 1}
  BY DEF TypeOK
<1>3. QED
  BY <1>1, <1>2, RequestFrame

Begun(pc, u, j, run, duplicates) ==
  [At(pc, u, j, run) EXCEPT !.duplicates = duplicates]

\* What the reading step of an enqueue request leaves behind.
LEMMA EnqueueBegins ==
  ASSUME NEW r \in Requests, NEW u \in Users, NEW j \in Jobs, EnqueueReads(r, u, j)
  PROVE  \E pc \in {"create", "adopt", "supersede"}, run \in Rows \cup {0},
            duplicates \in SUBSET Rows :
           /\ pc # "create" => run \in Rows
           /\ requests' = [requests EXCEPT ![r] = Begun(pc, u, j, run, duplicates)]
<1> DEFINE active == {i \in SameOwnerAndJob(u, j) : IsActive(i)}
<1>1. active \subseteq Rows
  BY DEF SameOwnerAndJob
<1>2. \/ requests' = [requests EXCEPT ![r] = At("create", u, j, 0)]
      \/ \E canonical \in active :
           requests' = [requests EXCEPT ![r] =
             [At(IF active = {canonical} THEN "adopt" ELSE "supersede", u, j, canonical)
                EXCEPT !.duplicates = active \ {canonical}]]
  BY DEF EnqueueReads
<1> HIDE DEF active
<1>3. CASE requests' = [requests EXCEPT ![r] = At("create", u, j, 0)]
  <2>1. At("create", u, j, 0) = Begun("create", u, j, 0, {})
    BY DEF At, Begun
  <2>2. requests' = [requests EXCEPT ![r] = Begun("create", u, j, 0, {})]
    BY <1>3, <2>1
  <2>3. QED
    BY <2>2
<1>4. ASSUME NEW canonical \in active,
             requests' = [requests EXCEPT ![r] =
               [At(IF active = {canonical} THEN "adopt" ELSE "supersede", u, j, canonical)
                  EXCEPT !.duplicates = active \ {canonical}]]
      PROVE  \E pc \in {"create", "adopt", "supersede"}, run \in Rows \cup {0},
                duplicates \in SUBSET Rows :
               /\ pc # "create" => run \in Rows
               /\ requests' = [requests EXCEPT ![r] = Begun(pc, u, j, run, duplicates)]
  <2>1. PICK pc \in {"adopt", "supersede"} :
          requests' = [requests EXCEPT ![r] = Begun(pc, u, j, canonical, active \ {canonical})]
    BY <1>4 DEF Begun
  <2>2. canonical \in Rows /\ active \ {canonical} \in SUBSET Rows
    BY <1>1
  <2>3. QED
    BY <2>1, <2>2
<1>5. QED
  BY <1>2, <1>3, <1>4

LEMMA EnqueueReadsTypeOK ==
  ASSUME TypeOK, NEW r \in Requests, NEW u \in Users, NEW j \in Jobs, EnqueueReads(r, u, j)
  PROVE  TypeOK'
<1>1. PICK pc \in {"create", "adopt", "supersede"}, run \in Rows \cup {0},
           duplicates \in SUBSET Rows :
        /\ pc # "create" => run \in Rows
        /\ requests' = [requests EXCEPT ![r] = Begun(pc, u, j, run, duplicates)]
  BY EnqueueBegins
<1> DEFINE q == Begun(pc, u, j, run, duplicates)
<1>2. q = [pc |-> pc, user |-> u, job |-> j, run |-> run, duplicates |-> duplicates,
           attempt |-> 0]
  BY DEF At, Begun
<1>3. q \in Request
  BY <1>2, RowsAreTyped DEF Request, RequestSteps
<1>4. /\ q.pc # "idle" /\ q.user \in Users /\ q.job \in Jobs
      /\ q.run \in Rows \/ q.pc = "create"
      /\ q.duplicates \subseteq Rows
  BY <1>1, <1>2
<1>5. requests' = [requests EXCEPT ![r] = q]
  BY <1>1
<1> HIDE DEF q
<1>6. QED
  BY <1>3, <1>4, <1>5, RequestBegins DEF EnqueueReads

LEMMA ResumeReadsTypeOK ==
  ASSUME TypeOK, NEW r \in Requests, NEW i \in Rows, ResumeReads(r, i)
  PROVE  TypeOK'
<1> DEFINE q == At("resume", runs[i].userId, runs[i].jobId, i)
<1>1. q = [pc |-> "resume", user |-> runs[i].userId, job |-> runs[i].jobId, run |-> i,
           duplicates |-> {}, attempt |-> 0]
  BY DEF At
<1>2. runs[i] \in ApplicationRun /\ runs[i].userId \in Users /\ i \in Nat
  BY RowsAreTyped DEF ResumeReads
<1>3. q \in Request
  BY <1>1, <1>2 DEF Request, RequestSteps, ApplicationRun
<1>4. /\ q.pc # "idle" /\ q.user \in Users /\ q.job \in Jobs /\ q.run \in Rows
      /\ q.duplicates \subseteq Rows
  BY <1>1, <1>2 DEF ApplicationRun
<1>5. requests' = [requests EXCEPT ![r] = q]
  BY DEF ResumeReads
<1> HIDE DEF q
<1>6. QED
  BY <1>3, <1>4, <1>5, RequestBegins DEF ResumeReads

LEMMA RetryReadsTypeOK ==
  ASSUME TypeOK, NEW r \in Requests, NEW i \in Rows, RetryReads(r, i)
  PROVE  TypeOK'
<1> DEFINE q == [At("retry", runs[i].userId, runs[i].jobId, i) EXCEPT !.attempt = runs[i].attemptNumber]
<1>1. q = [pc |-> "retry", user |-> runs[i].userId, job |-> runs[i].jobId, run |-> i,
           duplicates |-> {}, attempt |-> runs[i].attemptNumber]
  BY DEF At
<1>2. runs[i] \in ApplicationRun /\ runs[i].userId \in Users /\ i \in Nat
  BY RowsAreTyped DEF RetryReads
<1>3. q \in Request
  BY <1>1, <1>2 DEF Request, RequestSteps, ApplicationRun
<1>4. /\ q.pc # "idle" /\ q.user \in Users /\ q.job \in Jobs /\ q.run \in Rows
      /\ q.duplicates \subseteq Rows
  BY <1>1, <1>2 DEF ApplicationRun
<1>5. requests' = [requests EXCEPT ![r] = q]
  BY DEF RetryReads
<1> HIDE DEF q
<1>6. QED
  BY <1>3, <1>4, <1>5, RequestBegins DEF RetryReads

LEMMA EnqueueSupersedesTypeOK ==
  ASSUME TypeOK, NEW r \in Requests, EnqueueSupersedes(r)
  PROVE  TypeOK'
<1>1. requests[r].run \in Rows /\ runs \in Seq(ApplicationRun)
  BY DEF EnqueueSupersedes, TypeOK, RequestOK
<1>2. runs' \in Seq(ApplicationRun) /\ Len(runs') = Len(runs)
  BY <1>1, SupersedeTable DEF EnqueueSupersedes
<1>3. QED
  BY <1>1, <1>2, RequestMoves DEF EnqueueSupersedes

LEMMA EnqueueAdoptsTypeOK ==
  ASSUME TypeOK, NEW r \in Requests, EnqueueAdopts(r)
  PROVE  TypeOK'
<1> DEFINE q == requests[r]
           key == applicationActiveKey(q.user, q.job)
           row == [runs[q.run] EXCEPT !.userId = q.user, !.activeKey = key]
<1>1. /\ q \in Request /\ q.pc # "idle" /\ q.run \in Rows
      /\ q.user \in Users /\ q.job \in Jobs
  BY DEF EnqueueAdopts, TypeOK, RequestOK
<1>2. row \in ApplicationRun
  <2>1. key \in Keys
    BY <1>1 DEF Keys, applicationActiveKey
  <2>2. runs[q.run] \in ApplicationRun
    BY <1>1, RowsAreTyped
  <2> HIDE DEF key, q
  <2>3. QED
    BY <1>1, <2>1, <2>2 DEF ApplicationRun, Statuses, ACTIVE_APPLICATION_STATUSES
<1>3. \/ /\ runs' = [runs EXCEPT ![q.run] = row]
         /\ requests' = [requests EXCEPT ![r].pc = "mark"]
      \/ UNCHANGED runs /\ requests' = [requests EXCEPT ![r] = NoRequest]
  BY DEF EnqueueAdopts
<1> HIDE DEF row
<1>4. CASE /\ runs' = [runs EXCEPT ![q.run] = row]
           /\ requests' = [requests EXCEPT ![r].pc = "mark"]
  <2>1. runs' \in Seq(ApplicationRun) /\ Len(runs') = Len(runs)
    BY <1>1, <1>2, <1>4, RowWrite
  <2>2. QED
    BY <1>1, <1>4, <2>1, RequestMoves DEF EnqueueAdopts
<1>5. CASE UNCHANGED runs /\ requests' = [requests EXCEPT ![r] = NoRequest]
  BY <1>5, RequestEnds DEF EnqueueAdopts, TypeOK
<1>6. QED
  BY <1>3, <1>4, <1>5

LEMMA ResumeQueuesTypeOK ==
  ASSUME TypeOK, NEW r \in Requests, ResumeQueues(r)
  PROVE  TypeOK'
<1> DEFINE q == requests[r]
           key == applicationActiveKey(q.user, q.job)
           row == [runs[q.run] EXCEPT !.activeKey = key, !.status = "queued"]
<1>1. /\ q \in Request /\ q.pc # "idle" /\ q.run \in Rows
      /\ q.user \in Users /\ q.job \in Jobs
  BY DEF ResumeQueues, TypeOK, RequestOK
<1>2. row \in ApplicationRun
  <2>1. key \in Keys
    BY <1>1 DEF Keys, applicationActiveKey
  <2>2. runs[q.run] \in ApplicationRun
    BY <1>1, RowsAreTyped
  <2> HIDE DEF key, q
  <2>3. QED
    BY <1>1, <2>1, <2>2 DEF ApplicationRun, Statuses, ACTIVE_APPLICATION_STATUSES
<1>3. \/ /\ runs' = [runs EXCEPT ![q.run] = row]
         /\ requests' = [requests EXCEPT ![r].pc = "mark"]
      \/ UNCHANGED runs /\ requests' = [requests EXCEPT ![r] = NoRequest]
  BY DEF ResumeQueues
<1> HIDE DEF row
<1>4. CASE /\ runs' = [runs EXCEPT ![q.run] = row]
           /\ requests' = [requests EXCEPT ![r].pc = "mark"]
  <2>1. runs' \in Seq(ApplicationRun) /\ Len(runs') = Len(runs)
    BY <1>1, <1>2, <1>4, RowWrite
  <2>2. QED
    BY <1>1, <1>4, <2>1, RequestMoves DEF ResumeQueues
<1>5. CASE UNCHANGED runs /\ requests' = [requests EXCEPT ![r] = NoRequest]
  BY <1>5, RequestEnds DEF ResumeQueues, TypeOK
<1>6. QED
  BY <1>3, <1>4, <1>5

LEMMA RetryQueuesTypeOK ==
  ASSUME TypeOK, NEW r \in Requests, RetryQueues(r)
  PROVE  TypeOK'
<1> DEFINE q == requests[r]
           key == applicationActiveKey(q.user, q.job)
           row == [runs[q.run] EXCEPT !.activeKey = key, !.status = "queued",
                                      !.attemptNumber = q.attempt + 1, !.stopped = FALSE]
<1>1. /\ q \in Request /\ q.pc # "idle" /\ q.run \in Rows
      /\ q.user \in Users /\ q.job \in Jobs
  BY DEF RetryQueues, TypeOK, RequestOK
<1>2. row \in ApplicationRun
  <2>1. key \in Keys
    BY <1>1 DEF Keys, applicationActiveKey
  <2>2. runs[q.run] \in ApplicationRun /\ q.attempt + 1 \in Nat
    BY <1>1, RowsAreTyped DEF Request
  <2> HIDE DEF key, q
  <2>3. QED
    BY <1>1, <2>1, <2>2 DEF ApplicationRun, Statuses, ACTIVE_APPLICATION_STATUSES
<1>3. \/ /\ runs' = [runs EXCEPT ![q.run] = row]
         /\ requests' = [requests EXCEPT ![r].pc = "mark"]
      \/ UNCHANGED runs /\ requests' = [requests EXCEPT ![r] = NoRequest]
  BY DEF RetryQueues
<1> HIDE DEF row
<1>4. CASE /\ runs' = [runs EXCEPT ![q.run] = row]
           /\ requests' = [requests EXCEPT ![r].pc = "mark"]
  <2>1. runs' \in Seq(ApplicationRun) /\ Len(runs') = Len(runs)
    BY <1>1, <1>2, <1>4, RowWrite
  <2>2. QED
    BY <1>1, <1>4, <2>1, RequestMoves DEF RetryQueues
<1>5. CASE UNCHANGED runs /\ requests' = [requests EXCEPT ![r] = NoRequest]
  BY <1>5, RequestEnds DEF RetryQueues, TypeOK
<1>6. QED
  BY <1>3, <1>4, <1>5

LEMMA EnqueueCreatesTypeOK ==
  ASSUME TypeOK, NEW r \in Requests, EnqueueCreates(r)
  PROVE  TypeOK'
<1> DEFINE key == applicationActiveKey(requests[r].user, requests[r].job)
           row == [userId |-> requests[r].user, jobId |-> requests[r].job,
                   status |-> "queued", activeKey |-> key, stopped |-> FALSE,
                   attemptNumber |-> 1, failures |-> 0]
           q == At("mark", requests[r].user, requests[r].job, Len(runs) + 1)
<1>1. /\ requests[r] \in Request /\ requests[r].user \in Users /\ requests[r].job \in Jobs
  BY DEF EnqueueCreates, TypeOK, RequestOK
<1>2. row \in ApplicationRun
  BY <1>1 DEF ApplicationRun, Statuses, ACTIVE_APPLICATION_STATUSES, Keys, applicationActiveKey
<1>3. \/ runs' = Append(runs, row) /\ requests' = [requests EXCEPT ![r] = q]
      \/ UNCHANGED runs /\ requests' = [requests EXCEPT ![r] = NoRequest]
  BY DEF EnqueueCreates
<1> HIDE DEF row
<1>4. CASE runs' = Append(runs, row) /\ requests' = [requests EXCEPT ![r] = q]
  <2>1. runs' \in Seq(ApplicationRun) /\ Len(runs') = Len(runs) + 1
    BY <1>2, <1>4, AppendProperties DEF TypeOK
  <2>2. Len(runs) \in Nat
    BY RowsAreTyped
  <2>3. Rows \subseteq Rows'
    BY <2>1, <2>2 DEF Rows
  <2>4. q = [pc |-> "mark", user |-> requests[r].user, job |-> requests[r].job,
             run |-> Len(runs) + 1, duplicates |-> {}, attempt |-> 0]
    BY DEF At
  <2>5. PICK moved \in Request : moved = q
    BY <1>1, <2>2, <2>4 DEF Request, RequestSteps
  <2>6. /\ moved.pc = "mark" /\ moved.user = requests[r].user
        /\ moved.job = requests[r].job /\ moved.duplicates = {}
    BY <2>4, <2>5
  <2>7. RequestOK(moved)'
    BY <1>1, <2>3, <2>6 DEF RequestOK
  <2>8. tracker' \in [(Users \cup {Nobody}) \X Jobs -> TrackerStatuses]
    BY DEF EnqueueCreates, TypeOK
  <2>9. requests' = [requests EXCEPT ![r] = moved]
    BY <1>4, <2>5
  <2>10. QED
    BY <2>1, <2>7, <2>8, <2>9, RequestFrame DEF EnqueueCreates
<1>5. CASE UNCHANGED runs /\ requests' = [requests EXCEPT ![r] = NoRequest]
  BY <1>5, RequestEnds DEF EnqueueCreates, TypeOK
<1>6. QED
  BY <1>3, <1>4, <1>5

LEMMA MarkApplyingTypeOK ==
  ASSUME TypeOK, NEW r \in Requests, markApplying(r)
  PROVE  TypeOK'
<1>1. tracker' \in [(Users \cup {Nobody}) \X Jobs -> TrackerStatuses]
  BY DEF markApplying, TypeOK, TrackerStatuses
<1>2. QED
  BY <1>1, RequestEnds DEF markApplying

LEMMA InitTypeOK == Init => TypeOK
BY LegacyAssumption
DEF Init, TypeOK, RequestOK, WorkerOK, Rows, Request, RequestSteps, NoRequest, At, Worker,
    WorkerDown, WorkerPhases, ClaimPhases, Results, TrackerStatuses, PostingStatuses

LEMMA StepTypeOK == TypeOK /\ [Next]_vars => TypeOK'
<1> SUFFICES ASSUME TypeOK, [Next]_vars PROVE TypeOK'
  OBVIOUS
<1>1. ASSUME NEW r \in Requests, RequestStep(r) PROVE TypeOK'
  BY <1>1, EnqueueReadsTypeOK, EnqueueSupersedesTypeOK, EnqueueAdoptsTypeOK,
     EnqueueCreatesTypeOK, ResumeReadsTypeOK, RetryReadsTypeOK, ResumeQueuesTypeOK,
     RetryQueuesTypeOK, MarkApplyingTypeOK DEF RequestStep
<1>2. ASSUME Processing PROVE TypeOK'
  BY <1>2, ClaimRunTypeOK, ProcessStartsTypeOK, PreflightPassesTypeOK, ProcessThrowsTypeOK,
     QuarantineTypeOK, QuarantinePostingTypeOK, RecordResultTypeOK, ReportTypeOK,
     FailRunTypeOK, FailPostingTypeOK, RequeueTypeOK DEF Processing
<1>3. ASSUME WorkerStep PROVE TypeOK'
  BY <1>2, <1>3, WorkerStartsTypeOK, RepairReadsTypeOK, RepairTypeOK, RepairEndsTypeOK,
     RecoverReadsTypeOK, RecoverInterruptedRunsTypeOK, NextQueuedRunIdTypeOK DEF WorkerStep
<1>4. ASSUME WorkerFault PROVE TypeOK'
  BY <1>4, ClaimIsLostTypeOK, WriteThrowsTypeOK, AuditThrowsTypeOK, RequeueIsLostTypeOK,
     CrashTypeOK DEF WorkerFault
<1>5. ASSUME UNCHANGED vars PROVE TypeOK'
  BY <1>5 DEF TypeOK, RequestOK, WorkerOK, Rows, vars
<1>6. QED
  BY <1>1, <1>3, <1>4, <1>5 DEF Next

\* Type correctness: the table, the tracker and the records of the handlers
\* keep their types, and every row a handler or the worker remembers exists.
THEOREM TypeCorrect == Spec => []TypeOK
<1>1. QED
  BY InitTypeOK, StepTypeOK, PTL DEF Spec

-----------------------------------------------------------------------------
(* Attempts.  AttemptsMatchFailures alone is not inductive: a retry raises   *)
(* the number of a failed row by one, from a number it read before.  So a    *)
(* failed row is one failure ahead, and what a retry has read is no more     *)
(* than the failures of its row, which never become fewer.                   *)

Counted(row) ==
  /\ row.attemptNumber =< row.failures + 1
  /\ row.status = "failed" => row.attemptNumber =< row.failures
ReadsAreOld ==
  \A r \in Requests : requests[r].pc = "retry" =>
    requests[r].attempt =< runs[requests[r].run].failures
AttemptsInv ==
  /\ \A i \in Rows : Counted(runs[i])
  /\ ReadsAreOld

NoNewRetry ==
  \A r \in Requests : requests'[r].pc = "retry" => requests'[r] = requests[r]

\* A step that rewrites every row without losing a failure.
LEMMA TableCounts ==
  ASSUME TypeOK, TypeOK', AttemptsInv, NoNewRetry, Rows' = Rows,
         \A i \in Rows : Counted(runs'[i]) /\ runs[i].failures =< runs'[i].failures
  PROVE  AttemptsInv'
<1>1. /\ \A i \in Rows : runs[i] \in ApplicationRun /\ runs'[i] \in ApplicationRun
  BY RowsAreTyped, ElementOfSeq DEF TypeOK, Rows
<1>2. ASSUME NEW r \in Requests, requests'[r].pc = "retry"
      PROVE  requests'[r].attempt =< runs'[requests'[r].run].failures
  <2>1. requests'[r] = requests[r]
    BY <1>2 DEF NoNewRetry
  <2>2. requests[r].run \in Rows /\ requests[r].attempt \in Nat
    BY <1>2, <2>1 DEF TypeOK, RequestOK, Request
  <2>3. /\ runs[requests[r].run].failures \in Nat
        /\ runs'[requests[r].run].failures \in Nat
    BY <1>1, <2>2 DEF ApplicationRun
  <2>4. requests[r].attempt =< runs[requests[r].run].failures
    BY <1>2, <2>1 DEF AttemptsInv, ReadsAreOld
  <2>5. runs[requests[r].run].failures =< runs'[requests[r].run].failures
    BY <2>2
  <2>6. QED
    BY <2>1, <2>2, <2>3, <2>4, <2>5
<1>3. QED
  BY <1>2 DEF AttemptsInv, ReadsAreOld, Counted

LEMMA SameTableCounts ==
  ASSUME TypeOK, TypeOK', AttemptsInv, NoNewRetry, UNCHANGED runs
  PROVE  AttemptsInv'
<1>1. \A i \in Rows : runs[i].failures \in Nat
  BY RowsAreTyped DEF ApplicationRun
<1>2. QED
  BY <1>1, TableCounts DEF AttemptsInv, Rows

LEMMA OneRowCounts ==
  ASSUME TypeOK, TypeOK', AttemptsInv, NoNewRetry, NEW i \in Rows, NEW row,
         runs' = [runs EXCEPT ![i] = row],
         Counted(row), runs[i].failures =< row.failures
  PROVE  AttemptsInv'
<1>1. DOMAIN runs = Rows /\ DOMAIN runs' = Rows'
  BY LenProperties DEF TypeOK, Rows
<1>2. Rows' = Rows
  BY <1>1
<1>3. \A k \in Rows : runs'[k] = IF k = i THEN row ELSE runs[k]
  BY <1>1
<1>4. \A k \in Rows : runs[k].failures \in Nat
  BY RowsAreTyped DEF ApplicationRun
<1>5. \A k \in Rows : Counted(runs'[k]) /\ runs[k].failures =< runs'[k].failures
  BY <1>3, <1>4 DEF AttemptsInv
<1>6. QED
  BY <1>2, <1>5, TableCounts

\* An edit that neither counts an attempt nor marks a row failed.
LEMMA OneEditCounts ==
  ASSUME TypeOK, TypeOK', AttemptsInv, NoNewRetry, NEW i \in Rows, NEW row,
         runs' = [runs EXCEPT ![i] = row],
         row.attemptNumber = runs[i].attemptNumber, row.failures = runs[i].failures,
         row.status = "failed" => runs[i].status = "failed"
  PROVE  AttemptsInv'
<1>1. Counted(row)
  BY DEF AttemptsInv, Counted
<1>2. runs[i].failures =< row.failures
  BY RowsAreTyped DEF ApplicationRun
<1>3. QED
  BY <1>1, <1>2, OneRowCounts

LEMMA SupersedeCounts ==
  ASSUME TypeOK, TypeOK', AttemptsInv, NoNewRetry, NEW ids, runs' = Supersede(ids, runs)
  PROVE  AttemptsInv'
<1>1. /\ Len(runs') = Len(runs)
      /\ \A i \in Rows : runs'[i] =
           IF i \in ids THEN Superseded(runs[i]) ELSE runs[i]
  <2>1. runs \in Seq(ApplicationRun)
    BY DEF TypeOK
  <2>2. QED
    BY <2>1, SupersedeTable DEF Rows
<1>2. \A i \in Rows : runs[i] \in ApplicationRun
  BY RowsAreTyped
<1>3. \A i \in Rows : /\ runs'[i].attemptNumber = runs[i].attemptNumber
                      /\ runs'[i].failures = runs[i].failures
                      /\ runs'[i].status = "failed" => runs[i].status = "failed"
  BY <1>1, <1>2 DEF Superseded, ApplicationRun
<1>4. \A i \in Rows : Counted(runs'[i]) /\ runs[i].failures =< runs'[i].failures
  BY <1>2, <1>3 DEF AttemptsInv, Counted, ApplicationRun
<1>5. QED
  BY <1>1, <1>4, TableCounts DEF Rows

LEMMA RequestStepCounts ==
  ASSUME TypeOK, TypeOK', AttemptsInv, NEW r \in Requests, RequestStep(r)
  PROVE  AttemptsInv'
<1> DEFINE q == requests[r]
<1>1. \A i \in Rows : runs[i] \in ApplicationRun
  BY RowsAreTyped
<1>2. ASSUME NEW u \in Users, NEW j \in Jobs, EnqueueReads(r, u, j) PROVE AttemptsInv'
  <2>1. PICK pc \in {"create", "adopt", "supersede"}, run \in Rows \cup {0},
             duplicates \in SUBSET Rows :
          requests' = [requests EXCEPT ![r] = Begun(pc, u, j, run, duplicates)]
    BY <1>2, EnqueueBegins
  <2>2. NoNewRetry
    BY <2>1 DEF NoNewRetry, At, Begun, TypeOK
  <2>3. UNCHANGED runs
    BY <1>2 DEF EnqueueReads
  <2>4. QED
    BY <2>2, <2>3, SameTableCounts
<1>3. CASE EnqueueSupersedes(r)
  <2>1. NoNewRetry
    BY <1>3 DEF EnqueueSupersedes, NoNewRetry, TypeOK, Request
  <2>2. QED
    BY <1>3, <2>1, SupersedeCounts DEF EnqueueSupersedes
<1>4. CASE EnqueueAdopts(r)
  <2>1. NoNewRetry
    BY <1>4 DEF EnqueueAdopts, NoNewRetry, TypeOK, Request, NoRequest, At
  <2>2. q.run \in Rows
    BY <1>4 DEF EnqueueAdopts, TypeOK, RequestOK
  <2> DEFINE row == [runs[q.run] EXCEPT !.userId = q.user,
                                        !.activeKey = applicationActiveKey(q.user, q.job)]
  <2>3. /\ row.attemptNumber = runs[q.run].attemptNumber
        /\ row.failures = runs[q.run].failures
        /\ row.status = runs[q.run].status
    BY <1>1, <2>2 DEF ApplicationRun
  <2>4. runs' = [runs EXCEPT ![q.run] = row] \/ UNCHANGED runs
    BY <1>4 DEF EnqueueAdopts
  <2> HIDE DEF row
  <2>5. QED
    BY <2>1, <2>2, <2>3, <2>4, OneEditCounts, SameTableCounts
<1>5. CASE ResumeQueues(r)
  <2>1. NoNewRetry
    BY <1>5 DEF ResumeQueues, NoNewRetry, TypeOK, Request, NoRequest, At
  <2>2. q.run \in Rows
    BY <1>5 DEF ResumeQueues, TypeOK, RequestOK
  <2> DEFINE row == [runs[q.run] EXCEPT !.activeKey = applicationActiveKey(q.user, q.job),
                                        !.status = "queued"]
  <2>3. /\ row.attemptNumber = runs[q.run].attemptNumber
        /\ row.failures = runs[q.run].failures
        /\ row.status = "queued"
    BY <1>1, <2>2 DEF ApplicationRun
  <2>4. runs' = [runs EXCEPT ![q.run] = row] \/ UNCHANGED runs
    BY <1>5 DEF ResumeQueues
  <2> HIDE DEF row
  <2>5. QED
    BY <2>1, <2>2, <2>3, <2>4, OneEditCounts, SameTableCounts
<1>6. CASE RetryQueues(r)
  <2>1. NoNewRetry
    BY <1>6 DEF RetryQueues, NoNewRetry, TypeOK, Request, NoRequest, At
  <2>2. q.run \in Rows /\ q.attempt \in Nat /\ q.attempt =< runs[q.run].failures
    BY <1>6 DEF RetryQueues, TypeOK, RequestOK, Request, AttemptsInv, ReadsAreOld
  <2> DEFINE row == [runs[q.run] EXCEPT !.activeKey = applicationActiveKey(q.user, q.job),
                                        !.status = "queued",
                                        !.attemptNumber = q.attempt + 1, !.stopped = FALSE]
  <2>3. /\ row.attemptNumber = q.attempt + 1
        /\ row.failures = runs[q.run].failures /\ row.failures \in Nat
        /\ row.status = "queued"
    BY <1>1, <2>2 DEF ApplicationRun
  <2>4. runs' = [runs EXCEPT ![q.run] = row] \/ UNCHANGED runs
    BY <1>6 DEF RetryQueues
  <2> HIDE DEF row
  <2>5. Counted(row) /\ runs[q.run].failures =< row.failures
    BY <2>2, <2>3 DEF Counted
  <2>6. QED
    BY <2>1, <2>2, <2>4, <2>5, OneRowCounts, SameTableCounts
<1>7. ASSUME NEW i \in Rows, ResumeReads(r, i) PROVE AttemptsInv'
  <2>1. NoNewRetry /\ UNCHANGED runs
    BY <1>7 DEF ResumeReads, NoNewRetry, At, TypeOK
  <2>2. QED
    BY <2>1, SameTableCounts
<1>8. ASSUME NEW i \in Rows, RetryReads(r, i) PROVE AttemptsInv'
  <2> DEFINE begun == [At("retry", runs[i].userId, runs[i].jobId, i)
                         EXCEPT !.attempt = runs[i].attemptNumber]
  <2>1. begun.run = i /\ begun.attempt = runs[i].attemptNumber
    BY DEF At
  <2>2. runs[i].attemptNumber =< runs[i].failures
    BY <1>8 DEF RetryReads, AttemptsInv, Counted
  <2>3. requests' = [requests EXCEPT ![r] = begun] /\ UNCHANGED runs
    BY <1>8 DEF RetryReads
  <2> HIDE DEF begun
  <2>4. ReadsAreOld'
    BY <2>1, <2>2, <2>3 DEF ReadsAreOld, AttemptsInv, TypeOK
  <2>5. QED
    BY <2>3, <2>4 DEF AttemptsInv, Rows, Counted
<1>9. CASE EnqueueCreates(r)
  <2>1. NoNewRetry
    BY <1>9 DEF EnqueueCreates, NoNewRetry, TypeOK, Request, NoRequest, At
  <2>2. CASE UNCHANGED runs
    BY <2>1, <2>2, SameTableCounts
  <2>3. CASE runs' # runs
    <3> DEFINE row == [userId |-> q.user, jobId |-> q.job, status |-> "queued",
                       activeKey |-> applicationActiveKey(q.user, q.job), stopped |-> FALSE,
                       attemptNumber |-> 1, failures |-> 0]
    <3>1. runs' = Append(runs, row)
      BY <1>9, <2>3 DEF EnqueueCreates
    <3>2. Counted(row)
      BY DEF Counted
    <3> HIDE DEF row
    <3>3. /\ Rows' = 1..(Len(runs) + 1) /\ Len(runs) \in Nat
          /\ \A i \in Rows : runs'[i] = runs[i]
          /\ runs'[Len(runs) + 1] = row
      BY <3>1, AppendProperties, RowsAreTyped DEF TypeOK, Rows
    <3>4. \A i \in Rows' : Counted(runs'[i])
      BY <3>2, <3>3 DEF AttemptsInv, Rows
    <3>5. ReadsAreOld'
      BY <2>1, <3>3 DEF NoNewRetry, AttemptsInv, ReadsAreOld, TypeOK, RequestOK
    <3>6. QED
      BY <3>4, <3>5 DEF AttemptsInv, Counted
  <2>4. QED
    BY <2>2, <2>3
<1>10. CASE markApplying(r)
  <2>1. NoNewRetry /\ UNCHANGED runs
    BY <1>10 DEF markApplying, NoNewRetry, TypeOK, NoRequest, At
  <2>2. QED
    BY <2>1, SameTableCounts
<1>11. QED
  BY <1>2, <1>3, <1>4, <1>5, <1>6, <1>7, <1>8, <1>9, <1>10 DEF RequestStep

LEMMA WorkerStepCounts ==
  ASSUME TypeOK, TypeOK', AttemptsInv, WorkerStep
  PROVE  AttemptsInv'
<1>1. \A i \in Rows : runs[i] \in ApplicationRun
  BY RowsAreTyped
<1>2. NoNewRetry
  <2>1. UNCHANGED requests
    BY DEF WorkerStep, Processing, WorkerStarts, RepairReads, Repair, RepairEnds,
           RecoverReads, recoverInterruptedRuns, nextQueuedRunId, claimRun, ProcessStarts,
           PreflightPasses, ProcessThrows, Quarantine, QuarantinePosting, RecordResult,
           Report, FailRun, FailPosting, Requeue
  <2>2. QED
    BY <2>1 DEF NoNewRetry
<1>3. CASE UNCHANGED runs
  BY <1>2, <1>3, SameTableCounts
<1>4. ASSUME NEW canonical \in worker.keep, Repair(canonical) PROVE AttemptsInv'
  <2> DEFINE row == [runs[canonical] EXCEPT !.activeKey = bareKey(runs[canonical].jobId)]
  <2>1. canonical \in Rows
    BY DEF TypeOK, WorkerOK
  <2>2. /\ row.attemptNumber = runs[canonical].attemptNumber
        /\ row.failures = runs[canonical].failures
        /\ row.status = runs[canonical].status
    BY <1>1, <2>1 DEF ApplicationRun
  <2>3. \/ \E ids : runs' = Supersede(ids, runs)
        \/ runs' = [runs EXCEPT ![canonical] = row]
        \/ UNCHANGED runs
    BY <1>4 DEF Repair
  <2> HIDE DEF row
  <2>4. QED
    BY <1>2, <2>1, <2>2, <2>3, OneEditCounts, SupersedeCounts, SameTableCounts
<1>5. CASE recoverInterruptedRuns
  <2>1. DOMAIN runs' = Rows' /\ DOMAIN runs' = Rows
    BY <1>5, LenProperties DEF recoverInterruptedRuns, TypeOK, Rows
  <2>2. \A i \in Rows : runs'[i] = IF i \in worker.ids
                                   THEN [runs[i] EXCEPT !.status = "queued"] ELSE runs[i]
    BY <1>5 DEF recoverInterruptedRuns
  <2>3. \A i \in Rows : /\ runs'[i].attemptNumber = runs[i].attemptNumber
                        /\ runs'[i].failures = runs[i].failures
                        /\ runs'[i].status = "failed" => runs[i].status = "failed"
    BY <1>1, <2>2 DEF ApplicationRun
  <2>4. \A i \in Rows : Counted(runs'[i]) /\ runs[i].failures =< runs'[i].failures
    BY <1>1, <2>3 DEF AttemptsInv, Counted, ApplicationRun
  <2>5. QED
    BY <1>2, <2>1, <2>4, TableCounts
<1>6. CASE claimRun
  <2>1. worker.run \in Rows
    BY <1>6 DEF claimRun, TypeOK, WorkerOK, ClaimPhases
  <2> DEFINE row == [runs[worker.run] EXCEPT !.status = "running"]
  <2>2. /\ row.attemptNumber = runs[worker.run].attemptNumber
        /\ row.failures = runs[worker.run].failures
        /\ row.status = "running"
    BY <1>1, <2>1 DEF ApplicationRun
  <2>3. runs' = [runs EXCEPT ![worker.run] = row] \/ UNCHANGED runs
    BY <1>6 DEF claimRun
  <2> HIDE DEF row
  <2>4. QED
    BY <1>2, <2>1, <2>2, <2>3, OneEditCounts, SameTableCounts
<1>7. CASE Quarantine
  <2>1. worker.run \in Rows
    BY <1>7 DEF Quarantine, TypeOK, WorkerOK, ClaimPhases
  <2> DEFINE row == [runs[worker.run] EXCEPT !.status = "needs_user_action",
                                             !.stopped = TRUE]
  <2>2. /\ row.attemptNumber = runs[worker.run].attemptNumber
        /\ row.failures = runs[worker.run].failures
        /\ row.status = "needs_user_action"
    BY <1>1, <2>1 DEF ApplicationRun
  <2>3. runs' = [runs EXCEPT ![worker.run] = row]
    BY <1>7 DEF Quarantine
  <2> HIDE DEF row
  <2>4. QED
    BY <1>2, <2>1, <2>2, <2>3, OneEditCounts, SameTableCounts
<1>8. CASE Requeue
  <2>1. worker.run \in Rows
    BY <1>8 DEF Requeue, TypeOK, WorkerOK, ClaimPhases
  <2> DEFINE row == [runs[worker.run] EXCEPT !.status = "queued"]
  <2>2. /\ row.attemptNumber = runs[worker.run].attemptNumber
        /\ row.failures = runs[worker.run].failures
        /\ row.status = "queued"
    BY <1>1, <2>1 DEF ApplicationRun
  <2>3. runs' = [runs EXCEPT ![worker.run] = row] \/ UNCHANGED runs
    BY <1>8 DEF Requeue
  <2> HIDE DEF row
  <2>4. QED
    BY <1>2, <2>1, <2>2, <2>3, OneEditCounts, SameTableCounts
<1>9. ASSUME NEW result \in Results, RecordResult(result) PROVE AttemptsInv'
  <2> DEFINE i == worker.run
             paused == result = "needs_user_action"
             key == IF paused THEN bareKey(runs[i].jobId) ELSE NoKey
             row == [runs[i] EXCEPT !.status = result, !.activeKey = key, !.stopped = paused,
                        !.failures = runs[i].failures + (IF result = "failed" THEN 1 ELSE 0)]
  <2>1. i \in Rows
    BY <1>9 DEF RecordResult, TypeOK, WorkerOK, ClaimPhases
  <2>2. /\ row.attemptNumber = runs[i].attemptNumber
        /\ row.failures = runs[i].failures + (IF result = "failed" THEN 1 ELSE 0)
        /\ row.status = result
    BY <1>1, <2>1 DEF ApplicationRun
  <2>3. runs[i].failures \in Nat /\ runs[i].attemptNumber \in Nat /\ Counted(runs[i])
    BY <1>1, <2>1 DEF ApplicationRun, AttemptsInv
  <2>4. runs' = [runs EXCEPT ![i] = row] \/ UNCHANGED runs
    BY <1>9 DEF RecordResult
  <2> HIDE DEF row, i
  <2>5. Counted(row) /\ runs[i].failures =< row.failures
    BY <2>2, <2>3 DEF Counted
  <2>6. QED
    BY <1>2, <2>1, <2>4, <2>5, OneRowCounts, SameTableCounts
<1>10. CASE FailRun
  <2> DEFINE i == worker.run
             row == [runs[i] EXCEPT !.status = "failed", !.activeKey = NoKey,
                                    !.failures = runs[i].failures + 1]
  <2>1. i \in Rows
    BY <1>10 DEF FailRun, TypeOK, WorkerOK, ClaimPhases
  <2>2. row.attemptNumber = runs[i].attemptNumber /\ row.failures = runs[i].failures + 1
    BY <1>1, <2>1 DEF ApplicationRun
  <2>3. runs[i].failures \in Nat /\ runs[i].attemptNumber \in Nat /\ Counted(runs[i])
    BY <1>1, <2>1 DEF ApplicationRun, AttemptsInv
  <2>4. runs' = [runs EXCEPT ![i] = row]
    BY <1>10 DEF FailRun
  <2> HIDE DEF row, i
  <2>5. Counted(row) /\ runs[i].failures =< row.failures
    BY <2>2, <2>3 DEF Counted
  <2>6. QED
    BY <1>2, <2>1, <2>4, <2>5, OneRowCounts
<1>11. QED
  BY <1>3, <1>4, <1>5, <1>6, <1>7, <1>8, <1>9, <1>10
  DEF WorkerStep, Processing, WorkerStarts, RepairReads, RepairEnds, RecoverReads,
      nextQueuedRunId, ProcessStarts, PreflightPasses, ProcessThrows, QuarantinePosting,
      Report, FailPosting

LEMMA WorkerFaultCounts ==
  ASSUME TypeOK, TypeOK', AttemptsInv, WorkerFault
  PROVE  AttemptsInv'
<1>1. UNCHANGED <<runs, requests>>
  BY DEF WorkerFault, ClaimIsLost, WriteThrows, AuditThrows, RequeueIsLost, Crash
<1>2. QED
  BY <1>1, SameTableCounts DEF NoNewRetry

\* AttemptsMatchFailures: a row on its n-th attempt was marked failed at least
\* n - 1 times, whatever retries race each other and the worker.
THEOREM AttemptsCounted == Spec => []AttemptsMatchFailures
<1>1. Init => AttemptsInv
  BY LegacyAssumption DEF Init, AttemptsInv, ReadsAreOld, Counted, Rows, NoRequest, At
<1>2. TypeOK /\ AttemptsInv /\ [Next]_vars => AttemptsInv'
  <2> SUFFICES ASSUME TypeOK, AttemptsInv, [Next]_vars PROVE AttemptsInv'
    OBVIOUS
  <2>1. TypeOK'
    BY StepTypeOK
  <2>2. CASE UNCHANGED vars
    BY <2>1, <2>2, SameTableCounts DEF vars, NoNewRetry
  <2>3. QED
    BY <2>1, <2>2, RequestStepCounts, WorkerStepCounts, WorkerFaultCounts DEF Next
<1>3. AttemptsInv => AttemptsMatchFailures
  BY DEF AttemptsInv, Counted, AttemptsMatchFailures
<1>4. QED
  BY <1>1, <1>2, <1>3, TypeCorrect, PTL DEF Spec

-----------------------------------------------------------------------------
(* Orphans.  Requests start no run, and each phase of the worker accounts    *)
(* for the rows that are running in it.                                      *)

Running == {i \in Rows : runs[i].status = "running"}

LEMMA OneRow ==
  ASSUME TypeOK, TypeOK', NEW i \in Rows, NEW row, runs' = [runs EXCEPT ![i] = row]
  PROVE  /\ Rows' = Rows
         /\ \A k \in Rows : runs'[k] = IF k = i THEN row ELSE runs[k]
<1>1. DOMAIN runs = Rows /\ DOMAIN runs' = Rows'
  BY LenProperties DEF TypeOK, Rows
<1>2. QED
  BY <1>1

LEMMA RowStops ==
  ASSUME TypeOK, TypeOK', NEW i \in Rows, NEW row, runs' = [runs EXCEPT ![i] = row],
         row.status # "running"
  PROVE  Running' = Running \ {i}
<1>1. /\ Rows' = Rows
      /\ \A k \in Rows : runs'[k] = IF k = i THEN row ELSE runs[k]
  BY OneRow
<1>2. QED
  BY <1>1 DEF Running

LEMMA SupersedeStops ==
  ASSUME TypeOK, NEW ids, runs' = Supersede(ids, runs)
  PROVE  Running' \subseteq Running
<1>1. runs \in Seq(ApplicationRun)
  BY DEF TypeOK
<1>2. /\ Len(runs') = Len(runs)
      /\ \A i \in Rows : runs'[i] = IF i \in ids THEN Superseded(runs[i]) ELSE runs[i]
  BY <1>1, SupersedeTable DEF Rows
<1>3. \A i \in Rows : Superseded(runs[i]).status = "superseded"
  BY RowsAreTyped DEF Superseded, ApplicationRun
<1>4. QED
  BY <1>2, <1>3 DEF Running, Rows

\* A request leaves rows running at most where it found them running.
LEMMA RequestsStartNothing ==
  ASSUME TypeOK, TypeOK', NEW r \in Requests, RequestStep(r)
  PROVE  Running' \subseteq Running /\ UNCHANGED <<worker, lost>>
<1> DEFINE q == requests[r]
           key == applicationActiveKey(q.user, q.job)
<1>1. \A i \in Rows : runs[i] \in ApplicationRun
  BY RowsAreTyped
<1>2. UNCHANGED <<worker, lost>>
  BY DEF RequestStep, EnqueueReads, EnqueueSupersedes, EnqueueAdopts, EnqueueCreates,
         ResumeReads, RetryReads, ResumeQueues, RetryQueues, markApplying
<1>3. CASE UNCHANGED runs
  BY <1>2, <1>3 DEF Running, Rows
<1>4. CASE EnqueueSupersedes(r)
  BY <1>2, <1>4, SupersedeStops DEF EnqueueSupersedes
<1>5. CASE EnqueueAdopts(r) /\ runs' # runs
  <2> DEFINE row == [runs[q.run] EXCEPT !.userId = q.user, !.activeKey = key]
  <2>1. q.run \in Rows
    BY <1>5 DEF EnqueueAdopts, TypeOK, RequestOK
  <2>2. row.status = runs[q.run].status
    BY <1>1, <2>1 DEF ApplicationRun
  <2>3. runs' = [runs EXCEPT ![q.run] = row]
    BY <1>5 DEF EnqueueAdopts
  <2> HIDE DEF row
  <2>4. QED
    <3>1. /\ Rows' = Rows
          /\ \A k \in Rows : runs'[k] = IF k = q.run THEN row ELSE runs[k]
      BY <2>1, <2>3, OneRow
    <3>2. QED
      BY <1>2, <2>2, <3>1 DEF Running
<1>6. CASE ResumeQueues(r) /\ runs' # runs
  <2> DEFINE row == [runs[q.run] EXCEPT !.activeKey = key, !.status = "queued"]
  <2>1. q.run \in Rows
    BY <1>6 DEF ResumeQueues, TypeOK, RequestOK
  <2>2. row.status = "queued"
    BY <1>1, <2>1 DEF ApplicationRun
  <2>3. runs' = [runs EXCEPT ![q.run] = row]
    BY <1>6 DEF ResumeQueues
  <2> HIDE DEF row
  <2>4. QED
    BY <1>2, <2>1, <2>2, <2>3, RowStops
<1>7. CASE RetryQueues(r) /\ runs' # runs
  <2> DEFINE row == [runs[q.run] EXCEPT !.activeKey = key, !.status = "queued",
                                        !.attemptNumber = q.attempt + 1, !.stopped = FALSE]
  <2>1. q.run \in Rows
    BY <1>7 DEF RetryQueues, TypeOK, RequestOK
  <2>2. row.status = "queued"
    BY <1>1, <2>1 DEF ApplicationRun
  <2>3. runs' = [runs EXCEPT ![q.run] = row]
    BY <1>7 DEF RetryQueues
  <2> HIDE DEF row
  <2>4. QED
    BY <1>2, <2>1, <2>2, <2>3, RowStops
<1>8. CASE EnqueueCreates(r) /\ runs' # runs
  <2> DEFINE row == [userId |-> q.user, jobId |-> q.job, status |-> "queued",
                     activeKey |-> key, stopped |-> FALSE,
                     attemptNumber |-> 1, failures |-> 0]
  <2>1. runs' = Append(runs, row)
    BY <1>8 DEF EnqueueCreates
  <2>2. row.status = "queued"
    OBVIOUS
  <2> HIDE DEF row
  <2>3. /\ Rows' = 1..(Len(runs) + 1) /\ Len(runs) \in Nat
        /\ \A i \in Rows : runs'[i] = runs[i]
        /\ runs'[Len(runs) + 1] = row
    BY <2>1, AppendProperties, RowsAreTyped DEF TypeOK, Rows
  <2>4. QED
    BY <1>2, <2>2, <2>3 DEF Running, Rows
<1>9. QED
  BY <1>3, <1>4, <1>5, <1>6, <1>7, <1>8
  DEF RequestStep, EnqueueReads, ResumeReads, RetryReads, markApplying

\* In "poll" and in the phases that follow the result of a row, none is running.
Accounted ==
  \/ worker.phase \in {"down", "read active", "repair", "read running"}
  \/ worker.phase = "recover" /\ Running \subseteq worker.ids
  \/ worker.phase \in {"start", "preflight", "fill", "fail", "requeue"}
       /\ Running \subseteq {worker.run}
  \/ Running = {}

LEMMA ProcessingAccounts ==
  ASSUME TypeOK, TypeOK', Accounted, Processing
  PROVE  Accounted'
<1>1. worker.phase \in ClaimPhases /\ worker.run \in Rows
  BY DEF Processing, claimRun, ProcessStarts, PreflightPasses, ProcessThrows, Quarantine,
         QuarantinePosting, RecordResult, Report, FailRun, FailPosting, Requeue,
         TypeOK, WorkerOK, ClaimPhases
<1>2. worker \in Worker /\ runs[worker.run] \in ApplicationRun
  BY <1>1, RowsAreTyped DEF TypeOK
<1>3. Running \subseteq {worker.run}
  BY <1>1 DEF Accounted, ClaimPhases
<1>4. CASE claimRun
  <2>1. worker.phase = "claim" /\ Running = {}
    BY <1>4 DEF claimRun, Accounted
  <2>2. CASE runs' = runs /\ worker' = WorkerAt("poll")
    BY <2>1, <2>2 DEF Accounted, Running, Rows
  <2>3. CASE /\ runs' = [runs EXCEPT ![worker.run].status = "running"]
             /\ worker' = [worker EXCEPT !.phase = "start"]
    <3>1. worker'.phase = "start" /\ worker'.run = worker.run
      BY <1>2, <2>3 DEF Worker
    <3>2. Running' \subseteq {worker.run}
      <4> DEFINE row == [runs[worker.run] EXCEPT !.status = "running"]
      <4>1. runs' = [runs EXCEPT ![worker.run] = row]
        BY <2>3
      <4> HIDE DEF row
      <4>2. /\ Rows' = Rows
            /\ \A k \in Rows : runs'[k] = IF k = worker.run THEN row ELSE runs[k]
        BY <1>1, <4>1, OneRow
      <4>3. QED
        BY <2>1, <4>2 DEF Running
    <3>3. QED
      BY <3>1, <3>2 DEF Accounted
  <2>4. QED
    BY <1>4, <2>2, <2>3 DEF claimRun
<1>5. CASE ProcessStarts \/ PreflightPasses \/ ProcessThrows
  <2>1. /\ worker'.phase \in {"preflight", "fill", "fail", "requeue"}
        /\ worker'.run = worker.run /\ runs' = runs
    BY <1>2, <1>5 DEF ProcessStarts, PreflightPasses, ProcessThrows, Worker
  <2>2. Running' \subseteq {worker'.run}
    BY <1>3, <2>1 DEF Running, Rows
  <2>3. QED
    BY <2>1, <2>2 DEF Accounted
<1>6. CASE Quarantine
  <2> DEFINE row == [runs[worker.run] EXCEPT !.status = "needs_user_action",
                                             !.stopped = TRUE]
  <2>1. row.status = "needs_user_action" /\ runs' = [runs EXCEPT ![worker.run] = row]
    BY <1>2, <1>6 DEF Quarantine, ApplicationRun
  <2> HIDE DEF row
  <2>2. Running' = {}
    BY <1>1, <1>3, <2>1, RowStops
  <2>3. QED
    BY <2>2 DEF Accounted
<1>7. CASE QuarantinePosting \/ Report \/ FailPosting
  <2>1. worker.phase \in {"quarantined", "report", "fail posting"} /\ runs' = runs
    BY <1>7 DEF QuarantinePosting, Report, FailPosting
  <2>2. Running' = {}
    BY <2>1 DEF Accounted, Running, Rows
  <2>3. QED
    BY <2>2 DEF Accounted
<1>8. ASSUME NEW result \in Results, RecordResult(result) PROVE Accounted'
  <2> DEFINE i == worker.run
             paused == result = "needs_user_action"
             key == IF paused THEN bareKey(runs[i].jobId) ELSE NoKey
             row == [runs[i] EXCEPT !.status = result, !.activeKey = key, !.stopped = paused,
                        !.failures = runs[i].failures + (IF result = "failed" THEN 1 ELSE 0)]
  <2>1. row.status # "running"
    BY <1>2 DEF ApplicationRun, Results
  <2>2. \/ runs' = [runs EXCEPT ![i] = row]
        \/ runs' = runs /\ worker' = [worker EXCEPT !.phase = "fail"]
    BY <1>8 DEF RecordResult
  <2> HIDE DEF row
  <2>3. CASE runs' = [runs EXCEPT ![i] = row]
    <3>1. Running' = {}
      BY <1>1, <1>3, <2>1, <2>3, RowStops
    <3>2. QED
      BY <3>1 DEF Accounted
  <2>4. CASE runs' = runs /\ worker' = [worker EXCEPT !.phase = "fail"]
    <3>1. worker'.phase = "fail" /\ worker'.run = worker.run /\ Running' = Running
      BY <1>2, <2>4 DEF Worker, Running, Rows
    <3>2. QED
      BY <1>3, <3>1 DEF Accounted
  <2>5. QED
    BY <2>2, <2>3, <2>4
<1>9. CASE FailRun
  <2> DEFINE row == [runs[worker.run] EXCEPT !.status = "failed", !.activeKey = NoKey,
                                             !.failures = runs[worker.run].failures + 1]
  <2>1. row.status = "failed" /\ runs' = [runs EXCEPT ![worker.run] = row]
    BY <1>2, <1>9 DEF FailRun, ApplicationRun
  <2> HIDE DEF row
  <2>2. Running' = {}
    BY <1>1, <1>3, <2>1, RowStops
  <2>3. QED
    BY <2>2 DEF Accounted
<1>10. CASE Requeue
  <2> DEFINE row == [runs[worker.run] EXCEPT !.status = "queued"]
  <2>1. row.status = "queued"
    BY <1>2 DEF ApplicationRun
  <2>2. CASE runs[worker.run].status = "running"
    <3>1. runs' = [runs EXCEPT ![worker.run] = row]
      BY <1>10, <2>2 DEF Requeue
    <3> HIDE DEF row
    <3>2. Running' = {}
      BY <1>1, <1>3, <2>1, <3>1, RowStops
    <3>3. QED
      BY <3>2 DEF Accounted
  <2>3. CASE runs[worker.run].status # "running"
    <3>1. runs' = runs
      BY <1>10, <2>3 DEF Requeue
    <3>2. Running' = {}
      BY <1>3, <2>3, <3>1 DEF Running, Rows
    <3>3. QED
      BY <3>2 DEF Accounted
  <2>4. QED
    BY <2>2, <2>3
<1>11. QED
  BY <1>4, <1>5, <1>6, <1>7, <1>8, <1>9, <1>10 DEF Processing

LEMMA WorkerStepAccounts ==
  ASSUME TypeOK, TypeOK', Accounted, WorkerStep
  PROVE  Accounted'
<1>1. CASE WorkerStarts \/ RepairReads \/ RepairEnds
  <2>1. worker'.phase \in {"read active", "repair", "read running"}
    BY <1>1 DEF WorkerStarts, RepairReads, RepairEnds, WorkerAt, WorkerDown
  <2>2. QED
    BY <2>1 DEF Accounted
<1>2. ASSUME NEW canonical \in worker.keep, Repair(canonical) PROVE Accounted'
  <2>1. worker.phase = "repair" /\ worker \in Worker
    BY <1>2 DEF Repair, TypeOK
  <2>2. worker'.phase \in {"repair", "down"}
    BY <1>2, <2>1 DEF Repair, WorkerDown, Worker
  <2>3. QED
    BY <2>2 DEF Accounted
<1>3. CASE RecoverReads
  <2>1. worker'.phase = "recover" /\ worker'.ids = Running /\ runs' = runs
    BY <1>3 DEF RecoverReads, WorkerAt, WorkerDown, Running
  <2>2. QED
    BY <2>1 DEF Accounted, Running, Rows
<1>4. CASE recoverInterruptedRuns
  <2>1. Running \subseteq worker.ids
    BY <1>4 DEF recoverInterruptedRuns, Accounted
  <2>2. DOMAIN runs' = Rows' /\ DOMAIN runs' = Rows
    BY <1>4, LenProperties DEF recoverInterruptedRuns, TypeOK, Rows
  <2>3. \A i \in Rows : runs'[i] = IF i \in worker.ids
                                   THEN [runs[i] EXCEPT !.status = "queued"] ELSE runs[i]
    BY <1>4 DEF recoverInterruptedRuns
  <2>4. \A i \in Rows : runs'[i].status # "running"
    BY <2>1, <2>3, RowsAreTyped DEF ApplicationRun, Running
  <2>5. Running' = {}
    BY <2>2, <2>4 DEF Running
  <2>6. QED
    BY <2>5 DEF Accounted
<1>5. CASE nextQueuedRunId
  <2>1. Running' = {}
    BY <1>5 DEF nextQueuedRunId, Accounted, Running, Rows
  <2>2. QED
    BY <2>1 DEF Accounted
<1>6. QED
  BY <1>1, <1>2, <1>3, <1>4, <1>5, ProcessingAccounts DEF WorkerStep

LEMMA WorkerFaultAccounts ==
  ASSUME TypeOK, Accounted, WorkerFault, lost' = lost
  PROVE  Accounted'
<1>1. worker \in Worker /\ Running' = Running
  BY DEF WorkerFault, ClaimIsLost, WriteThrows, AuditThrows, RequeueIsLost, Crash, TypeOK,
         Running, Rows
<1>2. CASE Crash
  BY <1>2 DEF Crash, WorkerDown, Accounted
<1>3. CASE WriteThrows \/ AuditThrows
  <2>1. /\ worker.phase \in {"quarantined", "report", "start", "fail", "fail posting"}
        /\ worker'.phase \in {"fail", "requeue"} /\ worker'.run = worker.run
    BY <1>1, <1>3 DEF WriteThrows, AuditThrows, Worker
  <2>2. QED
    BY <1>1, <2>1 DEF Accounted
<1>4. CASE ClaimIsLost \/ RequeueIsLost
  <2>1. lost' = lost + 1 /\ lost \in Nat
    BY <1>4 DEF ClaimIsLost, RequeueIsLost, TypeOK
  <2>2. QED
    BY <2>1
<1>5. QED
  BY <1>2, <1>3, <1>4 DEF WorkerFault

LEMMA LostGrows ==
  ASSUME TypeOK, Next
  PROVE  lost' \in {lost, lost + 1}
BY DEF Next, RequestStep, EnqueueReads, EnqueueSupersedes, EnqueueAdopts, EnqueueCreates,
       ResumeReads, RetryReads, ResumeQueues, RetryQueues, markApplying,
       WorkerStep, Processing, WorkerStarts, RepairReads, Repair, RepairEnds,
       RecoverReads, recoverInterruptedRuns, nextQueuedRunId, claimRun, ProcessStarts,
       PreflightPasses, ProcessThrows, Quarantine, QuarantinePosting, RecordResult,
       Report, FailRun, FailPosting, Requeue,
       WorkerFault, ClaimIsLost, WriteThrows, AuditThrows, RequeueIsLost, Crash

\* OrphansNeedALostWrite: whatever crashes, exceptions and concurrent requests
\* do, a running row has a worker, or a recovery, unless a failure was swallowed.
THEOREM OrphansAreLost == Spec => []OrphansNeedALostWrite
<1> DEFINE Inv == lost = 0 => Accounted
<1>1. Init => Inv
  BY DEF Init, Accounted, WorkerDown
<1>2. TypeOK /\ Inv /\ [Next]_vars => Inv'
  <2> SUFFICES ASSUME TypeOK, Inv, [Next]_vars, lost' = 0 PROVE Accounted'
    OBVIOUS
  <2>1. TypeOK'
    BY StepTypeOK
  <2>2. lost = 0 /\ lost' = lost
    <3>1. lost \in Nat
      BY DEF TypeOK
    <3>2. CASE Next
      BY <3>1, <3>2, LostGrows
    <3>3. QED
      BY <3>2 DEF vars
  <2>3. Accounted
    BY <2>2
  <2>4. CASE UNCHANGED vars
    BY <2>3, <2>4 DEF vars, Accounted, Running, Rows
  <2>5. ASSUME NEW r \in Requests, RequestStep(r) PROVE Accounted'
    BY <2>1, <2>3, <2>5, RequestsStartNothing DEF Accounted
  <2>6. QED
    BY <2>1, <2>2, <2>3, <2>4, <2>5, WorkerStepAccounts, WorkerFaultAccounts DEF Next
<1>3. Inv => OrphansNeedALostWrite
  BY DEF Accounted, Running, OrphansNeedALostWrite, NoOrphanedRun
<1>4. QED
  BY <1>1, <1>2, <1>3, TypeCorrect, PTL DEF Spec

=============================================================================
