---------------------------- MODULE ApplicationRuns ----------------------------
(***************************************************************************)
(* The ApplicationRun table, the web requests that queue, resume and retry *)
(* runs (src/lib/applications/queue.ts, answerAndResume.ts) and the one    *)
(* application worker that repairs, recovers, claims and processes them    *)
(* (scripts/application-worker.ts, src/lib/applications/worker.ts).        *)
(*                                                                         *)
(* A step is one database statement.  No handler here opens a transaction, *)
(* so whatever a handler read is a snapshot that other handlers may        *)
(* outdate before its next statement runs.  Everything the statements do   *)
(* not branch on (documents, URLs, answers, messages, timestamps, the      *)
(* currentStep label and the stage history) is left out; a check on such   *)
(* data that can only refuse is a nondeterministic refusal.                *)
(***************************************************************************)
EXTENDS Integers, Sequences, FiniteSets

CONSTANTS
  Users,        \* the owners of runs
  Jobs,         \* the shared postings
  Requests,     \* slots for HTTP requests in flight at the same time
  Nobody,       \* the null owner of a legacy row, and the owner part of a bare key
  NoKey,        \* activeKey = null
  WorkerUser,   \* the account whose extension token the worker's browser holds
  LegacyTables, \* the tables the database may hold when the model starts
  MaxRuns,      \* bound on the number of rows of the table
  MaxAttempts,  \* bound: no retry is asked for at this attempt number
  MaxFaults,    \* bound on worker crashes and unexpected exceptions
  MaxLost       \* bound on failures the worker swallows after a claim

(***************************************************************************)
(* applicationActiveKey builds "user:job".  The worker writes a bare job   *)
(* id, as legacy rows carry it; both live in one globally unique column.   *)
(***************************************************************************)
applicationActiveKey(u, j) == <<u, j>>
bareKey(j) == <<Nobody, j>>
Keys == ((Users \cup {Nobody}) \X Jobs) \cup {NoKey}

ACTIVE_APPLICATION_STATUSES == {"queued", "running", "needs_user_action"}
Statuses == ACTIVE_APPLICATION_STATUSES
              \cup {"filled", "submitted", "failed", "superseded"}

(***************************************************************************)
(* stopped says whether stoppedFieldLabel is set; failures is a history    *)
(* field, the number of times the worker marked the row failed.            *)
(***************************************************************************)
ApplicationRun ==
  [userId : Users \cup {Nobody}, jobId : Jobs, status : Statuses,
   activeKey : Keys, stopped : BOOLEAN, attemptNumber : Nat, failures : Nat]

TrackerStatuses ==
  {"none", "APPLYING", "NEEDS_USER_ACTION", "READY_TO_APPLY", "FAILED"}
PostingStatuses == {"DISCOVERED", "NEEDS_USER_ACTION", "FAILED"}

ASSUME NobodyAssumption == Nobody \notin Users
ASSUME WorkerUserAssumption == WorkerUser \in Users
ASSUME NoKeyAssumption == NoKey \notin (Users \cup {Nobody}) \X Jobs
ASSUME BoundsAssumption ==
  MaxRuns \in Nat /\ MaxAttempts \in Nat /\ MaxFaults \in Nat /\ MaxLost \in Nat

\* Rows that exist before the model starts are rows the program writes: a
\* failed row was marked failed once per attempt, the others once per attempt
\* but the last, and no two rows share a key.
ASSUME LegacyAssumption ==
  \A table \in LegacyTables :
    /\ table \in Seq(ApplicationRun)
    /\ \A i \in 1..Len(table) :
         /\ table[i].attemptNumber =< table[i].failures + 1
         /\ table[i].status = "failed" => table[i].attemptNumber =< table[i].failures
         /\ \A k \in 1..Len(table) :
              table[i].activeKey = table[k].activeKey =>
                i = k \/ table[i].activeKey = NoKey

VARIABLES
  runs,       \* the ApplicationRun table, a sequence in createdAt order
  tracker,    \* UserJobState.applicationStatus, per user and job
  posting,    \* the deprecated, shared Job.status
  requests,   \* per slot, the handler in flight and what it has read
  worker,     \* the daemon: its next statement and what it has read
  faults,     \* crashes and unexpected exceptions so far
  lost        \* swallowed failures so far

vars == <<runs, tracker, posting, requests, worker, faults, lost>>

Rows == 1..Len(runs)
IsActive(i) == runs[i].status \in ACTIVE_APPLICATION_STATUSES
\* Faulty: the owner filter of the include is forgotten.
SameJobOnly(u, j) == {i \in Rows : runs[i].jobId = j}

SameOwnerAndJob(u, j) == {i \in Rows : runs[i].userId = u /\ runs[i].jobId = j}

\* The unique index on activeKey: a write of this key to row i goes through.
KeyFree(i, key) == \A k \in Rows \ {i} : runs[k].activeKey # key

\* The row both repairs keep: paused rows first, then the oldest.
IsCanonical(i, group) ==
  /\ i \in group
  /\ \A k \in group \ {i} :
       \/ runs[i].stopped /\ ~runs[k].stopped
       \/ runs[i].stopped = runs[k].stopped /\ i < k

\* updateMany of both repairs: by id, whatever the rows have become since.
Superseded(row) == [row EXCEPT !.status = "superseded", !.activeKey = NoKey]
Supersede(ids, table) ==
  [i \in 1..Len(table) |-> IF i \in ids THEN Superseded(table[i]) ELSE table[i]]

-----------------------------------------------------------------------------
(* The web requests.                                                         *)

RequestSteps == {"idle", "supersede", "adopt", "create", "resume", "retry", "mark"}
Request ==
  [pc : RequestSteps, user : Users \cup {Nobody}, job : Jobs \cup {Nobody},
   run : Nat, duplicates : SUBSET Nat, attempt : Nat]
At(pc, u, j, i) ==
  [pc |-> pc, user |-> u, job |-> j, run |-> i, duplicates |-> {}, attempt |-> 0]
NoRequest == At("idle", Nobody, Nobody, 0)

\* enqueueApplication up to its first write.  A submitted or filled run of the
\* owner, or any refused check, ends the request without a write.
EnqueueReads(r, u, j) ==
  /\ requests[r].pc = "idle"
  /\ LET mine == SameOwnerAndJob(u, j)
         active == {i \in mine : IsActive(i)}
     IN /\ \A i \in mine : runs[i].status \notin {"submitted", "filled"}
        /\ \/ /\ active = {}
              /\ Len(runs) < MaxRuns
              /\ requests' = [requests EXCEPT ![r] = At("create", u, j, 0)]
           \/ \E canonical \in active :
                /\ IsCanonical(canonical, active)
                /\ requests' = [requests EXCEPT ![r] =
                     [At(IF active = {canonical} THEN "adopt" ELSE "supersede", u, j, canonical)
                        EXCEPT !.duplicates = active \ {canonical}]]
  /\ UNCHANGED <<runs, tracker, posting, worker, faults, lost>>

EnqueueSupersedes(r) ==
  /\ requests[r].pc = "supersede"
  /\ runs' = Supersede(requests[r].duplicates \cap {i \in Rows : runs[i].userId = requests[r].user}, runs)
  /\ requests' = [requests EXCEPT ![r].pc = "adopt"]
  /\ UNCHANGED <<tracker, posting, worker, faults, lost>>

\* Faulty: enqueueing also puts the canonical row back into the queue.
AdoptRequeues(r) ==
  LET q == requests[r]
  IN /\ q.pc = "adopt"
     /\ runs' = [runs EXCEPT ![q.run] =
          [@ EXCEPT !.activeKey = applicationActiveKey(q.user, q.job), !.status = "queued"]]
     /\ requests' = [requests EXCEPT ![r].pc = "mark"]
     /\ UNCHANGED <<tracker, posting, worker, faults, lost>>

\* The update of the canonical row is by id alone.  P2002 returns the winner.
EnqueueAdopts(r) ==
  LET q == requests[r]
      key == applicationActiveKey(q.user, q.job)
  IN /\ q.pc = "adopt"
     /\ \/ /\ KeyFree(q.run, key)
           /\ runs' = [runs EXCEPT ![q.run] =
                [@ EXCEPT !.userId = q.user, !.activeKey = key]]
           /\ requests' = [requests EXCEPT ![r].pc = "mark"]
        \/ /\ ~KeyFree(q.run, key)
           /\ requests' = [requests EXCEPT ![r] = NoRequest]
           /\ UNCHANGED runs
     /\ UNCHANGED <<tracker, posting, worker, faults, lost>>

EnqueueCreates(r) ==
  LET q == requests[r]
      key == applicationActiveKey(q.user, q.job)
  IN /\ q.pc = "create"
     /\ \/ /\ KeyFree(0, key)
           /\ Len(runs) < MaxRuns
           /\ runs' = Append(runs,
                [userId |-> q.user, jobId |-> q.job, status |-> "queued",
                 activeKey |-> key, stopped |-> FALSE, attemptNumber |-> 1,
                 failures |-> 0])
           /\ requests' = [requests EXCEPT ![r] = At("mark", q.user, q.job, Len(runs) + 1)]
        \/ /\ ~KeyFree(0, key)
           /\ requests' = [requests EXCEPT ![r] = NoRequest]
           /\ UNCHANGED runs
     /\ UNCHANGED <<tracker, posting, worker, faults, lost>>

\* queueAnsweredRun, also the last call of answerAndResumeApplicationRun.
ResumeReads(r, i) ==
  /\ requests[r].pc = "idle"
  /\ runs[i].userId \in Users
  /\ runs[i].status = "needs_user_action"
  /\ requests' = [requests EXCEPT ![r] =
       At("resume", runs[i].userId, runs[i].jobId, i)]
  /\ UNCHANGED <<runs, tracker, posting, worker, faults, lost>>

\* The guarded updateMany: zero rows or P2002 refuse the request.
ResumeQueues(r) ==
  LET q == requests[r]
      key == applicationActiveKey(q.user, q.job)
      matches == /\ runs[q.run].userId = q.user
                 /\ runs[q.run].status = "needs_user_action"
                 /\ KeyFree(q.run, key)
  IN /\ q.pc = "resume"
     /\ \/ /\ matches
           /\ runs' = [runs EXCEPT ![q.run] =
                [@ EXCEPT !.activeKey = key, !.status = "queued"]]
           /\ requests' = [requests EXCEPT ![r].pc = "mark"]
        \/ /\ ~matches
           /\ requests' = [requests EXCEPT ![r] = NoRequest]
           /\ UNCHANGED runs
     /\ UNCHANGED <<tracker, posting, worker, faults, lost>>

\* Faulty: the other runs of the owner on the posting are not looked at.
RetryReadsAlone(r, i) ==
  /\ requests[r].pc = "idle"
  /\ runs[i].userId \in Users
  /\ runs[i].status = "failed"
  /\ runs[i].attemptNumber < MaxAttempts
  /\ requests' = [requests EXCEPT ![r] =
       [At("retry", runs[i].userId, runs[i].jobId, i)
          EXCEPT !.attempt = runs[i].attemptNumber]]
  /\ UNCHANGED <<runs, tracker, posting, worker, faults, lost>>

RetryReads(r, i) ==
  /\ requests[r].pc = "idle"
  /\ runs[i].userId \in Users
  /\ runs[i].status = "failed"
  /\ \A k \in SameOwnerAndJob(runs[i].userId, runs[i].jobId) \ {i} :
       ~IsActive(k) /\ runs[k].status # "submitted"
  /\ runs[i].attemptNumber < MaxAttempts
  /\ requests' = [requests EXCEPT ![r] =
       [At("retry", runs[i].userId, runs[i].jobId, i)
          EXCEPT !.attempt = runs[i].attemptNumber]]
  /\ UNCHANGED <<runs, tracker, posting, worker, faults, lost>>

\* Faulty: the update is not guarded by the status that was read.
RetryUnguarded(r) ==
  LET q == requests[r]
      key == applicationActiveKey(q.user, q.job)
  IN /\ q.pc = "retry"
     /\ KeyFree(q.run, key)
     /\ runs' = [runs EXCEPT ![q.run] =
          [@ EXCEPT !.activeKey = key, !.status = "queued", !.attemptNumber = @ + 1]]
     /\ requests' = [requests EXCEPT ![r].pc = "mark"]
     /\ UNCHANGED <<tracker, posting, worker, faults, lost>>

RetryQueues(r) ==
  LET q == requests[r]
      key == applicationActiveKey(q.user, q.job)
      matches == /\ runs[q.run].userId = q.user
                 /\ runs[q.run].status = "failed"
                 /\ runs[q.run].activeKey = NoKey
                 /\ KeyFree(q.run, key)
  IN /\ q.pc = "retry"
     /\ \/ /\ matches
           /\ runs' = [runs EXCEPT ![q.run] =
                [@ EXCEPT !.activeKey = key, !.status = "queued",
                          !.attemptNumber = q.attempt + 1, !.stopped = FALSE]]
           /\ requests' = [requests EXCEPT ![r].pc = "mark"]
        \/ /\ ~matches
           /\ requests' = [requests EXCEPT ![r] = NoRequest]
           /\ UNCHANGED runs
     /\ UNCHANGED <<tracker, posting, worker, faults, lost>>

markApplying(r) ==
  /\ requests[r].pc = "mark"
  /\ tracker' = [tracker EXCEPT ![<<requests[r].user, requests[r].job>>] = "APPLYING"]
  /\ requests' = [requests EXCEPT ![r] = NoRequest]
  /\ UNCHANGED <<runs, posting, worker, faults, lost>>

RequestStep(r) ==
  \/ \E u \in Users, j \in Jobs : EnqueueReads(r, u, j)
  \/ EnqueueSupersedes(r)
  \/ EnqueueAdopts(r)
  \/ EnqueueCreates(r)
  \/ \E i \in Rows : ResumeReads(r, i) \/ RetryReads(r, i)
  \/ ResumeQueues(r)
  \/ RetryQueues(r)
  \/ markApplying(r)

-----------------------------------------------------------------------------
(* The worker daemon.                                                        *)

WorkerPhases ==
  {"down", "read active", "repair", "read running", "recover", "poll", "claim",
   "start", "preflight", "fill", "quarantined", "report", "fail",
   "fail posting", "requeue"}
\* The phases in which the worker has picked a row.
ClaimPhases ==
  {"claim", "start", "preflight", "fill", "quarantined", "report", "fail",
   "fail posting", "requeue"}
Results == {"filled", "needs_user_action", "failed"}
Worker ==
  [phase : WorkerPhases, run : Nat, keep : SUBSET Nat, ids : SUBSET Nat,
   result : Results \cup {"none"}]
WorkerDown ==
  [phase |-> "down", run |-> 0, keep |-> {}, ids |-> {}, result |-> "none"]
WorkerAt(phase) == [WorkerDown EXCEPT !.phase = phase]

WorkerStarts ==
  /\ worker.phase = "down"
  /\ worker' = WorkerAt("read active")
  /\ UNCHANGED <<runs, tracker, posting, requests, faults, lost>>

\* repairDuplicateRuns groups by posting, not by posting and owner.
RepairReads ==
  LET active == {i \in Rows : IsActive(i)}
      keep == {i \in active :
                 IsCanonical(i, {k \in active : runs[k].jobId = runs[i].jobId})}
  IN /\ worker.phase = "read active"
     /\ worker' = [WorkerAt("repair") EXCEPT !.keep = keep, !.ids = active \ keep]
     /\ UNCHANGED <<runs, tracker, posting, requests, faults, lost>>

\* Faulty: a running duplicate is spared.
RepairSparesRunning(canonical) ==
  LET job == runs[canonical].jobId
      duplicates == {i \in worker.ids : runs[i].jobId = job /\ runs[i].status # "running"}
  IN /\ worker.phase = "repair"
     /\ canonical \in worker.keep
     /\ runs' = [Supersede(duplicates, runs) EXCEPT ![canonical].activeKey = bareKey(job)]
     /\ worker' = [worker EXCEPT !.keep = @ \ {canonical}, !.ids = @ \ duplicates]
     /\ UNCHANGED <<tracker, posting, requests, faults, lost>>

\* One group: its duplicates first, then the bare key.  A P2002 ends main().
Repair(canonical) ==
  LET job == runs[canonical].jobId
      duplicates == {i \in worker.ids : runs[i].jobId = job}
  IN /\ worker.phase = "repair"
     /\ canonical \in worker.keep
     /\ \/ /\ duplicates # {}
           /\ runs' = Supersede(duplicates, runs)
           /\ worker' = [worker EXCEPT !.ids = @ \ duplicates]
        \/ /\ duplicates = {}
           /\ KeyFree(canonical, bareKey(job))
           /\ runs' = [runs EXCEPT ![canonical].activeKey = bareKey(job)]
           /\ worker' = [worker EXCEPT !.keep = @ \ {canonical}]
        \/ /\ duplicates = {}
           /\ ~KeyFree(canonical, bareKey(job))
           /\ worker' = WorkerDown
           /\ UNCHANGED runs
     /\ UNCHANGED <<tracker, posting, requests, faults, lost>>

RepairEnds ==
  /\ worker.phase = "repair"
  /\ worker.keep = {}
  /\ worker' = WorkerAt("read running")
  /\ UNCHANGED <<runs, tracker, posting, requests, faults, lost>>

\* Faulty: paused rows are recovered too.
RecoverReadsPaused ==
  /\ worker.phase = "read running"
  /\ worker' = [WorkerAt("recover") EXCEPT
                  !.ids = {i \in Rows : runs[i].status \in {"running", "needs_user_action"}}]
  /\ UNCHANGED <<runs, tracker, posting, requests, faults, lost>>

\* Faulty: rows that were resumed after a pause are not recovered.
RecoverReadsFresh ==
  /\ worker.phase = "read running"
  /\ worker' = [WorkerAt("recover") EXCEPT
                  !.ids = {i \in Rows : runs[i].status = "running" /\ ~runs[i].stopped}]
  /\ UNCHANGED <<runs, tracker, posting, requests, faults, lost>>

RecoverReads ==
  /\ worker.phase = "read running"
  /\ worker' = [WorkerAt("recover") EXCEPT
                  !.ids = {i \in Rows : runs[i].status = "running"}]
  /\ UNCHANGED <<runs, tracker, posting, requests, faults, lost>>

recoverInterruptedRuns ==
  /\ worker.phase = "recover"
  /\ runs' = [i \in Rows |-> IF i \in worker.ids
                             THEN [runs[i] EXCEPT !.status = "queued"] ELSE runs[i]]
  /\ worker' = WorkerAt("poll")
  /\ UNCHANGED <<tracker, posting, requests, faults, lost>>

\* Faulty: the empty queue is not told from its first row.
PollUnchecked ==
  /\ worker.phase = "poll"
  /\ \A k \in Rows : runs[k].status # "queued"
  /\ worker' = WorkerAt("claim")
  /\ UNCHANGED <<runs, tracker, posting, requests, faults, lost>>

\* Faulty: a row that was resumed after a pause is skipped.
PollFreshOnly ==
  /\ worker.phase = "poll"
  /\ \E i \in Rows :
       /\ runs[i].status = "queued" /\ ~runs[i].stopped
       /\ worker' = [WorkerAt("claim") EXCEPT !.run = i]
  /\ UNCHANGED <<runs, tracker, posting, requests, faults, lost>>

nextQueuedRunId ==
  /\ worker.phase = "poll"
  /\ \E i \in Rows :
       /\ runs[i].status = "queued"
       /\ \A k \in Rows : runs[k].status = "queued" => i =< k
       /\ worker' = [WorkerAt("claim") EXCEPT !.run = i]
  /\ UNCHANGED <<runs, tracker, posting, requests, faults, lost>>

claimRun ==
  /\ worker.phase = "claim"
  /\ \/ /\ runs[worker.run].status = "queued"
        /\ runs' = [runs EXCEPT ![worker.run].status = "running"]
        /\ worker' = [worker EXCEPT !.phase = "start"]
     \/ /\ runs[worker.run].status # "queued"
        /\ worker' = WorkerAt("poll")
        /\ UNCHANGED runs
  /\ UNCHANGED <<tracker, posting, requests, faults, lost>>

\* recordRunStage or lock.update throws after the claim: the outer catch only
\* polls again.
ClaimIsLost ==
  /\ worker.phase = "start"
  /\ lost < MaxLost
  /\ lost' = lost + 1
  /\ worker' = WorkerAt("poll")
  /\ UNCHANGED <<runs, tracker, posting, requests, faults>>

\* The first read of processApplicationRun, outside its try block.
ProcessStarts ==
  /\ worker.phase = "start"
  /\ worker' = [worker EXCEPT
       !.phase = IF runs[worker.run].status = "running" THEN "preflight" ELSE "requeue"]
  /\ UNCHANGED <<runs, tracker, posting, requests, faults, lost>>

\* A submitted run of any owner on this posting stops the run, and so does a
\* missing owner.
Blocked(i) ==
  \/ runs[i].userId = Nobody
  \/ \E k \in Rows \ {i} : runs[k].jobId = runs[i].jobId /\ runs[k].status = "submitted"

PreflightPasses ==
  /\ worker.phase = "preflight"
  /\ ~Blocked(worker.run)
  /\ worker' = [worker EXCEPT !.phase = "fill"]
  /\ UNCHANGED <<runs, tracker, posting, requests, faults, lost>>

\* Validation, a recheck, the browser or the adapter throws into the catch.
ProcessThrows ==
  /\ worker.phase \in {"preflight", "fill"}
  /\ worker' = [worker EXCEPT !.phase = "fail"]
  /\ UNCHANGED <<runs, tracker, posting, requests, faults, lost>>

\* The security pause leaves activeKey alone, then marks the shared posting.
Quarantine ==
  /\ worker.phase = "fill"
  /\ runs' = [runs EXCEPT ![worker.run] =
       [@ EXCEPT !.status = "needs_user_action", !.stopped = TRUE]]
  /\ worker' = [worker EXCEPT !.phase = "quarantined"]
  /\ UNCHANGED <<tracker, posting, requests, faults, lost>>

QuarantinePosting ==
  /\ worker.phase = "quarantined"
  /\ posting' = [posting EXCEPT ![runs[worker.run].jobId] = "NEEDS_USER_ACTION"]
  /\ worker' = WorkerAt("poll")
  /\ UNCHANGED <<runs, tracker, requests, faults, lost>>

\* Faulty: a pause gives up the key, as every other result does.
RecordWithoutKey(result) ==
  LET i == worker.run
  IN /\ worker.phase = "fill"
     /\ result = "filled" => runs[i].userId = WorkerUser
     /\ runs' = [runs EXCEPT ![i] =
          [@ EXCEPT !.status = result, !.activeKey = NoKey,
                    !.stopped = result = "needs_user_action",
                    !.failures = runs[i].failures + (IF result = "failed" THEN 1 ELSE 0)]]
     /\ worker' = [worker EXCEPT !.phase = "report", !.result = result]
     /\ UNCHANGED <<tracker, posting, requests, faults, lost>>

\* The update that records the adapter's result.  Only a pause keeps a key, the
\* bare one; P2002 throws into the catch.  The extension fills with the token
\* of WorkerUser and is refused a fill plan for the run of another account.
RecordResult(result) ==
  LET i == worker.run
      paused == result = "needs_user_action"
      key == IF paused THEN bareKey(runs[i].jobId) ELSE NoKey
  IN /\ worker.phase = "fill"
     /\ result = "filled" => runs[i].userId = WorkerUser
     /\ \/ /\ key = NoKey \/ KeyFree(i, key)
           /\ runs' = [runs EXCEPT ![i] =
                [@ EXCEPT !.status = result, !.activeKey = key, !.stopped = paused,
                          !.failures = runs[i].failures + (IF result = "failed" THEN 1 ELSE 0)]]
           /\ worker' = [worker EXCEPT !.phase = "report", !.result = result]
        \/ /\ key # NoKey /\ ~KeyFree(i, key)
           /\ worker' = [worker EXCEPT !.phase = "fail"]
           /\ UNCHANGED runs
     /\ UNCHANGED <<tracker, posting, requests, faults, lost>>

Reported ==
  [tracker EXCEPT ![<<runs[worker.run].userId, runs[worker.run].jobId>>] =
     CASE worker.result = "needs_user_action" -> "NEEDS_USER_ACTION"
       [] worker.result = "filled" -> "READY_TO_APPLY"
       [] OTHER -> "FAILED"]

Report ==
  /\ worker.phase = "report"
  /\ tracker' = Reported
  /\ worker' = WorkerAt("poll")
  /\ UNCHANGED <<runs, posting, requests, faults, lost>>

\* Faulty: the catch fails every run of the posting.
FailPostingsRuns ==
  /\ worker.phase = "fail"
  /\ runs' = [i \in Rows |->
       IF runs[i].jobId = runs[worker.run].jobId
       THEN [runs[i] EXCEPT !.status = "failed", !.activeKey = NoKey,
                            !.failures = runs[i].failures + 1]
       ELSE runs[i]]
  /\ worker' = [worker EXCEPT !.phase = "fail posting"]
  /\ UNCHANGED <<tracker, posting, requests, faults, lost>>

\* The catch block: the run, then the shared posting.
FailRun ==
  /\ worker.phase = "fail"
  /\ runs' = [runs EXCEPT ![worker.run] =
       [@ EXCEPT !.status = "failed", !.activeKey = NoKey,
                 !.failures = runs[worker.run].failures + 1]]
  /\ worker' = [worker EXCEPT !.phase = "fail posting"]
  /\ UNCHANGED <<tracker, posting, requests, faults, lost>>

FailPosting ==
  /\ worker.phase = "fail posting"
  /\ posting' = [posting EXCEPT ![runs[worker.run].jobId] = "FAILED"]
  /\ worker' = WorkerAt("poll")
  /\ UNCHANGED <<runs, tracker, requests, faults, lost>>

\* A database exception after the result was written throws into the catch;
\* one before the try block or inside the catch reaches main().
WriteThrows ==
  /\ faults < MaxFaults
  /\ faults' = faults + 1
  /\ \/ /\ worker.phase \in {"quarantined", "report"}
        /\ worker' = [worker EXCEPT !.phase = "fail"]
     \/ /\ worker.phase \in {"start", "fail", "fail posting"}
        /\ worker' = [worker EXCEPT !.phase = "requeue"]
  /\ UNCHANGED <<runs, tracker, posting, requests, lost>>

\* The audit entry after the tracker's upsert throws into the same catch.
AuditThrows ==
  /\ worker.phase = "report"
  /\ faults < MaxFaults
  /\ faults' = faults + 1
  /\ tracker' = Reported
  /\ worker' = [worker EXCEPT !.phase = "fail"]
  /\ UNCHANGED <<runs, posting, requests, lost>>

\* main()'s catch requeues the row if it still is running.
Requeue ==
  /\ worker.phase = "requeue"
  /\ runs' = IF runs[worker.run].status = "running"
             THEN [runs EXCEPT ![worker.run].status = "queued"] ELSE runs
  /\ worker' = WorkerAt("poll")
  /\ UNCHANGED <<tracker, posting, requests, faults, lost>>

\* ... and swallows a failure of that very update.
RequeueIsLost ==
  /\ worker.phase = "requeue"
  /\ lost < MaxLost
  /\ lost' = lost + 1
  /\ worker' = WorkerAt("poll")
  /\ UNCHANGED <<runs, tracker, posting, requests, faults>>

Crash ==
  /\ worker.phase # "down"
  /\ faults < MaxFaults
  /\ faults' = faults + 1
  /\ worker' = WorkerDown
  /\ UNCHANGED <<runs, tracker, posting, requests, lost>>

Processing ==
  \/ claimRun
  \/ ProcessStarts
  \/ PreflightPasses
  \/ ProcessThrows
  \/ Quarantine
  \/ QuarantinePosting
  \/ \E result \in Results : RecordResult(result)
  \/ Report
  \/ FailRun
  \/ FailPosting
  \/ Requeue

WorkerStep ==
  \/ WorkerStarts
  \/ RepairReads
  \/ \E canonical \in worker.keep : Repair(canonical)
  \/ RepairEnds
  \/ RecoverReads
  \/ recoverInterruptedRuns
  \/ nextQueuedRunId
  \/ Processing

WorkerFault == ClaimIsLost \/ WriteThrows \/ AuditThrows \/ RequeueIsLost \/ Crash

-----------------------------------------------------------------------------
Init ==
  /\ runs \in LegacyTables
  /\ tracker \in [(Users \cup {Nobody}) \X Jobs -> {"none"}]
  /\ posting \in [Jobs -> {"DISCOVERED"}]
  /\ requests = [r \in Requests |-> NoRequest]
  /\ worker = WorkerDown
  /\ faults = 0
  /\ lost = 0

Next ==
  \/ \E r \in Requests : RequestStep(r)
  \/ WorkerStep
  \/ WorkerFault

Spec == Init /\ [][Next]_vars

\* The daemon is a loop that takes its next statement whenever there is one,
\* and every browser wait in it has a timeout; a started daemon is restarted
\* after a crash.  Nothing is assumed about users or their requests.
FairSpec == Spec /\ WF_vars(WorkerStep)

-----------------------------------------------------------------------------
(* Properties that hold however many requests are in flight.                 *)

\* Every variable has its type, and every row a handler remembers exists.
RequestOK(q) ==
  /\ q.duplicates \subseteq Rows
  /\ q.pc # "idle" => q.user \in Users /\ q.job \in Jobs
  /\ q.pc \in {"supersede", "adopt", "resume", "retry"} => q.run \in Rows
WorkerOK ==
  /\ worker.keep \subseteq Rows
  /\ worker.ids \subseteq Rows
  /\ worker.phase \in ClaimPhases => worker.run \in Rows
  /\ worker.phase = "report" => worker.result \in Results
TypeOK ==
  /\ runs \in Seq(ApplicationRun)
  /\ tracker \in [(Users \cup {Nobody}) \X Jobs -> TrackerStatuses]
  /\ posting \in [Jobs -> PostingStatuses]
  /\ requests \in [Requests -> Request]
  /\ worker \in Worker
  /\ faults \in Nat
  /\ lost \in Nat
  /\ \A r \in Requests : RequestOK(requests[r])
  /\ WorkerOK

\* The attempt number never runs ahead of what happened: a row on its n-th
\* attempt was marked failed at least n - 1 times.  retryFailedRun computes the
\* number from a row it read before its guarded update, so two clicks on Retry,
\* or one that raced a whole attempt, must not count twice.
AttemptsMatchFailures ==
  \A i \in Rows : runs[i].attemptNumber =< runs[i].failures + 1

\* Every running row is in the hands of the worker, or waits for the recovery
\* of a worker that is down or starting.  main() promises that an exception
\* requeues the same claimed row.
NoOrphanedRun ==
  \A i \in Rows : runs[i].status = "running" =>
    \/ worker.phase \in {"down", "read active", "repair", "read running"}
    \/ worker.phase = "recover" /\ i \in worker.ids
    \/ worker.phase \in {"start", "preflight", "fill", "fail", "requeue"} /\ worker.run = i

\* ... and the worker keeps that promise unless it swallowed a failure after
\* a claim: crashes, exceptions and concurrent requests alone orphan no row.
OrphansNeedALostWrite == lost = 0 => NoOrphanedRun

\* The row is one of the duplicates that a request of its owner had read as
\* active, before the worker filled or paused it, and supersedes now.
SupersededAsDuplicate(i) ==
  \E r \in Requests : /\ requests[r].pc = "supersede"
                    /\ i \in requests[r].duplicates
                    /\ requests[r].user = runs[i].userId
                    /\ requests'[r] # requests[r]

\* A form that was filled for review is never put back to work or paused, and
\* no repair at a startup supersedes it.  The catch block may mark it failed,
\* but only that of the pass that saved it, when the audit entry or the tracker
\* behind the save threw: no other row's failure, and no throw from before the
\* save, reaches it.
FilledStaysOutOfTheQueue ==
  [][\A i \in Rows : runs[i].status = "filled" =>
       \/ runs'[i].status = "filled"
       \/ runs'[i].status = "superseded" /\ SupersededAsDuplicate(i)
       \/ /\ runs'[i].status = "failed"
          /\ worker.phase = "fail" /\ worker.run = i /\ worker.result = "filled"]_vars

\* A paused run goes back to the queue only by a resume request of its owner:
\* no recovery, repair or retry answers the question for the user.  Else a
\* request of its owner or the repair of a starting worker supersedes it, each
\* having listed it as a duplicate, or the very pass that paused it fails it.
PausedWaitsForItsOwner ==
  [][\A i \in Rows : runs[i].status = "needs_user_action" =>
       \/ runs'[i].status = "needs_user_action"
       \/ /\ runs'[i].status = "superseded"
          /\ SupersededAsDuplicate(i) \/ (worker.phase = "repair" /\ i \in worker.ids)
       \/ /\ runs'[i].status = "failed"
          /\ worker.phase = "fail" /\ worker.run = i
          /\ worker.result \in {"needs_user_action", "none"}
       \/ /\ runs'[i].status = "queued"
          /\ \E r \in Requests : /\ requests[r].pc = "resume"
                               /\ requests[r].run = i
                               /\ requests[r].user = runs[i].userId
                               /\ requests'[r] # requests[r]]_vars

\* What the user has in hand, a filled form or a question, is left alone but
\* for these.
HandedBackRunsRest == FilledStaysOutOfTheQueue /\ PausedWaitsForItsOwner

\* A row only changes by a step of the worker or of a request of its owner:
\* the handlers of one account never write the runs of another.
RequestsTouchOwnRuns ==
  [][\A i \in Rows : runs'[i] # runs[i] =>
       \/ worker' # worker
       \/ \E r \in Requests : /\ requests[r].user = runs[i].userId
                            /\ requests'[r] # requests[r]]_vars

(* Properties that hold while an account sends one request at a time.        *)

\* An account has at most one request in flight: its clicks do not overlap.
OneRequestPerAccount ==
  \A r, s \in Requests :
    requests[r].pc # "idle" /\ requests[s].pc # "idle"
      /\ requests[r].user = requests[s].user => r = s

\* The duplicate guard: an owner has one active run per posting.
OneActiveRunPerOwnerAndJob ==
  \A i, k \in Rows :
    IsActive(i) /\ IsActive(k) /\ runs[i].userId = runs[k].userId
      /\ runs[i].jobId = runs[k].jobId => i = k

\* An active run always holds a key of its posting, its own or the bare one,
\* so that the unique index has something to refuse a duplicate with.
ActiveRunHoldsKey ==
  \A i \in Rows : IsActive(i) =>
    runs[i].activeKey \in {applicationActiveKey(runs[i].userId, runs[i].jobId),
                           bareKey(runs[i].jobId)}

\* The guard against duplicates holds and stays armed.
ActiveRunsAreGuarded == OneActiveRunPerOwnerAndJob /\ ActiveRunHoldsKey

\* A superseded row is history: nothing queues, runs or fills it again.
SupersededIsFinal ==
  [][\A i \in Rows : runs[i].status = "superseded" =>
       runs'[i].status = "superseded"]_vars

\* Duplicates that were there before the guard was: once the repair of the
\* starting worker has ended, an owner has one active run per posting, although
\* an enqueue request may have been repairing the same rows meanwhile.
RepairLeavesOneActive ==
  worker.phase \notin {"down", "read active", "repair"} => OneActiveRunPerOwnerAndJob

(* Liveness, under FairSpec.                                                 *)

HasStatus(i, status) == i \in Rows /\ runs[i].status = status

\* No run stays running for ever, whatever crashes and exceptions interrupt it,
\* unless the worker swallowed a failure after the claim.
RunningEnds ==
  \A i \in 1..MaxRuns :
    HasStatus(i, "running") ~> (~HasStatus(i, "running") \/ lost > 0)

\* Once users stop clicking, every queued run leaves the queue.  (While they
\* click, an old run that is paused and resumed for ever is always first.)
QueueDrains ==
  \A i \in 1..MaxRuns :
    <>[](\A r \in Requests : requests[r].pc = "idle") =>
      (HasStatus(i, "queued") ~> ~HasStatus(i, "queued"))

(* What documents and comments say of the program and the code does not do.  *)

\* scripts/application-worker.ts groups duplicates by posting although
\* queue.ts:111 repairs "duplicate active rows for THIS OWNER only": a run
\* should only be superseded in favour of another one of its owner.
SupersededForOwnRun ==
  [][\A i \in Rows :
       runs[i].status # "superseded" /\ runs'[i].status = "superseded" =>
         \E k \in Rows \ {i} : /\ runs[k].userId = runs[i].userId
                             /\ runs[k].jobId = runs[i].jobId]_vars

=============================================================================
