---------------------- MODULE ApplicationRunsGuardProofs ----------------------
(***************************************************************************)
(* What TLAPS proves of ApplicationRuns beyond types, attempts and orphans: *)
(* whose rows a step writes, what the worker holds in its hands, and, while *)
(* every account sends one request at a time, the duplicate guard.         *)
(***************************************************************************)
EXTENDS ApplicationRunsProofs, WellFoundedInduction

-----------------------------------------------------------------------------
(* What each kind of step does to the table and to the requests.             *)

LEMMA TableIsAFunction ==
  ASSUME TypeOK
  PROVE  DOMAIN runs = Rows /\ Rows \subseteq Nat \ {0} /\ Len(runs) \in Nat
BY LenProperties DEF TypeOK, Rows

\* A request writes its own slot and leaves the worker alone.
LEMMA RequestsKeepToThemselves ==
  ASSUME TypeOK, NEW r \in Requests, RequestStep(r)
  PROVE  /\ UNCHANGED worker
         /\ \A s \in Requests \ {r} : requests'[s] = requests[s]
BY DEF RequestStep, EnqueueReads, EnqueueSupersedes, EnqueueAdopts, EnqueueCreates,
       ResumeReads, RetryReads, ResumeQueues, RetryQueues, markApplying, TypeOK

\* The runs that stand in the way of another one.
ActiveRuns(u, j) == {i \in SameOwnerAndJob(u, j) : IsActive(i)}

\* What the reading step of an enqueue request has seen.
LEMMA EnqueueSees ==
  ASSUME TypeOK, NEW r \in Requests, NEW u \in Users, NEW j \in Jobs, EnqueueReads(r, u, j)
  PROVE  LET q == requests'[r]
             active == ActiveRuns(u, j)
         IN /\ UNCHANGED runs /\ requests[r].pc = "idle"
            /\ q.user = u /\ q.job = j
            /\ \/ q.pc = "create" /\ q.run = 0 /\ active = {}
               \/ /\ q.pc \in {"adopt", "supersede"}
                  /\ IsCanonical(q.run, active)
                  /\ q.duplicates = active \ {q.run}
                  /\ q.pc = "supersede" => active # {q.run}
<1> DEFINE active == ActiveRuns(u, j)
<1>1. UNCHANGED runs /\ requests[r].pc = "idle"
  BY DEF EnqueueReads
<1>2. \/ active = {} /\ requests' = [requests EXCEPT ![r] = At("create", u, j, 0)]
      \/ \E canonical \in active :
           /\ IsCanonical(canonical, active)
           /\ requests' = [requests EXCEPT ![r] =
                [At(IF active = {canonical} THEN "adopt" ELSE "supersede", u, j, canonical)
                   EXCEPT !.duplicates = active \ {canonical}]]
  BY DEF EnqueueReads, ActiveRuns
<1> HIDE DEF active
<1>3. CASE active = {} /\ requests' = [requests EXCEPT ![r] = At("create", u, j, 0)]
  <2>1. requests'[r] = At("create", u, j, 0)
    BY <1>3 DEF TypeOK
  <2>2. QED
    BY <1>1, <1>3, <2>1 DEF At, active
<1>4. ASSUME NEW canonical \in active, IsCanonical(canonical, active),
             requests' = [requests EXCEPT ![r] =
                [At(IF active = {canonical} THEN "adopt" ELSE "supersede", u, j, canonical)
                   EXCEPT !.duplicates = active \ {canonical}]]
      PROVE  /\ requests'[r].user = u /\ requests'[r].job = j
             /\ requests'[r].run = canonical
             /\ requests'[r].pc \in {"adopt", "supersede"}
             /\ requests'[r].pc = "supersede" => active # {canonical}
             /\ requests'[r].duplicates = active \ {canonical}
  <2>1. requests'[r] = [At(IF active = {canonical} THEN "adopt" ELSE "supersede", u, j, canonical)
                          EXCEPT !.duplicates = active \ {canonical}]
    BY <1>4 DEF TypeOK
  <2>2. QED
    BY <2>1 DEF At
<1>5. CASE \E canonical \in active :
           /\ IsCanonical(canonical, active)
           /\ requests' = [requests EXCEPT ![r] =
                [At(IF active = {canonical} THEN "adopt" ELSE "supersede", u, j, canonical)
                   EXCEPT !.duplicates = active \ {canonical}]]
  <2>1. /\ requests'[r].pc \in {"adopt", "supersede"}
        /\ IsCanonical(requests'[r].run, active)
        /\ requests'[r].duplicates = active \ {requests'[r].run}
        /\ requests'[r].pc = "supersede" => active # {requests'[r].run}
        /\ requests'[r].user = u /\ requests'[r].job = j
    BY <1>4, <1>5
  <2>2. QED
    BY <1>1, <2>1 DEF active
<1>6. QED
  BY <1>2, <1>3, <1>5

LEMMA ResumeSees ==
  ASSUME TypeOK, NEW r \in Requests, NEW i \in Rows, ResumeReads(r, i)
  PROVE  LET q == requests'[r]
         IN /\ UNCHANGED runs /\ requests[r].pc = "idle"
            /\ q.pc = "resume" /\ q.user = runs[i].userId /\ q.job = runs[i].jobId /\ q.run = i
BY DEF ResumeReads, At, TypeOK

LEMMA RetrySees ==
  ASSUME TypeOK, NEW r \in Requests, NEW i \in Rows, RetryReads(r, i)
  PROVE  LET q == requests'[r]
         IN /\ UNCHANGED runs /\ requests[r].pc = "idle"
            /\ q.pc = "retry" /\ q.user = runs[i].userId /\ q.job = runs[i].jobId /\ q.run = i
            /\ \A k \in SameOwnerAndJob(q.user, q.job) \ {i} : ~IsActive(k)
<1>1. requests'[r] = [At("retry", runs[i].userId, runs[i].jobId, i)
                        EXCEPT !.attempt = runs[i].attemptNumber]
  BY DEF RetryReads, TypeOK
<1>2. QED
  BY <1>1 DEF RetryReads, At

LEMMA EnqueueSupersedesWrites ==
  ASSUME TypeOK, NEW r \in Requests, EnqueueSupersedes(r)
  PROVE  LET q == requests[r]
         IN /\ Rows' = Rows
            /\ q.pc = "supersede" /\ requests'[r] = [q EXCEPT !.pc = "adopt"]
            /\ \A i \in Rows : runs'[i] =
                 IF i \in q.duplicates /\ runs[i].userId = q.user
                 THEN Superseded(runs[i]) ELSE runs[i]
<1>1. runs \in Seq(ApplicationRun)
  BY DEF TypeOK
<1>2. QED
  BY <1>1, SupersedeTable DEF EnqueueSupersedes, Rows, TypeOK

\* The row an adopt, a resume or a retry writes; a refused one ends the request.
LEMMA RequestWrites ==
  ASSUME TypeOK, NEW r \in Requests,
         EnqueueAdopts(r) \/ ResumeQueues(r) \/ RetryQueues(r)
  PROVE  LET q == requests[r]
             was == runs[q.run]
             row == runs'[q.run]
         IN /\ Rows' = Rows /\ q.run \in Rows
            /\ q.pc \in {"adopt", "resume", "retry"}
            /\ \/ runs' = runs /\ requests'[r] = NoRequest
               \/ /\ \A i \in Rows \ {q.run} : runs'[i] = runs[i]
                  /\ requests'[r] = [q EXCEPT !.pc = "mark"]
                  /\ row.jobId = was.jobId
                  /\ row.activeKey = applicationActiveKey(q.user, q.job)
                  /\ row.userId = IF q.pc = "adopt" THEN q.user ELSE was.userId
                  /\ row.status = IF q.pc = "adopt" THEN was.status ELSE "queued"
                  /\ q.pc # "retry" => row.stopped = was.stopped
                  /\ q.pc = "resume" => was.userId = q.user /\ was.status = "needs_user_action"
                  /\ q.pc = "retry" => was.userId = q.user /\ was.status = "failed"
<1> DEFINE q == requests[r]
           key == applicationActiveKey(q.user, q.job)
<1>1. /\ q.run \in Rows /\ runs[q.run] \in ApplicationRun /\ DOMAIN runs = Rows
      /\ q.pc \in {"adopt", "resume", "retry"}
  BY RowsAreTyped, TableIsAFunction
  DEF EnqueueAdopts, ResumeQueues, RetryQueues, TypeOK, RequestOK
<1>2. ASSUME NEW row, runs' = [runs EXCEPT ![q.run] = row],
             requests' = [requests EXCEPT ![r].pc = "mark"]
      PROVE  /\ Rows' = Rows /\ runs'[q.run] = row
             /\ \A i \in Rows \ {q.run} : runs'[i] = runs[i]
             /\ requests'[r] = [q EXCEPT !.pc = "mark"]
  <2>1. runs'[q.run] = row /\ \A i \in Rows \ {q.run} : runs'[i] = runs[i]
    BY <1>1, <1>2
  <2>2. Len(runs') = Len(runs)
    BY <1>2 DEF TypeOK
  <2>3. QED
    BY <1>2, <2>1, <2>2 DEF Rows, TypeOK
<1>3. CASE runs' = runs /\ requests' = [requests EXCEPT ![r] = NoRequest]
  BY <1>1, <1>3 DEF TypeOK, Rows
<1>4. CASE EnqueueAdopts(r) /\ ~(runs' = runs /\ requests' = [requests EXCEPT ![r] = NoRequest])
  <2> DEFINE row == [runs[q.run] EXCEPT !.userId = q.user, !.activeKey = key]
  <2>1. /\ runs' = [runs EXCEPT ![q.run] = row] /\ requests' = [requests EXCEPT ![r].pc = "mark"]
        /\ q.pc = "adopt"
    BY <1>4 DEF EnqueueAdopts
  <2>2. /\ row.jobId = runs[q.run].jobId /\ row.activeKey = key /\ row.userId = q.user
        /\ row.status = runs[q.run].status /\ row.stopped = runs[q.run].stopped
    BY <1>1 DEF ApplicationRun
  <2> HIDE DEF row
  <2>3. QED
    BY <1>1, <1>2, <2>1, <2>2
<1>5. CASE ResumeQueues(r) /\ ~(runs' = runs /\ requests' = [requests EXCEPT ![r] = NoRequest])
  <2> DEFINE row == [runs[q.run] EXCEPT !.activeKey = key, !.status = "queued"]
  <2>1. /\ runs' = [runs EXCEPT ![q.run] = row] /\ requests' = [requests EXCEPT ![r].pc = "mark"]
        /\ q.pc = "resume"
        /\ runs[q.run].userId = q.user /\ runs[q.run].status = "needs_user_action"
    BY <1>5 DEF ResumeQueues
  <2>2. /\ row.jobId = runs[q.run].jobId /\ row.activeKey = key
        /\ row.userId = runs[q.run].userId
        /\ row.status = "queued" /\ row.stopped = runs[q.run].stopped
    BY <1>1 DEF ApplicationRun
  <2> HIDE DEF row
  <2>3. QED
    BY <1>1, <1>2, <2>1, <2>2
<1>6. CASE RetryQueues(r) /\ ~(runs' = runs /\ requests' = [requests EXCEPT ![r] = NoRequest])
  <2> DEFINE row == [runs[q.run] EXCEPT !.activeKey = key, !.status = "queued",
                        !.attemptNumber = q.attempt + 1, !.stopped = FALSE]
  <2>1. /\ runs' = [runs EXCEPT ![q.run] = row] /\ requests' = [requests EXCEPT ![r].pc = "mark"]
        /\ q.pc = "retry"
        /\ runs[q.run].userId = q.user /\ runs[q.run].status = "failed"
    BY <1>6 DEF RetryQueues
  <2>2. /\ row.jobId = runs[q.run].jobId /\ row.activeKey = key
        /\ row.userId = runs[q.run].userId /\ row.status = "queued"
    BY <1>1 DEF ApplicationRun
  <2> HIDE DEF row
  <2>3. QED
    BY <1>1, <1>2, <2>1, <2>2
<1>7. QED
  BY <1>3, <1>4, <1>5, <1>6

\* The same, of any row: only the request's own row changes.
LEMMA RequestWritesItsRow ==
  ASSUME TypeOK, NEW r \in Requests, NEW i \in Rows',
         EnqueueAdopts(r) \/ ResumeQueues(r) \/ RetryQueues(r)
  PROVE  /\ i \in Rows /\ requests[r].run \in Rows
         /\ requests[r].pc \in {"adopt", "resume", "retry"}
         /\ \/ runs'[i] = runs[i]
            \/ /\ i = requests[r].run /\ runs'[i].jobId = runs[i].jobId
               /\ runs'[i].userId \in {requests[r].user, runs[i].userId}
               /\ runs'[i].activeKey =
                    applicationActiveKey(requests[r].user, requests[r].job)
<1> DEFINE q == requests[r]
           was == runs[q.run]
           new == runs'[q.run]
<1>1. /\ Rows' = Rows /\ q.run \in Rows
      /\ q.pc \in {"adopt", "resume", "retry"}
      /\ \/ runs' = runs
         \/ /\ \A k \in Rows \ {q.run} : runs'[k] = runs[k]
            /\ new.jobId = was.jobId
            /\ new.activeKey = applicationActiveKey(q.user, q.job)
            /\ new.userId = IF q.pc = "adopt" THEN q.user ELSE was.userId
  BY RequestWrites
<1> HIDE DEF q
<1>2. CASE runs' = runs
  BY <1>1, <1>2 DEF q
<1>3. CASE /\ \A k \in Rows \ {q.run} : runs'[k] = runs[k]
           /\ new.jobId = was.jobId
           /\ new.activeKey = applicationActiveKey(q.user, q.job)
           /\ new.userId = IF q.pc = "adopt" THEN q.user ELSE was.userId
  <2>1. new.userId \in {q.user, was.userId}
    BY <1>3
  <2>2. i \in Rows /\ (i # q.run => runs'[i] = runs[i])
    BY <1>1, <1>3
  <2>3. QED
    BY <1>1, <1>3, <2>1, <2>2 DEF q
<1>4. QED
  BY <1>1, <1>2, <1>3


LEMMA EnqueueCreatesWrites ==
  ASSUME TypeOK, NEW r \in Requests, EnqueueCreates(r)
  PROVE  LET q == requests[r]
             new == Len(runs) + 1
         IN /\ q.pc = "create"
            /\ \/ runs' = runs /\ Rows' = Rows /\ requests'[r] = NoRequest
               \/ /\ Rows' = Rows \cup {new} /\ new \notin Rows
                  /\ \A i \in Rows : runs'[i] = runs[i]
                  /\ runs'[new].userId = q.user /\ runs'[new].jobId = q.job
                  /\ runs'[new].status = "queued"
                  /\ runs'[new].activeKey = applicationActiveKey(q.user, q.job)
                  /\ requests'[r].pc = "mark"
<1> DEFINE q == requests[r]
           row == [userId |-> q.user, jobId |-> q.job, status |-> "queued",
                   activeKey |-> applicationActiveKey(q.user, q.job), stopped |-> FALSE,
                   attemptNumber |-> 1, failures |-> 0]
<1>1. CASE runs' = runs /\ requests' = [requests EXCEPT ![r] = NoRequest]
  BY <1>1 DEF EnqueueCreates, TypeOK, Rows
<1>2. CASE /\ runs' = Append(runs, row)
           /\ requests' = [requests EXCEPT ![r] = At("mark", q.user, q.job, Len(runs) + 1)]
  <2>1. row.userId = q.user /\ row.jobId = q.job /\ row.status = "queued"
        /\ row.activeKey = applicationActiveKey(q.user, q.job)
    OBVIOUS
  <2> HIDE DEF row
  <2>2. /\ Rows' = 1..(Len(runs) + 1) /\ Len(runs) \in Nat
        /\ \A i \in Rows : runs'[i] = runs[i]
        /\ runs'[Len(runs) + 1] = row
    BY <1>2, AppendProperties, RowsAreTyped DEF TypeOK, Rows
  <2>3. Rows' = Rows \cup {Len(runs) + 1} /\ Len(runs) + 1 \notin Rows
    BY <2>2 DEF Rows
  <2>4. requests'[r].pc = "mark"
    BY <1>2 DEF TypeOK, At
  <2>5. QED
    BY <2>1, <2>2, <2>3, <2>4 DEF EnqueueCreates
<1>3. QED
  BY <1>1, <1>2 DEF EnqueueCreates

LEMMA MarkWrites ==
  ASSUME TypeOK, NEW r \in Requests, markApplying(r)
  PROVE  UNCHANGED runs /\ requests'[r] = NoRequest
BY DEF markApplying, TypeOK

LEMMA WorkerWritesRow ==
  ASSUME TypeOK, NEW i \in Rows, NEW row, runs' = [runs EXCEPT ![i] = row]
  PROVE  /\ Rows' = Rows /\ runs'[i] = row
         /\ \A k \in Rows \ {i} : runs'[k] = runs[k]
<1>1. DOMAIN runs = Rows
  BY TableIsAFunction
<1>2. Len(runs') = Len(runs)
  BY DEF TypeOK
<1>3. QED
  BY <1>1, <1>2 DEF Rows

\* The steps of a processing pass: only the row it is about is written.
LEMMA ProcessingWrites ==
  ASSUME TypeOK, Processing
  PROVE  LET i == worker.run
             was == runs[i]
             row == runs'[i]
             Moves(from, to) == /\ worker.phase = from /\ worker'.phase = to
                                /\ worker'.run = i
         IN /\ UNCHANGED requests /\ Rows' = Rows /\ i \in Rows
            /\ worker.phase \in ClaimPhases
            /\ \A k \in Rows \ {i} : runs'[k] = runs[k]
            /\ row.userId = was.userId /\ row.jobId = was.jobId
            /\ \/ row = was /\ worker'.phase = "poll"
               \/ row = was /\ Moves("start", "preflight") /\ was.status = "running"
               \/ row = was /\ Moves("start", "requeue")
               \/ row = was /\ Moves("preflight", "fill")
               \/ row = was /\ (Moves("preflight", "fail") \/ Moves("fill", "fail"))
               \/ /\ Moves("claim", "start")
                  /\ was.status = "queued" /\ row.status = "running"
                  /\ row.activeKey = was.activeKey
               \/ /\ Moves("fill", "quarantined")
                  /\ row.status = "needs_user_action" /\ row.activeKey = was.activeKey
               \/ /\ Moves("fill", "report")
                  /\ row.status \in Results
                  /\ row.status = "needs_user_action" => row.activeKey = bareKey(row.jobId)
               \/ Moves("fail", "fail posting") /\ row.status = "failed"
               \/ /\ worker.phase = "requeue" /\ worker'.phase = "poll"
                  /\ was.status = "running" /\ row.status = "queued"
                  /\ row.activeKey = was.activeKey
<1> DEFINE i == worker.run
           was == runs[i]
<1>1. /\ worker.phase \in ClaimPhases /\ i \in Rows /\ UNCHANGED requests
  BY DEF Processing, claimRun, ProcessStarts, PreflightPasses, ProcessThrows, Quarantine,
         QuarantinePosting, RecordResult, Report, FailRun, FailPosting, Requeue,
         TypeOK, WorkerOK, ClaimPhases
<1>2. worker \in Worker /\ was \in ApplicationRun
  BY <1>1, RowsAreTyped DEF TypeOK
<1>3. CASE claimRun
  <2>1. CASE runs' = runs /\ worker' = WorkerAt("poll")
    <3>1. worker'.phase = "poll"
      BY <2>1 DEF WorkerAt, WorkerDown
    <3>2. QED
      BY <1>1, <2>1, <3>1 DEF Rows
  <2>2. CASE /\ was.status = "queued"
             /\ runs' = [runs EXCEPT ![i].status = "running"]
             /\ worker' = [worker EXCEPT !.phase = "start"]
    <3> DEFINE row == [runs[i] EXCEPT !.status = "running"]
    <3>1. /\ row.userId = was.userId /\ row.jobId = was.jobId /\ row.status = "running"
          /\ row.activeKey = was.activeKey
      BY <1>2 DEF ApplicationRun
    <3>2. runs' = [runs EXCEPT ![i] = row]
      BY <2>2
    <3> HIDE DEF row
    <3>3. Rows' = Rows /\ runs'[i] = row /\ \A k \in Rows \ {i} : runs'[k] = runs[k]
      BY <1>1, <3>2, WorkerWritesRow
    <3>4. worker.phase = "claim" /\ worker'.phase = "start" /\ worker'.run = i
      BY <1>2, <1>3, <2>2 DEF claimRun, Worker
    <3>5. QED
      BY <1>1, <2>2, <3>1, <3>3, <3>4
  <2>3. QED
    BY <1>3, <2>1, <2>2 DEF claimRun
<1>4. CASE ProcessStarts \/ PreflightPasses \/ ProcessThrows
  <2>1. /\ runs' = runs
        /\ worker'.run = i
        /\ \/ worker.phase = "start" /\ worker'.phase = "preflight" /\ was.status = "running"
           \/ worker.phase = "start" /\ worker'.phase = "requeue"
           \/ worker.phase = "preflight" /\ worker'.phase = "fill"
           \/ worker.phase \in {"preflight", "fill"} /\ worker'.phase = "fail"
    BY <1>2, <1>4 DEF ProcessStarts, PreflightPasses, ProcessThrows, Worker
  <2>2. Rows' = Rows
    BY <2>1 DEF Rows
  <2>3. QED
    BY <1>1, <2>1, <2>2
<1>5. CASE QuarantinePosting \/ Report \/ FailPosting
  <2>1. runs' = runs /\ worker'.phase = "poll"
    BY <1>5 DEF QuarantinePosting, Report, FailPosting, WorkerAt, WorkerDown
  <2>2. QED
    BY <1>1, <2>1 DEF Rows
<1>6. CASE Quarantine
  <2> DEFINE row == [runs[i] EXCEPT !.status = "needs_user_action", !.stopped = TRUE]
  <2>1. /\ row.userId = was.userId /\ row.jobId = was.jobId
        /\ row.status = "needs_user_action" /\ row.activeKey = was.activeKey
    BY <1>2 DEF ApplicationRun
  <2>2. runs' = [runs EXCEPT ![i] = row]
    BY <1>6 DEF Quarantine
  <2> HIDE DEF row
  <2>3. Rows' = Rows /\ runs'[i] = row /\ \A k \in Rows \ {i} : runs'[k] = runs[k]
    BY <1>1, <2>2, WorkerWritesRow
  <2>4. worker.phase = "fill" /\ worker'.phase = "quarantined" /\ worker'.run = i
    BY <1>2, <1>6 DEF Quarantine, Worker
  <2>5. QED
    BY <1>1, <2>1, <2>3, <2>4
<1>7. ASSUME NEW result \in Results, RecordResult(result)
      PROVE  /\ Rows' = Rows /\ worker.phase = "fill" /\ worker'.run = i
             /\ \A k \in Rows \ {i} : runs'[k] = runs[k]
             /\ \/ runs'[i] = was /\ worker'.phase = "fail"
                \/ /\ worker'.phase = "report" /\ runs'[i].status = result
                   /\ runs'[i].userId = was.userId /\ runs'[i].jobId = was.jobId
                   /\ result = "needs_user_action" =>
                        runs'[i].activeKey = bareKey(was.jobId)
  <2> DEFINE paused == result = "needs_user_action"
             key == IF paused THEN bareKey(runs[i].jobId) ELSE NoKey
             row == [runs[i] EXCEPT !.status = result, !.activeKey = key, !.stopped = paused,
                        !.failures = runs[i].failures + (IF result = "failed" THEN 1 ELSE 0)]
  <2>1. /\ row.userId = was.userId /\ row.jobId = was.jobId
        /\ row.status = result /\ row.activeKey = key
    BY <1>2 DEF ApplicationRun
  <2>2. \/ /\ runs' = [runs EXCEPT ![i] = row]
           /\ worker' = [worker EXCEPT !.phase = "report", !.result = result]
        \/ runs' = runs /\ worker' = [worker EXCEPT !.phase = "fail"]
    BY <1>7 DEF RecordResult
  <2>3. worker.phase = "fill"
    BY <1>7 DEF RecordResult
  <2> HIDE DEF row
  <2>4. CASE /\ runs' = [runs EXCEPT ![i] = row]
             /\ worker' = [worker EXCEPT !.phase = "report", !.result = result]
    <3>1. Rows' = Rows /\ runs'[i] = row /\ \A k \in Rows \ {i} : runs'[k] = runs[k]
      BY <1>1, <2>4, WorkerWritesRow
    <3>2. worker'.phase = "report" /\ worker'.run = i
      BY <1>2, <2>4 DEF Worker
    <3>3. QED
      BY <2>1, <2>3, <3>1, <3>2
  <2>5. CASE runs' = runs /\ worker' = [worker EXCEPT !.phase = "fail"]
    BY <1>2, <2>3, <2>5 DEF Worker, Rows
  <2>6. QED
    BY <2>2, <2>4, <2>5
<1>8. CASE \E result \in Results : RecordResult(result)
  <2>1. PICK result \in Results : RecordResult(result)
    BY <1>8
  <2>2. QED
    BY <1>1, <1>7, <2>1
<1>9. CASE FailRun
  <2> DEFINE row == [runs[i] EXCEPT !.status = "failed", !.activeKey = NoKey,
                                    !.failures = runs[i].failures + 1]
  <2>1. /\ row.userId = was.userId /\ row.jobId = was.jobId /\ row.status = "failed"
    BY <1>2 DEF ApplicationRun
  <2>2. runs' = [runs EXCEPT ![i] = row]
    BY <1>9 DEF FailRun
  <2> HIDE DEF row
  <2>3. Rows' = Rows /\ runs'[i] = row /\ \A k \in Rows \ {i} : runs'[k] = runs[k]
    BY <1>1, <2>2, WorkerWritesRow
  <2>4. worker.phase = "fail" /\ worker'.phase = "fail posting" /\ worker'.run = i
    BY <1>2, <1>9 DEF FailRun, Worker
  <2>5. QED
    BY <1>1, <2>1, <2>3, <2>4
<1>10. CASE Requeue
  <2>1. worker.phase = "requeue" /\ worker'.phase = "poll"
    BY <1>10 DEF Requeue, WorkerAt, WorkerDown
  <2>2. CASE runs' = runs
    BY <1>1, <2>1, <2>2 DEF Rows
  <2>3. CASE was.status = "running" /\ runs' # runs
    <3> DEFINE row == [runs[i] EXCEPT !.status = "queued"]
    <3>1. /\ row.userId = was.userId /\ row.jobId = was.jobId /\ row.status = "queued"
          /\ row.activeKey = was.activeKey
      BY <1>2 DEF ApplicationRun
    <3>2. runs' = [runs EXCEPT ![i] = row]
      BY <1>10, <2>3 DEF Requeue
    <3> HIDE DEF row
    <3>3. Rows' = Rows /\ runs'[i] = row /\ \A k \in Rows \ {i} : runs'[k] = runs[k]
      BY <1>1, <3>2, WorkerWritesRow
    <3>4. QED
      BY <1>1, <2>1, <2>3, <3>1, <3>3
  <2>4. QED
    BY <1>10, <2>2, <2>3 DEF Requeue
<1>11. QED
  BY <1>3, <1>4, <1>5, <1>6, <1>8, <1>9, <1>10 DEF Processing

LEMMA FaultsWriteNothing ==
  ASSUME TypeOK, WorkerFault
  PROVE  /\ UNCHANGED <<runs, requests>> /\ Rows' = Rows
         /\ \/ worker'.phase \in {"poll", "down"}
            \/ /\ worker'.run = worker.run
               /\ \/ worker.phase \in {"quarantined", "report"} /\ worker'.phase = "fail"
                  \/ worker.phase \in {"start", "fail", "fail posting"}
                       /\ worker'.phase = "requeue"
<1>1. UNCHANGED <<runs, requests>> /\ Rows' = Rows /\ worker \in Worker
  BY DEF WorkerFault, ClaimIsLost, WriteThrows, AuditThrows, RequeueIsLost, Crash, TypeOK, Rows
<1>2. CASE ClaimIsLost \/ RequeueIsLost \/ Crash
  <2>1. worker' = WorkerAt("poll") \/ worker' = WorkerDown
    BY <1>2 DEF ClaimIsLost, RequeueIsLost, Crash
  <2>2. WorkerAt("poll").phase = "poll"
    BY WorkerRecords DEF WorkerPhases
  <2>3. WorkerDown.phase = "down"
    BY DEF WorkerDown
  <2>4. QED
    BY <1>1, <2>1, <2>2, <2>3
<1>3. CASE WriteThrows
  BY <1>1, <1>3 DEF WriteThrows, Worker
<1>4. CASE AuditThrows
  BY <1>1, <1>4 DEF AuditThrows, Worker
<1>5. QED
  BY <1>2, <1>3, <1>4 DEF WorkerFault

\* Startup, as far as it writes nothing, and the poll.
LEMMA ReadsWriteNothing ==
  ASSUME WorkerStarts \/ RepairReads \/ RepairEnds \/ RecoverReads \/ nextQueuedRunId
  PROVE  /\ UNCHANGED <<runs, requests>> /\ Rows' = Rows
         /\ \/ worker.phase = "down" /\ worker'.phase = "read active"
            \/ worker.phase = "read active" /\ worker'.phase = "repair" /\ RepairReads
            \/ worker.phase = "repair" /\ worker'.phase = "read running" /\ worker.keep = {}
            \/ /\ worker.phase = "read running" /\ worker'.phase = "recover"
               /\ worker'.ids = {i \in Rows : runs[i].status = "running"}
            \/ worker.phase = "poll" /\ worker'.phase = "claim"
BY DEF WorkerStarts, RepairReads, RepairEnds, RecoverReads, nextQueuedRunId, WorkerAt,
       WorkerDown, Rows

LEMMA RecoveryWrites ==
  ASSUME TypeOK, recoverInterruptedRuns
  PROVE  /\ UNCHANGED requests /\ Rows' = Rows
         /\ worker.phase = "recover" /\ worker'.phase = "poll"
         /\ \A i \in Rows : /\ i \notin worker.ids => runs'[i] = runs[i]
                            /\ i \in worker.ids => runs'[i] = [runs[i] EXCEPT !.status = "queued"]
<1>1. DOMAIN runs' = Rows /\ DOMAIN runs' = 1..Len(runs')
  <2>1. TypeOK'
    BY RecoverInterruptedRunsTypeOK
  <2>2. QED
    BY <2>1, LenProperties DEF recoverInterruptedRuns, TypeOK
<1>2. QED
  BY <1>1 DEF recoverInterruptedRuns, WorkerAt, WorkerDown, Rows

LEMMA RepairWrites ==
  ASSUME TypeOK, NEW c \in worker.keep, Repair(c)
  PROVE  LET duplicates == {i \in worker.ids : runs[i].jobId = runs[c].jobId}
         IN /\ UNCHANGED requests /\ Rows' = Rows /\ c \in Rows /\ worker.phase = "repair"
            /\ \/ /\ worker'.phase = "repair" /\ worker'.keep = worker.keep
                  /\ worker'.ids = worker.ids \ duplicates
                  /\ \A i \in Rows : runs'[i] = IF i \in duplicates
                                                THEN Superseded(runs[i]) ELSE runs[i]
               \/ /\ duplicates = {}
                  /\ worker'.phase = "repair" /\ worker'.keep = worker.keep \ {c}
                  /\ worker'.ids = worker.ids
                  /\ \A i \in Rows \ {c} : runs'[i] = runs[i]
                  /\ runs'[c] = [runs[c] EXCEPT !.activeKey = bareKey(runs[c].jobId)]
               \/ duplicates = {} /\ worker'.phase = "down" /\ runs' = runs
<1> DEFINE duplicates == {i \in worker.ids : runs[i].jobId = runs[c].jobId}
<1>1. c \in Rows /\ worker.phase = "repair" /\ worker \in Worker /\ UNCHANGED requests
      /\ runs \in Seq(ApplicationRun)
  BY DEF Repair, TypeOK, WorkerOK
<1>2. CASE runs' = Supersede(duplicates, runs) /\ worker' = [worker EXCEPT !.ids = @ \ duplicates]
  <2> HIDE DEF duplicates
  <2>1. Rows' = Rows /\ \A i \in Rows : runs'[i] = IF i \in duplicates
                                                   THEN Superseded(runs[i]) ELSE runs[i]
    BY <1>1, <1>2, SupersedeTable DEF Rows
  <2>2. /\ worker'.phase = "repair" /\ worker'.keep = worker.keep
        /\ worker'.ids = worker.ids \ duplicates
    BY <1>1, <1>2 DEF Worker
  <2> USE DEF duplicates
  <2>3. QED
    BY <1>1, <2>1, <2>2
<1>3. CASE /\ duplicates = {}
           /\ runs' = [runs EXCEPT ![c].activeKey = bareKey(runs[c].jobId)]
           /\ worker' = [worker EXCEPT !.keep = @ \ {c}]
  <2> DEFINE row == [runs[c] EXCEPT !.activeKey = bareKey(runs[c].jobId)]
  <2>1. runs' = [runs EXCEPT ![c] = row]
    BY <1>3
  <2> HIDE DEF row
  <2>2. Rows' = Rows /\ runs'[c] = row /\ \A k \in Rows \ {c} : runs'[k] = runs[k]
    BY <1>1, <2>1, WorkerWritesRow
  <2>3. /\ worker'.phase = "repair" /\ worker'.keep = worker.keep \ {c}
        /\ worker'.ids = worker.ids
    BY <1>1, <1>3 DEF Worker
  <2>4. QED
    BY <1>1, <1>3, <2>2, <2>3 DEF row
<1>4. CASE duplicates = {} /\ runs' = runs /\ worker' = WorkerDown
  BY <1>1, <1>4 DEF WorkerDown, Rows
<1>5. QED
  BY <1>2, <1>3, <1>4 DEF Repair

-----------------------------------------------------------------------------
(* Owners.  The row a request remembers is one of its own, and stays so: no  *)
(* step of anybody gives a run to another account or posting.                *)

Owns(q) ==
  /\ q.pc \in {"supersede", "adopt", "resume", "retry"} =>
       q.run \in SameOwnerAndJob(q.user, q.job)
  /\ q.pc = "supersede" => q.duplicates \subseteq SameOwnerAndJob(q.user, q.job) \ {q.run}
RequestsOwn == \A r \in Requests : Owns(requests[r])

NoRowChangesHands ==
  /\ Rows \subseteq Rows'
  /\ \A i \in Rows : runs'[i].userId = runs[i].userId /\ runs'[i].jobId = runs[i].jobId

LEMMA SupersededFields ==
  ASSUME TypeOK, NEW i \in Rows
  PROVE  /\ Superseded(runs[i]).userId = runs[i].userId
         /\ Superseded(runs[i]).jobId = runs[i].jobId
         /\ Superseded(runs[i]).status = "superseded"
         /\ Superseded(runs[i]).stopped = runs[i].stopped
BY RowsAreTyped DEF Superseded, ApplicationRun

LEMMA WorkerChangesNoHands ==
  ASSUME TypeOK, WorkerStep \/ WorkerFault
  PROVE  NoRowChangesHands /\ UNCHANGED requests /\ Rows' = Rows
<1>1. \A i \in Rows : runs[i] \in ApplicationRun
  BY RowsAreTyped
<1>2. CASE WorkerFault
  BY <1>2, FaultsWriteNothing DEF NoRowChangesHands
<1>3. CASE WorkerStarts \/ RepairReads \/ RepairEnds \/ RecoverReads \/ nextQueuedRunId
  BY <1>3, ReadsWriteNothing DEF NoRowChangesHands
<1>4. CASE recoverInterruptedRuns
  BY <1>1, <1>4, RecoveryWrites DEF NoRowChangesHands, ApplicationRun
<1>5. ASSUME NEW c \in worker.keep, Repair(c)
      PROVE  NoRowChangesHands /\ UNCHANGED requests /\ Rows' = Rows
  <2>1. [runs[c] EXCEPT !.activeKey = bareKey(runs[c].jobId)].userId = runs[c].userId
        /\ [runs[c] EXCEPT !.activeKey = bareKey(runs[c].jobId)].jobId = runs[c].jobId
    BY <1>1, <1>5, RepairWrites DEF ApplicationRun
  <2>2. /\ UNCHANGED requests /\ Rows' = Rows
        /\ \A i \in Rows : \/ runs'[i] = runs[i] \/ runs'[i] = Superseded(runs[i])
                           \/ i = c /\ runs'[i] = [runs[c] EXCEPT !.activeKey = bareKey(runs[c].jobId)]
    BY <1>5, RepairWrites
  <2>3. QED
    BY <2>1, <2>2, SupersededFields DEF NoRowChangesHands
<1>6. CASE Processing
  BY <1>6, ProcessingWrites DEF NoRowChangesHands
<1>7. QED
  BY <1>2, <1>3, <1>4, <1>5, <1>6 DEF WorkerStep

LEMMA RequestsChangeNoHands ==
  ASSUME TypeOK, RequestsOwn, NEW r \in Requests, RequestStep(r)
  PROVE  NoRowChangesHands
<1>1. CASE UNCHANGED runs
  BY <1>1 DEF NoRowChangesHands, Rows
<1>2. CASE EnqueueSupersedes(r)
  BY <1>2, EnqueueSupersedesWrites, SupersededFields DEF NoRowChangesHands
<1>3. CASE EnqueueAdopts(r) \/ ResumeQueues(r) \/ RetryQueues(r)
  <2>1. /\ Rows' = Rows /\ requests[r].run \in Rows
        /\ requests[r].pc \in {"adopt", "resume", "retry"}
        /\ \A i \in Rows \ {requests[r].run} : runs'[i] = runs[i]
        /\ \/ runs'[requests[r].run] = runs[requests[r].run]
           \/ /\ runs'[requests[r].run].jobId = runs[requests[r].run].jobId
              /\ runs'[requests[r].run].userId \in {requests[r].user, runs[requests[r].run].userId}
    BY <1>3, RequestWrites
  <2>2. runs[requests[r].run].userId = requests[r].user
    BY <2>1 DEF RequestsOwn, Owns, SameOwnerAndJob
  <2>3. QED
    BY <2>1, <2>2 DEF NoRowChangesHands
<1>4. CASE EnqueueCreates(r)
  BY <1>4, EnqueueCreatesWrites DEF NoRowChangesHands
<1>5. QED
  BY <1>1, <1>2, <1>3, <1>4
  DEF RequestStep, EnqueueReads, ResumeReads, RetryReads, markApplying

\* A request that is not written keeps its rows.
LEMMA OwnsStays ==
  ASSUME NoRowChangesHands, NEW q, Owns(q)
  PROVE  Owns(q)'
BY DEF Owns, NoRowChangesHands, SameOwnerAndJob

LEMMA RequestStepOwns ==
  ASSUME TypeOK, RequestsOwn, NEW r \in Requests, RequestStep(r)
  PROVE  Owns(requests[r])'
<1> DEFINE q == requests[r]
<1>1. NoRowChangesHands
  BY RequestsChangeNoHands
<1>2. q \in Request /\ Owns(q)
  BY DEF TypeOK, RequestsOwn
<1>3. ASSUME NEW u \in Users, NEW j \in Jobs, EnqueueReads(r, u, j) PROVE Owns(requests[r])'
  BY <1>3, EnqueueSees DEF Owns, ActiveRuns, SameOwnerAndJob, IsCanonical, Rows
<1>4. ASSUME NEW i \in Rows, ResumeReads(r, i) \/ RetryReads(r, i) PROVE Owns(requests[r])'
  BY <1>4, ResumeSees, RetrySees DEF Owns, SameOwnerAndJob, Rows
<1>5. CASE EnqueueSupersedes(r)
  <2>1. /\ requests'[r].pc = "adopt" /\ requests'[r].run = q.run
        /\ requests'[r].user = q.user /\ requests'[r].job = q.job
    BY <1>2, <1>5, EnqueueSupersedesWrites DEF Request
  <2>2. q.pc = "supersede"
    BY <1>5 DEF EnqueueSupersedes
  <2>3. QED
    BY <1>1, <1>2, <2>1, <2>2 DEF Owns, NoRowChangesHands, SameOwnerAndJob
<1>6. ASSUME requests'[r].pc \in {"idle", "mark"} PROVE Owns(requests[r])'
  BY <1>6 DEF Owns
<1>7. CASE EnqueueAdopts(r) \/ ResumeQueues(r) \/ RetryQueues(r)
  <2>1. requests'[r] = NoRequest \/ requests'[r] = [q EXCEPT !.pc = "mark"]
    BY <1>7, RequestWrites
  <2>2. QED
    BY <1>2, <1>6, <2>1 DEF NoRequest, At, Request
<1>8. CASE EnqueueCreates(r)
  BY <1>6, <1>8, EnqueueCreatesWrites DEF NoRequest, At
<1>9. CASE markApplying(r)
  BY <1>6, <1>9, MarkWrites DEF NoRequest, At
<1>10. QED
  BY <1>3, <1>4, <1>5, <1>7, <1>8, <1>9 DEF RequestStep

LEMMA StepOwns ==
  ASSUME TypeOK, RequestsOwn, [Next]_vars
  PROVE  RequestsOwn' /\ NoRowChangesHands
<1>1. ASSUME NEW r \in Requests, RequestStep(r) PROVE RequestsOwn' /\ NoRowChangesHands
  <2>1. NoRowChangesHands
    BY <1>1, RequestsChangeNoHands
  <2>2. ASSUME NEW s \in Requests \ {r} PROVE Owns(requests[s])'
    <3>1. requests'[s] = requests[s]
      BY <1>1, RequestsKeepToThemselves
    <3>2. Owns(requests[s])
      BY DEF RequestsOwn
    <3>3. QED
      BY <2>1, <3>1, <3>2 DEF Owns, NoRowChangesHands, SameOwnerAndJob
  <2>3. QED
    BY <1>1, <2>1, <2>2, RequestStepOwns DEF RequestsOwn
<1>2. CASE WorkerStep \/ WorkerFault
  <2>1. NoRowChangesHands /\ UNCHANGED requests
    BY <1>2, WorkerChangesNoHands
  <2>2. QED
    BY <2>1 DEF RequestsOwn, Owns, NoRowChangesHands, SameOwnerAndJob
<1>3. CASE UNCHANGED vars
  BY <1>3 DEF vars, RequestsOwn, Owns, SameOwnerAndJob, NoRowChangesHands, Rows
<1>4. QED
  BY <1>1, <1>2, <1>3 DEF Next

LEMMA InitOwns == Init => RequestsOwn
BY DEF Init, RequestsOwn, Owns, NoRequest, At

\* RequestsTouchOwnRuns: whatever requests race, a row is written by the worker
\* or by a request of the account that owns it.
THEOREM RowsAreTheirOwners == Spec => RequestsTouchOwnRuns
<1> DEFINE Own == \A i \in Rows : runs'[i] # runs[i] =>
                    \/ worker' # worker
                    \/ \E r \in Requests : /\ requests[r].user = runs[i].userId
                                         /\ requests'[r] # requests[r]
<1>1. TypeOK /\ RequestsOwn /\ [Next]_vars => [Own]_vars
  <2> SUFFICES ASSUME TypeOK, RequestsOwn, Next PROVE Own
    BY DEF vars
  <2>1. ASSUME NEW r \in Requests, RequestStep(r), NEW i \in Rows, runs'[i] # runs[i]
        PROVE  requests[r].user = runs[i].userId /\ requests'[r] # requests[r]
    <3>1. requests[r] \in Request /\ Owns(requests[r])
      BY DEF TypeOK, RequestsOwn
    <3>2. CASE EnqueueSupersedes(r)
      <4>1. /\ requests'[r] = [requests[r] EXCEPT !.pc = "adopt"]
            /\ requests[r].pc = "supersede" /\ runs[i].userId = requests[r].user
        BY <2>1, <3>2, EnqueueSupersedesWrites
      <4>2. QED
        BY <3>1, <4>1 DEF Request
    <3>3. CASE EnqueueAdopts(r) \/ ResumeQueues(r) \/ RetryQueues(r)
      <4>1. /\ requests'[r] = [requests[r] EXCEPT !.pc = "mark"]
            /\ requests[r].pc \in {"adopt", "resume", "retry"} /\ requests[r].run = i
        BY <2>1, <3>3, RequestWrites
      <4>2. QED
        BY <3>1, <4>1 DEF Request, Owns, SameOwnerAndJob
    <3>4. CASE EnqueueCreates(r)
      BY <2>1, <3>4, EnqueueCreatesWrites
    <3>5. QED
      BY <2>1, <3>2, <3>3, <3>4
      DEF RequestStep, EnqueueReads, ResumeReads, RetryReads, markApplying
  <2>2. ASSUME WorkerStep \/ WorkerFault, NEW i \in Rows, runs'[i] # runs[i]
        PROVE  worker' # worker
    <3>1. CASE recoverInterruptedRuns
      BY <3>1, RecoveryWrites
    <3>2. CASE Processing
      BY <2>2, <3>2, ProcessingWrites
    <3>3. ASSUME NEW c \in worker.keep, Repair(c) PROVE worker' # worker
      <4> DEFINE duplicates == {k \in worker.ids : runs[k].jobId = runs[c].jobId}
      <4>1. \/ worker'.ids = worker.ids \ duplicates /\ i \in duplicates
            \/ worker'.keep = worker.keep \ {c}
        BY <2>2, <3>3, RepairWrites
      <4>2. QED
        BY <4>1
    <3>4. QED
      BY <2>2, <3>1, <3>2, <3>3, FaultsWriteNothing, ReadsWriteNothing DEF WorkerStep
  <2>3. QED
    BY <2>1, <2>2 DEF Next
<1>2. QED
  BY <1>1, InitOwns, StepOwns, TypeCorrect, PTL DEF Spec, RequestsTouchOwnRuns

-----------------------------------------------------------------------------
(* Statuses.  Who may change the status of a row, and from what to what.     *)

ResumedBy(r, i) ==
  /\ requests[r].pc = "resume" /\ requests[r].run = i /\ requests[r].user = runs[i].userId
  /\ requests'[r] # requests[r]
RetriedBy(r, i) ==
  requests[r].pc = "retry" /\ requests[r].run = i /\ requests[r].user = runs[i].userId

LEMMA RequestStatus ==
  ASSUME TypeOK, NEW r \in Requests, RequestStep(r), NEW i \in Rows
  PROVE  \/ runs'[i].status = runs[i].status
         \/ /\ requests[r].pc = "supersede" /\ i \in requests[r].duplicates
            /\ runs[i].userId = requests[r].user /\ runs'[i] = Superseded(runs[i])
            /\ requests'[r] # requests[r]
         \/ /\ runs[i].status = "needs_user_action" /\ runs'[i].status = "queued"
            /\ ResumedBy(r, i)
         \/ /\ runs[i].status = "failed" /\ runs'[i].status = "queued"
            /\ RetriedBy(r, i)
<1>1. CASE EnqueueSupersedes(r)
  <2>1. requests[r] \in Request
    BY DEF TypeOK
  <2>2. requests[r].pc = "supersede" => [requests[r] EXCEPT !.pc = "adopt"] # requests[r]
    BY <2>1 DEF Request
  <2>3. QED
    BY <1>1, <2>2, EnqueueSupersedesWrites
<1>2. CASE EnqueueAdopts(r) \/ ResumeQueues(r) \/ RetryQueues(r)
  <2> DEFINE q == requests[r]
  <2>1. /\ q.pc \in {"adopt", "resume", "retry"}
        /\ \/ runs' = runs
           \/ i # q.run /\ runs'[i] = runs[i]
           \/ /\ i = q.run /\ requests'[r] = [q EXCEPT !.pc = "mark"]
              /\ runs'[i].status = IF q.pc = "adopt" THEN runs[i].status ELSE "queued"
              /\ q.pc = "resume" => runs[i].userId = q.user /\ runs[i].status = "needs_user_action"
              /\ q.pc = "retry" => runs[i].userId = q.user /\ runs[i].status = "failed"
    BY <1>2, RequestWrites
  <2>2. q \in Request
    BY DEF TypeOK
  <2>3. q.pc = "resume" => [q EXCEPT !.pc = "mark"] # q
    BY <2>2 DEF Request
  <2>4. QED
    BY <2>1, <2>3 DEF ResumedBy, RetriedBy
<1>3. CASE EnqueueCreates(r)
  BY <1>3, EnqueueCreatesWrites
<1>4. QED
  BY <1>1, <1>2, <1>3 DEF RequestStep, EnqueueReads, ResumeReads, RetryReads, markApplying

LEMMA WorkerStatus ==
  ASSUME TypeOK, WorkerStep \/ WorkerFault, NEW i \in Rows
  PROVE  \/ runs'[i].status = runs[i].status
         \/ /\ worker.phase = "repair" /\ i \in worker.ids
            /\ runs'[i] = Superseded(runs[i])
         \/ worker.phase = "recover" /\ i \in worker.ids /\ runs'[i].status = "queued"
         \/ /\ worker.run = i
            /\ \/ /\ worker.phase = "claim"
                  /\ runs[i].status = "queued" /\ runs'[i].status = "running"
               \/ worker.phase = "fill" /\ runs'[i].status \in Results
               \/ worker.phase = "fail" /\ runs'[i].status = "failed"
               \/ /\ worker.phase = "requeue"
                  /\ runs[i].status = "running" /\ runs'[i].status = "queued"
<1>1. runs[i] \in ApplicationRun
  BY RowsAreTyped
<1>2. CASE recoverInterruptedRuns
  BY <1>1, <1>2, RecoveryWrites DEF ApplicationRun
<1>3. CASE Processing
  <2>1. CASE i = worker.run
    BY <1>3, <2>1, ProcessingWrites DEF Results
  <2>2. CASE i # worker.run
    BY <1>3, <2>2, ProcessingWrites
  <2>3. QED
    BY <2>1, <2>2
<1>4. ASSUME NEW c \in worker.keep, Repair(c)
      PROVE  \/ runs'[i].status = runs[i].status
             \/ /\ worker.phase = "repair" /\ i \in worker.ids
                /\ runs'[i] = Superseded(runs[i])
  <2>1. [runs[i] EXCEPT !.activeKey = bareKey(runs[i].jobId)].status = runs[i].status
    BY <1>1 DEF ApplicationRun
  <2>2. /\ worker.phase = "repair"
        /\ \/ runs'[i] = runs[i]
           \/ i \in worker.ids /\ runs'[i] = Superseded(runs[i])
           \/ runs'[i] = [runs[i] EXCEPT !.activeKey = bareKey(runs[i].jobId)]
    BY <1>4, RepairWrites
  <2>3. QED
    BY <2>1, <2>2
<1>5. QED
  BY <1>2, <1>3, <1>4, FaultsWriteNothing, ReadsWriteNothing DEF WorkerStep

\* How the worker gets into the phases in which it has a row or rows in hand.
LEMMA WorkerPhase ==
  ASSUME TypeOK, WorkerStep \/ WorkerFault
  PROVE  /\ worker'.phase = "recover" =>
              /\ worker'.ids = {i \in Rows : runs[i].status = "running"}
              /\ UNCHANGED runs /\ worker.phase = "read running"
         /\ worker'.phase \in ClaimPhases \ {"claim"} =>
              /\ worker'.run = worker.run /\ worker.run \in Rows
              /\ \/ /\ worker.phase = "claim" /\ worker'.phase = "start"
                    /\ runs[worker.run].status = "queued"
                    /\ runs'[worker.run].status = "running"
                 \/ /\ worker.phase = "start" /\ worker'.phase = "preflight"
                    /\ runs[worker.run].status = "running"
                    /\ runs'[worker.run] = runs[worker.run]
                 \/ /\ worker.phase = "preflight" /\ worker'.phase = "fill"
                    /\ runs'[worker.run] = runs[worker.run]
                 \/ /\ worker.phase \in ClaimPhases \ {"claim"}
                    /\ worker'.phase \notin {"start", "preflight", "fill"}
<1>1. CASE Processing
  BY <1>1, ProcessingWrites DEF ClaimPhases
<1>2. CASE WorkerFault
  BY <1>2, FaultsWriteNothing DEF ClaimPhases, TypeOK, WorkerOK
<1>3. CASE WorkerStarts \/ RepairReads \/ RepairEnds \/ RecoverReads \/ nextQueuedRunId
  BY <1>3, ReadsWriteNothing DEF ClaimPhases
<1>4. CASE recoverInterruptedRuns
  BY <1>4, RecoveryWrites DEF ClaimPhases
<1>5. ASSUME NEW c \in worker.keep, Repair(c) PROVE worker'.phase \in {"repair", "down"}
  BY <1>5, RepairWrites
<1>6. QED
  BY <1>1, <1>2, <1>3, <1>4, <1>5 DEF WorkerStep, ClaimPhases
HandedBack == {"filled", "needs_user_action"}

\* What the worker is about to fill or to recover has not been handed back.
WorkInHand ==
  /\ worker.phase = "recover" => \A i \in worker.ids : runs[i].status \notin HandedBack
  /\ worker.phase \in {"start", "preflight", "fill"} =>
       runs[worker.run].status \notin HandedBack

LEMMA StepInHand ==
  ASSUME TypeOK, WorkInHand, [Next]_vars
  PROVE  WorkInHand'
<1>1. ASSUME NEW r \in Requests, RequestStep(r) PROVE WorkInHand'
  <2>1. UNCHANGED worker
    BY <1>1, RequestsKeepToThemselves
  <2>2. \A i \in Rows : runs[i].status \notin HandedBack => runs'[i].status \notin HandedBack
    <3>1. \A i \in Rows : Superseded(runs[i]).status = "superseded"
      BY SupersededFields
    <3>2. QED
      BY <1>1, <3>1, RequestStatus DEF HandedBack
  <2>3. worker.ids \subseteq Rows /\ (worker.phase \in ClaimPhases => worker.run \in Rows)
    BY DEF TypeOK, WorkerOK
  <2>4. QED
    BY <2>1, <2>2, <2>3 DEF WorkInHand, ClaimPhases
<1>2. CASE WorkerStep \/ WorkerFault
  BY <1>2, WorkerPhase DEF WorkInHand, HandedBack, ClaimPhases
<1>3. CASE UNCHANGED vars
  BY <1>3 DEF vars, WorkInHand
<1>4. QED
  BY <1>1, <1>2, <1>3 DEF Next

\* The result the worker carries, from the pick of a row to its last write.
LEMMA WorkerResult ==
  ASSUME TypeOK, WorkerStep \/ WorkerFault
  PROVE  LET i == worker.run
         IN /\ worker'.phase = "claim" => worker'.result = "none"
            /\ worker'.phase \in {"start", "preflight", "fill"} =>
                 /\ worker.phase \in {"claim", "start", "preflight"}
                 /\ worker'.result = worker.result
            /\ worker'.phase = "quarantined" =>
                 /\ worker.phase = "fill" /\ worker'.result = worker.result
                 /\ worker'.run = i /\ runs'[i].status = "needs_user_action"
            /\ worker'.phase = "report" =>
                 worker'.run = i /\ runs'[i].status = worker'.result
            /\ worker'.phase = "fail" =>
                 /\ worker.phase \in {"preflight", "fill", "quarantined", "report"}
                 /\ worker'.result = worker.result
                 /\ worker'.run = i /\ runs' = runs
<1>1. worker \in Worker
  BY DEF TypeOK
<1>2. CASE WorkerStarts \/ RepairReads \/ RepairEnds \/ RecoverReads \/ nextQueuedRunId
  BY <1>2 DEF WorkerStarts, RepairReads, RepairEnds, RecoverReads, nextQueuedRunId,
              WorkerAt, WorkerDown
<1>3. CASE recoverInterruptedRuns
  BY <1>3, RecoveryWrites
<1>4. ASSUME NEW c \in worker.keep, Repair(c) PROVE worker'.phase \in {"repair", "down"}
  BY <1>4, RepairWrites
<1>5. CASE claimRun \/ ProcessStarts \/ PreflightPasses \/ ProcessThrows
  BY <1>1, <1>5 DEF claimRun, ProcessStarts, PreflightPasses, ProcessThrows, Worker,
                    WorkerAt, WorkerDown
<1>6. CASE Quarantine
  <2>1. worker.run \in Rows /\ runs[worker.run] \in ApplicationRun
    BY <1>6, RowsAreTyped DEF Quarantine, TypeOK, WorkerOK, ClaimPhases
  <2>2. runs'[worker.run].status = "needs_user_action"
    BY <1>6, <2>1, TableIsAFunction DEF Quarantine, ApplicationRun
  <2>3. QED
    BY <1>1, <1>6, <2>2 DEF Quarantine, Worker
<1>7. ASSUME NEW result \in Results, RecordResult(result)
      PROVE  \/ /\ worker'.phase = "report" /\ worker'.run = worker.run
                /\ runs'[worker.run].status = worker'.result
             \/ /\ worker.phase = "fill" /\ worker' = [worker EXCEPT !.phase = "fail"]
                /\ runs' = runs
  <2> DEFINE i == worker.run
             paused == result = "needs_user_action"
             key == IF paused THEN bareKey(runs[i].jobId) ELSE NoKey
             row == [runs[i] EXCEPT !.status = result, !.activeKey = key, !.stopped = paused,
                        !.failures = runs[i].failures + (IF result = "failed" THEN 1 ELSE 0)]
  <2>1. /\ worker.phase = "fill" /\ i \in Rows /\ runs[i] \in ApplicationRun
    BY <1>7, RowsAreTyped DEF RecordResult, TypeOK, WorkerOK, ClaimPhases
  <2>2. \/ /\ runs' = [runs EXCEPT ![i] = row]
           /\ worker' = [worker EXCEPT !.phase = "report", !.result = result]
        \/ runs' = runs /\ worker' = [worker EXCEPT !.phase = "fail"]
    BY <1>7 DEF RecordResult
  <2>3. row.status = result
    BY <2>1 DEF ApplicationRun
  <2> HIDE DEF row
  <2>4. CASE /\ runs' = [runs EXCEPT ![i] = row]
             /\ worker' = [worker EXCEPT !.phase = "report", !.result = result]
    <3>1. runs'[i] = row
      BY <2>1, <2>4, TableIsAFunction
    <3>2. worker'.phase = "report" /\ worker'.run = i /\ worker'.result = result
      BY <1>1, <2>4 DEF Worker
    <3>3. QED
      BY <2>3, <3>1, <3>2
  <2>5. QED
    BY <2>1, <2>2, <2>4
<1>8. CASE QuarantinePosting \/ Report \/ FailRun \/ FailPosting \/ Requeue
  BY <1>1, <1>8 DEF QuarantinePosting, Report, FailRun, FailPosting, Requeue, Worker,
                    WorkerAt, WorkerDown
<1>9. CASE WorkerFault
  <2>1. CASE ClaimIsLost \/ RequeueIsLost \/ Crash
    BY <2>1 DEF ClaimIsLost, RequeueIsLost, Crash, WorkerAt, WorkerDown
  <2>2. CASE WriteThrows
    BY <1>1, <2>2 DEF WriteThrows, Worker
  <2>3. CASE AuditThrows
    BY <1>1, <2>3 DEF AuditThrows, Worker
  <2>4. QED
    BY <1>9, <2>1, <2>2, <2>3 DEF WorkerFault
<1>10. QED
  <2>1. ASSUME NEW result \in Results, RecordResult(result)
        PROVE  /\ worker'.phase = "report" =>
                    worker'.run = worker.run /\ runs'[worker.run].status = worker'.result
               /\ worker'.phase = "fail" =>
                    /\ worker.phase = "fill" /\ worker'.result = worker.result
                    /\ worker'.run = worker.run /\ runs' = runs
               /\ worker'.phase \in {"report", "fail"}
    <3>1. CASE worker' = [worker EXCEPT !.phase = "fail"] /\ runs' = runs /\ worker.phase = "fill"
      <4>1. worker'.phase = "fail" /\ worker'.result = worker.result /\ worker'.run = worker.run
        BY <1>1, <3>1 DEF Worker
      <4>2. QED
        BY <3>1, <4>1
    <3>2. QED
      BY <1>7, <2>1, <3>1
  <2>2. CASE Processing
    BY <1>5, <1>6, <1>8, <2>1, <2>2 DEF Processing
  <2>3. QED
    BY <1>2, <1>3, <1>4, <1>9, <2>2 DEF WorkerStep

\* A row that was handed back while the worker still is at it carries the result
\* that this pass saved.
SavedByThePass ==
  /\ worker.phase \in {"claim", "start", "preflight", "fill", "quarantined"} =>
       worker.result = "none"
  /\ worker.phase \in {"quarantined", "report", "fail"} =>
       /\ runs[worker.run].status = "filled" => worker.result = "filled"
       /\ runs[worker.run].status = "needs_user_action" =>
            worker.result \in {"needs_user_action", "none"}

LEMMA StepSaved ==
  ASSUME TypeOK, WorkInHand, SavedByThePass, [Next]_vars
  PROVE  SavedByThePass'
<1>1. ASSUME NEW r \in Requests, RequestStep(r) PROVE SavedByThePass'
  <2>1. UNCHANGED worker
    BY <1>1, RequestsKeepToThemselves
  <2>2. \A i \in Rows : runs'[i].status \in HandedBack => runs'[i].status = runs[i].status
    <3>1. \A i \in Rows : Superseded(runs[i]).status = "superseded"
      BY SupersededFields
    <3>2. QED
      BY <1>1, <3>1, RequestStatus DEF HandedBack
  <2>3. worker.phase \in ClaimPhases => worker.run \in Rows
    BY DEF TypeOK, WorkerOK
  <2>4. QED
    BY <2>1, <2>2, <2>3 DEF SavedByThePass, ClaimPhases, HandedBack
<1>2. CASE WorkerStep \/ WorkerFault
  <2>1. worker.phase \in {"preflight", "fill"} => runs[worker.run].status \notin HandedBack
    BY DEF WorkInHand
  <2>2. QED
    BY <1>2, <2>1, WorkerResult DEF SavedByThePass, HandedBack
<1>3. CASE UNCHANGED vars
  BY <1>3 DEF vars, SavedByThePass
<1>4. QED
  BY <1>1, <1>2, <1>3 DEF Next

\* What the repair has on its list was active, and nobody fills it meanwhile.
OnlyActiveListed ==
  worker.phase = "repair" => \A i \in worker.ids : runs[i].status # "filled"

LEMMA InitListed == Init => OnlyActiveListed
BY DEF Init, OnlyActiveListed, WorkerDown

LEMMA StepListed ==
  ASSUME TypeOK, OnlyActiveListed, [Next]_vars
  PROVE  OnlyActiveListed'
<1>1. worker.ids \subseteq Rows /\ \A i \in Rows : Superseded(runs[i]).status = "superseded"
  BY SupersededFields DEF TypeOK, WorkerOK
<1>2. ASSUME NEW r \in Requests, RequestStep(r) PROVE OnlyActiveListed'
  <2>1. UNCHANGED worker
    BY <1>2, RequestsKeepToThemselves
  <2>2. \A i \in Rows : runs[i].status # "filled" => runs'[i].status # "filled"
    BY <1>1, <1>2, RequestStatus
  <2>3. QED
    BY <1>1, <2>1, <2>2 DEF OnlyActiveListed
<1>3. CASE RepairReads
  <2>1. /\ runs' = runs
        /\ \A i \in worker'.ids : i \in Rows /\ IsActive(i)
    BY <1>3 DEF RepairReads, WorkerAt, WorkerDown
  <2>2. QED
    BY <2>1 DEF OnlyActiveListed, IsActive, ACTIVE_APPLICATION_STATUSES
<1>4. ASSUME NEW c \in worker.keep, Repair(c) PROVE OnlyActiveListed'
  <2>1. worker.phase = "repair" /\ worker'.phase \in {"repair", "down"}
    BY <1>4, RepairWrites
  <2>2. worker'.phase = "repair" => worker'.ids \subseteq worker.ids
    BY <1>4, RepairWrites
  <2>3. \A i \in Rows : runs[i].status # "filled" => runs'[i].status # "filled"
    <3>1. WorkerStep
      BY <1>4 DEF WorkerStep
    <3>2. QED
      BY <1>1, <2>1, <3>1, WorkerStatus
  <2>4. QED
    BY <1>1, <2>1, <2>2, <2>3 DEF OnlyActiveListed
<1>5. CASE WorkerStarts \/ RepairEnds \/ RecoverReads \/ nextQueuedRunId
  BY <1>5 DEF WorkerStarts, RepairEnds, RecoverReads, nextQueuedRunId, WorkerAt, WorkerDown,
              OnlyActiveListed
<1>6. CASE Processing
  BY <1>6, ProcessingWrites DEF OnlyActiveListed, ClaimPhases
<1>7. CASE recoverInterruptedRuns
  BY <1>7, RecoveryWrites DEF OnlyActiveListed
<1>8. CASE WorkerFault
  BY <1>8, FaultsWriteNothing DEF OnlyActiveListed
<1>9. CASE UNCHANGED vars
  BY <1>9 DEF vars, OnlyActiveListed
<1>10. QED
  BY <1>2, <1>3, <1>4, <1>5, <1>6, <1>7, <1>8, <1>9 DEF Next, WorkerStep

\* HandedBackRunsRest: a filled form is superseded only by a request of its
\* owner that had listed it, and failed only by the catch of the pass that saved
\* it; an open question, besides, by the repair that listed it, and it is
\* resumed by its owner.
THEOREM HandedBackRest == Spec => HandedBackRunsRest
<1> DEFINE FilledRow(i) == runs[i].status = "filled" =>
             \/ runs'[i].status = "filled"
             \/ runs'[i].status = "superseded" /\ SupersededAsDuplicate(i)
             \/ /\ runs'[i].status = "failed"
                /\ worker.phase = "fail" /\ worker.run = i /\ worker.result = "filled"
           PausedRow(i) == runs[i].status = "needs_user_action" =>
             \/ runs'[i].status = "needs_user_action"
             \/ /\ runs'[i].status = "superseded"
                /\ SupersededAsDuplicate(i) \/ (worker.phase = "repair" /\ i \in worker.ids)
             \/ /\ runs'[i].status = "failed"
                /\ worker.phase = "fail" /\ worker.run = i
                /\ worker.result \in {"needs_user_action", "none"}
             \/ /\ runs'[i].status = "queued"
                /\ \E r \in Requests : /\ requests[r].pc = "resume"
                                     /\ requests[r].run = i
                                     /\ requests[r].user = runs[i].userId
                                     /\ requests'[r] # requests[r]
           Filled == \A i \in Rows : FilledRow(i)
           Paused == \A i \in Rows : PausedRow(i)
<1>1. Init => WorkInHand /\ SavedByThePass
  BY DEF Init, WorkInHand, SavedByThePass, WorkerDown
<1>2. TypeOK /\ WorkInHand /\ SavedByThePass /\ OnlyActiveListed /\ [Next]_vars
        => [Filled]_vars /\ [Paused]_vars
  <2> SUFFICES ASSUME TypeOK, WorkInHand, SavedByThePass, OnlyActiveListed, Next,
                      NEW i \in Rows
               PROVE  FilledRow(i) /\ PausedRow(i)
    BY DEF vars
  <2>1. Superseded(runs[i]).status = "superseded"
    BY SupersededFields
  <2>2. ASSUME NEW r \in Requests, RequestStep(r) PROVE FilledRow(i) /\ PausedRow(i)
    BY <2>1, <2>2, RequestStatus DEF SupersededAsDuplicate, ResumedBy
  <2>3. CASE WorkerStep \/ WorkerFault
    <3>1. worker.phase = "recover" /\ i \in worker.ids => runs[i].status \notin HandedBack
      BY DEF WorkInHand
    <3>2. worker.phase = "fill" /\ i = worker.run => runs[i].status \notin HandedBack
      BY DEF WorkInHand
    <3>3. worker.phase = "repair" /\ i \in worker.ids => runs[i].status # "filled"
      BY DEF OnlyActiveListed
    <3>4. worker.phase = "fail" /\ i = worker.run =>
            /\ runs[i].status = "filled" => worker.result = "filled"
            /\ runs[i].status = "needs_user_action" =>
                 worker.result \in {"needs_user_action", "none"}
      BY DEF SavedByThePass
    <3>5. QED
      BY <2>1, <2>3, <3>1, <3>2, <3>3, <3>4, WorkerStatus DEF HandedBack
  <2>4. QED
    BY <2>2, <2>3 DEF Next
<1>3. QED
  BY <1>1, <1>2, InitListed, StepInHand, StepSaved, StepListed, TypeCorrect, PTL
  DEF Spec, HandedBackRunsRest, FilledStaysOutOfTheQueue, PausedWaitsForItsOwner

-----------------------------------------------------------------------------
(* The duplicate guard, while an account sends one request at a time.  The   *)
(* guard lives in what the handlers have read: a request about to activate a *)
(* row has seen its mates inactive, a request about to supersede duplicates  *)
(* has them from before the worker's repair ended, the repair has every      *)
(* duplicate on its list, and the row the worker works on is running.        *)

Mates(i, k) == runs[i].userId = runs[k].userId /\ runs[i].jobId = runs[k].jobId

\* The worker has not finished the repair it starts with.
Early == worker.phase \in {"down", "read active", "repair"}

\* Of two rows, the one a repair would rather keep.
Better(c, d) ==
  \/ runs[c].stopped /\ ~runs[d].stopped
  \/ runs[c].stopped = runs[d].stopped /\ c < d

\* Who is about to activate a row has seen its mates inactive, and they still are.
ActivatesAlone(q) ==
  q.pc \in {"create", "retry"} =>
    \A k \in SameOwnerAndJob(q.user, q.job) : IsActive(k) => q.pc = "retry" /\ k = q.run

\* What is about to be superseded is so already, or is worse than the row to be kept.
PendingDuplicates(q) ==
  q.pc = "supersede" =>
    \A d \in q.duplicates :
      \/ runs[d].status = "superseded"
      \/ IsActive(d) /\ Early /\ IsActive(q.run) /\ Better(q.run, d)

\* The rows in the worker's hands run.
HoldsRunning ==
  /\ worker.phase = "recover" => \A i \in worker.ids : runs[i].status = "running"
  /\ worker.phase \in {"start", "preflight", "fill"} => runs[worker.run].status = "running"
  /\ worker.phase \in ClaimPhases \ {"claim"} => runs[worker.run].status # "superseded"

\* The worse of two active mates is on the list of the repair.
RepairPlan ==
  worker.phase = "repair" =>
    /\ \A i \in worker.ids : \E c \in worker.keep : runs[c].jobId = runs[i].jobId
    /\ \A i, k \in Rows :
         IsActive(i) /\ IsActive(k) /\ Mates(i, k) /\ Better(i, k) => k \in worker.ids

GuardInv ==
  /\ \A r \in Requests : ActivatesAlone(requests[r]) /\ PendingDuplicates(requests[r])
  /\ HoldsRunning
  /\ RepairPlan
  /\ RepairLeavesOneActive

-----------------------------------------------------------------------------
\* Of two rows one is the better one, and never both are.
LEMMA BetterIsAnOrder ==
  ASSUME TypeOK, NEW i \in Rows, NEW k \in Rows
  PROVE  /\ ~(Better(i, k) /\ Better(k, i))
         /\ i # k => Better(i, k) \/ Better(k, i)
<1>1. runs[i].stopped \in BOOLEAN /\ runs[k].stopped \in BOOLEAN
  BY RowsAreTyped DEF ApplicationRun
<1>2. i \in Nat /\ k \in Nat
  BY TableIsAFunction
<1>3. QED
  BY <1>1, <1>2 DEF Better

LEMMA SmallestOfSome ==
  ASSUME NEW S \in SUBSET Nat, S # {}
  PROVE  \E n \in S : \A m \in S : n <= m
<1>1. PICK n \in S : \A m \in S : ~(<<m, n>> \in OpToRel(<, Nat))
  BY WFMin, NatLessThanWellFounded, Zenon
<1>2. \A m \in S : n <= m
  <2> TAKE m \in S
  <2>1. n \in Nat /\ m \in Nat
    OBVIOUS
  <2>2. m < n => <<m, n>> \in OpToRel(<, Nat)
    BY <2>1, Zenon DEF OpToRel
  <2>3. ~(m < n)
    BY <1>1, <2>2, Zenon
  <2>4. QED
    BY <2>1, <2>3
<1>3. QED
  BY <1>2

\* IsCanonical chooses: every group of rows has one that is better than the rest.
LEMMA GroupHasCanonical ==
  ASSUME TypeOK, NEW group \in SUBSET Rows, group # {}
  PROVE  \E c \in group : IsCanonical(c, group)
<1> DEFINE paused == {i \in group : runs[i].stopped}
<1>1. \A i \in group : runs[i].stopped \in BOOLEAN
  BY RowsAreTyped DEF ApplicationRun
<1>2. group \subseteq Nat /\ paused \subseteq Nat
  BY TableIsAFunction
<1>3. CASE paused # {}
  <2>1. PICK c \in paused : \A m \in paused : c <= m
    BY <1>2, <1>3, SmallestOfSome
  <2>2. \A k \in group \ {c} : \/ runs[c].stopped /\ ~runs[k].stopped
                               \/ runs[c].stopped = runs[k].stopped /\ c < k
    BY <1>1, <1>2, <2>1
  <2>3. QED
    BY <2>1, <2>2 DEF IsCanonical
<1>4. CASE paused = {}
  <2>1. PICK c \in group : \A m \in group : c <= m
    BY <1>2, SmallestOfSome
  <2>2. \A k \in group \ {c} : runs[c].stopped = runs[k].stopped /\ c < k
    BY <1>1, <1>2, <1>4, <2>1
  <2>3. QED
    BY <2>1, <2>2 DEF IsCanonical
<1>5. QED
  BY <1>3, <1>4

-----------------------------------------------------------------------------
(* Which rows a request can disturb.                                         *)

LEMMA RequestWritesOwn ==
  ASSUME TypeOK, RequestsOwn, NEW r \in Requests, RequestStep(r),
         NEW i \in Rows', i \notin Rows \/ runs'[i] # runs[i]
  PROVE  requests[r].pc # "idle" /\ runs'[i].userId = requests[r].user
<1>1. Owns(requests[r])
  BY DEF RequestsOwn
<1>2. CASE EnqueueSupersedes(r)
  <2>1. /\ requests[r].pc = "supersede" /\ i \in Rows
        /\ runs'[i] = Superseded(runs[i]) /\ runs[i].userId = requests[r].user
    BY <1>2, EnqueueSupersedesWrites
  <2>2. QED
    BY <2>1, SupersededFields
<1>3. CASE EnqueueAdopts(r) \/ ResumeQueues(r) \/ RetryQueues(r)
  <2>1. /\ i = requests[r].run /\ i \in Rows
        /\ requests[r].pc \in {"adopt", "resume", "retry"}
        /\ runs'[i].userId \in {requests[r].user, runs[i].userId}
    BY <1>3, RequestWritesItsRow
  <2>2. QED
    BY <1>1, <2>1 DEF Owns, SameOwnerAndJob
<1>4. CASE EnqueueCreates(r)
  BY <1>4, EnqueueCreatesWrites
<1>5. CASE UNCHANGED runs
  BY <1>5 DEF Rows
<1>6. QED
  BY <1>2, <1>3, <1>4, <1>5 DEF RequestStep, EnqueueReads, ResumeReads, RetryReads, markApplying

\* The rows of an account with a request in flight rest while others write.
LEMMA OthersRowsRest ==
  ASSUME TypeOK, RequestsOwn, OneRequestPerAccount,
         NEW r \in Requests, RequestStep(r),
         NEW s \in Requests \ {r}, requests[s].pc # "idle",
         NEW i \in Rows', runs'[i].userId = requests[s].user
  PROVE  i \in Rows /\ runs'[i] = runs[i]
BY RequestWritesOwn DEF OneRequestPerAccount

\* A row that a request activates is the only active one of its owner and job.
LEMMA ActivatedAlone ==
  ASSUME TypeOK, RequestsOwn, NEW r \in Requests, ActivatesAlone(requests[r]), RequestStep(r),
         NEW i \in Rows', IsActive(i)', ~(i \in Rows /\ IsActive(i))
  PROVE  \A k \in Rows' : k # i /\ Mates(i, k)' => k \in Rows /\ runs'[k] = runs[k] /\ ~IsActive(k)
<1> DEFINE q == requests[r]
<1>1. Owns(q)
  BY DEF RequestsOwn
<1>2. CASE i \in Rows
  <2>1. /\ q.pc = "retry" /\ q.run = i /\ q.user = runs[i].userId
    BY <1>2, SupersededFields, RequestStatus DEF RetriedBy, IsActive, ACTIVE_APPLICATION_STATUSES
  <2>2. q.job = runs[i].jobId
    BY <1>1, <2>1 DEF Owns, SameOwnerAndJob
  <2>3. RetryQueues(r)
    BY <1>2, <2>1 DEF RequestStep, EnqueueReads, EnqueueSupersedes, EnqueueAdopts,
      EnqueueCreates, ResumeReads, RetryReads, ResumeQueues, markApplying
  <2>4. Rows' = Rows /\ \A k \in Rows \ {i} : runs'[k] = runs[k]
    BY <2>1, <2>3, RequestWrites DEF Rows
  <2>5. runs'[i].userId = runs[i].userId /\ runs'[i].jobId = runs[i].jobId
    BY <1>2, RequestsChangeNoHands DEF NoRowChangesHands
  <2>6. QED
    BY <2>1, <2>2, <2>4, <2>5 DEF ActivatesAlone, Mates, SameOwnerAndJob
<1>3. CASE i \notin Rows
  <2>1. EnqueueCreates(r)
    <3>1. CASE EnqueueSupersedes(r)
      BY <1>3, <3>1, EnqueueSupersedesWrites
    <3>2. CASE EnqueueAdopts(r) \/ ResumeQueues(r) \/ RetryQueues(r)
      BY <1>3, <3>2, RequestWrites
    <3>3. CASE UNCHANGED runs
      BY <1>3, <3>3 DEF Rows
    <3>4. QED
      BY <3>1, <3>2, <3>3
      DEF RequestStep, EnqueueReads, ResumeReads, RetryReads, markApplying
  <2>2. /\ q.pc = "create" /\ Rows' \subseteq Rows \cup {i}
        /\ \A k \in Rows : runs'[k] = runs[k]
        /\ runs'[i].userId = q.user /\ runs'[i].jobId = q.job
    BY <1>3, <2>1, EnqueueCreatesWrites
  <2>3. QED
    BY <2>2 DEF ActivatesAlone, Mates, SameOwnerAndJob
<1>4. QED
  BY <1>2, <1>3

LEMMA StoppedStays ==
  ASSUME TypeOK, NEW r \in Requests, RequestStep(r), NEW i \in Rows, IsActive(i)
  PROVE  runs'[i].stopped = runs[i].stopped
<1>1. CASE EnqueueSupersedes(r)
  BY <1>1, EnqueueSupersedesWrites, SupersededFields
<1>2. CASE EnqueueAdopts(r) \/ ResumeQueues(r) \/ RetryQueues(r)
  BY <1>2, RequestWrites DEF IsActive, ACTIVE_APPLICATION_STATUSES
<1>3. CASE EnqueueCreates(r)
  BY <1>3, EnqueueCreatesWrites
<1>4. QED
  BY <1>1, <1>2, <1>3 DEF RequestStep, EnqueueReads, ResumeReads, RetryReads, markApplying

\* The worker activates no row: what it queues, runs or pauses was running.
LEMMA WorkerActivatesNothing ==
  ASSUME TypeOK, HoldsRunning, WorkerStep \/ WorkerFault, NEW i \in Rows, IsActive(i)'
  PROVE  IsActive(i)
<1>1. worker.phase = "recover" /\ i \in worker.ids => runs[i].status = "running"
  BY DEF HoldsRunning
<1>2. worker.phase = "fill" /\ i = worker.run => runs[i].status = "running"
  BY DEF HoldsRunning
<1>3. QED
  BY <1>1, <1>2, WorkerStatus, SupersededFields DEF IsActive, ACTIVE_APPLICATION_STATUSES

\* ... and revives none that was superseded.
LEMMA SupersededStays ==
  ASSUME TypeOK, HoldsRunning, Next, NEW i \in Rows, runs[i].status = "superseded"
  PROVE  runs'[i].status = "superseded"
<1>1. ASSUME NEW r \in Requests, RequestStep(r) PROVE runs'[i].status = "superseded"
  BY <1>1, RequestStatus, SupersededFields
<1>2. CASE WorkerStep \/ WorkerFault
  <2>1. worker.phase = "recover" /\ i \in worker.ids => runs[i].status = "running"
    BY DEF HoldsRunning
  <2>2. worker.phase \in ClaimPhases \ {"claim"} /\ i = worker.run =>
          runs[i].status # "superseded"
    BY DEF HoldsRunning
  <2>3. QED
    BY <1>2, <2>1, <2>2, WorkerStatus, SupersededFields DEF ClaimPhases
<1>3. QED
  BY <1>1, <1>2 DEF Next

-----------------------------------------------------------------------------
(* GuardInv is inductive while an account sends one request at a time.       *)

LEMMA InitGuard == Init => GuardInv
BY DEF Init, GuardInv, ActivatesAlone, PendingDuplicates, HoldsRunning, RepairPlan,
       RepairLeavesOneActive, NoRequest, At, WorkerDown, ClaimPhases

\* A request in flight keeps what it has seen while another one takes a step.
LEMMA OthersAreKept ==
  ASSUME TypeOK, RequestsOwn, OneRequestPerAccount,
         NEW r \in Requests, RequestStep(r), NEW s \in Requests \ {r},
         ActivatesAlone(requests[s]), PendingDuplicates(requests[s])
  PROVE  ActivatesAlone(requests[s])' /\ PendingDuplicates(requests[s])'
<1> DEFINE q == requests[s]
<1>1. requests'[s] = q /\ UNCHANGED worker /\ NoRowChangesHands /\ Owns(q) /\ q \in Request
  BY RequestsKeepToThemselves, RequestsChangeNoHands DEF RequestsOwn, TypeOK
<1>2. q.pc # "idle" => \A i \in Rows' : runs'[i].userId = q.user => i \in Rows /\ runs'[i] = runs[i]
  BY OthersRowsRest
<1>3. ActivatesAlone(requests[s])'
  BY <1>1, <1>2 DEF ActivatesAlone, SameOwnerAndJob, IsActive
<1>4. ASSUME q.pc = "supersede"
      PROVE  \A i \in q.duplicates \cup {q.run} : runs'[i] = runs[i]
  <2>1. q.duplicates \cup {q.run} \subseteq SameOwnerAndJob(q.user, q.job)
    BY <1>1, <1>4 DEF Owns
  <2>2. \A i \in SameOwnerAndJob(q.user, q.job) : i \in Rows' /\ runs'[i].userId = q.user
    BY <1>1 DEF NoRowChangesHands, SameOwnerAndJob
  <2>3. QED
    BY <1>2, <1>4, <2>1, <2>2
<1>5. PendingDuplicates(requests[s])'
  <2> SUFFICES ASSUME q.pc = "supersede", NEW d \in q.duplicates
               PROVE  \/ runs'[d].status = "superseded"
                      \/ IsActive(d)' /\ Early' /\ IsActive(q.run)' /\ Better(q.run, d)'
    BY <1>1 DEF PendingDuplicates
  <2>1. \/ runs[d].status = "superseded"
        \/ IsActive(d) /\ Early /\ IsActive(q.run) /\ Better(q.run, d)
    BY DEF PendingDuplicates
  <2>2. runs'[d] = runs[d] /\ runs'[q.run] = runs[q.run] /\ worker' = worker
    BY <1>1, <1>4
  <2>3. CASE runs[d].status = "superseded"
    BY <2>2, <2>3
  <2>4. CASE IsActive(d) /\ Early /\ IsActive(q.run) /\ Better(q.run, d)
    <3>1. IsActive(d)' /\ Early' /\ IsActive(q.run)'
      BY <1>1, <2>2, <2>4 DEF IsActive, Early
    <3>2. Better(q.run, d)'
      BY <1>1, <2>2, <2>4 DEF Better
    <3>3. QED
      BY <3>1, <3>2
  <2>5. QED
    BY <2>1, <2>3, <2>4
<1>6. QED
  BY <1>3, <1>5

\* What a request has read holds when it is the next to step.
LEMMA RequestKnows ==
  ASSUME TypeOK, RequestsOwn, GuardInv, NEW r \in Requests, RequestStep(r)
  PROVE  ActivatesAlone(requests[r])' /\ PendingDuplicates(requests[r])'
<1> DEFINE q == requests[r]
<1>1. ASSUME requests'[r].pc \notin {"create", "retry", "supersede"}
      PROVE  ActivatesAlone(requests[r])' /\ PendingDuplicates(requests[r])'
  BY <1>1 DEF ActivatesAlone, PendingDuplicates
<1>2. ASSUME NEW u \in Users, NEW j \in Jobs, EnqueueReads(r, u, j)
      PROVE  ActivatesAlone(requests[r])' /\ PendingDuplicates(requests[r])'
  <2> DEFINE p == requests'[r]
             active == ActiveRuns(u, j)
  <2>1. /\ UNCHANGED runs /\ UNCHANGED worker /\ p.user = u /\ p.job = j
        /\ \/ p.pc = "create" /\ active = {}
           \/ /\ p.pc \in {"adopt", "supersede"}
              /\ IsCanonical(p.run, active)
              /\ p.duplicates = active \ {p.run}
              /\ p.pc = "supersede" => active # {p.run}
    <3>1. UNCHANGED worker
      BY <1>2 DEF EnqueueReads
    <3>2. QED
      BY <1>2, <3>1, EnqueueSees
  <2>2. CASE p.pc = "create"
    BY <2>1, <2>2 DEF ActivatesAlone, PendingDuplicates, ActiveRuns, SameOwnerAndJob, IsActive, Rows
  <2>3. CASE p.pc = "supersede"
    <3>1. PICK d \in active : d # p.run
      BY <2>1, <2>3 DEF IsCanonical
    <3>2. p.run \in active
      BY <2>1, <2>3 DEF IsCanonical
    <3>3. ~OneActiveRunPerOwnerAndJob
      BY <3>1, <3>2 DEF OneActiveRunPerOwnerAndJob, ActiveRuns, SameOwnerAndJob
    <3>4. Early
      BY <3>3 DEF GuardInv, RepairLeavesOneActive, Early
    <3>5. \A k \in active \ {p.run} : IsActive(k) /\ Better(p.run, k) /\ IsActive(p.run)
      BY <2>1, <2>3, <3>2 DEF IsCanonical, Better, ActiveRuns
    <3>6. QED
      BY <2>1, <2>3, <3>4, <3>5
      DEF ActivatesAlone, PendingDuplicates, IsActive, Early, Better
  <2>4. QED
    BY <1>1, <2>1, <2>2, <2>3
<1>3. ASSUME NEW i \in Rows, ResumeReads(r, i)
      PROVE  requests'[r].pc \notin {"create", "retry", "supersede"}
  BY <1>3, ResumeSees
<1>4. ASSUME NEW i \in Rows, RetryReads(r, i)
      PROVE  ActivatesAlone(requests[r])' /\ PendingDuplicates(requests[r])'
  BY <1>4, RetrySees DEF ActivatesAlone, PendingDuplicates, SameOwnerAndJob, IsActive, Rows
<1>5. CASE EnqueueSupersedes(r)
  <2>1. requests'[r] = [q EXCEPT !.pc = "adopt"] /\ q \in Request
    BY <1>5, EnqueueSupersedesWrites DEF TypeOK
  <2>2. requests'[r].pc = "adopt"
    BY <2>1 DEF Request
  <2>3. QED
    BY <1>1, <2>2
<1>6. CASE EnqueueAdopts(r) \/ ResumeQueues(r) \/ RetryQueues(r)
  <2>1. (requests'[r] = NoRequest \/ requests'[r] = [q EXCEPT !.pc = "mark"]) /\ q \in Request
    BY <1>6, RequestWrites DEF TypeOK
  <2>2. requests'[r].pc \in {"idle", "mark"}
    BY <2>1 DEF Request, NoRequest, At
  <2>3. QED
    BY <1>1, <2>2
<1>7. CASE EnqueueCreates(r)
  BY <1>1, <1>7, EnqueueCreatesWrites DEF NoRequest, At
<1>8. CASE markApplying(r)
  BY <1>1, <1>8, MarkWrites DEF NoRequest, At
<1>9. QED
  BY <1>1, <1>2, <1>3, <1>4, <1>5, <1>6, <1>7, <1>8 DEF RequestStep

\* A request only supersedes a row that still is a duplicate, during startup.
LEMMA RequestKeepsRunning ==
  ASSUME TypeOK, RequestsOwn, GuardInv, NEW r \in Requests, RequestStep(r), ~Early,
         NEW i \in Rows
  PROVE  /\ runs[i].status = "running" => runs'[i].status = "running"
         /\ runs[i].status # "superseded" => runs'[i].status # "superseded"
<1>1. PendingDuplicates(requests[r])
  BY DEF GuardInv
<1>2. requests[r].pc = "supersede" /\ i \in requests[r].duplicates => runs[i].status = "superseded"
  BY <1>1 DEF PendingDuplicates
<1>3. QED
  BY <1>2, RequestStatus, SupersededFields

\* The plan of the repair stays complete while requests are handled.
LEMMA RequestKeepsPlan ==
  ASSUME TypeOK, RequestsOwn, GuardInv, NEW r \in Requests, RequestStep(r)
  PROVE  RepairPlan'
<1> SUFFICES ASSUME worker.phase = "repair" PROVE RepairPlan'
  BY RequestsKeepToThemselves DEF RepairPlan
<1>1. UNCHANGED worker /\ NoRowChangesHands
  BY RequestsKeepToThemselves, RequestsChangeNoHands
<1>2. worker.ids \subseteq Rows /\ worker.keep \subseteq Rows
  BY DEF TypeOK, WorkerOK
<1>3. \A i \in worker.ids : \E c \in worker.keep : runs'[c].jobId = runs'[i].jobId
  BY <1>1, <1>2 DEF GuardInv, RepairPlan, NoRowChangesHands
<1>4. ASSUME NEW i \in Rows', NEW k \in Rows',
             IsActive(i)', IsActive(k)', Mates(i, k)', Better(i, k)'
      PROVE  k \in worker.ids
  <2>1. ActivatesAlone(requests[r])
    BY DEF GuardInv
  <2>2. TypeOK'
    BY StepTypeOK DEF Next
  <2>3. i # k
    BY <1>4, <2>2, BetterIsAnOrder DEF Better, Rows
  <2>4. i \in Rows /\ IsActive(i)
    BY <1>4, <2>1, <2>3, ActivatedAlone DEF Mates, IsActive
  <2>5. k \in Rows /\ IsActive(k)
    BY <1>4, <2>1, <2>3, ActivatedAlone DEF Mates, IsActive
  <2>6. runs'[i].stopped = runs[i].stopped /\ runs'[k].stopped = runs[k].stopped
    BY <2>4, <2>5, StoppedStays
  <2>7. Mates(i, k) /\ Better(i, k)
    BY <1>1, <1>4, <2>4, <2>5, <2>6 DEF Mates, Better, NoRowChangesHands
  <2>8. QED
    BY <2>4, <2>5, <2>7 DEF GuardInv, RepairPlan
<1>5. QED
  BY <1>1, <1>3, <1>4 DEF RepairPlan

LEMMA RequestKeepsOneActive ==
  ASSUME TypeOK, RequestsOwn, OneActiveRunPerOwnerAndJob,
         NEW r \in Requests, ActivatesAlone(requests[r]), RequestStep(r)
  PROVE  OneActiveRunPerOwnerAndJob'
<1> SUFFICES ASSUME NEW i \in Rows', NEW k \in Rows', i # k,
                    IsActive(i)', IsActive(k)', Mates(i, k)'
             PROVE  FALSE
  BY DEF OneActiveRunPerOwnerAndJob, Mates
<1>1. i \in Rows /\ IsActive(i) /\ k \in Rows /\ IsActive(k)
  BY ActivatedAlone DEF Mates, IsActive
<1>2. Mates(i, k)
  BY <1>1, RequestsChangeNoHands DEF Mates, NoRowChangesHands
<1>3. QED
  BY <1>1, <1>2 DEF OneActiveRunPerOwnerAndJob, Mates

LEMMA WorkerKeepsOneActive ==
  ASSUME TypeOK, HoldsRunning, OneActiveRunPerOwnerAndJob, WorkerStep \/ WorkerFault
  PROVE  OneActiveRunPerOwnerAndJob'
BY WorkerActivatesNothing, WorkerChangesNoHands
DEF OneActiveRunPerOwnerAndJob, NoRowChangesHands

LEMMA RequestStepGuard ==
  ASSUME TypeOK, RequestsOwn, OneRequestPerAccount, GuardInv, NEW r \in Requests, RequestStep(r)
  PROVE  GuardInv'
<1>1. UNCHANGED worker
  BY RequestsKeepToThemselves
<1>2. \A s \in Requests : ActivatesAlone(requests[s])' /\ PendingDuplicates(requests[s])'
  BY OthersAreKept, RequestKnows DEF GuardInv
<1>3. HoldsRunning'
  <2>1. worker.ids \subseteq Rows /\ (worker.phase \in ClaimPhases => worker.run \in Rows)
    BY DEF TypeOK, WorkerOK
  <2>2. worker.phase \in ClaimPhases \cup {"recover"} => ~Early
    BY DEF Early, ClaimPhases
  <2>3. QED
    BY <1>1, <2>1, <2>2, RequestKeepsRunning DEF GuardInv, HoldsRunning, ClaimPhases
<1>4. RepairLeavesOneActive'
  BY <1>1, RequestKeepsOneActive DEF GuardInv, RepairLeavesOneActive
<1>5. QED
  BY <1>2, <1>3, <1>4, RequestKeepsPlan DEF GuardInv

\* A duplicate still pending after a step of the worker is one before it, and
\* then the repair goes on: it has the duplicate on its list.
LEMMA WorkerKeepsPending ==
  ASSUME TypeOK, RequestsOwn, GuardInv, WorkerStep \/ WorkerFault, NEW r \in Requests
  PROVE  PendingDuplicates(requests[r])'
<1> DEFINE q == requests[r]
<1>1. UNCHANGED requests /\ NoRowChangesHands /\ Rows' = Rows /\ Owns(q) /\ HoldsRunning
  BY WorkerChangesNoHands DEF RequestsOwn, GuardInv
<1> SUFFICES ASSUME q.pc = "supersede", NEW d \in q.duplicates,
                    runs'[d].status # "superseded"
             PROVE  IsActive(d)' /\ Early' /\ IsActive(q.run)' /\ Better(q.run, d)'
  BY <1>1 DEF PendingDuplicates
<1>2. d \in Rows /\ q.run \in Rows /\ Mates(q.run, d)
  BY <1>1 DEF Owns, SameOwnerAndJob, Mates
<1>3. runs[d].status # "superseded"
  BY <1>1, <1>2, SupersededStays DEF Next
<1>4. IsActive(d) /\ Early /\ IsActive(q.run) /\ Better(q.run, d)
  BY <1>3 DEF GuardInv, PendingDuplicates
<1>5. worker.phase = "repair" => d \in worker.ids
  BY <1>2, <1>4 DEF GuardInv, RepairPlan
<1>6. CASE runs' = runs /\ Early'
  BY <1>1, <1>4, <1>6 DEF IsActive, Better
<1>7. CASE WorkerFault
  <2>1. runs' = runs /\ worker'.phase \in {"poll", "down", "fail", "requeue"}
    BY <1>7, FaultsWriteNothing
  <2>2. CASE Crash
    BY <1>6, <2>1, <2>2 DEF Crash, Early, WorkerDown
  <2>3. CASE ~Crash
    BY <1>4, <1>7, <2>3 DEF Early, WorkerFault, ClaimIsLost, WriteThrows, AuditThrows, RequeueIsLost
  <2>4. QED
    BY <2>2, <2>3
<1>8. CASE WorkerStarts \/ RepairReads \/ RepairEnds \/ RecoverReads \/ nextQueuedRunId
  <2>1. \/ Early'
        \/ worker.phase = "repair" /\ worker.keep = {}
    BY <1>4, <1>8, ReadsWriteNothing DEF Early
  <2>2. CASE worker.phase = "repair" /\ worker.keep = {}
    BY <1>5, <2>2 DEF GuardInv, RepairPlan
  <2>3. CASE Early'
    BY <1>6, <1>8, <2>3, ReadsWriteNothing
  <2>4. QED
    BY <2>1, <2>2, <2>3
<1>9. ~recoverInterruptedRuns /\ ~Processing
  BY <1>4, RecoveryWrites, ProcessingWrites DEF Early, ClaimPhases
<1>10. ASSUME NEW c \in worker.keep, Repair(c)
       PROVE  IsActive(d)' /\ Early' /\ IsActive(q.run)' /\ Better(q.run, d)'
  <2> DEFINE duplicates == {i \in worker.ids : runs[i].jobId = runs[c].jobId}
             Keyed == [runs[c] EXCEPT !.activeKey = bareKey(runs[c].jobId)]
  <2>1. c \in Rows /\ runs[c] \in ApplicationRun /\ worker.phase = "repair"
        /\ worker'.phase \in {"repair", "down"}
    BY <1>10, RowsAreTyped, RepairWrites
  <2>2. Early'
    BY <2>1 DEF Early
  <2>3. Keyed.status = runs[c].status /\ Keyed.stopped = runs[c].stopped
    BY <2>1 DEF ApplicationRun
  <2>4. d \notin duplicates
    <3>1. d \in duplicates => runs'[d] = Superseded(runs[d])
      BY <1>2, <1>10, RepairWrites
    <3>2. QED
      BY <1>2, <3>1, SupersededFields
  <2>5. q.run \notin duplicates
    BY <1>2, <1>5, <2>1, <2>4 DEF Mates
  <2>6. \A i \in Rows \ duplicates : runs'[i] = runs[i] \/ (i = c /\ runs'[i] = Keyed)
    BY <1>10, RepairWrites
  <2>7. \A i \in {d, q.run} : runs'[i].status = runs[i].status /\ runs'[i].stopped = runs[i].stopped
    BY <1>2, <2>3, <2>4, <2>5, <2>6
  <2>8. QED
    BY <1>1, <1>4, <2>2, <2>7 DEF IsActive, Better
<1>11. QED
  BY <1>7, <1>8, <1>9, <1>10 DEF WorkerStep

LEMMA WorkerKeepsAlone ==
  ASSUME TypeOK, HoldsRunning, WorkerStep \/ WorkerFault,
         NEW r \in Requests, ActivatesAlone(requests[r])
  PROVE  ActivatesAlone(requests[r])'
BY WorkerActivatesNothing, WorkerChangesNoHands
DEF ActivatesAlone, SameOwnerAndJob, NoRowChangesHands

LEMMA WorkerKeepsRunning ==
  ASSUME TypeOK, HoldsRunning, WorkerStep \/ WorkerFault
  PROVE  HoldsRunning'
<1>1. worker'.phase = "recover" => \A i \in worker'.ids : runs'[i].status = "running"
  BY WorkerPhase
<1>2. worker'.phase \in {"start", "preflight", "fill"} => runs'[worker'.run].status = "running"
  BY WorkerPhase DEF HoldsRunning, ClaimPhases
<1>3. ASSUME worker'.phase \in ClaimPhases \ {"claim"}
      PROVE  runs'[worker'.run].status # "superseded"
  <2>1. worker'.run = worker.run /\ worker.run \in Rows /\ worker.phase \in ClaimPhases
        /\ (worker.phase = "claim" => runs'[worker.run].status = "running")
    BY <1>3, WorkerPhase DEF ClaimPhases
  <2>2. CASE worker.phase = "claim"
    BY <2>1, <2>2
  <2>3. CASE worker.phase # "claim"
    <3>1. runs[worker.run].status # "superseded"
      BY <2>1, <2>3 DEF HoldsRunning
    <3>2. worker.phase \notin {"repair", "recover"}
      BY <2>1 DEF ClaimPhases
    <3>3. QED
      BY <2>1, <3>1, <3>2, WorkerStatus DEF Results
  <2>4. QED
    BY <2>2, <2>3
<1>4. QED
  BY <1>1, <1>2, <1>3 DEF HoldsRunning

\* The plan is complete when it is read, and what a step of the repair takes
\* off it has been superseded.
LEMMA WorkerKeepsPlan ==
  ASSUME TypeOK, GuardInv, WorkerStep \/ WorkerFault
  PROVE  RepairPlan'
<1> SUFFICES ASSUME worker'.phase = "repair" PROVE RepairPlan'
  BY DEF RepairPlan
<1>1. CASE RepairReads
  <2> DEFINE active == {i \in Rows : IsActive(i)}
             group(i) == {k \in active : runs[k].jobId = runs[i].jobId}
             keep == {i \in active : IsCanonical(i, group(i))}
  <2>1. /\ UNCHANGED runs
        /\ worker' = [WorkerAt("repair") EXCEPT !.keep = keep, !.ids = active \ keep]
    BY <1>1 DEF RepairReads
  <2>2. worker'.keep = keep /\ worker'.ids = active \ keep
    BY <2>1 DEF WorkerAt, WorkerDown
  <2>3. ASSUME NEW i \in active PROVE \E c \in keep : runs[c].jobId = runs[i].jobId
    <3>1. group(i) \in SUBSET Rows /\ i \in group(i)
      OBVIOUS
    <3>2. PICK c \in group(i) : IsCanonical(c, group(i))
      BY <3>1, GroupHasCanonical
    <3>3. group(c) = group(i)
      BY <3>2
    <3>4. QED
      BY <3>2, <3>3
  <2>4. ASSUME NEW i \in active, NEW k \in active, Mates(i, k), Better(i, k) PROVE k \notin keep
    <3>1. i \in group(k) /\ i # k
      BY <2>4, BetterIsAnOrder DEF Mates
    <3>2. IsCanonical(k, group(k)) => Better(k, i)
      BY <3>1 DEF IsCanonical, Better
    <3>3. QED
      BY <2>4, <3>2, BetterIsAnOrder
  <2>5. \A i \in worker'.ids : \E c \in worker'.keep : runs'[c].jobId = runs'[i].jobId
    <3> HIDE DEF keep, group
    <3>1. QED
      BY <2>1, <2>2, <2>3
  <2>6. ASSUME NEW i \in Rows, NEW k \in Rows, IsActive(i), IsActive(k), Mates(i, k), Better(i, k)
        PROVE  k \in worker'.ids
    <3>1. i \in active /\ k \in active
      BY <2>6
    <3> HIDE DEF keep, group
    <3>2. k \notin keep
      BY <2>4, <2>6, <3>1
    <3>3. QED
      BY <2>2, <3>1, <3>2
  <2>7. \A i, k \in Rows' :
          IsActive(i)' /\ IsActive(k)' /\ Mates(i, k)' /\ Better(i, k)' => k \in worker'.ids
    BY <2>1, <2>6 DEF Mates, Better, IsActive, Rows
  <2>8. QED
    BY <2>5, <2>7 DEF RepairPlan
<1>2. ASSUME NEW c \in worker.keep, Repair(c) PROVE RepairPlan'
  <2> DEFINE duplicates == {i \in worker.ids : runs[i].jobId = runs[c].jobId}
             Keyed == [runs[c] EXCEPT !.activeKey = bareKey(runs[c].jobId)]
  <2>1. /\ worker.phase = "repair" /\ c \in Rows /\ runs[c] \in ApplicationRun
        /\ worker.ids \subseteq Rows /\ worker.keep \subseteq Rows
        /\ NoRowChangesHands /\ Rows' = Rows
    BY <1>2, RepairWrites, RowsAreTyped, WorkerChangesNoHands DEF TypeOK, WorkerOK, WorkerStep
  <2>2. Keyed.status = runs[c].status /\ Keyed.stopped = runs[c].stopped
    BY <2>1 DEF ApplicationRun
  <2>3. /\ worker'.ids = worker.ids \ duplicates
        /\ \/ worker'.keep = worker.keep
           \/ worker'.keep = worker.keep \ {c} /\ duplicates = {}
        /\ \A i \in Rows : \/ i \in duplicates /\ runs'[i] = Superseded(runs[i])
                           \/ i \notin duplicates /\ runs'[i] = runs[i]
                           \/ i \notin duplicates /\ i = c /\ runs'[i] = Keyed
    BY <1>2, RepairWrites
  <2>4. ASSUME NEW i \in worker'.ids PROVE \E k \in worker'.keep : runs'[k].jobId = runs'[i].jobId
    <3>1. i \in worker.ids /\ i \notin duplicates
      BY <2>3
    <3>2. PICK k \in worker.keep : runs[k].jobId = runs[i].jobId
      BY <2>1, <3>1 DEF GuardInv, RepairPlan
    <3>3. k # c
      BY <3>1, <3>2
    <3>4. QED
      BY <2>1, <2>3, <3>1, <3>2, <3>3 DEF NoRowChangesHands
  <2>5. ASSUME NEW i \in Rows, IsActive(i)'
        PROVE  i \notin duplicates /\ IsActive(i) /\ runs'[i].stopped = runs[i].stopped
    BY <2>2, <2>3, <2>5, SupersededFields DEF IsActive, ACTIVE_APPLICATION_STATUSES
  <2>6. ASSUME NEW i \in Rows, NEW k \in Rows,
               IsActive(i)', IsActive(k)', Mates(i, k)', Better(i, k)'
        PROVE  k \in worker'.ids
    <3>1. Mates(i, k) /\ Better(i, k) /\ IsActive(i) /\ IsActive(k) /\ k \notin duplicates
      BY <2>1, <2>5, <2>6 DEF Mates, Better, NoRowChangesHands
    <3>2. QED
      BY <2>1, <2>3, <3>1 DEF GuardInv, RepairPlan
  <2>7. QED
    BY <2>1, <2>4, <2>6 DEF RepairPlan
<1>3. ~WorkerFault /\ ~WorkerStarts /\ ~RepairEnds /\ ~RecoverReads /\ ~nextQueuedRunId
      /\ ~recoverInterruptedRuns /\ ~Processing
  <2>1. ~WorkerFault
    BY FaultsWriteNothing
  <2>2. ~recoverInterruptedRuns
    BY RecoveryWrites
  <2>3. ~Processing
    BY ProcessingWrites
  <2>4. QED
    BY <2>1, <2>2, <2>3
    DEF WorkerStarts, RepairEnds, RecoverReads, nextQueuedRunId, WorkerAt, WorkerDown
<1>4. QED
  BY <1>1, <1>2, <1>3 DEF WorkerStep

\* When the repair ends, its list is empty, so no duplicate is left.
LEMMA WorkerLeavesOneActive ==
  ASSUME TypeOK, GuardInv, WorkerStep \/ WorkerFault
  PROVE  RepairLeavesOneActive'
<1> SUFFICES ASSUME ~Early' PROVE OneActiveRunPerOwnerAndJob'
  BY DEF RepairLeavesOneActive, Early
<1>1. CASE ~Early
  BY <1>1, WorkerKeepsOneActive DEF GuardInv, RepairLeavesOneActive, Early
<1>2. CASE Early
  <2>1. RepairEnds
    <3>1. ~WorkerFault \/ Crash
      BY <1>2 DEF Early, WorkerFault, ClaimIsLost, WriteThrows, AuditThrows, RequeueIsLost
    <3>2. Crash => worker'.phase = "down"
      BY DEF Crash, WorkerDown
    <3>3. ~recoverInterruptedRuns /\ ~Processing
      BY <1>2, RecoveryWrites, ProcessingWrites DEF Early, ClaimPhases
    <3>4. ASSUME NEW c \in worker.keep PROVE ~Repair(c)
      BY RepairWrites DEF Early
    <3>5. QED
      BY <1>2, <3>1, <3>2, <3>3, <3>4
      DEF WorkerStep, Early, WorkerStarts, RepairReads, RecoverReads, nextQueuedRunId,
          WorkerAt, WorkerDown
  <2>2. worker.phase = "repair" /\ worker.keep = {} /\ UNCHANGED runs
    BY <2>1 DEF RepairEnds
  <2>3. \A i, k \in Rows : ~(IsActive(i) /\ IsActive(k) /\ Mates(i, k) /\ Better(i, k))
    BY <2>2 DEF GuardInv, RepairPlan
  <2>4. OneActiveRunPerOwnerAndJob
    BY <2>3, BetterIsAnOrder DEF OneActiveRunPerOwnerAndJob, Mates
  <2>5. QED
    BY <2>2, <2>4 DEF OneActiveRunPerOwnerAndJob, IsActive, Rows
<1>3. QED
  BY <1>1, <1>2

LEMMA StepGuard ==
  ASSUME TypeOK, RequestsOwn, OneRequestPerAccount, GuardInv, [Next]_vars
  PROVE  GuardInv'
<1>1. ASSUME NEW r \in Requests, RequestStep(r) PROVE GuardInv'
  BY <1>1, RequestStepGuard
<1>2. CASE WorkerStep \/ WorkerFault
  <2>1. \A r \in Requests : ActivatesAlone(requests[r])' /\ PendingDuplicates(requests[r])'
    BY <1>2, WorkerKeepsAlone, WorkerKeepsPending DEF GuardInv
  <2>2. HoldsRunning'
    BY <1>2, WorkerKeepsRunning DEF GuardInv
  <2>3. QED
    BY <1>2, <2>1, <2>2, WorkerKeepsPlan, WorkerLeavesOneActive DEF GuardInv
<1>3. CASE UNCHANGED vars
  <2>1. \A r \in Requests : ActivatesAlone(requests[r])' /\ PendingDuplicates(requests[r])'
    <3>1. \A r \in Requests : ActivatesAlone(requests[r])'
      BY <1>3 DEF vars, GuardInv, ActivatesAlone, SameOwnerAndJob, IsActive, Rows
    <3>2. \A r \in Requests : PendingDuplicates(requests[r])'
      BY <1>3 DEF vars, GuardInv, PendingDuplicates, IsActive, Early, Better
    <3>3. QED
      BY <3>1, <3>2
  <2>2. HoldsRunning'
    BY <1>3 DEF vars, GuardInv, HoldsRunning
  <2>3. RepairPlan'
    BY <1>3 DEF vars, GuardInv, RepairPlan, IsActive, Better, Mates, Rows
  <2>4. RepairLeavesOneActive'
    BY <1>3 DEF vars, GuardInv, RepairLeavesOneActive, OneActiveRunPerOwnerAndJob, IsActive, Rows
  <2>5. QED
    BY <2>1, <2>2, <2>3, <2>4 DEF GuardInv
<1>4. QED
  BY <1>1, <1>2, <1>3 DEF Next

\* RepairLeavesOneActive: whatever the database held before the guard was
\* there, once the worker's repair has ended an owner has one active run per
\* posting, and keeps it so, however requests of different accounts interleave
\* with the repair and however often the worker crashes in it.  An account has one
\* request under way: with two, an update by id may follow the repair.
THEOREM RepairLeavesOne == Spec /\ []OneRequestPerAccount => []RepairLeavesOneActive
<1>1. GuardInv => RepairLeavesOneActive
  BY DEF GuardInv
<1>2. QED
  BY <1>1, InitGuard, StepGuard, InitOwns, StepOwns, TypeCorrect, PTL DEF Spec

\* SupersededIsFinal: a superseded duplicate stays out of the queue, while an account
\* has one request under way.
THEOREM SupersededForGood == Spec /\ []OneRequestPerAccount => SupersededIsFinal
<1> DEFINE Final == \A i \in Rows : runs[i].status = "superseded" =>
                      runs'[i].status = "superseded"
<1>1. TypeOK /\ GuardInv /\ [Next]_vars => [Final]_vars
  BY SupersededStays DEF GuardInv
<1>2. QED
  BY <1>1, InitGuard, StepGuard, InitOwns, StepOwns, TypeCorrect, PTL DEF Spec, SupersededIsFinal

-----------------------------------------------------------------------------
(* Keys.                                                                     *)

LEMMA RequestKeepsKeys ==
  ASSUME TypeOK, RequestsOwn, ActiveRunHoldsKey, NEW r \in Requests, RequestStep(r)
  PROVE  ActiveRunHoldsKey'
<1> DEFINE q == requests[r]
<1> SUFFICES ASSUME NEW i \in Rows', IsActive(i)'
             PROVE  runs'[i].activeKey \in {applicationActiveKey(runs'[i].userId, runs'[i].jobId),
                                            bareKey(runs'[i].jobId)}
  BY DEF ActiveRunHoldsKey
<1>1. CASE EnqueueSupersedes(r)
  <2>1. i \in Rows /\ (runs'[i] = runs[i] \/ runs'[i] = Superseded(runs[i]))
    BY <1>1, EnqueueSupersedesWrites
  <2>2. runs'[i] = runs[i]
    BY <2>1, SupersededFields DEF IsActive, ACTIVE_APPLICATION_STATUSES
  <2>3. IsActive(i)
    BY <2>2 DEF IsActive
  <2>4. QED
    BY <2>1, <2>2, <2>3 DEF ActiveRunHoldsKey
<1>2. CASE EnqueueAdopts(r) \/ ResumeQueues(r) \/ RetryQueues(r)
  <2>1. i \in Rows /\ q.run \in SameOwnerAndJob(q.user, q.job)
    BY <1>2, RequestWritesItsRow DEF RequestsOwn, Owns
  <2>2. \/ runs'[i] = runs[i]
        \/ /\ i = q.run /\ runs'[i].jobId = runs[i].jobId
           /\ runs'[i].userId \in {q.user, runs[i].userId}
           /\ runs'[i].activeKey = applicationActiveKey(q.user, q.job)
    BY <1>2, RequestWritesItsRow
  <2>3. CASE runs'[i] = runs[i]
    <3>1. IsActive(i)
      BY <2>3 DEF IsActive
    <3>2. QED
      BY <2>1, <2>3, <3>1 DEF ActiveRunHoldsKey
  <2>4. CASE /\ i = q.run /\ runs'[i].jobId = runs[i].jobId
             /\ runs'[i].userId \in {q.user, runs[i].userId}
             /\ runs'[i].activeKey = applicationActiveKey(q.user, q.job)
    <3>1. runs[i].userId = q.user /\ runs[i].jobId = q.job
      BY <2>1, <2>4 DEF SameOwnerAndJob
    <3>2. QED
      BY <2>4, <3>1
  <2>5. QED
    BY <2>2, <2>3, <2>4
<1>3. CASE EnqueueCreates(r)
  BY <1>3, EnqueueCreatesWrites DEF ActiveRunHoldsKey, IsActive
<1>4. CASE UNCHANGED runs
  BY <1>4 DEF ActiveRunHoldsKey, IsActive, Rows
<1>5. QED
  BY <1>1, <1>2, <1>3, <1>4 DEF RequestStep, EnqueueReads, ResumeReads, RetryReads, markApplying

LEMMA WorkerKeepsKeys ==
  ASSUME TypeOK, HoldsRunning, ActiveRunHoldsKey, WorkerStep \/ WorkerFault
  PROVE  ActiveRunHoldsKey'
<1> SUFFICES ASSUME NEW i \in Rows, IsActive(i)'
             PROVE  runs'[i].activeKey \in {applicationActiveKey(runs'[i].userId, runs'[i].jobId),
                                            bareKey(runs'[i].jobId)}
  BY WorkerChangesNoHands DEF ActiveRunHoldsKey
<1>1. /\ runs'[i].userId = runs[i].userId /\ runs'[i].jobId = runs[i].jobId
      /\ runs[i] \in ApplicationRun
  BY WorkerChangesNoHands, RowsAreTyped DEF NoRowChangesHands
<1>2. IsActive(i)
  BY WorkerActivatesNothing
<1>3. CASE runs'[i].activeKey \in {runs[i].activeKey, bareKey(runs[i].jobId)}
  BY <1>1, <1>2, <1>3 DEF ActiveRunHoldsKey
<1>4. CASE WorkerFault \/ WorkerStarts \/ RepairReads \/ RepairEnds \/ RecoverReads \/ nextQueuedRunId
  BY <1>3, <1>4, FaultsWriteNothing, ReadsWriteNothing
<1>5. CASE recoverInterruptedRuns
  BY <1>1, <1>3, <1>5, RecoveryWrites DEF ApplicationRun
<1>6. ASSUME NEW c \in worker.keep, Repair(c)
      PROVE  runs'[i].activeKey \in {runs[i].activeKey, bareKey(runs[i].jobId)}
  <2>1. \/ runs'[i] = runs[i]
        \/ runs'[i] = Superseded(runs[i])
        \/ runs'[i] = [runs[i] EXCEPT !.activeKey = bareKey(runs[i].jobId)]
    BY <1>6, RepairWrites
  <2>2. [runs[i] EXCEPT !.activeKey = bareKey(runs[i].jobId)].activeKey = bareKey(runs[i].jobId)
    BY <1>1 DEF ApplicationRun
  <2>3. runs'[i] # Superseded(runs[i])
    BY SupersededFields DEF IsActive, ACTIVE_APPLICATION_STATUSES
  <2>4. QED
    BY <2>1, <2>2, <2>3
<1>7. CASE Processing
  <2>1. CASE i # worker.run
    BY <1>3, <1>7, <2>1, ProcessingWrites
  <2>2. CASE i = worker.run
    <3>1. \/ runs'[i] = runs[i] \/ runs'[i].activeKey = runs[i].activeKey
          \/ runs'[i].status \in Results
               /\ (runs'[i].status = "needs_user_action" => runs'[i].activeKey = bareKey(runs'[i].jobId))
          \/ runs'[i].status = "failed"
      BY <1>7, <2>2, ProcessingWrites
    <3>2. QED
      BY <1>1, <1>3, <3>1 DEF IsActive, ACTIVE_APPLICATION_STATUSES, Results
  <2>3. QED
    BY <2>1, <2>2
<1>8. QED
  BY <1>3, <1>4, <1>5, <1>6, <1>7 DEF WorkerStep

\* ActiveRunsAreGuarded: a database that starts guarded, an empty one first of
\* all, has one active run per owner and posting for ever, and each of them
\* holds a key with which the unique index refuses another, while an account has one
\* request under way.
THEOREM GuardHolds ==
  Spec /\ ActiveRunsAreGuarded /\ []OneRequestPerAccount => []ActiveRunsAreGuarded
<1>1. /\ TypeOK /\ RequestsOwn /\ GuardInv /\ ActiveRunsAreGuarded /\ [Next]_vars
      => ActiveRunsAreGuarded'
  <2> SUFFICES ASSUME TypeOK, RequestsOwn, GuardInv, ActiveRunsAreGuarded, [Next]_vars
               PROVE  ActiveRunsAreGuarded'
    OBVIOUS
  <2>1. ASSUME NEW r \in Requests, RequestStep(r) PROVE ActiveRunsAreGuarded'
    BY <2>1, RequestKeepsOneActive, RequestKeepsKeys DEF ActiveRunsAreGuarded, GuardInv
  <2>2. CASE WorkerStep \/ WorkerFault
    BY <2>2, WorkerKeepsOneActive, WorkerKeepsKeys DEF ActiveRunsAreGuarded, GuardInv
  <2>3. CASE UNCHANGED vars
    BY <2>3 DEF vars, ActiveRunsAreGuarded, OneActiveRunPerOwnerAndJob, ActiveRunHoldsKey,
      IsActive, Rows
  <2>4. QED
    BY <2>1, <2>2, <2>3 DEF Next
<1>2. QED
  BY <1>1, InitGuard, StepGuard, InitOwns, StepOwns, TypeCorrect, PTL DEF Spec
=============================================================================
