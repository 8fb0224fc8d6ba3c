------------------------------- MODULE MatchQueue -------------------------------
(***************************************************************************)
(* The automatic AI match of one user and one posting: the durable rows of *)
(* InitialAiMatchJob (one per match type), the passes that schedule them   *)
(* (automaticScoring.ts, bulkInitialMatch.ts, recoverFailedScores.ts), the *)
(* workers that drain them (initialAiMatchQueue.ts), the score they write  *)
(* (matching.ts), and the user, whose approved facts change meanwhile.     *)
(*                                                                         *)
(* Work on other rows is a delay here: the poll and the recovery take the  *)
(* oldest due rows, and what they took is not due any more.  Only the      *)
(* backstop's batch of failures may be full of rows it never takes away    *)
(* (BatchIsFull).  A step is one database statement or one model call.     *)
(* The posting stays active with a usable description.  Job.scoringState   *)
(* is written with most item writes and read by none of this: left out.    *)
(***************************************************************************)
EXTENDS Integers, FiniteSets

CONSTANTS
  Workers,    \* the calls of processNextInitialAiMatch that run concurrently
  Passes,     \* the scheduling passes that run concurrently
  Revisions,  \* hashes of approved facts
  None,       \* no approved facts; also: no MatchResult
  INITIAL_MATCH_TYPE,
  INITIAL_MATCH_MAX_ATTEMPTS,
  MaxEdits,   \* bound on changes of the approved facts
  MaxFaults   \* bound on crashes, exceptions and failed model calls

ASSUME NamesAssumption ==
  INITIAL_MATCH_TYPE \notin Revisions /\ None \notin Revisions \cup {INITIAL_MATCH_TYPE}
ASSUME BoundsAssumption ==
  INITIAL_MATCH_MAX_ATTEMPTS \in Nat \ {0} /\ MaxEdits \in Nat /\ MaxFaults \in Nat

\* profileRefreshMatchType: a revision stands for its own match type.
MatchTypes == Revisions \cup {INITIAL_MATCH_TYPE}

ItemStates ==
  {"ABSENT", "PENDING", "RUNNING", "SUCCEEDED", "RETRYABLE_FAILED", "PERMANENT_FAILED"}
Waiting == {"PENDING", "RETRYABLE_FAILED"}
Failed == {"RETRYABLE_FAILED", "PERMANENT_FAILED"}
\* "transient" stands for all codes of TRANSIENT_ERROR_CODES.
TRANSIENT_ERROR_CODES == {"transient"}
RETRYABLE_TERMINAL_CODES == TRANSIENT_ERROR_CODES \cup {"MODEL_RESPONSE_INVALID"}
Codes == RETRYABLE_TERMINAL_CODES
           \cup {"none", "PROFILE_FACTS_MISSING", "PROFILE_REVISION_SUPERSEDED"}

(***************************************************************************)
(* ripe says that the delay of the row's state has passed: nextAttemptAt   *)
(* of a waiting row, the two minutes of lockedAt of a running one, the     *)
(* cooldown after completedAt of a permanently failed one.  seen holds the *)
(* workers that found the row due and whose captured `now` still is not    *)
(* before its nextAttemptAt: every write of nextAttemptAt empties it.      *)
(***************************************************************************)
Item ==
  [state : ItemStates, attempts : Nat, ripe : BOOLEAN, code : Codes, seen : SUBSET Workers]
Absent == [state |-> "ABSENT", attempts |-> 0, ripe |-> FALSE, code |-> "none", seen |-> {}]

VARIABLES
  items,      \* InitialAiMatchJob, by match type
  revision,   \* approvedProfileRevision
  latest,     \* the revision in the origin of the latest MatchResult
  shown,      \* UserJobState.matchScore is set
  workers,    \* per worker, its next statement and what it has read
  passes,     \* per pass, its next statement and what it has read
  edits, faults,
  overtaken   \* history: the items that an unguarded write hit although
              \* they had changed since its read, or were being scored

vars == <<items, revision, latest, shown, workers, passes, edits, faults, overtaken>>

ScoringSteps == {"score", "load", "model", "succeed", "fail"}
WorkerSteps == {"idle", "recover", "poll", "check", "retire", "claim"} \cup ScoringSteps
\* key is the item that the poll picked, with the state and attempts it had then.
WorkerRecord ==
  [pc : WorkerSteps, key : MatchTypes \cup {None}, state : ItemStates, attempt : Nat,
   todo : SUBSET (MatchTypes \X Nat), revision : Revisions \cup {None}, code : Codes]
Worker ==
  {x \in WorkerRecord : /\ x.pc \notin {"idle", "recover", "poll"} => x.key \in MatchTypes
                        /\ x.pc \in {"check", "retire", "claim"} => x.state \in Waiting}
Idle ==
  [pc |-> "idle", key |-> None, state |-> "ABSENT", attempt |-> 0, todo |-> {},
   revision |-> None, code |-> "none"]

PassSteps ==
  {"idle", "failed", "requeue", "initial", "queue initial", "refresh", "obsolete",
   "read scores", "hide", "queue refresh", "hide all"}
PassRecord ==
  [pc : PassSteps, backstop : BOOLEAN, retryFailed : BOOLEAN, todo : SUBSET MatchTypes,
   found : BOOLEAN, queue : BOOLEAN, revision : Revisions \cup {None}]
Pass ==
  {x \in PassRecord : x.pc \in {"obsolete", "read scores", "hide", "queue refresh"} =>
                        x.revision \in Revisions}
Resting ==
  [pc |-> "idle", backstop |-> FALSE, retryFailed |-> FALSE, todo |-> {},
   found |-> FALSE, queue |-> FALSE, revision |-> None]
Starting(pc, backstop, retryFailed) ==
  [Resting EXCEPT !.pc = pc, !.backstop = backstop, !.retryFailed = retryFailed]

Scoring(w, k) == workers[w].pc \in ScoringSteps /\ workers[w].key = k
InHand(k) == \E w \in Workers : Scoring(w, k)

-----------------------------------------------------------------------------
(* The workers: processNextInitialAiMatch                                    *)

Unseen(w) == [k \in MatchTypes |-> [items[k] EXCEPT !.seen = @ \ {w}]]
WorkerGoes(w, pc) == workers' = [workers EXCEPT ![w].pc = pc]
WorkerEnds(w) == workers' = [workers EXCEPT ![w] = Idle]

\* Faulty: only rows that have an attempt left are recovered.
RecoverReadsRetryable(w) ==
  /\ workers[w].pc = "idle"
  /\ LET abandoned == {k \in MatchTypes : /\ items[k].state = "RUNNING" /\ items[k].ripe
                                          /\ items[k].attempts < INITIAL_MATCH_MAX_ATTEMPTS}
     IN workers' = [workers EXCEPT ![w] =
          [Idle EXCEPT !.pc = IF abandoned = {} THEN "poll" ELSE "recover",
                       !.todo = {<<k, items[k].attempts>> : k \in abandoned}]]
  /\ UNCHANGED <<items, revision, latest, shown, passes, edits, faults, overtaken>>

\* recoverAbandonedInitialMatches reads the rows whose lock is two minutes old.
RecoverReads(w) ==
  /\ workers[w].pc = "idle"
  /\ LET abandoned == {k \in MatchTypes : items[k].state = "RUNNING" /\ items[k].ripe}
     IN workers' = [workers EXCEPT ![w] =
          [Idle EXCEPT !.pc = IF abandoned = {} THEN "poll" ELSE "recover",
                       !.todo = {<<k, items[k].attempts>> : k \in abandoned}]]
  /\ UNCHANGED <<items, revision, latest, shown, passes, edits, faults, overtaken>>

\* Faulty: the last attempt of a worker that died is not counted.
RecoverOnceMore(w, k, attempts) ==
  LET terminal == attempts > INITIAL_MATCH_MAX_ATTEMPTS
      isSame == items[k].state = "RUNNING" /\ items[k].attempts = attempts /\ ~InHand(k)
  IN /\ workers[w].pc = "recover"
     /\ <<k, attempts>> \in workers[w].todo
     /\ items' = [items EXCEPT ![k] =
          [@ EXCEPT !.state = IF terminal THEN "PERMANENT_FAILED" ELSE "RETRYABLE_FAILED",
                    !.ripe = ~terminal, !.code = "transient", !.seen = {}]]
     /\ workers' = [workers EXCEPT ![w] =
          [@ EXCEPT !.pc = IF workers[w].todo = {<<k, attempts>>} THEN "poll" ELSE "recover",
                    !.todo = workers[w].todo \ {<<k, attempts>>}]]
     /\ overtaken' = IF isSame THEN overtaken ELSE overtaken \cup {k}
     /\ UNCHANGED <<revision, latest, shown, passes, edits, faults>>

\* ... and updates them by id.
recoverAbandoned(w, k, attempts) ==
  LET terminal == attempts >= INITIAL_MATCH_MAX_ATTEMPTS
      isSame == items[k].state = "RUNNING" /\ items[k].attempts = attempts /\ ~InHand(k)
  IN /\ workers[w].pc = "recover"
     /\ <<k, attempts>> \in workers[w].todo
     /\ items' = [items EXCEPT ![k] =
          [@ EXCEPT !.state = IF terminal THEN "PERMANENT_FAILED" ELSE "RETRYABLE_FAILED",
                    !.ripe = ~terminal, !.code = "transient", !.seen = {}]]
     /\ workers' = [workers EXCEPT ![w] =
          [@ EXCEPT !.pc = IF workers[w].todo = {<<k, attempts>>} THEN "poll" ELSE "recover",
                    !.todo = workers[w].todo \ {<<k, attempts>>}]]
     /\ overtaken' = IF isSame THEN overtaken ELSE overtaken \cup {k}
     /\ UNCHANGED <<revision, latest, shown, passes, edits, faults>>

\* findFirst; which due row is first is not modelled.
Due(k) == items[k].state \in Waiting /\ items[k].ripe

Poll(w, k) ==
  /\ workers[w].pc = "poll"
  /\ Due(k)
  /\ items' = [items EXCEPT ![k].seen = @ \cup {w}]
  /\ workers' = [workers EXCEPT ![w] =
       [@ EXCEPT !.pc = IF k = INITIAL_MATCH_TYPE THEN "claim" ELSE "check",
                 !.key = k, !.state = items[k].state, !.attempt = items[k].attempts]]
  /\ UNCHANGED <<revision, latest, shown, passes, edits, faults, overtaken>>

\* Faulty: the empty queue is not told from a row.
DrainUnchecked(w) ==
  /\ workers[w].pc = "poll"
  /\ \A k \in MatchTypes : ~Due(k)
  /\ WorkerGoes(w, "claim")
  /\ UNCHANGED <<items, revision, latest, shown, passes, edits, faults, overtaken>>

\* Without a due row the drain ends, until the next trigger.
DrainEnds(w) ==
  /\ workers[w].pc = "poll"
  /\ \A k \in MatchTypes : ~Due(k)
  /\ WorkerEnds(w)
  /\ UNCHANGED <<items, revision, latest, shown, passes, edits, faults, overtaken>>

CheckRevision(w) ==
  /\ workers[w].pc = "check"
  /\ WorkerGoes(w, IF revision = workers[w].key THEN "claim" ELSE "retire")
  /\ UNCHANGED <<items, revision, latest, shown, passes, edits, faults, overtaken>>

\* By id, whatever has become of the row since the poll.
retireSupersededProfileRefresh(w) ==
  LET k == workers[w].key
      isSame == items[k].state = workers[w].state /\ w \in items[k].seen
  IN /\ workers[w].pc = "retire"
     /\ items' = [Unseen(w) EXCEPT ![k] =
          [@ EXCEPT !.state = "PERMANENT_FAILED", !.ripe = FALSE,
                    !.code = "PROFILE_REVISION_SUPERSEDED"]]
     /\ WorkerEnds(w)
     /\ overtaken' = IF isSame THEN overtaken ELSE overtaken \cup {k}
     /\ UNCHANGED <<revision, latest, shown, passes, edits, faults>>

\* Faulty: the update is not guarded by what the poll read.
ClaimUnguarded(w) ==
  LET k == workers[w].key
  IN /\ workers[w].pc = "claim"
     /\ items' = [items EXCEPT ![k] =
          [@ EXCEPT !.state = "RUNNING", !.attempts = items[k].attempts + 1,
                    !.ripe = FALSE, !.seen = {}]]
     /\ workers' = [workers EXCEPT ![w] =
          [@ EXCEPT !.pc = "score", !.attempt = workers[w].attempt + 1]]
     /\ UNCHANGED <<revision, latest, shown, passes, edits, faults, overtaken>>

\* The guarded updateMany.
Claim(w) ==
  LET k == workers[w].key
      matches == items[k].state = workers[w].state /\ w \in items[k].seen
  IN /\ workers[w].pc = "claim"
     /\ \/ /\ matches
           /\ items' = [items EXCEPT ![k] =
                [@ EXCEPT !.state = "RUNNING", !.attempts = items[k].attempts + 1,
                          !.ripe = FALSE, !.seen = {}]]
           /\ workers' = [workers EXCEPT ![w] =
                [@ EXCEPT !.pc = "score", !.attempt = workers[w].attempt + 1]]
        \/ /\ ~matches
           /\ items' = Unseen(w)
           /\ WorkerEnds(w)
     /\ UNCHANGED <<revision, latest, shown, passes, edits, faults, overtaken>>

\* Faulty: an INITIAL row that was claimed before is taken for scored.
ReadNoScore(w) ==
  /\ workers[w].pc = "score"
  /\ WorkerGoes(w, IF workers[w].key = INITIAL_MATCH_TYPE /\ workers[w].attempt > 1
                   THEN "succeed" ELSE "load")
  /\ UNCHANGED <<items, revision, latest, shown, passes, edits, faults, overtaken>>

\* "INITIAL means score once": a MatchResult of any origin ends it.
ReadExistingScore(w) ==
  /\ workers[w].pc = "score"
  /\ WorkerGoes(w, IF workers[w].key = INITIAL_MATCH_TYPE /\ latest # None
                   THEN "succeed" ELSE "load")
  /\ UNCHANGED <<items, revision, latest, shown, passes, edits, faults, overtaken>>

\* runMatchForJob scores the facts of this moment, not those of the item's type.
LoadProfile(w) ==
  /\ workers[w].pc = "load"
  /\ workers' = [workers EXCEPT ![w] =
       IF revision = None
       THEN [@ EXCEPT !.pc = "fail", !.code = "PROFILE_FACTS_MISSING"]
       ELSE [@ EXCEPT !.pc = "model", !.revision = revision]]
  /\ UNCHANGED <<items, revision, latest, shown, passes, edits, faults, overtaken>>

\* The model answers, and one transaction appends the MatchResult and shows it.
PersistScore(w) ==
  /\ workers[w].pc = "model"
  /\ latest' = workers[w].revision
  /\ shown' = TRUE
  /\ WorkerGoes(w, "succeed")
  /\ UNCHANGED <<items, revision, passes, edits, faults, overtaken>>

\* A model call or a database statement inside the try block fails.
ScoringThrows(w) ==
  /\ workers[w].pc \in {"score", "load", "model", "succeed"}
  /\ faults < MaxFaults
  /\ faults' = faults + 1
  /\ \E code \in RETRYABLE_TERMINAL_CODES :
       /\ code = "MODEL_RESPONSE_INVALID" => workers[w].pc = "model"
       /\ workers' = [workers EXCEPT ![w] = [@ EXCEPT !.pc = "fail", !.code = code]]
  /\ UNCHANGED <<items, revision, latest, shown, passes, edits, overtaken>>

\* Both results are written by id.
Succeed(w) ==
  /\ workers[w].pc = "succeed"
  /\ items' = [items EXCEPT ![workers[w].key] =
       [@ EXCEPT !.state = "SUCCEEDED", !.ripe = FALSE, !.code = "none"]]
  /\ WorkerEnds(w)
  /\ UNCHANGED <<revision, latest, shown, passes, edits, faults, overtaken>>

\* Faulty: the last attempt is retried, too.
FailRetriesOnceMore(w) ==
  LET retryable == /\ workers[w].code \in TRANSIENT_ERROR_CODES
                   /\ workers[w].attempt =< INITIAL_MATCH_MAX_ATTEMPTS
  IN /\ workers[w].pc = "fail"
     /\ items' = [items EXCEPT ![workers[w].key] =
          [@ EXCEPT !.state = IF retryable THEN "RETRYABLE_FAILED" ELSE "PERMANENT_FAILED",
                    !.ripe = FALSE, !.code = workers[w].code, !.seen = {}]]
     /\ WorkerEnds(w)
     /\ UNCHANGED <<revision, latest, shown, passes, edits, faults, overtaken>>

Fail(w) ==
  LET retryable == /\ workers[w].code \in TRANSIENT_ERROR_CODES
                   /\ workers[w].attempt < INITIAL_MATCH_MAX_ATTEMPTS
  IN /\ workers[w].pc = "fail"
     /\ items' = [items EXCEPT ![workers[w].key] =
          [@ EXCEPT !.state = IF retryable THEN "RETRYABLE_FAILED" ELSE "PERMANENT_FAILED",
                    !.ripe = FALSE, !.code = workers[w].code, !.seen = {}]]
     /\ WorkerEnds(w)
     /\ UNCHANGED <<revision, latest, shown, passes, edits, faults, overtaken>>

\* The process dies, or a statement outside the try block throws.
WorkerDies(w) ==
  /\ workers[w].pc # "idle"
  /\ faults < MaxFaults
  /\ faults' = faults + 1
  /\ items' = Unseen(w)
  /\ WorkerEnds(w)
  /\ UNCHANGED <<revision, latest, shown, passes, edits, overtaken>>

Work(w) ==
  \/ RecoverReads(w)
  \/ \E t \in workers[w].todo : recoverAbandoned(w, t[1], t[2])
  \/ \E k \in MatchTypes : Poll(w, k)
  \/ DrainEnds(w)
  \/ CheckRevision(w)
  \/ retireSupersededProfileRefresh(w)
  \/ Claim(w)
  \/ ReadExistingScore(w)
  \/ LoadProfile(w)
  \/ PersistScore(w)
  \/ Succeed(w)
  \/ Fail(w)

-----------------------------------------------------------------------------
(* The scheduling passes                                                     *)

Scheduled ==
  [state |-> "PENDING", attempts |-> 0, ripe |-> TRUE, code |-> "none", seen |-> {}]

PassGoes(p, pc) == passes' = [passes EXCEPT ![p].pc = pc]
PassEnds(p) == passes' = [passes EXCEPT ![p] = Resting]
\* The backstop goes on with the refreshes.  A request runs the two schedulers in
\* parallel, that is as two passes.
InitialEnds(p) ==
  passes' = [passes EXCEPT ![p] =
    IF passes[p].backstop THEN Starting("refresh", TRUE, FALSE) ELSE Resting]

\* The queue write of both schedulers: by id, or a create that the unique key
\* may refuse.  isSame says that the row is as the scheduler read it.
Enqueue(p, k, isSame) ==
  IF passes[p].found
  THEN /\ items' = [items EXCEPT ![k] = Scheduled]
       /\ overtaken' = IF isSame /\ ~InHand(k) THEN overtaken ELSE overtaken \cup {k}
  ELSE /\ items' = IF items[k] = Absent THEN [items EXCEPT ![k] = Scheduled] ELSE items
       /\ UNCHANGED overtaken

\* The interval of the scheduler, or the hosted cron route.
BackstopStarts(p) ==
  /\ passes[p].pc = "idle"
  /\ passes' = [passes EXCEPT ![p] = Starting("failed", TRUE, FALSE)]
  /\ UNCHANGED <<items, revision, latest, shown, workers, edits, faults, overtaken>>

\* A change of the facts or a new posting; only the "score unscored" button
\* retries failed work.
RequestStarts(p) ==
  /\ passes[p].pc = "idle"
  /\ \E pc \in {"initial", "refresh"}, retryFailed \in BOOLEAN :
       passes' = [passes EXCEPT ![p] = Starting(pc, FALSE, retryFailed)]
  /\ UNCHANGED <<items, revision, latest, shown, workers, edits, faults, overtaken>>

\* Faulty: a malformed answer is not retried after the cooldown.
FailedReadsTransient(p) ==
  /\ passes[p].pc = "failed"
  /\ LET failed == {k \in MatchTypes : /\ items[k].state = "PERMANENT_FAILED"
                                       /\ items[k].ripe
                                       /\ items[k].code \in TRANSIENT_ERROR_CODES}
     IN passes' = [passes EXCEPT ![p] =
          [@ EXCEPT !.pc = IF failed = {} THEN "initial" ELSE "requeue", !.todo = failed]]
  /\ UNCHANGED <<items, revision, latest, shown, workers, edits, faults, overtaken>>

\* requeueStaleFailedScores
FailedReads(p) ==
  /\ passes[p].pc = "failed"
  /\ LET failed == {k \in MatchTypes : /\ items[k].state = "PERMANENT_FAILED"
                                       /\ items[k].ripe
                                       /\ items[k].code \in RETRYABLE_TERMINAL_CODES}
     IN passes' = [passes EXCEPT ![p] =
          [@ EXCEPT !.pc = IF failed = {} THEN "initial" ELSE "requeue", !.todo = failed]]
  /\ UNCHANGED <<items, revision, latest, shown, workers, edits, faults, overtaken>>

\* The batch takes the oldest failures of all users and postings, three times
\* as many as it may revive, and only then drops those that are never revived:
\* enough of these, or of closed postings, keep this posting's failures out.
BatchIsFull(p) ==
  /\ passes[p].pc = "failed"
  /\ PassGoes(p, "initial")
  /\ UNCHANGED <<items, revision, latest, shown, workers, edits, faults, overtaken>>

requeueStaleFailedScore(p, k) ==
  /\ passes[p].pc = "requeue"
  /\ k \in passes[p].todo
  /\ items' = IF items[k].state = "PERMANENT_FAILED"
              THEN [items EXCEPT ![k] = Scheduled] ELSE items
  /\ passes' = [passes EXCEPT ![p] =
       [@ EXCEPT !.pc = IF passes[p].todo = {k} THEN "initial" ELSE "requeue",
                 !.todo = passes[p].todo \ {k}]]
  /\ UNCHANGED <<revision, latest, shown, workers, edits, faults, overtaken>>

\* scheduleInitialAiMatch up to its transaction
InitialReads(p) ==
  LET state == items[INITIAL_MATCH_TYPE].state
      needed == /\ latest = None /\ ~shown
                /\ \/ state = "ABSENT"
                   \/ passes[p].retryFailed /\ state \in Failed
                /\ revision # None
  IN /\ passes[p].pc = "initial"
     /\ \/ /\ needed
           /\ passes' = [passes EXCEPT ![p] =
                [@ EXCEPT !.pc = "queue initial", !.found = state # "ABSENT"]]
        \/ /\ ~needed
           /\ InitialEnds(p)
     /\ UNCHANGED <<items, revision, latest, shown, workers, edits, faults, overtaken>>

QueueInitial(p) ==
  /\ passes[p].pc = "queue initial"
  /\ Enqueue(p, INITIAL_MATCH_TYPE, items[INITIAL_MATCH_TYPE].state \in Failed)
  /\ InitialEnds(p)
  /\ UNCHANGED <<revision, latest, shown, workers, edits, faults>>

\* scheduleProfileRefreshesForUser; the backstop may have left out a user
\* without approved facts.
RefreshReads(p) ==
  /\ passes[p].pc = "refresh"
  /\ \/ /\ revision # None
        /\ passes' = [passes EXCEPT ![p] =
             [@ EXCEPT !.pc = "obsolete", !.revision = revision]]
     \/ /\ revision = None
        /\ PassGoes(p, "hide all")
     \/ /\ revision = None /\ passes[p].backstop
        /\ PassEnds(p)
  /\ UNCHANGED <<items, revision, latest, shown, workers, edits, faults, overtaken>>

HideAll(p) ==
  /\ passes[p].pc = "hide all"
  /\ shown' = FALSE
  /\ PassEnds(p)
  /\ UNCHANGED <<items, revision, latest, workers, edits, faults, overtaken>>

RetireObsolete(p) ==
  /\ passes[p].pc = "obsolete"
  /\ items' = [k \in MatchTypes |->
       IF k \in Revisions \ {passes[p].revision} /\ items[k].state \in Waiting
       THEN [items[k] EXCEPT !.state = "PERMANENT_FAILED", !.ripe = FALSE,
                             !.code = "PROFILE_REVISION_SUPERSEDED"]
       ELSE items[k]]
  /\ PassGoes(p, "read scores")
  /\ UNCHANGED <<revision, latest, shown, workers, edits, faults, overtaken>>

ReadScores(p) ==
  LET isCurrent == latest = passes[p].revision
      state == items[passes[p].revision].state
      queue == \/ state \in {"ABSENT", "SUCCEEDED"}
               \/ passes[p].retryFailed /\ state \in Failed
  IN /\ passes[p].pc = "read scores"
     /\ \/ /\ latest = None \/ (isCurrent /\ shown) \/ (~shown /\ ~queue)
           /\ PassEnds(p)
        \/ /\ latest # None /\ (shown => ~isCurrent) /\ (shown \/ queue)
           /\ passes' = [passes EXCEPT ![p] =
                [@ EXCEPT !.pc = IF shown THEN "hide" ELSE "queue refresh",
                          !.found = state # "ABSENT", !.queue = queue]]
     /\ UNCHANGED <<items, revision, latest, shown, workers, edits, faults, overtaken>>

Hide(p) ==
  /\ passes[p].pc = "hide"
  /\ shown' = FALSE
  /\ IF passes[p].queue THEN PassGoes(p, "queue refresh") ELSE PassEnds(p)
  /\ UNCHANGED <<items, revision, latest, workers, edits, faults, overtaken>>

QueueRefresh(p) ==
  LET k == passes[p].revision
  IN /\ passes[p].pc = "queue refresh"
     /\ Enqueue(p, k, items[k].state \in Failed \cup {"SUCCEEDED"})
     /\ PassEnds(p)
     /\ UNCHANGED <<revision, latest, shown, workers, edits, faults>>

PassDies(p) ==
  /\ passes[p].pc # "idle"
  /\ faults < MaxFaults
  /\ faults' = faults + 1
  /\ PassEnds(p)
  /\ UNCHANGED <<items, revision, latest, shown, workers, edits, overtaken>>

Schedule(p) ==
  \/ FailedReads(p)
  \/ BatchIsFull(p)
  \/ \E k \in passes[p].todo : requeueStaleFailedScore(p, k)
  \/ InitialReads(p)
  \/ QueueInitial(p)
  \/ RefreshReads(p)
  \/ HideAll(p)
  \/ RetireObsolete(p)
  \/ ReadScores(p)
  \/ Hide(p)
  \/ QueueRefresh(p)

-----------------------------------------------------------------------------
(* Time and the user                                                         *)

\* A delay passes.  The two minutes of a lock may pass while its worker waits
\* for the model (180 s per call, and no heartbeat); the 45 minutes of the
\* cooldown may not.
Ripens(k) ==
  /\ ~items[k].ripe
  /\ \/ items[k].state \in {"RUNNING", "RETRYABLE_FAILED"}
     \/ /\ items[k].state = "PERMANENT_FAILED"
        /\ items[k].code \in RETRYABLE_TERMINAL_CODES
        /\ ~InHand(k)
  /\ items' = [items EXCEPT ![k].ripe = TRUE]
  /\ UNCHANGED <<revision, latest, shown, workers, passes, edits, faults, overtaken>>

EditProfile ==
  /\ edits < MaxEdits
  /\ edits' = edits + 1
  /\ revision' \in (Revisions \cup {None}) \ {revision}
  /\ UNCHANGED <<items, latest, shown, workers, passes, faults, overtaken>>

Init ==
  /\ items = [k \in MatchTypes |-> Absent]
  /\ revision \in Revisions \cup {None}
  /\ latest = None
  /\ shown = FALSE
  /\ workers = [w \in Workers |-> Idle]
  /\ passes = [p \in Passes |-> Resting]
  /\ edits = 0
  /\ faults = 0
  /\ overtaken = {}

Next ==
  \/ \E w \in Workers : Work(w) \/ ScoringThrows(w) \/ WorkerDies(w)
  \/ \E p \in Passes : BackstopStarts(p) \/ RequestStarts(p) \/ Schedule(p) \/ PassDies(p)
  \/ \E k \in MatchTypes : Ripens(k)
  \/ EditProfile

Spec == Init /\ [][Next]_vars

\* The workers are triggered every 30 seconds, the backstop by an interval, and
\* every model call has a timeout.  Nothing is assumed about the user, nor about
\* the order in which the poll takes due rows.
FairSpec ==
  /\ Spec
  /\ \A w \in Workers : WF_vars(Work(w))
  /\ \A p \in Passes : WF_vars(Schedule(p))
  /\ SF_vars(\E p \in Passes : BackstopStarts(p))
  /\ \A k \in MatchTypes : WF_vars(Ripens(k))

-----------------------------------------------------------------------------
(* Properties                                                                *)

\* Every variable has its type; a worker past its poll has picked an item, and
\* a pass past its read of the revision knows one.
TypeOK ==
  /\ items \in [MatchTypes -> Item]
  /\ revision \in Revisions \cup {None}
  /\ latest \in Revisions \cup {None}
  /\ shown \in BOOLEAN
  /\ workers \in [Workers -> Worker]
  /\ passes \in [Passes -> Pass]
  /\ edits \in Nat
  /\ faults \in Nat
  /\ overtaken \subseteq MatchTypes

\* Two workers never score one item at the same time, and the row of an item
\* that is scored says so and counts this attempt, unless one of the writes by
\* id (recovery, retirement, a scheduler's reset) hit the item under its worker.
OneScorerPerItem ==
  \A w \in Workers, k \in MatchTypes \ overtaken : Scoring(w, k) =>
    /\ items[k].state = "RUNNING"
    /\ items[k].attempts = workers[w].attempt
    /\ \A v \in Workers : Scoring(v, k) => v = w

\* No item is scored more than INITIAL_MATCH_MAX_ATTEMPTS times between two
\* schedulings, with the same exception.
AttemptsBounded ==
  \A k \in MatchTypes \ overtaken :
    items[k].attempts =< INITIAL_MATCH_MAX_ATTEMPTS

\* A success is only taken back by a scheduler, never by the late failure or
\* the recovery of another attempt, with the same exception.
SuccessIsKept ==
  [][\A k \in MatchTypes :
       items[k].state = "SUCCEEDED" /\ items'[k].state # "SUCCEEDED" =>
         items'[k].state = "PENDING" \/ k \in overtaken']_vars

\* A score is shown only if a MatchResult stands behind it, and an INITIAL item
\* is done only if there is one: a worker that was overtaken does not claim a
\* success it did not persist.
ScoresHaveResults ==
  /\ shown => latest # None
  /\ \A k \in MatchTypes : items[k].state = "SUCCEEDED" => latest # None

\* No item stays in the state RUNNING, whichever workers die.
ScoringEnds ==
  \A k \in MatchTypes : items[k].state = "RUNNING" ~> items[k].state # "RUNNING"

\* The failures of this posting come to the head of the backstop's batch again
\* and again: of the older failures only so many are of a kind that stays.
BatchReaches == SF_vars(\E p \in Passes : FailedReads(p))

\* automaticScoring.ts: scheduling "keeps every existing score current" and
\* "nothing depends on a button click": in the end the shown score is grounded
\* in the approved facts, if the backstop reaches the posting's failures.
ScoresBecomeCurrent ==
  BatchReaches => <>[](revision # None => shown /\ latest = revision)
=============================================================================
