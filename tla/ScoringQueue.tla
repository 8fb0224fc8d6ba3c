------------------------------ MODULE ScoringQueue ------------------------------
(***************************************************************************)
(* One posting in the legacy queue of scores                               *)
(* (src/lib/matching/scoringQueue.ts): requests, and workers in processes  *)
(* of their own that recover, claim, score and complete.  A step is one    *)
(* statement.  A worker goes on by a timer of its process, which a request *)
(* sets and which ends when nothing is queued, or with an exception.  The  *)
(* heartbeat of a worker is a timer, too, whose updates may fail for as    *)
(* long as the lock takes to grow stale; the worker scores on.             *)
(***************************************************************************)
EXTENDS Integers, FiniteSets

CONSTANTS
  Scorers,         \* processes that drain the queue
  MaxRequests,     \* bound on requests to score the posting
  MaxScorerFaults  \* bound on crashes, exceptions and lapses of the heartbeat

VARIABLES
  state,     \* Job.scoringState
  stale,     \* scoringHeartbeatAt is more than 30 s ago
  scorer,    \* per worker, the statement it executes next: "off" without a timer,
             \* "idle" with the timer set, "stop" about to end it
  asks,      \* the request between its read and its write: "no", "job", "all"
  beating,   \* the workers whose heartbeat reaches the posting
  requests, scorerFaults,
  overtaken  \* history: the posting was queued, or its lock went stale, under a
             \* worker that scores on

scoringVars == <<state, stale, scorer, asks, beating, requests, scorerFaults, overtaken>>

States == {"NOT_SCORED", "QUEUED", "SCORING", "SCORED", "FAILED"}
ScorerTo(w, s) == scorer' = [scorer EXCEPT ![w] = s]
Scoring == {w \in Scorers : scorer[w] \in {"score", "complete", "fail"}}

-----------------------------------------------------------------------------
(* queueJobsForMatching                                                      *)

\* A request for the posting, or for all that are not queued: both read first.
RequestReads ==
  /\ asks = "no" /\ requests < MaxRequests
  /\ asks' \in {"job"} \cup (IF state \in {"QUEUED", "SCORING"} THEN {} ELSE {"all"})
  /\ requests' = requests + 1
  /\ UNCHANGED <<state, stale, scorer, beating, scorerFaults, overtaken>>

\* The write is by id, whatever the state is by then.
QueueJob ==
  /\ asks # "no"
  /\ state' = "QUEUED"
  /\ asks' = "no" /\ stale' = FALSE
  /\ overtaken' = (overtaken \/ Scoring # {})
  /\ UNCHANGED <<scorer, beating, requests, scorerFaults>>

\* triggerScoringWorker, at the end of this request or of one for other postings: a
\* timer that is set already stays, even one whose worker is about to stop.
triggerScoringWorker(w) ==
  /\ scorer[w] = "off"
  /\ ScorerTo(w, "idle")
  /\ UNCHANGED <<state, stale, asks, beating, requests, scorerFaults, overtaken>>

-----------------------------------------------------------------------------
(* processScoringQueue and scoreNextQueuedJob                                *)

\* Faulty: a worker only looks for queued postings.
RecoverNothing(w) ==
  /\ scorer[w] = "idle"
  /\ ScorerTo(w, "find")
  /\ UNCHANGED <<state, stale, asks, beating, requests, scorerFaults, overtaken>>

recoverAbandonedScoringJobs(w) ==
  /\ scorer[w] = "idle"
  /\ state' = IF stale THEN "QUEUED" ELSE state
  /\ stale' = FALSE
  /\ ScorerTo(w, "find")
  /\ UNCHANGED <<asks, beating, requests, scorerFaults, overtaken>>

\* Another posting may be queued when this one is not; the worker comes back from it.
Find(w) ==
  /\ scorer[w] = "find"
  /\ \E s \in IF state = "QUEUED" THEN {"claim"} ELSE {"stop", "idle"} : ScorerTo(w, s)
  /\ UNCHANGED <<state, stale, asks, beating, requests, scorerFaults, overtaken>>

\* The timer is given up; who was queued since the look waits for the next request.
EndsTimer(w) ==
  /\ scorer[w] = "stop"
  /\ ScorerTo(w, "off")
  /\ UNCHANGED <<state, stale, asks, beating, requests, scorerFaults, overtaken>>

\* Faulty: the claim is by id alone.
ClaimById(w) ==
  /\ scorer[w] = "claim"
  /\ state' = "SCORING" /\ stale' = FALSE
  /\ ScorerTo(w, "score") /\ beating' = beating \cup {w}
  /\ UNCHANGED <<asks, requests, scorerFaults, overtaken>>

Claim(w) ==
  /\ scorer[w] = "claim"
  /\ IF state = "QUEUED"
     THEN /\ state' = "SCORING" /\ stale' = FALSE
          /\ ScorerTo(w, "score") /\ beating' = beating \cup {w}
     ELSE ScorerTo(w, "idle") /\ UNCHANGED <<state, stale, beating>>
  /\ UNCHANGED <<asks, requests, scorerFaults, overtaken>>

Score(w) ==
  /\ scorer[w] = "score"
  /\ ScorerTo(w, "complete") \/ ScorerTo(w, "fail")
  /\ UNCHANGED <<state, stale, asks, beating, requests, scorerFaults, overtaken>>

\* Faulty: the timer goes on.
CompleteBeating(w) ==
  /\ scorer[w] \in {"complete", "fail"}
  /\ state' = IF scorer[w] = "complete" THEN "SCORED" ELSE "FAILED"
  /\ stale' = FALSE
  /\ ScorerTo(w, "idle")
  /\ UNCHANGED <<asks, beating, requests, scorerFaults, overtaken>>

\* By id; the timer is cleared.
Complete(w) ==
  /\ scorer[w] \in {"complete", "fail"}
  /\ state' = IF scorer[w] = "complete" THEN "SCORED" ELSE "FAILED"
  /\ beating' = beating \ {w}
  /\ stale' = FALSE
  /\ ScorerTo(w, "idle")
  /\ UNCHANGED <<asks, requests, scorerFaults, overtaken>>

-----------------------------------------------------------------------------
(* The clock and the faults                                                  *)

\* 30 s without a heartbeat.
GrowsStale ==
  /\ state = "SCORING" /\ ~stale /\ beating = {}
  /\ stale' = TRUE
  /\ UNCHANGED <<state, scorer, asks, beating, requests, scorerFaults, overtaken>>

\* The updates of the heartbeat fail, and are swallowed.
Lapse(w) ==
  /\ w \in beating /\ scorerFaults < MaxScorerFaults
  /\ beating' = beating \ {w}
  /\ scorerFaults' = scorerFaults + 1
  /\ overtaken' = TRUE
  /\ UNCHANGED <<state, stale, scorer, asks, requests>>

\* A statement throws.  The write of the score is followed by that of the failure; any
\* other exception ends the timer, and the heartbeat with it.
Throws(w) ==
  /\ scorer[w] \in {"idle", "find", "claim", "complete", "fail"}
  /\ scorerFaults < MaxScorerFaults
  /\ ScorerTo(w, IF scorer[w] = "complete" THEN "fail" ELSE "off")
  /\ beating' = IF scorer[w] = "fail" THEN beating \ {w} ELSE beating
  /\ scorerFaults' = scorerFaults + 1
  /\ UNCHANGED <<state, stale, asks, requests, overtaken>>

\* The process ends, and is started again, without a timer.
ScorerCrash(w) ==
  /\ scorer[w] # "off" /\ scorerFaults < MaxScorerFaults
  /\ ScorerTo(w, "off")
  /\ beating' = beating \ {w}
  /\ scorerFaults' = scorerFaults + 1
  /\ UNCHANGED <<state, stale, asks, requests, overtaken>>

ScoringInit ==
  /\ state = "NOT_SCORED" /\ stale = FALSE
  /\ scorer = [w \in Scorers |-> "off"]
  /\ asks = "no" /\ beating = {}
  /\ requests = 0 /\ scorerFaults = 0 /\ overtaken = FALSE

Drain(w) ==
  \/ recoverAbandonedScoringJobs(w) \/ Find(w) \/ EndsTimer(w)
  \/ Claim(w) \/ Score(w) \/ Complete(w)

ScoringNext ==
  \/ RequestReads \/ QueueJob \/ GrowsStale
  \/ \E w \in Scorers :
       triggerScoringWorker(w) \/ Drain(w) \/ Lapse(w) \/ Throws(w) \/ ScorerCrash(w)

\* A timer that is set fires, its worker goes on, and time passes.  Nothing sets it but
\* a request.
ScoringFairness ==
  /\ WF_scoringVars(QueueJob) /\ WF_scoringVars(GrowsStale)
  /\ \A w \in Scorers : WF_scoringVars(Drain(w))

ScoringSpec == ScoringInit /\ [][ScoringNext]_scoringVars /\ ScoringFairness

-----------------------------------------------------------------------------
(* Properties                                                                *)

\* Every variable has its type.
ScoringTypeOK ==
  /\ state \in States /\ stale \in BOOLEAN
  /\ scorer \in [Scorers -> {"off", "idle", "find", "stop", "claim", "score", "complete", "fail"}]
  /\ asks \in {"no", "job", "all"}
  /\ beating \subseteq Scoring
  /\ requests \in 0..MaxRequests /\ scorerFaults \in 0..MaxScorerFaults
  /\ overtaken \in BOOLEAN

\* Recovery spares a posting whose worker lives: two workers score it at once
\* only when a request queued it again, or the heartbeat was lost, meanwhile.
OneScorer == ~overtaken => \A v, w \in Scoring : v = w

\* While requests set the timer again and again, no crash, exception or lapse strands
\* the posting: it is scored, or has failed, in the end.
Drained ==
  []<>(\E w \in Scorers : scorer[w] = "idle") => <>[](state \notin {"QUEUED", "SCORING"})
=============================================================================
