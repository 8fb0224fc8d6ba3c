----------------------------- MODULE MCLiveServices -----------------------------
(***************************************************************************)
(* The services whose liveness is checked, side by side: the worker lock,  *)
(* the postings, the radar records, the legacy scoring queue, the answers  *)
(* of a run, the fresh radar and the boards of an employer.  They share no *)
(* state: `focus` picks one in the initial state, and only that one moves, *)
(* so that one run explores each.                                          *)
(***************************************************************************)
EXTENDS WorkerLock, PostingFeed, RadarRecord, ScoringQueue

VARIABLES focus,
  status, stopped, answers, bank, form, at, formStep, collected, hasPaused, request,
  answerFaults, given, forgotten, crossed,
  published, faded, signals, radar, promoted, runsCrossed, radarFaults,
  home, open, boardRow, signal, shared, promise, lists, tasksCrossed, boardFaults,
  siteOf, openings, pageChanges, companyRow, order, approved, taken, poll, check, resolving,
  checksCrossed, pollFaults, edits

answersVars == <<status, stopped, answers, bank, form, at, formStep, collected, hasPaused,
  request, answerFaults, given, forgotten, crossed>>
freshVars == <<published, faded, signals, radar, promoted, runsCrossed, radarFaults>>
boardVars == <<home, open, boardRow, signal, shared, promise, lists, tasksCrossed, boardFaults>>
companyVars == <<siteOf, openings, pageChanges, companyRow, order, approved, taken, poll, check,
  resolving, checksCrossed, pollFaults, edits>>
servicesVars == <<focus, vars, postingVars, recordVars, scoringVars, answersVars, freshVars,
  boardVars, companyVars>>

\* Two steps, the label on the second of which is its own normal form; one answer at a
\* time (two at once are in MCServices).
Answers == INSTANCE RunAnswers WITH
  Steps <- 2, Plain <- {2}, Requests <- {"r1"}, MaxFaults <- 1,
  step <- formStep, faults <- answerFaults

\* One run at a time (two at once are in MCServices) on two of three signals, any of which
\* may be out of time.
Fresh == INSTANCE FreshRadar WITH
  Runs <- {"run1"}, MaxSignals <- 3, Limit <- 2, Concurrency <- 1,
  MaxFaded <- 0, MaxFaults <- 1,
  rows <- signals, run <- radar, overlapped <- runsCrossed, faults <- radarFaults

\* Two signals of the employer in one run.
Boards == INSTANCE EmployerBoards WITH
  Tasks <- {1, 2}, RunOf <- <<"run1", "run1">>, MaxBoards <- 2, MaxFaults <- 1,
  row <- boardRow, task <- signal, crossed <- tasksCrossed, faults <- boardFaults

\* A company with a vendor's board, and one whose page confirms none, whatever is set for
\* it; each sweep has time for one of them, or for both.  (ats:resolve is in MCServices.)
Polling == INSTANCE CompanyPolls WITH
  Companies <- {"c", "d"}, Sweeps <- {"sweep"}, Polls <- {}, TiersOf <- << >>,
  Concurrency <- 1, MaxFaults <- 1, MaxEdits <- 1, MaxChanges <- 0,
  site <- siteOf, page <- openings, changes <- pageChanges, company <- companyRow,
  run <- poll, crossed <- checksCrossed, faults <- pollFaults

\* The tasks that work on the posting: two checks beside an index, the freshness batch and
\* the maintenance; all lanes, with one check; or a check, the verification and the worker.
Cast ==
  CASE kind = "legacy" -> {"check1", "check2", "index", "freshness", "maintenance"}
    [] kind = "custom" -> Tasks \ {"check2", "verify"}
    [] kind = "direct" -> {"check1", "verify", "freshness", "agent"}
InCast == \A t \in Tasks \ Cast : task[t] = "idle"

ServicesInit ==
  /\ focus \in {"lock", "posting", "record", "scoring", "answers", "fresh", "boards",
               "companies"}
  /\ Init /\ RecordInit /\ ScoringInit /\ Answers!Init /\ Fresh!Init /\ Boards!Init
  /\ IF focus = "posting" THEN PostingInit ELSE NotPosted
  /\ Polling!Init /\ order = <<"c", "d">>
  /\ siteOf = [c |-> "vendor", d |-> "page"] /\ openings = [c |-> "roles", d |-> "empty"]

\* Service f moves, and the others do not.
Only(f) ==
  /\ focus = f /\ UNCHANGED focus
  /\ IF f = "lock" THEN TRUE ELSE UNCHANGED vars
  /\ IF f = "posting" THEN TRUE ELSE UNCHANGED postingVars
  /\ IF f = "record" THEN TRUE ELSE UNCHANGED recordVars
  /\ IF f = "scoring" THEN TRUE ELSE UNCHANGED scoringVars
  /\ IF f = "answers" THEN TRUE ELSE UNCHANGED answersVars
  /\ IF f = "fresh" THEN TRUE ELSE UNCHANGED freshVars
  /\ IF f = "boards" THEN TRUE ELSE UNCHANGED boardVars
  /\ IF f = "companies" THEN TRUE ELSE UNCHANGED companyVars

ServicesNext ==
  \/ Only("lock") /\ Next
  \/ Only("posting") /\ PostingNext /\ InCast'
  \/ Only("record") /\ RecordNext
  \/ Only("scoring") /\ ScoringNext
  \/ Only("answers") /\ Answers!Next
  \/ Only("fresh") /\ Fresh!Next
  \/ Only("boards") /\ Boards!Next
  \/ Only("companies") /\ Polling!Next /\ resolving' = {}

\* The fairness of the service that moves.  Since `focus` never changes, fairness
\* of a disjunction over it is the fairness of each of its disjuncts; this keeps
\* the conditions TLC has to follow few.
ServicesFairness ==
  /\ WF_servicesVars(\/ Only("lock") /\ BeatOpens(1)
                     \/ Only("posting") /\ CheckSteps("check1")
                     \/ Only("record") /\ PassSteps("pass1")
                     \/ Only("scoring") /\ Drain("scorer1")
                     \/ Only("answers") /\ Answers!WorkerSteps
                     \/ Only("fresh") /\ Fresh!RunSteps("run1")
                     \/ Only("boards") /\ Boards!RunSteps("run1")
                     \/ Only("companies") /\ Polling!RunSteps("sweep"))
  /\ WF_servicesVars(\/ Only("lock") /\ BeatFills(1)
                     \/ Only("posting") /\ CheckSteps("check2")
                     \/ Only("record") /\ PassSteps("pass2")
                     \/ Only("scoring") /\ Drain("scorer2")
                     \/ Only("answers") /\ Answers!Retry
                     \/ Only("fresh") /\ Fresh!ComesDue(1)
                     \/ Only("boards") /\ Boards!ComesDue)
  /\ WF_servicesVars(\/ Only("lock") /\ BeatOpens(2)
                     \/ Only("posting") /\ VerifySteps
                     \/ Only("record") /\ ComesDue
                     \/ Only("scoring") /\ QueueJob
                     \/ Only("answers") /\ Answers!OwnerAnswers
                     \/ Only("fresh") /\ Fresh!ComesDue(2))
  /\ WF_servicesVars(\/ Only("lock") /\ BeatFills(2)
                     \/ Only("posting") /\ FreshnessWrites
                     \/ Only("scoring") /\ GrowsStale
                     \/ Only("answers") /\ Answers!RequestSteps("r1")
                     \/ Only("fresh") /\ Fresh!ComesDue(3))

LiveServices == ServicesInit /\ [][ServicesNext]_servicesVars /\ ServicesFairness

-----------------------------------------------------------------------------
(* Properties.  A service that does not move keeps its properties.           *)

\* Every variable of the services that only this module composes has its type.
TypesOK == PostingTypeOK /\ RecordTypeOK /\ ScoringTypeOK

\* Work that waits is done in the end, through crashes, overlapping passes and
\* lapses: a radar record that passes go on to take up is settled, a posting queued
\* where requests go on to come in is scored or failed, a form whose owner answers is
\* filled, and a company is checked again, although sweeps run out of time and
\* another company is never confirmed.
WaitingEnds ==
  /\ Settles
  /\ Drained
  /\ []<>(/\ focus = "answers" => Answers!FilledOrCrossing
          /\ focus = "companies" => Polling!LastChecked("c"))

\* A fault leaves no lasting mark: the lock file names the worker that polls, a
\* signal whose search was interrupted is searched again when runs come to it, the
\* board of an employer is found although a resolution failed, and a company with
\* openings is polled first although a check failed.
FaultsAreRepaired ==
  /\ FileNamesThePoller
  /\ Fresh!NeverDropped
  /\ Boards!Reconsidered => <>[](focus = "boards" => Boards!BoardIsKnown)
  /\ <>[](focus = "companies" => Polling!Watched("c"))
=============================================================================
