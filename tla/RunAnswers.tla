------------------------------- MODULE RunAnswers --------------------------------
(***************************************************************************)
(* The answers of one application run: the worker fills the steps of the   *)
(* employer's form through the extension, pauses the run at a question it  *)
(* cannot answer, and is resumed by the owner's answers.  One question on  *)
(* each step, which autofill may answer: not one of those it leaves to the *)
(* owner.  The queue of the runs is in ApplicationRuns.                    *)
(***************************************************************************)
EXTENDS Integers

CONSTANTS Steps,      \* the number of steps of the form
          Plain,      \* questions whose label is its own normal form
          Requests,   \* answer requests in flight
          MaxFaults,  \* bound: pages lost or loaded again, and attempts failed
          None

VARIABLES status,     \* ApplicationRun.status
          stopped,    \* stoppedFieldLabel
          answers,    \* the questions that ApplicationRun.answers has in normal form
          bank,       \* the questions with a reusable ApprovedAnswer
          form,       \* the questions filled on the open page, or None
          at,         \* where the worker is
          step,       \* the step of the form it is on
          collected,  \* what it has read off the page
          hasPaused,  \* the stageHistory names a pause
          request,    \* the owner's requests
          faults,
          given,      \* history: questions with an acknowledged answer
          forgotten,  \* history: those whose answer a blank form or a failure has dropped
          crossed     \* history: two requests lay across each other

answersVars == <<status, stopped, answers, bank, form, at, step, collected, hasPaused,
                 request, faults, given, forgotten, crossed>>
workerVars == <<at, step, collected, hasPaused>>
historyVars == <<given, forgotten, crossed>>

Questions == 1..Steps
Idle == [at |-> "idle", label |-> None, copy |-> {}, reuse |-> FALSE]

Init ==
  /\ status = "queued" /\ stopped = None
  /\ answers = {} /\ bank = {} /\ form = None
  /\ at = "idle" /\ step = 1 /\ collected = {} /\ hasPaused = FALSE
  /\ request = [r \in Requests |-> Idle]
  /\ faults = 0
  /\ given = {} /\ forgotten = {} /\ crossed = FALSE

Faulty == faults < MaxFaults /\ faults' = faults + 1

Take ==
  /\ at = "idle" /\ status = "queued"
  /\ status' = "running" /\ at' = "open"
  /\ UNCHANGED <<stopped, answers, bank, form, step, collected, hasPaused, request, faults,
                 historyVars>>

\* A blank form starts from its first step: what it held is gone, and the next pause may
\* drop what the run has answers for.
Blank == form' = {} /\ step' = 1 /\ forgotten' = forgotten \union (given \ bank)

\* MUTANT of OpenPage: the run starts on a new page.
OpenNew ==
  /\ at = "open"
  /\ IF form = None THEN Blank ELSE form' = {} /\ step' = 1 /\ UNCHANGED forgotten
  /\ at' = "fill" /\ collected' = {}
  /\ UNCHANGED <<status, stopped, answers, bank, hasPaused, request, faults, given, crossed>>

\* A run that has paused before finds its page as it left it, or loads it again: when the
\* page has left the address of the form or shows no field.
OpenPage ==
  /\ at = "open"
  /\ \/ (form = None \/ ~hasPaused) /\ Blank /\ UNCHANGED faults
     \/ form # None /\ hasPaused /\ UNCHANGED <<form, step, forgotten, faults>>
     \/ form # None /\ hasPaused /\ Faulty /\ Blank
  /\ at' = "fill" /\ collected' = {}
  /\ UNCHANGED <<status, stopped, answers, bank, hasPaused, request, given, crossed>>

\* MUTANT of Fillable: the plan knows the reusable answers only.
FillableFromBank(q) == q \in form \/ q \in bank

\* What buildExtensionFillPlan leaves alone or has an answer for, by the normal form of
\* the label.
Fillable(q) == q \in form \/ q \in answers \/ q \in bank

\* The form counts as filled when its last step is.
Fill ==
  /\ at = "fill" /\ Fillable(step)
  /\ form' = form \union {step} /\ collected' = collected \union {step}
  /\ IF step = Steps THEN at' = "filled" /\ UNCHANGED step
                     ELSE step' = step + 1 /\ UNCHANGED at
  /\ UNCHANGED <<status, stopped, answers, bank, hasPaused, request, faults, historyVars>>

Pause ==
  /\ at = "fill" /\ ~Fillable(step)
  /\ at' = "paused"
  /\ UNCHANGED <<status, stopped, answers, bank, form, step, collected, hasPaused, request,
                 faults, historyVars>>

\* The result replaces the answers by what was read off the page, under the labels of
\* its controls.
Written ==
  /\ at \in {"filled", "paused"}
  /\ stopped' = IF at = "filled" THEN None ELSE step
  /\ answers' = collected \intersect Plain
  /\ hasPaused' = (hasPaused \/ at = "paused")

WriteResult ==
  /\ Written
  /\ status' = IF at = "filled" THEN "filled" ELSE "needs_user_action"
  /\ at' = "idle"
  /\ UNCHANGED <<bank, form, step, collected, request, faults, historyVars>>

\* The extension does not finish its step.  This result, too, replaces the answers, and
\* drops those that it was about to fill in.
FailedResult ==
  /\ at = "fill"
  /\ \E shown \in SUBSET ({step} \intersect form) :
       answers' = (collected \union shown) \intersect Plain
  /\ stopped' = None
  /\ forgotten' = forgotten \union (given \ (bank \union form))
  /\ UNCHANGED hasPaused

\* The attempt fails, by its result or by an exception before or after its result is
\* written; its page stays open or is closed.
AttemptFails ==
  /\ Faulty /\ at # "idle"
  /\ status' = "failed" /\ at' = "idle"
  /\ form' \in {form, None}
  /\ \/ FailedResult
     \/ Written /\ UNCHANGED forgotten
     \/ UNCHANGED <<stopped, answers, hasPaused, forgotten>>
  /\ UNCHANGED <<bank, step, collected, request, given, crossed>>

\* The browser is closed or restarted between two attempts.
PageLost ==
  /\ Faulty /\ at \in {"idle", "open"} /\ form # None
  /\ form' = None
  /\ UNCHANGED <<status, stopped, answers, bank, workerVars, request, historyVars>>

Retry ==
  /\ status = "failed"
  /\ status' = "queued" /\ stopped' = None
  /\ UNCHANGED <<answers, bank, form, workerVars, request, faults, historyVars>>

Pending(r) == request[r].at # "idle"
Alone(r) == ~\E s \in Requests \ {r} : Pending(s)

\* answerAndResumeApplicationRun takes the question from the run as it finds it.
Answer(r) ==
  /\ ~Pending(r)
  /\ status = "needs_user_action" /\ stopped # None
  /\ \E reuse \in BOOLEAN :
       request' = [request EXCEPT ![r] =
         [at |-> "bank", label |-> stopped, copy |-> answers \union {stopped}, reuse |-> reuse]]
  /\ crossed' = (crossed \/ ~Alone(r))
  /\ UNCHANGED <<status, stopped, answers, bank, form, workerVars, faults, given, forgotten>>

SaveReusable(r) ==
  /\ request[r].at = "bank"
  /\ bank' = IF request[r].reuse THEN bank \union {request[r].label} ELSE bank
  /\ request' = [request EXCEPT ![r].at = "write"]
  /\ UNCHANGED <<status, stopped, answers, form, workerVars, faults, historyVars>>

\* The whole map, by the id of the run: whatever happened to it since it was read.
WriteAnswers(r) ==
  /\ request[r].at = "write"
  /\ answers' = request[r].copy
  /\ request' = [request EXCEPT ![r].at = "queue"]
  /\ UNCHANGED <<status, stopped, bank, form, workerVars, faults, historyVars>>

Acknowledge(r) ==
  /\ given' = given \union {request[r].label}
  /\ forgotten' = forgotten \ {request[r].label}
  /\ request' = [request EXCEPT ![r] = Idle]

\* MUTANT of QueueRun: the run is queued whatever has become of it.
QueueAnyway(r) ==
  /\ request[r].at = "queue" /\ status' = "queued"
  /\ Acknowledge(r)
  /\ UNCHANGED <<stopped, answers, bank, form, workerVars, faults, crossed>>

\* queueAnsweredRun: a run that is queued or running already is taken for resumed.
QueueRun(r) ==
  /\ request[r].at = "queue"
  /\ \/ /\ status = "needs_user_action" /\ status' = "queued"
        /\ Acknowledge(r)
     \/ /\ status \in {"queued", "running"} /\ UNCHANGED status
        /\ Acknowledge(r)
     \/ /\ status \in {"filled", "failed"} /\ UNCHANGED <<status, given, forgotten>>
        /\ request' = [request EXCEPT ![r] = Idle]
  /\ UNCHANGED <<stopped, answers, bank, form, workerVars, faults, crossed>>

\* The owner fills the field in the open page and resumes the run without an answer.
FillByHand ==
  /\ status = "needs_user_action" /\ stopped # None /\ form # None
  /\ form' = form \union {stopped} /\ status' = "queued"
  /\ crossed' = (crossed \/ \E r \in Requests : Pending(r))
  /\ UNCHANGED <<stopped, answers, bank, workerVars, request, faults, given, forgotten>>

WorkerSteps == Take \/ OpenPage \/ Fill \/ Pause \/ WriteResult
RequestSteps(r) == SaveReusable(r) \/ WriteAnswers(r) \/ QueueRun(r)
OwnerAnswers == \E r \in Requests : Answer(r)

Next ==
  \/ WorkerSteps \/ AttemptFails \/ PageLost \/ Retry
  \/ OwnerAnswers \/ FillByHand \/ \E r \in Requests : RequestSteps(r)

Spec == Init /\ [][Next]_answersVars
FairSpec ==
  /\ Spec
  /\ WF_answersVars(WorkerSteps) /\ WF_answersVars(Retry)
  /\ WF_answersVars(OwnerAnswers)
  /\ \A r \in Requests : WF_answersVars(RequestSteps(r))

-----------------------------------------------------------------------------

\* A run that waits names the step it stopped at, and the worker works on running rows.
AnswersTypeOK ==
  /\ status \in {"queued", "running", "needs_user_action", "filled", "failed"}
  /\ stopped \in Questions \union {None} /\ step \in Questions
  /\ answers \subseteq Questions /\ bank \subseteq Questions /\ collected \subseteq Questions
  /\ given \subseteq Questions /\ forgotten \subseteq given /\ hasPaused \in BOOLEAN
  /\ form = None \/ form \subseteq Questions
  /\ at # "idle" <=> status = "running"
  /\ status = "needs_user_action" => stopped = step

\* An answer that was acknowledged is not asked for again, although the pauses drop it
\* from the run and exceptions end its attempts: unless, since it was acknowledged, the
\* run opened a blank form or the extension failed before it had filled it in, or two
\* requests have lain across each other.  Given again, it is safe again.
NotAskedAgain == at = "paused" /\ step \in given => step \in forgotten \/ crossed

FilledOrCrossing ==
  status = "filled" \/ \E r, s \in Requests : r # s /\ Pending(r) /\ Pending(s)

\* An owner who answers gets his form filled in the end, whatever he reuses, and
\* although each pause forgets his answers: unless he goes on for ever to answer twice
\* at once, and provided that faults come to an end (MaxFaults).
GetsFilled == []<>FilledOrCrossing
=============================================================================
