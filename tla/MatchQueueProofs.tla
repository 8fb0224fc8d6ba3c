---------------------------- MODULE MatchQueueProofs ----------------------------
(***************************************************************************)
(* What TLAPS proves of MatchQueue for every number of workers, passes and *)
(* revisions of the profile, and every bound on attempts.                  *)
(***************************************************************************)
EXTENDS MatchQueue, TLAPS

-----------------------------------------------------------------------------
(* Types                                                                     *)

\* The records the actions write.
LEMMA Records ==
  /\ Absent \in Item
  /\ Scheduled \in Item
  /\ Idle \in Worker
  /\ Resting \in Pass
  /\ \A retryFailed, backstop \in BOOLEAN, pc \in {"failed", "initial", "refresh"} :
       Starting(pc, backstop, retryFailed) \in Pass
BY DEF Item, ItemStates, Codes, Absent, Scheduled, Idle, WorkerRecord, Worker, WorkerSteps,
       ScoringSteps, Resting, PassRecord, Pass, PassSteps, Starting

\* A worker that only goes on to another step keeps its type if the poll has
\* picked an item, and a guard has found it waiting.
LEMMA WorkerMoves ==
  ASSUME TypeOK, NEW w \in Workers, NEW pc \in WorkerSteps, WorkerGoes(w, pc),
         workers[w].key \in MatchTypes,
         pc \in {"retire", "claim"} => workers[w].state \in Waiting,
         pc # "check"
  PROVE  workers' \in [Workers -> Worker]
<1>1. [workers[w] EXCEPT !.pc = pc] \in Worker
  BY DEF TypeOK, Worker, WorkerRecord
<1>2. workers' = [workers EXCEPT ![w] = [workers[w] EXCEPT !.pc = pc]]
  BY DEF WorkerGoes, TypeOK
<1>3. QED
  BY <1>1, <1>2 DEF TypeOK

LEMMA PassMoves ==
  ASSUME TypeOK, NEW p \in Passes, NEW pc \in PassSteps, PassGoes(p, pc),
         pc \in {"obsolete", "read scores", "hide", "queue refresh"} =>
           passes[p].revision \in Revisions
  PROVE  passes' \in [Passes -> Pass]
<1>1. [passes[p] EXCEPT !.pc = pc] \in Pass
  BY DEF TypeOK, Pass, PassRecord
<1>2. passes' = [passes EXCEPT ![p] = [passes[p] EXCEPT !.pc = pc]]
  BY DEF PassGoes, TypeOK
<1>3. QED
  BY <1>1, <1>2 DEF TypeOK

LEMMA UnseenItems ==
  ASSUME TypeOK, NEW w \in Workers
  PROVE  Unseen(w) \in [MatchTypes -> Item]
<1>1. ASSUME NEW k \in MatchTypes PROVE [items[k] EXCEPT !.seen = @ \ {w}] \in Item
  BY DEF TypeOK, Item
<1>2. QED
  BY <1>1 DEF Unseen

LEMMA EnqueueTypes ==
  ASSUME TypeOK, NEW p \in Passes, NEW k \in MatchTypes, NEW isSame,
         Enqueue(p, k, isSame)
  PROVE  items' \in [MatchTypes -> Item] /\ overtaken' \subseteq MatchTypes
BY Records DEF Enqueue, TypeOK

LEMMA InitialEndsTypes ==
  ASSUME TypeOK, NEW p \in Passes, InitialEnds(p)
  PROVE  passes' \in [Passes -> Pass]
BY Records DEF InitialEnds, TypeOK

LEMMA WorkTypeOK ==
  ASSUME TypeOK, NEW w \in Workers, Work(w)
  PROVE  TypeOK'
<1> DEFINE x == workers[w]
           k == workers[w].key
<1>0. /\ x \in WorkerRecord
      /\ x.pc \notin {"idle", "recover", "poll"} => k \in MatchTypes
      /\ x.pc \in {"check", "retire", "claim"} => x.state \in Waiting
  BY DEF TypeOK, Worker
<1>1. CASE RecoverReads(w)
  <2> DEFINE abandoned == {j \in MatchTypes : items[j].state = "RUNNING" /\ items[j].ripe}
             y == [Idle EXCEPT !.pc = IF abandoned = {} THEN "poll" ELSE "recover",
                               !.todo = {<<j, items[j].attempts>> : j \in abandoned}]
  <2>1. {<<j, items[j].attempts>> : j \in abandoned} \in SUBSET (MatchTypes \X Nat)
    BY DEF TypeOK, Item
  <2>2. y \in Worker
    BY <2>1, Records DEF Worker, WorkerRecord, WorkerSteps, Idle
  <2>3. QED
    BY <1>1, <2>2 DEF RecoverReads, TypeOK
<1>2. ASSUME NEW j \in MatchTypes, NEW n \in Nat, recoverAbandoned(w, j, n) PROVE TypeOK'
  <2> DEFINE terminal == n >= INITIAL_MATCH_MAX_ATTEMPTS
             y == [x EXCEPT !.pc = IF x.todo = {<<j, n>>} THEN "poll" ELSE "recover",
                            !.todo = x.todo \ {<<j, n>>}]
             i == [items[j] EXCEPT
                     !.state = IF terminal THEN "PERMANENT_FAILED" ELSE "RETRYABLE_FAILED",
                     !.ripe = ~terminal, !.code = "transient", !.seen = {}]
  <2>1. i \in Item
    BY BoundsAssumption
    DEF TypeOK, Item, ItemStates, Codes, RETRYABLE_TERMINAL_CODES, TRANSIENT_ERROR_CODES
  <2>2. y \in Worker
    BY <1>0 DEF Worker, WorkerRecord, WorkerSteps
  <2>3. /\ items' = [items EXCEPT ![j] = i]
        /\ workers' = [workers EXCEPT ![w] = y]
    <3>1. items' = [items EXCEPT ![j] = i]
      BY <1>2, Zenon DEF recoverAbandoned
    <3>2. workers' = [workers EXCEPT ![w] = y]
      BY <1>2, Zenon DEF recoverAbandoned
    <3>3. QED
      BY <3>1, <3>2
  <2>4. overtaken' \subseteq MatchTypes
    BY <1>2 DEF recoverAbandoned, TypeOK
  <2>5. QED
    BY <1>2, <2>1, <2>2, <2>3, <2>4 DEF recoverAbandoned, TypeOK
<1>3. ASSUME NEW j \in MatchTypes, Poll(w, j) PROVE TypeOK'
  <2> DEFINE y == [x EXCEPT !.pc = IF j = INITIAL_MATCH_TYPE THEN "claim" ELSE "check",
                            !.key = j, !.state = items[j].state, !.attempt = items[j].attempts]
             i == [items[j] EXCEPT !.seen = @ \cup {w}]
  <2>1. i \in Item
    BY DEF TypeOK, Item
  <2>2. y \in Worker
    BY <1>0, <1>3 DEF Poll, Due, TypeOK, Item, Worker, WorkerRecord, WorkerSteps
  <2>3. items' = [items EXCEPT ![j] = i] /\ workers' = [workers EXCEPT ![w] = y]
    BY <1>3 DEF Poll, TypeOK
  <2>4. QED
    BY <1>3, <2>1, <2>2, <2>3 DEF Poll, TypeOK
<1>4. CASE DrainEnds(w)
  BY <1>4, Records DEF DrainEnds, WorkerEnds, TypeOK
<1>5. CASE CheckRevision(w)
  <2>1. workers' \in [Workers -> Worker]
    BY <1>0, <1>5, WorkerMoves DEF CheckRevision, WorkerSteps
  <2>2. QED
    BY <1>5, <2>1 DEF CheckRevision, TypeOK
<1>6. CASE retireSupersededProfileRefresh(w)
  <2> DEFINE i == [Unseen(w)[k] EXCEPT !.state = "PERMANENT_FAILED", !.ripe = FALSE,
                                       !.code = "PROFILE_REVISION_SUPERSEDED"]
  <2>1. k \in MatchTypes
    BY <1>0, <1>6 DEF retireSupersededProfileRefresh
  <2>2. \A u \in Item : [u EXCEPT !.state = "PERMANENT_FAILED", !.ripe = FALSE,
                                  !.code = "PROFILE_REVISION_SUPERSEDED"] \in Item
    BY DEF Item, ItemStates, Codes
  <2>3. items' = [Unseen(w) EXCEPT ![k] = i]
    BY <1>6, <2>1, UnseenItems DEF retireSupersededProfileRefresh
  <2>4. items' \in [MatchTypes -> Item]
    <3>1. Unseen(w) \in [MatchTypes -> Item]
      BY UnseenItems
    <3> HIDE DEF k
    <3>2. QED
      BY <2>1, <2>2, <2>3, <3>1
  <2>5. QED
    BY <1>6, <2>1, <2>4, Records DEF retireSupersededProfileRefresh, WorkerEnds, TypeOK
<1>7. CASE Claim(w)
  <2>1. k \in MatchTypes
    BY <1>0, <1>7 DEF Claim
  <2>2. CASE items' = Unseen(w) /\ WorkerEnds(w)
    BY <1>7, <2>2, UnseenItems, Records DEF Claim, WorkerEnds, TypeOK
  <2>3. CASE ~(items' = Unseen(w) /\ WorkerEnds(w))
    <3> DEFINE i == [items[k] EXCEPT !.state = "RUNNING", !.attempts = items[k].attempts + 1,
                                     !.ripe = FALSE, !.seen = {}]
               y == [x EXCEPT !.pc = "score", !.attempt = x.attempt + 1]
    <3>1. i \in Item
      <4>1. \A u \in Item, n \in Nat :
              [u EXCEPT !.state = "RUNNING", !.attempts = n, !.ripe = FALSE, !.seen = {}]
                \in Item
        BY DEF Item, ItemStates
      <4>2. items[k] \in Item /\ items[k].attempts + 1 \in Nat
        BY <2>1 DEF TypeOK, Item
      <4>3. QED
        BY <4>1, <4>2
    <3>2. y \in Worker
      <4>1. \A u \in WorkerRecord, n \in Nat :
              [u EXCEPT !.pc = "score", !.attempt = n] \in WorkerRecord
        BY DEF WorkerRecord, WorkerSteps, ScoringSteps
      <4>2. x.attempt + 1 \in Nat
        BY <1>0 DEF WorkerRecord
      <4>3. y \in WorkerRecord /\ y.pc = "score" /\ y.key = k
        BY <1>0, <4>1, <4>2 DEF WorkerRecord
      <4>4. QED
        BY <2>1, <4>3 DEF Worker
    <3>3. items' = [items EXCEPT ![k] = i] /\ workers' = [workers EXCEPT ![w] = y]
      BY <1>7, <2>1, <2>3 DEF Claim, TypeOK
    <3>4. QED
      BY <1>7, <2>1, <3>1, <3>2, <3>3 DEF Claim, TypeOK
  <2>4. QED
    BY <2>2, <2>3
<1>8. CASE ReadExistingScore(w)
  <2>1. workers' \in [Workers -> Worker]
    BY <1>0, <1>8, WorkerMoves DEF ReadExistingScore, WorkerSteps, ScoringSteps
  <2>2. QED
    BY <1>8, <2>1 DEF ReadExistingScore, TypeOK
<1>9. CASE LoadProfile(w)
  <2> DEFINE y == IF revision = None
                  THEN [x EXCEPT !.pc = "fail", !.code = "PROFILE_FACTS_MISSING"]
                  ELSE [x EXCEPT !.pc = "model", !.revision = revision]
  <2>1. y \in Worker
    BY <1>0, <1>9 DEF LoadProfile, TypeOK, Worker, WorkerRecord, WorkerSteps, ScoringSteps, Codes
  <2>2. workers' = [workers EXCEPT ![w] = y]
    BY <1>9 DEF LoadProfile, TypeOK
  <2>3. QED
    BY <1>9, <2>1, <2>2 DEF LoadProfile, TypeOK
<1>10. CASE PersistScore(w)
  <2>1. workers' \in [Workers -> Worker]
    BY <1>0, <1>10, WorkerMoves DEF PersistScore, WorkerSteps, ScoringSteps
  <2>2. x.revision \in Revisions \cup {None}
    BY <1>0 DEF WorkerRecord
  <2>3. QED
    BY <1>10, <2>1, <2>2 DEF PersistScore, TypeOK
<1>11. CASE Succeed(w)
  <2> DEFINE i == [items[k] EXCEPT !.state = "SUCCEEDED", !.ripe = FALSE, !.code = "none"]
  <2>1. k \in MatchTypes
    BY <1>0, <1>11 DEF Succeed
  <2>2. i \in Item
    <3>1. items[k] \in Item
      BY <2>1 DEF TypeOK
    <3>2. QED
      BY <3>1 DEF Item, ItemStates, Codes
  <2>3. items' = [items EXCEPT ![k] = i]
    BY <1>11, <2>1 DEF Succeed, TypeOK
  <2>4. QED
    BY <1>11, <2>1, <2>2, <2>3, Records DEF Succeed, WorkerEnds, TypeOK
<1>12. CASE Fail(w)
  <2> DEFINE retryable == x.code \in TRANSIENT_ERROR_CODES
                            /\ x.attempt < INITIAL_MATCH_MAX_ATTEMPTS
             i == [items[k] EXCEPT
                     !.state = IF retryable THEN "RETRYABLE_FAILED" ELSE "PERMANENT_FAILED",
                     !.ripe = FALSE, !.code = x.code, !.seen = {}]
  <2>1. k \in MatchTypes
    BY <1>0, <1>12 DEF Fail
  <2>2. i \in Item
    <3>1. \A u \in Item, state \in ItemStates, code \in Codes :
            [u EXCEPT !.state = state, !.ripe = FALSE, !.code = code, !.seen = {}] \in Item
      BY DEF Item
    <3>2. items[k] \in Item /\ x.code \in Codes
      BY <1>0, <2>1 DEF TypeOK, WorkerRecord
    <3>3. QED
      BY <3>1, <3>2 DEF ItemStates
  <2>3. items' = [items EXCEPT ![k] = i]
    BY <1>12, <2>1 DEF Fail, TypeOK
  <2>4. QED
    BY <1>12, <2>1, <2>2, <2>3, Records DEF Fail, WorkerEnds, TypeOK
<1>13. ASSUME NEW t \in x.todo, recoverAbandoned(w, t[1], t[2]) PROVE TypeOK'
  <2>1. t[1] \in MatchTypes /\ t[2] \in Nat
    BY <1>0 DEF WorkerRecord
  <2>2. QED
    BY <1>2, <1>13, <2>1
<1>14. QED
  BY <1>1, <1>3, <1>4, <1>5, <1>6, <1>7, <1>8, <1>9, <1>10, <1>11, <1>12, <1>13 DEF Work

LEMMA WorkerFaultsTypeOK ==
  ASSUME TypeOK, NEW w \in Workers, ScoringThrows(w) \/ WorkerDies(w)
  PROVE  TypeOK'
<1> DEFINE x == workers[w]
<1>0. /\ x \in WorkerRecord
      /\ x.pc \notin {"idle", "recover", "poll"} => x.key \in MatchTypes
  BY DEF TypeOK, Worker
<1>1. CASE ScoringThrows(w)
  <2>1. PICK code \in RETRYABLE_TERMINAL_CODES :
          workers' = [workers EXCEPT ![w] = [x EXCEPT !.pc = "fail", !.code = code]]
    BY <1>1, Zenon DEF ScoringThrows
  <2> DEFINE y == [x EXCEPT !.pc = "fail", !.code = code]
  <2>2. y \in Worker
    BY <1>0, <1>1 DEF ScoringThrows, Worker, WorkerRecord, WorkerSteps, ScoringSteps, Codes
  <2>3. workers' \in [Workers -> Worker]
    <3> HIDE DEF y
    <3>1. workers' = [workers EXCEPT ![w] = y]
      BY <2>1 DEF y
    <3>2. QED
      BY <2>2, <3>1 DEF TypeOK
  <2>4. /\ faults' = faults + 1
        /\ UNCHANGED <<items, revision, latest, shown, passes, edits, overtaken>>
    BY <1>1, Zenon DEF ScoringThrows
  <2>5. QED
    BY <2>3, <2>4 DEF TypeOK
<1>2. CASE WorkerDies(w)
  BY <1>2, UnseenItems, Records DEF WorkerDies, WorkerEnds, TypeOK
<1>3. QED
  BY <1>1, <1>2

LEMMA ScheduleTypeOK ==
  ASSUME TypeOK, NEW p \in Passes, Schedule(p)
  PROVE  TypeOK'
<1> DEFINE x == passes[p]
<1>0. /\ x \in PassRecord
      /\ x.pc \in {"obsolete", "read scores", "hide", "queue refresh"} => x.revision \in Revisions
  BY DEF TypeOK, Pass
<1>1. CASE FailedReads(p)
  <2> DEFINE failed == {k \in MatchTypes : /\ items[k].state = "PERMANENT_FAILED"
                                           /\ items[k].ripe
                                           /\ items[k].code \in RETRYABLE_TERMINAL_CODES}
             y == [x EXCEPT !.pc = IF failed = {} THEN "initial" ELSE "requeue", !.todo = failed]
  <2>1. y \in Pass
    BY <1>0 DEF Pass, PassRecord, PassSteps
  <2>2. passes' = [passes EXCEPT ![p] = y]
    BY <1>1 DEF FailedReads, TypeOK
  <2>3. QED
    BY <1>1, <2>1, <2>2 DEF FailedReads, TypeOK
<1>2. ASSUME NEW k \in x.todo, requeueStaleFailedScore(p, k) PROVE TypeOK'
  <2> DEFINE y == [x EXCEPT !.pc = IF x.todo = {k} THEN "initial" ELSE "requeue",
                            !.todo = x.todo \ {k}]
  <2>1. y \in Pass
    BY <1>0 DEF Pass, PassRecord, PassSteps
  <2>2. passes' = [passes EXCEPT ![p] = y]
    BY <1>2, Zenon DEF requeueStaleFailedScore
  <2>3. items' \in [MatchTypes -> Item]
    BY <1>2, Records DEF requeueStaleFailedScore, TypeOK
  <2>4. QED
    BY <1>2, <2>1, <2>2, <2>3 DEF requeueStaleFailedScore, TypeOK
<1>3. CASE InitialReads(p)
  <2> DEFINE y == [x EXCEPT !.pc = "queue initial",
                            !.found = items[INITIAL_MATCH_TYPE].state # "ABSENT"]
  <2>1. y \in Pass
    BY <1>0 DEF Pass, PassRecord, PassSteps
  <2>2. InitialEnds(p) \/ passes' = [passes EXCEPT ![p] = y]
    BY <1>3 DEF InitialReads, TypeOK
  <2>3. passes' \in [Passes -> Pass]
    BY <2>1, <2>2, InitialEndsTypes DEF TypeOK
  <2>4. QED
    BY <1>3, <2>3 DEF InitialReads, TypeOK
<1>4. CASE QueueInitial(p)
  <2>1. INITIAL_MATCH_TYPE \in MatchTypes
    BY DEF MatchTypes
  <2>2. items' \in [MatchTypes -> Item] /\ overtaken' \subseteq MatchTypes
    BY <1>4, <2>1, EnqueueTypes DEF QueueInitial
  <2>3. passes' \in [Passes -> Pass]
    BY <1>4, InitialEndsTypes DEF QueueInitial
  <2>4. QED
    BY <1>4, <2>2, <2>3 DEF QueueInitial, TypeOK
<1>5. CASE RefreshReads(p)
  <2> DEFINE y == [x EXCEPT !.pc = "obsolete", !.revision = revision]
  <2>1. CASE revision # None
    <3>1. y \in Pass
      BY <1>0, <2>1 DEF TypeOK, Pass, PassRecord, PassSteps
    <3>2. passes' = [passes EXCEPT ![p] = y]
      BY <1>5, <2>1 DEF RefreshReads, TypeOK
    <3>3. QED
      BY <1>5, <3>1, <3>2 DEF RefreshReads, TypeOK
  <2>2. CASE PassGoes(p, "hide all")
    BY <1>5, <2>2, PassMoves DEF RefreshReads, TypeOK, PassSteps
  <2>3. CASE PassEnds(p)
    BY <1>5, <2>3, Records DEF RefreshReads, PassEnds, TypeOK
  <2>4. QED
    BY <1>5, <2>1, <2>2, <2>3 DEF RefreshReads
<1>6. CASE HideAll(p)
  BY <1>6, Records DEF HideAll, PassEnds, TypeOK
<1>7. CASE RetireObsolete(p)
  <2>1. ASSUME NEW k \in MatchTypes
        PROVE  [items[k] EXCEPT !.state = "PERMANENT_FAILED", !.ripe = FALSE,
                                !.code = "PROFILE_REVISION_SUPERSEDED"] \in Item
    BY DEF TypeOK, Item, ItemStates, Codes
  <2>2. items' \in [MatchTypes -> Item]
    BY <1>7, <2>1 DEF RetireObsolete, TypeOK
  <2>3. passes' \in [Passes -> Pass]
    BY <1>0, <1>7, PassMoves DEF RetireObsolete, PassSteps
  <2>4. QED
    BY <1>7, <2>2, <2>3 DEF RetireObsolete, TypeOK
<1>8. CASE ReadScores(p)
  <2>1. CASE PassEnds(p)
    BY <1>8, <2>1, Records DEF ReadScores, PassEnds, TypeOK
  <2>2. CASE ~PassEnds(p)
    <3>1. PICK pc \in {"hide", "queue refresh"}, found \in BOOLEAN, queue \in BOOLEAN :
            passes' = [passes EXCEPT ![p] =
              [x EXCEPT !.pc = pc, !.found = found, !.queue = queue]]
      BY <1>8, <2>2 DEF ReadScores, TypeOK
    <3>2. [x EXCEPT !.pc = pc, !.found = found, !.queue = queue] \in Pass
      BY <1>0, <1>8 DEF ReadScores, Pass, PassRecord, PassSteps
    <3>3. QED
      BY <1>8, <3>1, <3>2 DEF ReadScores, TypeOK
  <2>3. QED
    BY <2>1, <2>2
<1>9. CASE Hide(p)
  <2>1. passes' \in [Passes -> Pass]
    BY <1>0, <1>9, PassMoves, Records DEF Hide, PassEnds, PassSteps, TypeOK
  <2>2. QED
    BY <1>9, <2>1 DEF Hide, TypeOK
<1>10. CASE QueueRefresh(p)
  <2>1. x.revision \in MatchTypes
    BY <1>0, <1>10 DEF QueueRefresh, MatchTypes
  <2>2. items' \in [MatchTypes -> Item] /\ overtaken' \subseteq MatchTypes
    BY <1>10, <2>1, EnqueueTypes DEF QueueRefresh
  <2>3. passes' \in [Passes -> Pass]
    BY <1>10, Records DEF QueueRefresh, PassEnds, TypeOK
  <2>4. QED
    BY <1>10, <2>2, <2>3 DEF QueueRefresh, TypeOK
<1>11. CASE BatchIsFull(p)
  <2> DEFINE y == [x EXCEPT !.pc = "initial"]
  <2>1. y \in Pass
    BY <1>0 DEF Pass, PassRecord, PassSteps
  <2>2. passes' = [passes EXCEPT ![p] = y]
    BY <1>11 DEF BatchIsFull, PassGoes
  <2>3. QED
    BY <1>11, <2>1, <2>2 DEF BatchIsFull, TypeOK
<1>12. QED
  BY <1>1, <1>2, <1>3, <1>4, <1>5, <1>6, <1>7, <1>8, <1>9, <1>10, <1>11 DEF Schedule

LEMMA InitTypeOK == Init => TypeOK
<1> SUFFICES ASSUME Init PROVE TypeOK
  OBVIOUS
<1>1. items \in [MatchTypes -> Item]
  BY Records DEF Init
<1>2. workers \in [Workers -> Worker] /\ passes \in [Passes -> Pass]
  BY Records DEF Init
<1>3. QED
  BY <1>1, <1>2 DEF Init, TypeOK

LEMMA StepTypeOK == TypeOK /\ [Next]_vars => TypeOK'
<1> SUFFICES ASSUME TypeOK, [Next]_vars PROVE TypeOK'
  OBVIOUS
<1>1. ASSUME NEW w \in Workers, Work(w) \/ ScoringThrows(w) \/ WorkerDies(w) PROVE TypeOK'
  BY <1>1, WorkTypeOK, WorkerFaultsTypeOK
<1>2. ASSUME NEW p \in Passes, BackstopStarts(p) PROVE TypeOK'
  BY <1>2, Records DEF BackstopStarts, TypeOK
<1>3. ASSUME NEW p \in Passes, RequestStarts(p) PROVE TypeOK'
  BY <1>3, Records DEF RequestStarts, TypeOK
<1>4. ASSUME NEW p \in Passes, PassDies(p) PROVE TypeOK'
  BY <1>4, Records DEF PassDies, PassEnds, TypeOK
<1>5. ASSUME NEW k \in MatchTypes, Ripens(k) PROVE TypeOK'
  <2>1. [items[k] EXCEPT !.ripe = TRUE] \in Item
    BY DEF TypeOK, Item
  <2>2. items' = [items EXCEPT ![k] = [items[k] EXCEPT !.ripe = TRUE]]
    BY <1>5 DEF Ripens, TypeOK
  <2>3. QED
    BY <1>5, <2>1, <2>2 DEF Ripens, TypeOK
<1>6. CASE EditProfile
  BY <1>6 DEF EditProfile, TypeOK
<1>7. CASE UNCHANGED vars
  BY <1>7 DEF vars, TypeOK
<1>8. QED
  BY <1>1, <1>2, <1>3, <1>4, <1>5, <1>6, <1>7, ScheduleTypeOK DEF Next

\* Type correctness: a worker past its poll has picked an item that waited, and
\* a pass past its read of the revision knows one.
THEOREM TypeCorrect == Spec => []TypeOK
<1>1. QED
  BY InitTypeOK, StepTypeOK, PTL DEF Spec

-----------------------------------------------------------------------------
(* One scorer per item                                                       *)

Sighted == {"check", "retire", "claim"}

\* What the guard of the claim rests on: a worker whose sighting of an item still
\* stands knows its attempts, a waiting item has an attempt left, and the row of
\* an item that is scored is the one its only worker claimed.
SightingsCurrent(k) ==
  \A w \in Workers :
    workers[w].pc \in Sighted /\ workers[w].key = k /\ w \in items[k].seen =>
      items[k].attempts = workers[w].attempt
AttemptsLeft(k) ==
  /\ items[k].state \in Waiting => items[k].attempts < INITIAL_MATCH_MAX_ATTEMPTS
  /\ items[k].attempts =< INITIAL_MATCH_MAX_ATTEMPTS
OneScorer(k) ==
  \A w \in Workers : Scoring(w, k) =>
    /\ items[k].state = "RUNNING"
    /\ items[k].attempts = workers[w].attempt
    /\ \A v \in Workers : Scoring(v, k) => v = w
ItemInv(k) ==
  /\ SightingsCurrent(k)
  /\ k \notin overtaken => AttemptsLeft(k) /\ OneScorer(k)

QueueInv == \A k \in MatchTypes : ItemInv(k)

\* The step leaves the row of k as it is, but for workers that forget it, and no
\* worker turns to it.
LeavesAlone(k) ==
  /\ items'[k].state = items[k].state
  /\ items'[k].attempts = items[k].attempts
  /\ items'[k].seen \subseteq items[k].seen
  /\ k \in overtaken => k \in overtaken'
  /\ \A v \in Workers : Scoring(v, k)' =>
       Scoring(v, k) /\ workers'[v].attempt = workers[v].attempt
  /\ \A v \in items'[k].seen : workers'[v].pc \in Sighted /\ workers'[v].key = k =>
       /\ workers[v].pc \in Sighted /\ workers[v].key = k
       /\ workers'[v].attempt = workers[v].attempt

LEMMA LeftAlone ==
  ASSUME NEW k \in MatchTypes, ItemInv(k), LeavesAlone(k)
  PROVE  ItemInv(k)'
<1>1. SightingsCurrent(k)'
  BY DEF ItemInv, SightingsCurrent, LeavesAlone
<1>2. ASSUME k \notin overtaken' PROVE AttemptsLeft(k)' /\ OneScorer(k)'
  BY <1>2 DEF ItemInv, AttemptsLeft, OneScorer, LeavesAlone
<1>3. QED
  BY <1>1, <1>2 DEF ItemInv

\* The step writes the row of k, which no worker scores afterwards.
LEMMA WrittenAtRest ==
  ASSUME NEW k \in MatchTypes, SightingsCurrent(k)',
         k \notin overtaken' =>
           AttemptsLeft(k)' /\ \A w \in Workers : ~Scoring(w, k)'
  PROVE  ItemInv(k)'
BY DEF ItemInv, OneScorer

\* A step that changes only the worker w, and neither rows nor history, keeps the
\* invariant if w starts no scoring and sights nothing.
LEMMA WorkerOnly ==
  ASSUME TypeOK, QueueInv, NEW w \in Workers, UNCHANGED <<items, overtaken>>,
         \A v \in Workers \ {w} : workers'[v] = workers[v],
         workers'[w].pc \in ScoringSteps =>
           /\ workers[w].pc \in ScoringSteps
           /\ workers'[w].key = workers[w].key
           /\ workers'[w].attempt = workers[w].attempt,
         workers'[w].pc \in Sighted =>
           /\ workers[w].pc \in Sighted
           /\ workers'[w].key = workers[w].key
           /\ workers'[w].attempt = workers[w].attempt
  PROVE  QueueInv'
<1>1. ASSUME NEW k \in MatchTypes PROVE LeavesAlone(k)
  <2>1. items[k].seen \subseteq Workers
    BY DEF TypeOK, Item
  <2>2. QED
    BY <2>1 DEF LeavesAlone, Scoring
<1>2. QED
  BY <1>1, LeftAlone DEF QueueInv

\* The workers stand still, and each row keeps what the invariant reads of it, or
\* starts afresh, or is closed, the last two while no worker scores it.
LEMMA RowsOnly ==
  ASSUME TypeOK, QueueInv, UNCHANGED workers, overtaken \subseteq overtaken',
         \A k \in MatchTypes :
           \/ /\ items'[k].state = items[k].state
              /\ items'[k].attempts = items[k].attempts
              /\ items'[k].seen = items[k].seen
           \/ /\ k \notin overtaken' => ~InHand(k)
              /\ items'[k].seen = {} /\ items'[k].attempts = 0
           \/ /\ k \notin overtaken' => ~InHand(k)
              /\ items'[k].seen = items[k].seen /\ items'[k].attempts = items[k].attempts
              /\ items'[k].state \notin Waiting
  PROVE  QueueInv'
<1> SUFFICES ASSUME NEW k \in MatchTypes PROVE ItemInv(k)'
  BY DEF QueueInv
<1>1. ItemInv(k)
  BY DEF QueueInv
<1>2. CASE /\ items'[k].state = items[k].state
           /\ items'[k].attempts = items[k].attempts
           /\ items'[k].seen = items[k].seen
  BY <1>1, <1>2, LeftAlone DEF LeavesAlone, Scoring
<1>3. (k \notin overtaken' => ~InHand(k)) =>
        (k \notin overtaken' => \A w \in Workers : ~Scoring(w, k)')
  BY DEF InHand, Scoring
<1>4. CASE /\ k \notin overtaken' => ~InHand(k)
           /\ items'[k].seen = {} /\ items'[k].attempts = 0
  BY <1>3, <1>4, WrittenAtRest, BoundsAssumption DEF AttemptsLeft, SightingsCurrent
<1>5. CASE /\ k \notin overtaken' => ~InHand(k)
           /\ items'[k].seen = items[k].seen /\ items'[k].attempts = items[k].attempts
           /\ items'[k].state \notin Waiting
  <2>1. SightingsCurrent(k)'
    BY <1>1, <1>5 DEF ItemInv, SightingsCurrent
  <2>2. k \notin overtaken' => AttemptsLeft(k)'
    BY <1>1, <1>5 DEF ItemInv, AttemptsLeft
  <2>3. QED
    BY <1>3, <1>5, <2>1, <2>2, WrittenAtRest
<1>6. QED
  BY <1>2, <1>4, <1>5

\* An item that waits, has failed or is done is not scored.
LEMMA NotRunning ==
  ASSUME QueueInv, NEW k \in MatchTypes \ overtaken, items[k].state # "RUNNING"
  PROVE  \A w \in Workers : ~Scoring(w, k)
BY DEF QueueInv, ItemInv, OneScorer

LEMMA PollQueueInv ==
  ASSUME TypeOK, QueueInv, NEW w \in Workers, NEW j \in MatchTypes, Poll(w, j)
  PROVE  QueueInv'
<1> SUFFICES ASSUME NEW k \in MatchTypes PROVE ItemInv(k)'
  BY DEF QueueInv
<1>1. /\ ItemInv(k)
      /\ items[k].seen \subseteq Workers
      /\ w \in DOMAIN workers
      /\ k \in DOMAIN items
  BY DEF QueueInv, TypeOK, Item
<1>2. /\ workers'[w].key = j /\ workers'[w].attempt = items[j].attempts
      /\ workers'[w].pc \in {"claim", "check"}
      /\ \A v \in Workers \ {w} : workers'[v] = workers[v]
  BY DEF Poll, TypeOK, Worker, WorkerRecord
<1>3. /\ items[j].state \in Waiting
      /\ \A i \in MatchTypes : /\ items'[i].state = items[i].state
                               /\ items'[i].attempts = items[i].attempts
      /\ items'[j].seen = items[j].seen \cup {w}
      /\ \A i \in MatchTypes \ {j} : items'[i].seen = items[i].seen
  BY DEF Poll, Due, TypeOK, Item
<1>4. overtaken' = overtaken
  BY DEF Poll
<1>5. CASE k # j
  <2>1. LeavesAlone(k)
    BY <1>1, <1>2, <1>3, <1>4, <1>5 DEF LeavesAlone, Scoring, ScoringSteps
  <2>2. QED
    BY <1>1, <2>1, LeftAlone
<1>6. CASE k = j
  <2>1. SightingsCurrent(k)'
    BY <1>1, <1>2, <1>3, <1>6 DEF ItemInv, SightingsCurrent
  <2>2. ASSUME k \notin overtaken' PROVE AttemptsLeft(k)'
    BY <1>1, <1>3, <1>4, <2>2 DEF ItemInv, AttemptsLeft
  <2>3. ASSUME k \notin overtaken' PROVE \A v \in Workers : ~Scoring(v, k)'
    BY <1>2, <1>3, <1>4, <1>6, <2>3, NotRunning DEF Scoring, ScoringSteps, Waiting
  <2>4. QED
    BY <2>1, <2>2, <2>3, WrittenAtRest
<1>7. QED
  BY <1>5, <1>6

LEMMA RecoverQueueInv ==
  ASSUME TypeOK, QueueInv, NEW w \in Workers, NEW j \in MatchTypes, NEW n \in Nat,
         recoverAbandoned(w, j, n)
  PROVE  QueueInv'
<1> SUFFICES ASSUME NEW k \in MatchTypes PROVE ItemInv(k)'
  BY DEF QueueInv
<1>1. ItemInv(k)
  BY DEF QueueInv
<1>2. /\ workers'[w].pc \in {"poll", "recover"}
      /\ \A v \in Workers \ {w} : workers'[v] = workers[v]
  BY DEF recoverAbandoned, TypeOK, Worker, WorkerRecord
<1>3. /\ items'[j].attempts = items[j].attempts
      /\ items'[j].state = IF n >= INITIAL_MATCH_MAX_ATTEMPTS
                           THEN "PERMANENT_FAILED" ELSE "RETRYABLE_FAILED"
      /\ items'[j].seen = {}
      /\ \A i \in MatchTypes \ {j} : items'[i] = items[i]
  BY DEF recoverAbandoned, TypeOK, Item
<1>4. /\ overtaken \subseteq overtaken'
      /\ j \notin overtaken' => items[j].attempts = n /\ ~InHand(j)
  BY DEF recoverAbandoned
<1>5. CASE k # j
  <2>1. items[k].seen \subseteq Workers
    BY DEF TypeOK, Item
  <2>2. LeavesAlone(k)
    BY <1>2, <1>3, <1>4, <1>5, <2>1 DEF LeavesAlone, Scoring, ScoringSteps, Sighted
  <2>3. QED
    BY <1>1, <2>2, LeftAlone
<1>6. CASE k = j
  <2>1. SightingsCurrent(k)'
    BY <1>3, <1>6 DEF SightingsCurrent
  <2>2. ASSUME k \notin overtaken' PROVE AttemptsLeft(k)'
    BY <1>1, <1>3, <1>4, <1>6, <2>2, BoundsAssumption DEF ItemInv, AttemptsLeft, Waiting
  <2>3. ASSUME k \notin overtaken' PROVE \A v \in Workers : ~Scoring(v, k)'
    BY <1>2, <1>4, <1>6, <2>3 DEF InHand, Scoring, ScoringSteps
  <2>4. QED
    BY <2>1, <2>2, <2>3, WrittenAtRest
<1>7. QED
  BY <1>5, <1>6

\* A worker gives up its item and writes only its row, which it does not leave
\* waiting without an attempt.
LEMMA WorkerLeaves ==
  ASSUME TypeOK, QueueInv, NEW w \in Workers, WorkerEnds(w), overtaken \subseteq overtaken',
         NEW j \in MatchTypes,
         \A i \in MatchTypes \ {j} : /\ items'[i].state = items[i].state
                                     /\ items'[i].attempts = items[i].attempts
                                     /\ items'[i].seen \subseteq items[i].seen,
         items'[j].attempts = items[j].attempts,
         items'[j].seen \subseteq items[j].seen,
         j \notin overtaken' =>
           /\ \A v \in Workers \ {w} : ~Scoring(v, j)
           /\ items'[j].state \in Waiting => items[j].attempts < INITIAL_MATCH_MAX_ATTEMPTS
  PROVE  QueueInv'
<1> SUFFICES ASSUME NEW k \in MatchTypes PROVE ItemInv(k)'
  BY DEF QueueInv
<1>1. ItemInv(k) /\ items[k].seen \subseteq Workers
  BY DEF QueueInv, TypeOK, Item
<1>2. workers'[w].pc = "idle" /\ \A v \in Workers \ {w} : workers'[v] = workers[v]
  BY DEF WorkerEnds, Idle, TypeOK
<1>3. CASE k # j
  <2>1. LeavesAlone(k)
    BY <1>1, <1>2, <1>3 DEF LeavesAlone, Scoring, ScoringSteps, Sighted
  <2>2. QED
    BY <1>1, <2>1, LeftAlone
<1>4. CASE k = j
  <2>1. SightingsCurrent(k)'
    BY <1>1, <1>2, <1>4 DEF ItemInv, SightingsCurrent, Sighted
  <2>2. ASSUME k \notin overtaken' PROVE AttemptsLeft(k)'
    BY <1>1, <1>4, <2>2 DEF ItemInv, AttemptsLeft
  <2>3. ASSUME k \notin overtaken' PROVE \A v \in Workers : ~Scoring(v, k)'
    BY <1>2, <1>4, <2>3 DEF Scoring, ScoringSteps
  <2>4. QED
    BY <2>1, <2>2, <2>3, WrittenAtRest
<1>5. QED
  BY <1>3, <1>4

\* What Unseen keeps.
LEMMA UnseenKeeps ==
  ASSUME TypeOK, NEW w \in Workers, NEW k \in MatchTypes
  PROVE  /\ Unseen(w)[k].state = items[k].state
         /\ Unseen(w)[k].attempts = items[k].attempts
         /\ Unseen(w)[k].seen \subseteq items[k].seen
BY DEF Unseen, TypeOK, Item

\* A worker that gives up before the claim only forgets what it has seen.
LEMMA WorkerForgets ==
  ASSUME TypeOK, QueueInv, NEW w \in Workers, WorkerEnds(w), overtaken' = overtaken,
         items' = Unseen(w)
  PROVE  QueueInv'
<1> SUFFICES ASSUME NEW k \in MatchTypes PROVE ItemInv(k)'
  BY DEF QueueInv
<1>1. ItemInv(k) /\ items[k].seen \subseteq Workers
  BY DEF QueueInv, TypeOK, Item
<1>2. workers'[w].pc = "idle" /\ \A v \in Workers \ {w} : workers'[v] = workers[v]
  BY DEF WorkerEnds, Idle, TypeOK
<1>3. LeavesAlone(k)
  BY <1>1, <1>2, UnseenKeeps DEF LeavesAlone, Scoring, ScoringSteps, Sighted
<1>4. QED
  BY <1>1, <1>3, LeftAlone

LEMMA RetireQueueInv ==
  ASSUME TypeOK, QueueInv, NEW w \in Workers, retireSupersededProfileRefresh(w)
  PROVE  QueueInv'
<1> DEFINE j == workers[w].key
<1>1. j \in MatchTypes /\ workers[w].state \in Waiting
  BY DEF retireSupersededProfileRefresh, TypeOK, Worker
<1>2. /\ items'[j].state = "PERMANENT_FAILED"
      /\ items'[j].attempts = Unseen(w)[j].attempts
      /\ items'[j].seen = Unseen(w)[j].seen
      /\ \A i \in MatchTypes \ {j} : items'[i] = Unseen(w)[i]
  <2>1. Unseen(w) \in [MatchTypes -> Item]
    BY UnseenItems
  <2>2. Unseen(w)[j] \in Item
    BY <1>1, <2>1
  <2>3. QED
    BY <1>1, <2>1, <2>2 DEF retireSupersededProfileRefresh, Item
<1>3. /\ overtaken \subseteq overtaken'
      /\ j \notin overtaken' => items[j].state = workers[w].state
      /\ WorkerEnds(w)
  BY DEF retireSupersededProfileRefresh
<1>4. j \notin overtaken' => \A v \in Workers : ~Scoring(v, j)
  BY <1>1, <1>3, NotRunning DEF Waiting
<1> HIDE DEF j
<1>5. QED
  BY <1>1, <1>2, <1>3, <1>4, UnseenKeeps, WorkerLeaves DEF Waiting

LEMMA SucceedQueueInv ==
  ASSUME TypeOK, QueueInv, NEW w \in Workers, Succeed(w)
  PROVE  QueueInv'
<1> DEFINE j == workers[w].key
<1>1. j \in MatchTypes /\ Scoring(w, j)
  BY DEF Succeed, TypeOK, Worker, Scoring, ScoringSteps
<1>2. /\ items'[j].state = "SUCCEEDED"
      /\ items'[j].attempts = items[j].attempts
      /\ items'[j].seen = items[j].seen
      /\ \A i \in MatchTypes \ {j} : items'[i] = items[i]
  BY <1>1 DEF Succeed, TypeOK, Item
<1>3. overtaken' = overtaken /\ WorkerEnds(w)
  BY DEF Succeed
<1>4. j \notin overtaken => \A v \in Workers \ {w} : ~Scoring(v, j)
  BY <1>1 DEF QueueInv, ItemInv, OneScorer
<1> HIDE DEF j
<1>5. QED
  BY <1>1, <1>2, <1>3, <1>4, WorkerLeaves DEF Waiting

LEMMA FailQueueInv ==
  ASSUME TypeOK, QueueInv, NEW w \in Workers, Fail(w)
  PROVE  QueueInv'
<1> DEFINE j == workers[w].key
<1>1. j \in MatchTypes /\ Scoring(w, j)
  BY DEF Fail, TypeOK, Worker, Scoring, ScoringSteps
<1>2. /\ items'[j].state = "PERMANENT_FAILED"
           \/ workers[w].attempt < INITIAL_MATCH_MAX_ATTEMPTS
      /\ items'[j].state \in Failed
      /\ items'[j].attempts = items[j].attempts
      /\ items'[j].seen = {}
      /\ \A i \in MatchTypes \ {j} : items'[i] = items[i]
  BY <1>1 DEF Fail, TypeOK, Item, Failed
<1>3. overtaken' = overtaken /\ WorkerEnds(w)
  BY DEF Fail
<1>4. j \notin overtaken => /\ \A v \in Workers \ {w} : ~Scoring(v, j)
                            /\ items[j].attempts = workers[w].attempt
  BY <1>1 DEF QueueInv, ItemInv, OneScorer
<1> HIDE DEF j
<1>5. QED
  BY <1>1, <1>2, <1>3, <1>4, WorkerLeaves DEF Waiting

LEMMA ClaimQueueInv ==
  ASSUME TypeOK, QueueInv, NEW w \in Workers, Claim(w)
  PROVE  QueueInv'
<1> DEFINE j == workers[w].key
<1>0. /\ j \in MatchTypes /\ workers[w].pc \in Sighted
      /\ workers[w].state \in Waiting
  BY DEF Claim, TypeOK, Worker, Sighted
<1>1. CASE items' = Unseen(w) /\ WorkerEnds(w)
  BY <1>1, WorkerForgets DEF Claim
<1>2. CASE ~(items' = Unseen(w) /\ WorkerEnds(w))
  <2> SUFFICES ASSUME NEW k \in MatchTypes PROVE ItemInv(k)'
    BY DEF QueueInv
  <2>1. /\ ItemInv(k) /\ items[k].seen \subseteq Workers
        /\ overtaken' = overtaken
    BY DEF QueueInv, TypeOK, Item, Claim
  <2>2. items[j].state = workers[w].state /\ w \in items[j].seen
    BY <1>2 DEF Claim
  <2>3. /\ items'[j].state = "RUNNING"
        /\ items'[j].attempts = items[j].attempts + 1
        /\ items'[j].seen = {}
        /\ \A i \in MatchTypes \ {j} : items'[i] = items[i]
    <3> DEFINE i == [items[j] EXCEPT !.state = "RUNNING", !.attempts = items[j].attempts + 1,
                                     !.ripe = FALSE, !.seen = {}]
    <3>1. items' = [items EXCEPT ![j] = i]
      BY <1>2 DEF Claim
    <3>2. i.state = "RUNNING" /\ i.attempts = items[j].attempts + 1 /\ i.seen = {}
      BY <1>0 DEF TypeOK, Item
    <3> HIDE DEF i
    <3>3. QED
      BY <1>0, <3>1, <3>2 DEF TypeOK
  <2>4. /\ workers'[w].pc = "score"
        /\ workers'[w].key = j
        /\ workers'[w].attempt = workers[w].attempt + 1
        /\ \A v \in Workers \ {w} : workers'[v] = workers[v]
    <3> DEFINE y == [workers[w] EXCEPT !.pc = "score", !.attempt = workers[w].attempt + 1]
    <3>1. workers' = [workers EXCEPT ![w] = y]
      BY <1>2 DEF Claim
    <3>2. y.pc = "score" /\ y.key = j /\ y.attempt = workers[w].attempt + 1
      BY DEF TypeOK, Worker, WorkerRecord
    <3> HIDE DEF y
    <3>3. QED
      BY <3>1, <3>2 DEF TypeOK
  <2>5. items[j].attempts = workers[w].attempt
    BY <1>0, <2>2 DEF QueueInv, ItemInv, SightingsCurrent
  <2>6. j \notin overtaken => \A v \in Workers : ~Scoring(v, j)
    BY <1>0, <2>2, NotRunning DEF Waiting
  <2>7. items[j].attempts \in Nat
    BY <1>0 DEF TypeOK, Item
  <2> HIDE DEF j
  <2>8. CASE k # j
    <3>1. LeavesAlone(k)
      BY <2>1, <2>3, <2>4, <2>8 DEF LeavesAlone, Scoring, Sighted
    <3>2. QED
      BY <2>1, <3>1, LeftAlone
  <2>9. CASE k = j
    <3>1. SightingsCurrent(k)'
      BY <2>3, <2>9 DEF SightingsCurrent
    <3>2. ASSUME k \notin overtaken' PROVE AttemptsLeft(k)'
      <4>1. items[k].attempts < INITIAL_MATCH_MAX_ATTEMPTS
        BY <1>0, <2>1, <2>2, <2>9, <3>2 DEF ItemInv, AttemptsLeft
      <4>2. QED
        BY <2>3, <2>7, <2>9, <4>1, BoundsAssumption DEF AttemptsLeft, Waiting
    <3>3. ASSUME k \notin overtaken' PROVE OneScorer(k)'
      <4>1. \A v \in Workers : Scoring(v, k)' => v = w
        BY <2>1, <2>4, <2>6, <2>9, <3>3 DEF Scoring
      <4>2. QED
        BY <2>3, <2>4, <2>5, <2>9, <4>1 DEF OneScorer
    <3>4. QED
      BY <3>1, <3>2, <3>3 DEF ItemInv
  <2>10. QED
    BY <2>8, <2>9
<1>3. QED
  BY <1>1, <1>2

LEMMA WorkQueueInv ==
  ASSUME TypeOK, QueueInv, NEW w \in Workers,
         Work(w) \/ ScoringThrows(w) \/ WorkerDies(w)
  PROVE  QueueInv'
<1> DEFINE x == workers[w]
<1>0. x \in WorkerRecord
  BY DEF TypeOK, Worker
<1>1. CASE RecoverReads(w)
  <2>1. /\ \A v \in Workers \ {w} : workers'[v] = workers[v]
        /\ workers'[w].pc \in {"poll", "recover"}
    BY <1>1 DEF RecoverReads, TypeOK, Idle
  <2>2. QED
    BY <1>1, <2>1, WorkerOnly DEF RecoverReads, ScoringSteps, Sighted
<1>2. ASSUME NEW t \in x.todo, recoverAbandoned(w, t[1], t[2]) PROVE QueueInv'
  <2>1. t[1] \in MatchTypes /\ t[2] \in Nat
    BY <1>0 DEF WorkerRecord
  <2>2. QED
    BY <1>2, <2>1, RecoverQueueInv
<1>3. CASE DrainEnds(w)
  <2>1. /\ \A v \in Workers \ {w} : workers'[v] = workers[v]
        /\ workers'[w].pc = "idle"
    BY <1>3 DEF DrainEnds, WorkerEnds, TypeOK, Idle
  <2>2. QED
    BY <1>3, <2>1, WorkerOnly DEF DrainEnds, ScoringSteps, Sighted
<1>4. CASE CheckRevision(w)
  <2>1. /\ \A v \in Workers \ {w} : workers'[v] = workers[v]
        /\ workers'[w].pc \in {"claim", "retire"} /\ x.pc = "check"
        /\ workers'[w].key = x.key /\ workers'[w].attempt = x.attempt
    BY <1>0, <1>4 DEF CheckRevision, WorkerGoes, TypeOK, WorkerRecord
  <2>2. QED
    BY <1>4, <2>1, WorkerOnly DEF CheckRevision, ScoringSteps, Sighted
<1>5. CASE ReadExistingScore(w)
  <2>1. /\ \A v \in Workers \ {w} : workers'[v] = workers[v]
        /\ workers'[w].pc \in {"succeed", "load"} /\ x.pc = "score"
        /\ workers'[w].key = x.key /\ workers'[w].attempt = x.attempt
    BY <1>0, <1>5 DEF ReadExistingScore, WorkerGoes, TypeOK, WorkerRecord
  <2>2. QED
    BY <1>5, <2>1, WorkerOnly DEF ReadExistingScore, ScoringSteps, Sighted
<1>6. CASE LoadProfile(w)
  <2>1. /\ \A v \in Workers \ {w} : workers'[v] = workers[v]
        /\ workers'[w].pc \in {"fail", "model"} /\ x.pc = "load"
        /\ workers'[w].key = x.key /\ workers'[w].attempt = x.attempt
    BY <1>0, <1>6 DEF LoadProfile, TypeOK, WorkerRecord
  <2>2. QED
    BY <1>6, <2>1, WorkerOnly DEF LoadProfile, ScoringSteps, Sighted
<1>7. CASE PersistScore(w)
  <2>1. /\ \A v \in Workers \ {w} : workers'[v] = workers[v]
        /\ workers'[w].pc = "succeed" /\ x.pc = "model"
        /\ workers'[w].key = x.key /\ workers'[w].attempt = x.attempt
    BY <1>0, <1>7 DEF PersistScore, WorkerGoes, TypeOK, WorkerRecord
  <2>2. QED
    BY <1>7, <2>1, WorkerOnly DEF PersistScore, ScoringSteps, Sighted
<1>8. CASE ScoringThrows(w)
  <2>1. PICK code \in RETRYABLE_TERMINAL_CODES :
          workers' = [workers EXCEPT ![w] = [x EXCEPT !.pc = "fail", !.code = code]]
    BY <1>8, Zenon DEF ScoringThrows
  <2>2. /\ \A v \in Workers \ {w} : workers'[v] = workers[v]
        /\ workers'[w].pc = "fail"
        /\ workers'[w].key = x.key /\ workers'[w].attempt = x.attempt
    BY <1>0, <2>1 DEF TypeOK, WorkerRecord
  <2>3. x.pc \in ScoringSteps /\ UNCHANGED <<items, overtaken>>
    BY <1>8 DEF ScoringThrows, ScoringSteps
  <2>4. QED
    BY <2>2, <2>3, WorkerOnly DEF ScoringSteps, Sighted
<1>9. CASE WorkerDies(w)
  BY <1>9, WorkerForgets DEF WorkerDies
<1>10. QED
  BY <1>1, <1>2, <1>3, <1>4, <1>5, <1>6, <1>7, <1>8, <1>9, PollQueueInv, RetireQueueInv,
     ClaimQueueInv, SucceedQueueInv, FailQueueInv DEF Work

\* The queue write of a scheduler starts the row afresh, while no worker scores
\* the item or with the item overtaken.
LEMMA EnqueueQueueInv ==
  ASSUME TypeOK, QueueInv, NEW p \in Passes, NEW j \in MatchTypes, NEW isSame,
         Enqueue(p, j, isSame), UNCHANGED workers
  PROVE  QueueInv'
<1>1. Scheduled.seen = {} /\ Scheduled.attempts = 0
  BY DEF Scheduled
<1>2. CASE passes[p].found
  <2>1. /\ items'[j] = Scheduled
        /\ \A i \in MatchTypes \ {j} : items'[i] = items[i]
    BY <1>2 DEF Enqueue, TypeOK
  <2>2. overtaken \subseteq overtaken' /\ (j \notin overtaken' => ~InHand(j))
    BY <1>2 DEF Enqueue
  <2>3. QED
    BY <1>1, <2>1, <2>2, RowsOnly
<1>3. CASE ~passes[p].found
  <2>1. overtaken' = overtaken
    BY <1>3 DEF Enqueue
  <2>2. CASE items[j] = Absent
    <3>1. /\ items'[j] = Scheduled
          /\ \A i \in MatchTypes \ {j} : items'[i] = items[i]
      BY <1>3, <2>2 DEF Enqueue, TypeOK
    <3>2. j \notin overtaken => ~InHand(j)
      BY <2>2, NotRunning DEF InHand, Absent
    <3>3. QED
      BY <1>1, <2>1, <3>1, <3>2, RowsOnly
  <2>3. CASE items[j] # Absent
    <3>1. items' = items
      BY <1>3, <2>3 DEF Enqueue
    <3>2. QED
      BY <2>1, <3>1, RowsOnly
  <2>4. QED
    BY <2>2, <2>3
<1>4. QED
  BY <1>2, <1>3

LEMMA ScheduleQueueInv ==
  ASSUME TypeOK, QueueInv, NEW p \in Passes, Schedule(p)
  PROVE  QueueInv'
<1>1. CASE UNCHANGED <<items, workers, overtaken>>
  BY <1>1, RowsOnly
<1>2. ASSUME NEW j \in passes[p].todo, requeueStaleFailedScore(p, j) PROVE QueueInv'
  <2>1. j \in MatchTypes
    BY DEF TypeOK, Pass, PassRecord
  <2>2. UNCHANGED <<workers, overtaken>>
    BY <1>2 DEF requeueStaleFailedScore
  <2>3. CASE items[j].state = "PERMANENT_FAILED"
    <3>1. /\ items'[j] = Scheduled
          /\ \A i \in MatchTypes \ {j} : items'[i] = items[i]
      BY <1>2, <2>1, <2>3 DEF requeueStaleFailedScore, TypeOK
    <3>2. j \notin overtaken => ~InHand(j)
      BY <2>1, <2>3, NotRunning DEF InHand
    <3>3. Scheduled.seen = {} /\ Scheduled.attempts = 0
      BY DEF Scheduled
    <3>4. QED
      BY <2>1, <2>2, <3>1, <3>2, <3>3, RowsOnly
  <2>4. CASE items[j].state # "PERMANENT_FAILED"
    BY <1>2, <2>2, <2>4, RowsOnly DEF requeueStaleFailedScore
  <2>5. QED
    BY <2>3, <2>4
<1>3. CASE QueueInitial(p)
  <2>1. INITIAL_MATCH_TYPE \in MatchTypes
    BY DEF MatchTypes
  <2>2. QED
    BY <1>3, <2>1, EnqueueQueueInv DEF QueueInitial
<1>4. CASE RetireObsolete(p)
  <2>1. overtaken' = overtaken /\ UNCHANGED workers
    BY <1>4 DEF RetireObsolete
  <2>2. ASSUME NEW k \in MatchTypes
        PROVE  \/ items'[k] = items[k]
               \/ /\ k \notin overtaken' => ~InHand(k)
                  /\ items'[k].seen = items[k].seen /\ items'[k].attempts = items[k].attempts
                  /\ items'[k].state \notin Waiting
    <3>1. CASE k \in Revisions \ {passes[p].revision} /\ items[k].state \in Waiting
      <4>1. items'[k] = [items[k] EXCEPT !.state = "PERMANENT_FAILED", !.ripe = FALSE,
                                         !.code = "PROFILE_REVISION_SUPERSEDED"]
        BY <1>4, <3>1 DEF RetireObsolete
      <4>2. /\ items'[k].seen = items[k].seen /\ items'[k].attempts = items[k].attempts
            /\ items'[k].state \notin Waiting
        BY <4>1 DEF TypeOK, Item, Waiting
      <4>3. k \notin overtaken => ~InHand(k)
        BY <3>1, NotRunning DEF InHand, Waiting
      <4>4. QED
        BY <2>1, <4>2, <4>3
    <3>2. CASE ~(k \in Revisions \ {passes[p].revision} /\ items[k].state \in Waiting)
      BY <1>4, <3>2 DEF RetireObsolete
    <3>3. QED
      BY <3>1, <3>2
  <2>3. QED
    BY <2>1, <2>2, RowsOnly
<1>5. CASE QueueRefresh(p)
  <2>1. passes[p].revision \in MatchTypes
    BY <1>5 DEF QueueRefresh, TypeOK, Pass, MatchTypes
  <2>2. QED
    BY <1>5, <2>1, EnqueueQueueInv DEF QueueRefresh
<1>6. QED
  BY <1>1, <1>2, <1>3, <1>4, <1>5
  DEF Schedule, FailedReads, BatchIsFull, InitialReads, RefreshReads, HideAll, ReadScores, Hide

LEMMA StepQueueInv == TypeOK /\ QueueInv /\ [Next]_vars => QueueInv'
<1> SUFFICES ASSUME TypeOK, QueueInv, [Next]_vars PROVE QueueInv'
  OBVIOUS
<1>1. ASSUME NEW k \in MatchTypes, Ripens(k) PROVE QueueInv'
  <2>1. /\ items'[k].state = items[k].state
        /\ items'[k].attempts = items[k].attempts
        /\ items'[k].seen = items[k].seen
        /\ \A i \in MatchTypes \ {k} : items'[i] = items[i]
    BY <1>1 DEF Ripens, TypeOK, Item
  <2>2. UNCHANGED <<workers, overtaken>>
    BY <1>1 DEF Ripens
  <2>3. QED
    BY <2>1, <2>2, RowsOnly
<1>2. CASE UNCHANGED <<items, workers, overtaken>>
  BY <1>2, RowsOnly
<1>3. QED
  BY <1>1, <1>2, WorkQueueInv, ScheduleQueueInv
  DEF Next, vars, BackstopStarts, RequestStarts, PassDies, EditProfile

LEMMA InitQueueInv == Init => QueueInv
<1> SUFFICES ASSUME Init, NEW k \in MatchTypes PROVE ItemInv(k)
  BY DEF QueueInv
<1>1. /\ items[k].state = "ABSENT" /\ items[k].attempts = 0
      /\ \A w \in Workers : workers[w].pc = "idle"
  BY DEF Init, Absent, Idle
<1>2. QED
  BY <1>1, BoundsAssumption
  DEF ItemInv, SightingsCurrent, AttemptsLeft, OneScorer, Scoring, ScoringSteps, Sighted, Waiting

LEMMA QueueInvImplies == QueueInv => OneScorerPerItem /\ AttemptsBounded
BY DEF QueueInv, ItemInv, OneScorer, AttemptsLeft, OneScorerPerItem, AttemptsBounded

\* Whatever workers and passes interleave, two workers never score one item at
\* the same time, unless a write by id hit the item under its worker.
THEOREM ScorersExclude == Spec => []OneScorerPerItem
<1>1. QED
  BY InitTypeOK, StepTypeOK, InitQueueInv, StepQueueInv, QueueInvImplies, PTL DEF Spec

\* The guard of the claim bounds the attempts of a scheduling, with the same
\* exception.
THEOREM AttemptsAreBounded == Spec => []AttemptsBounded
<1>1. QED
  BY InitTypeOK, StepTypeOK, InitQueueInv, StepQueueInv, QueueInvImplies, PTL DEF Spec

-----------------------------------------------------------------------------
(* What is scored stays scored, and has a result                             *)

\* A worker about to report a success, or to persist a score, has one.
ResultsInv ==
  /\ ScoresHaveResults
  /\ \A w \in Workers : /\ workers[w].pc = "succeed" => latest # None
                        /\ workers[w].pc = "model" => workers[w].revision # None

LEMMA SuccessStep ==
  ASSUME TypeOK, QueueInv, Next, NEW k \in MatchTypes, items[k].state = "SUCCEEDED",
         k \notin overtaken', items'[k].state # "SUCCEEDED"
  PROVE  items'[k].state = "PENDING"
<1>1. k \notin overtaken /\ items' # items
  <2>1. ASSUME NEW w \in Workers, Work(w) \/ ScoringThrows(w) \/ WorkerDies(w)
        PROVE  overtaken \subseteq overtaken'
    <3>1. ASSUME NEW i, NEW n, recoverAbandoned(w, i, n) PROVE overtaken \subseteq overtaken'
      BY <3>1 DEF recoverAbandoned
    <3>2. CASE retireSupersededProfileRefresh(w)
      BY <3>2 DEF retireSupersededProfileRefresh
    <3>3. QED
      BY <2>1, <3>1, <3>2
      DEF Work, RecoverReads, Poll, DrainEnds, CheckRevision, Claim, ReadExistingScore,
          LoadProfile, PersistScore, Succeed, Fail, ScoringThrows, WorkerDies
  <2>2. ASSUME NEW p \in Passes, Schedule(p) PROVE overtaken \subseteq overtaken'
    <3>1. ASSUME NEW i, NEW isSame, Enqueue(p, i, isSame) PROVE overtaken \subseteq overtaken'
      BY <3>1 DEF Enqueue
    <3>2. CASE QueueInitial(p) \/ QueueRefresh(p)
      BY <3>1, <3>2 DEF QueueInitial, QueueRefresh
    <3>3. QED
      BY <2>2, <3>2
      DEF Schedule, FailedReads, BatchIsFull, requeueStaleFailedScore, InitialReads,
          RefreshReads, HideAll, RetireObsolete, ReadScores, Hide
  <2>3. overtaken \subseteq overtaken'
    BY <2>1, <2>2 DEF Next, BackstopStarts, RequestStarts, PassDies, Ripens, EditProfile
  <2>4. QED
    BY <2>3
<1>2. \A v \in Workers : ~Scoring(v, k)
  BY <1>1, NotRunning
<1>3. ASSUME NEW w \in Workers PROVE Unseen(w)[k].state = "SUCCEEDED"
  BY UnseenKeeps
<1>4. ASSUME NEW w \in Workers, Work(w) \/ WorkerDies(w) PROVE FALSE
  <2> DEFINE j == workers[w].key
  <2>1. ASSUME NEW i \in MatchTypes, NEW n \in Nat, recoverAbandoned(w, i, n) PROVE FALSE
    BY <2>1 DEF recoverAbandoned, TypeOK
  <2>2. ASSUME NEW t \in workers[w].todo, recoverAbandoned(w, t[1], t[2]) PROVE FALSE
    <3>1. t[1] \in MatchTypes /\ t[2] \in Nat
      BY DEF TypeOK, Worker, WorkerRecord
    <3>2. QED
      BY <2>1, <2>2, <3>1
  <2>3. ASSUME NEW i \in MatchTypes, Poll(w, i) PROVE FALSE
    BY <2>3 DEF Poll, TypeOK, Item
  <2>4. ASSUME retireSupersededProfileRefresh(w) PROVE FALSE
    <3>1. j \in MatchTypes /\ workers[w].state \in Waiting
      BY <2>4 DEF retireSupersededProfileRefresh, TypeOK, Worker
    <3>2. CASE k = j
      BY <2>4, <3>1, <3>2 DEF retireSupersededProfileRefresh, Waiting
    <3>3. CASE k # j
      <4>1. items'[k] = Unseen(w)[k]
        BY <2>4, <3>3, UnseenItems DEF retireSupersededProfileRefresh
      <4>2. QED
        BY <1>3, <4>1
    <3>4. QED
      BY <3>2, <3>3
  <2>5. ASSUME Claim(w) PROVE FALSE
    <3>1. workers[w].state \in Waiting
      BY <2>5 DEF Claim, TypeOK, Worker
    <3>2. items' = Unseen(w) \/ (k # j /\ items'[k] = items[k])
      BY <2>5, <3>1 DEF Claim, TypeOK, Waiting
    <3>3. QED
      BY <1>3, <3>2
  <2>6. ASSUME Succeed(w) \/ Fail(w) PROVE FALSE
    <3>1. k # j
      BY <1>2, <2>6 DEF Succeed, Fail, Scoring, ScoringSteps
    <3>2. QED
      BY <2>6, <3>1 DEF Succeed, Fail, TypeOK
  <2>7. QED
    BY <1>1, <1>3, <1>4, <2>2, <2>3, <2>4, <2>5, <2>6
    DEF Work, WorkerDies, RecoverReads, DrainEnds, CheckRevision, ReadExistingScore,
        LoadProfile, PersistScore
<1>5. ASSUME NEW p \in Passes, Schedule(p) PROVE items'[k].state = "PENDING"
  <2>1. ASSUME NEW i \in MatchTypes, NEW isSame, Enqueue(p, i, isSame)
        PROVE  items'[k].state = "PENDING"
    BY <2>1 DEF Enqueue, TypeOK, Scheduled, Absent
  <2>2. ASSUME NEW i \in passes[p].todo, requeueStaleFailedScore(p, i) PROVE FALSE
    BY <2>2 DEF requeueStaleFailedScore, TypeOK
  <2>3. ASSUME RetireObsolete(p) PROVE FALSE
    BY <2>3 DEF RetireObsolete, Waiting
  <2>4. ASSUME QueueInitial(p) PROVE items'[k].state = "PENDING"
    <3>1. INITIAL_MATCH_TYPE \in MatchTypes
      BY DEF MatchTypes
    <3>2. QED
      BY <2>1, <2>4, <3>1 DEF QueueInitial
  <2>5. ASSUME QueueRefresh(p) PROVE items'[k].state = "PENDING"
    <3>1. passes[p].revision \in MatchTypes
      BY <2>5 DEF QueueRefresh, TypeOK, Pass, MatchTypes
    <3>2. QED
      BY <2>1, <2>5, <3>1 DEF QueueRefresh
  <2>6. QED
    BY <1>1, <1>5, <2>2, <2>3, <2>4, <2>5
    DEF Schedule, FailedReads, BatchIsFull, InitialReads, RefreshReads, HideAll, ReadScores, Hide
<1>6. ASSUME NEW i \in MatchTypes, Ripens(i) PROVE FALSE
  BY <1>6 DEF Ripens, TypeOK, Item
<1>7. QED
  BY <1>1, <1>4, <1>5, <1>6
  DEF Next, ScoringThrows, BackstopStarts, RequestStarts, PassDies, EditProfile

\* A success is only taken back by a scheduler, with the same exception: the late
\* failure or recovery of another attempt cannot.
THEOREM SuccessStays == Spec => SuccessIsKept
<1>1. TypeOK /\ QueueInv /\ [Next]_vars =>
        [\A k \in MatchTypes :
           items[k].state = "SUCCEEDED" /\ items'[k].state # "SUCCEEDED" =>
             items'[k].state = "PENDING" \/ k \in overtaken']_vars
  BY SuccessStep
<1>2. QED
  BY <1>1, InitTypeOK, StepTypeOK, InitQueueInv, StepQueueInv, PTL DEF Spec, SuccessIsKept

LEMMA StepResultsInv == TypeOK /\ ResultsInv /\ [Next]_vars => ResultsInv'
<1> SUFFICES ASSUME TypeOK, ResultsInv, [Next]_vars PROVE ResultsInv'
  OBVIOUS
<1> DEFINE HasResult(v) == /\ workers[v].pc = "succeed" => latest # None
                           /\ workers[v].pc = "model" => workers[v].revision # None
\* What every step but those of one worker keeps.
<1>1. ASSUME latest' = latest \/ latest' # None,
             shown' => shown \/ latest' # None,
             \A k \in MatchTypes : items'[k].state = "SUCCEEDED" =>
               items[k].state = "SUCCEEDED" \/ latest' # None,
             \A v \in Workers : HasResult(v)'
      PROVE  ResultsInv'
  BY <1>1 DEF ResultsInv, ScoresHaveResults
<1>2. ASSUME NEW w \in Workers, Work(w) \/ ScoringThrows(w) \/ WorkerDies(w)
      PROVE  ResultsInv'
  <2>0. ASSUME latest' = latest \/ latest' # None,
               \A v \in Workers \ {w} : workers'[v] = workers[v]
        PROVE  \A v \in Workers \ {w} : HasResult(v)'
    BY <2>0 DEF ResultsInv
  <2>1. ASSUME UNCHANGED <<latest, shown>>,
               \A k \in MatchTypes : items'[k].state = "SUCCEEDED" => items[k].state = "SUCCEEDED",
               \A v \in Workers \ {w} : workers'[v] = workers[v],
               workers'[w].pc \notin {"succeed", "model"}
        PROVE  ResultsInv'
    BY <1>1, <2>0, <2>1
  <2>2. \A k \in MatchTypes : Unseen(w)[k].state = items[k].state
    BY UnseenKeeps
  <2>3. workers[w] \in WorkerRecord
    BY DEF TypeOK, Worker
  <2>4. ASSUME WorkerEnds(w)
        PROVE  workers'[w].pc = "idle" /\ \A v \in Workers \ {w} : workers'[v] = workers[v]
    BY <2>4 DEF WorkerEnds, Idle, TypeOK
  <2>5. CASE RecoverReads(w)
    <3>1. workers'[w].pc \in {"poll", "recover"}
      BY <2>5 DEF RecoverReads, TypeOK, Idle
    <3>2. QED
      BY <2>1, <2>5, <3>1 DEF RecoverReads
  <2>6. ASSUME NEW t \in workers[w].todo, recoverAbandoned(w, t[1], t[2]) PROVE ResultsInv'
    <3>1. t[1] \in MatchTypes
      BY <2>3 DEF WorkerRecord
    <3>2. workers'[w].pc \in {"poll", "recover"}
      BY <2>3, <2>6 DEF recoverAbandoned, TypeOK, WorkerRecord
    <3>3. items'[t[1]].state # "SUCCEEDED"
      BY <2>6, <3>1 DEF recoverAbandoned, TypeOK, Item
    <3>4. \A k \in MatchTypes \ {t[1]} : items'[k] = items[k]
      BY <2>6 DEF recoverAbandoned
    <3>5. UNCHANGED <<latest, shown>> /\ \A v \in Workers \ {w} : workers'[v] = workers[v]
      BY <2>6 DEF recoverAbandoned
    <3>6. QED
      BY <2>1, <3>1, <3>2, <3>3, <3>4, <3>5
  <2>7. ASSUME NEW j \in MatchTypes, Poll(w, j) PROVE ResultsInv'
    <3>1. workers'[w].pc \in {"claim", "check"}
      BY <2>3, <2>7 DEF Poll, TypeOK, WorkerRecord
    <3>2. \A k \in MatchTypes : items'[k].state = items[k].state
      BY <2>7 DEF Poll, TypeOK, Item
    <3>3. QED
      BY <2>1, <2>7, <3>1, <3>2 DEF Poll
  <2>8. CASE DrainEnds(w)
    BY <2>1, <2>4, <2>8 DEF DrainEnds
  <2>9. CASE CheckRevision(w)
    BY <2>1, <2>3, <2>9 DEF CheckRevision, WorkerGoes, TypeOK, WorkerRecord
  <2>10. CASE retireSupersededProfileRefresh(w)
    <3>1. \A k \in MatchTypes : items'[k].state = "SUCCEEDED" => items[k].state = "SUCCEEDED"
      BY <2>2, <2>10, UnseenItems DEF retireSupersededProfileRefresh, Item
    <3>2. QED
      BY <2>1, <2>4, <2>10, <3>1 DEF retireSupersededProfileRefresh
  <2>11. CASE Claim(w)
    <3>1. CASE items' = Unseen(w) /\ WorkerEnds(w)
      BY <2>1, <2>2, <2>4, <2>11, <3>1 DEF Claim
    <3>2. CASE ~(items' = Unseen(w) /\ WorkerEnds(w))
      <4> DEFINE j == workers[w].key
                 i == [items[j] EXCEPT !.state = "RUNNING", !.attempts = items[j].attempts + 1,
                                       !.ripe = FALSE, !.seen = {}]
                 y == [workers[w] EXCEPT !.pc = "score", !.attempt = workers[w].attempt + 1]
      <4>1. items' = [items EXCEPT ![j] = i] /\ workers' = [workers EXCEPT ![w] = y]
        BY <2>11, <3>2 DEF Claim
      <4>2. y.pc = "score" /\ (j \in MatchTypes => i.state = "RUNNING")
        BY <2>3 DEF TypeOK, Item, WorkerRecord
      <4> HIDE DEF i, y, j
      <4>3. /\ workers'[w].pc = "score"
            /\ \A v \in Workers \ {w} : workers'[v] = workers[v]
            /\ \A k \in MatchTypes :
                 items'[k].state = "SUCCEEDED" => items[k].state = "SUCCEEDED"
        BY <4>1, <4>2 DEF TypeOK
      <4>4. UNCHANGED <<latest, shown>>
        BY <2>11 DEF Claim
      <4>5. QED
        BY <2>1, <4>3, <4>4
    <3>3. QED
      BY <3>1, <3>2
  <2>12. CASE ReadExistingScore(w)
    <3>1. /\ \A v \in Workers \ {w} : workers'[v] = workers[v]
          /\ workers'[w].pc = "load" \/ (workers'[w].pc = "succeed" /\ latest # None)
      BY <2>3, <2>12 DEF ReadExistingScore, WorkerGoes, TypeOK, WorkerRecord
    <3>2. UNCHANGED <<items, latest, shown>>
      BY <2>12 DEF ReadExistingScore
    <3>3. QED
      BY <1>1, <2>0, <3>1, <3>2
  <2>13. CASE LoadProfile(w)
    <3>1. /\ \A v \in Workers \ {w} : workers'[v] = workers[v]
          /\ workers'[w].pc = "fail" \/ (workers'[w].pc = "model" /\ workers'[w].revision # None)
      BY <2>3, <2>13 DEF LoadProfile, TypeOK, WorkerRecord
    <3>2. UNCHANGED <<items, latest, shown>>
      BY <2>13 DEF LoadProfile
    <3>3. QED
      BY <1>1, <2>0, <3>1, <3>2
  <2>14. CASE PersistScore(w)
    <3>1. latest' # None
      BY <2>14 DEF PersistScore, ResultsInv
    <3>2. /\ \A v \in Workers \ {w} : workers'[v] = workers[v]
          /\ workers'[w].pc = "succeed"
      BY <2>3, <2>14 DEF PersistScore, WorkerGoes, TypeOK, WorkerRecord
    <3>3. QED
      BY <1>1, <2>0, <3>1, <3>2
  <2>15. CASE Succeed(w)
    <3>1. latest # None /\ UNCHANGED <<latest, shown>>
      BY <2>15 DEF Succeed, ResultsInv
    <3>2. WorkerEnds(w)
      BY <2>15 DEF Succeed
    <3>3. QED
      BY <1>1, <2>0, <2>4, <3>1, <3>2
  <2>16. CASE Fail(w)
    <3>1. \A k \in MatchTypes : items'[k].state = "SUCCEEDED" => items[k].state = "SUCCEEDED"
      BY <2>16 DEF Fail, TypeOK, Item
    <3>2. QED
      BY <2>1, <2>4, <2>16, <3>1 DEF Fail
  <2>17. CASE ScoringThrows(w)
    <3>1. PICK code \in RETRYABLE_TERMINAL_CODES :
            workers' = [workers EXCEPT ![w] = [workers[w] EXCEPT !.pc = "fail", !.code = code]]
      BY <2>17, Zenon DEF ScoringThrows
    <3>2. /\ \A v \in Workers \ {w} : workers'[v] = workers[v]
          /\ workers'[w].pc = "fail"
      BY <2>3, <3>1 DEF TypeOK, WorkerRecord
    <3>3. UNCHANGED <<items, latest, shown>>
      BY <2>17 DEF ScoringThrows
    <3>4. QED
      BY <2>1, <3>2, <3>3
  <2>18. CASE WorkerDies(w)
    BY <2>1, <2>2, <2>4, <2>18 DEF WorkerDies
  <2>19. QED
    BY <1>2, <2>5, <2>6, <2>7, <2>8, <2>9, <2>10, <2>11, <2>12, <2>13, <2>14, <2>15, <2>16,
       <2>17, <2>18 DEF Work
<1>3. ASSUME UNCHANGED <<latest, workers>>, shown' => shown,
             \A k \in MatchTypes : items'[k].state = "SUCCEEDED" => items[k].state = "SUCCEEDED"
      PROVE  ResultsInv'
  BY <1>3 DEF ResultsInv, ScoresHaveResults
<1>4. ASSUME NEW p \in Passes, Schedule(p) PROVE ResultsInv'
  <2>1. UNCHANGED <<latest, workers>> /\ (shown' => shown)
    <3>1. CASE HideAll(p) \/ Hide(p)
      BY <3>1 DEF HideAll, Hide
    <3>2. CASE ~(HideAll(p) \/ Hide(p))
      <4>1. UNCHANGED <<latest, workers, shown>>
        BY <1>4, <3>2, Zenon
        DEF Schedule, FailedReads, BatchIsFull, requeueStaleFailedScore, InitialReads, QueueInitial,
            RefreshReads, RetireObsolete, ReadScores, QueueRefresh
      <4>2. QED
        BY <4>1
    <3>3. QED
      BY <3>1, <3>2
  <2>2. ASSUME NEW i, NEW isSame, Enqueue(p, i, isSame), NEW k \in MatchTypes,
               items'[k].state = "SUCCEEDED"
        PROVE  items[k].state = "SUCCEEDED"
    BY <2>2 DEF Enqueue, TypeOK, Scheduled
  <2>3. ASSUME NEW i, requeueStaleFailedScore(p, i), NEW k \in MatchTypes,
               items'[k].state = "SUCCEEDED"
        PROVE  items[k].state = "SUCCEEDED"
    BY <2>3 DEF requeueStaleFailedScore, TypeOK, Scheduled
  <2>4. ASSUME RetireObsolete(p), NEW k \in MatchTypes, items'[k].state = "SUCCEEDED"
        PROVE  items[k].state = "SUCCEEDED"
    BY <2>4 DEF RetireObsolete, TypeOK, Item
  <2>5. CASE UNCHANGED items
    BY <1>3, <2>1, <2>5
  <2>6. QED
    BY <1>3, <1>4, <2>1, <2>2, <2>3, <2>4, <2>5
    DEF Schedule, QueueInitial, QueueRefresh, FailedReads, BatchIsFull, InitialReads, RefreshReads,
        HideAll, ReadScores, Hide
<1>5. ASSUME NEW k \in MatchTypes, Ripens(k) PROVE ResultsInv'
  <2>1. \A i \in MatchTypes : items'[i].state = items[i].state
    BY <1>5 DEF Ripens, TypeOK, Item
  <2>2. QED
    BY <1>3, <1>5, <2>1 DEF Ripens
<1>6. CASE UNCHANGED <<items, latest, shown, workers>>
  BY <1>3, <1>6
<1>7. QED
  BY <1>2, <1>4, <1>5, <1>6
  DEF Next, vars, BackstopStarts, RequestStarts, PassDies, EditProfile

LEMMA InitResultsInv == Init => ResultsInv
BY DEF Init, ResultsInv, ScoresHaveResults, Absent, Idle

\* No worker reports a success, and no score is shown, without a MatchResult.
THEOREM ResultsExist == Spec => []ScoresHaveResults
<1>1. ResultsInv => ScoresHaveResults
  BY DEF ResultsInv
<1>2. QED
  BY <1>1, InitTypeOK, StepTypeOK, InitResultsInv, StepResultsInv, PTL DEF Spec
=============================================================================
