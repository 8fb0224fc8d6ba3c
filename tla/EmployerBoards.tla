----------------------------- MODULE EmployerBoards -----------------------------
(***************************************************************************)
(* The job board of one employer, as the fresh radar finds and keeps it:   *)
(* the signals of a run ask for it, through a promise they share; the      *)
(* resolution trusts a cached board, waits out a cached miss, or crawls    *)
(* the employer's pages; a cached board that lists nothing is invalidated  *)
(* and looked for again.  The employer may move to another board.          *)
(***************************************************************************)
EXTENDS Integers

CONSTANTS Tasks,       \* the resolutions of a signal of this employer
          RunOf,       \* the run each of them belongs to
          MaxBoards,   \* bound: the boards the employer has in turn
          MaxFaults,   \* bound: crawls, checks and lists that fail
          None

VARIABLES home, open,  \* the board the employer's pages lead to, and whether it lists postings
          row,         \* EmployerBoardResolution
          task,
          shared,      \* employerCache, by run: the task whose promise is shared
          promise,     \* by task: what its resolution answered
          lists,       \* boardCache, by run and board
          crossed,     \* history: the row was written under another resolution
          faults

boardVars == <<home, open, row, task, shared, promise, lists, crossed, faults>>

Runs == {RunOf[t] : t \in Tasks}
Boards == 1..MaxBoards
Idle == [step |-> "idle"]
Miss == [board |-> None, cached |-> FALSE]
Unread == [b \in Boards |-> "unread"]

Init ==
  /\ home = 1 /\ open = TRUE /\ row = None /\ task = [t \in Tasks |-> Idle]
  /\ shared = [r \in Runs |-> None] /\ promise = [t \in Tasks |-> None]
  /\ lists = [r \in Runs |-> Unread] /\ crossed = FALSE /\ faults = 0

\* The employer takes its openings to a new board, or its board away.
EmployerMoves ==
  /\ \/ home < MaxBoards /\ home' = home + 1 /\ open' = TRUE
     \/ open /\ open' = FALSE /\ UNCHANGED home
  /\ UNCHANGED <<row, task, shared, promise, lists, crossed, faults>>

\* The delay after a miss passes; a board found is trusted for a week.
ComesDue ==
  /\ row # None /\ ~row.due /\ row' = [row EXCEPT !.due = TRUE]
  /\ UNCHANGED <<home, open, task, shared, promise, lists, crossed, faults>>

GrowsOld ==
  /\ row # None /\ ~row.old /\ row' = [row EXCEPT !.old = TRUE]
  /\ UNCHANGED <<home, open, task, shared, promise, lists, crossed, faults>>

\* A run takes its signals up, with caches of its own.
Begin(r) ==
  /\ \A t \in Tasks : RunOf[t] = r => task[t] = Idle
  /\ task' = [t \in Tasks |-> IF RunOf[t] = r THEN [step |-> "ask"] ELSE task[t]]
  /\ shared' = [shared EXCEPT ![r] = None] /\ lists' = [lists EXCEPT ![r] = Unread]
  /\ promise' = [t \in Tasks |-> IF RunOf[t] = r THEN None ELSE promise[t]]
  /\ UNCHANGED <<home, open, row, crossed, faults>>

\* The first signal of the employer starts the resolution, the others await its promise.
Ask(t) ==
  /\ task[t].step = "ask"
  /\ LET r == RunOf[t] IN
     IF shared[r] = None
     THEN shared' = [shared EXCEPT ![r] = t] /\ task' = [task EXCEPT ![t] = [step |-> "read", again |-> FALSE]]
     ELSE task' = [task EXCEPT ![t] = [step |-> "wait", on |-> shared[r]]] /\ UNCHANGED shared
  /\ UNCHANGED <<home, open, row, promise, lists, crossed, faults>>

\* The resolution of task t answers: the task goes on to the board, or is through.
Answers(t, again, answer) ==
  /\ promise' = IF again THEN promise ELSE [promise EXCEPT ![t] = answer]
  /\ task' = [task EXCEPT ![t] =
       IF answer = Miss THEN [step |-> "done"]
       ELSE [step |-> "list", again |-> again, board |-> answer.board, cached |-> answer.cached]]

GetsAnswer(t) ==
  /\ task[t].step = "wait" /\ promise[task[t].on] # None
  /\ LET answer == promise[task[t].on] IN
     task' = [task EXCEPT ![t] =
       IF answer = Miss THEN [step |-> "done"]
       ELSE [step |-> "list", again |-> FALSE, board |-> answer.board, cached |-> answer.cached]]
  /\ UNCHANGED <<home, open, row, shared, promise, lists, crossed, faults>>

\* resolveEmployerBoard, from the read of the row to the crawl.
Read(t) ==
  /\ task[t].step = "read"
  /\ task' = [task EXCEPT ![t] = [step |-> "check", again |-> @.again, was |-> row]]
  /\ UNCHANGED <<home, open, row, shared, promise, lists, crossed, faults>>

\* A board found is trusted for a week.
Trusted(was) == was # None /\ was.state = "RESOLVED" /\ ~was.old

\* MUTANT of Settled: a miss is no answer.
SettledNever(was) == FALSE
\* A miss whose delay runs is the answer.
Settled(was) == was # None /\ was.state # "RESOLVED" /\ ~was.due

\* boardBelongsToEmployer answers no, too, when its request fails.
Check(t) ==
  /\ task[t].step = "check"
  /\ LET was == task[t].was
         again == task[t].again
         crawls == task' = [task EXCEPT ![t] = [step |-> "crawl", again |-> again]] /\ UNCHANGED promise IN
     \/ Trusted(was) /\ Answers(t, again, [board |-> was.board, cached |-> TRUE]) /\ UNCHANGED faults
     \/ Trusted(was) /\ faults < MaxFaults /\ faults' = faults + 1 /\ crawls
     \/ Settled(was) /\ Answers(t, again, Miss) /\ UNCHANGED faults
     \/ ~Trusted(was) /\ ~Settled(was) /\ crawls /\ UNCHANGED faults
  /\ UNCHANGED <<home, open, row, shared, lists, crossed>>

\* discoverEmployerBoardConfig.
Crawl(t) ==
  /\ task[t].step = "crawl"
  /\ \/ /\ task' = [task EXCEPT ![t] = [step |-> "store", again |-> @.again, found |-> home]]
        /\ UNCHANGED faults
     \/ /\ faults < MaxFaults /\ faults' = faults + 1
        /\ task' = [task EXCEPT ![t] = [step |-> "store", again |-> @.again, found |-> None]]
  /\ UNCHANGED <<home, open, row, shared, promise, lists, crossed>>

\* Another task is between its look at the row or the board and its end.
UnderWay(t) == \E u \in Tasks \ {t} : task[u].step \notin {"idle", "ask", "wait", "done"}

\* MUTANT of Found: the miss keeps the state of the row.
FoundOrKept(found) ==
  IF found # None THEN [state |-> "RESOLVED", board |-> found, due |-> TRUE, old |-> FALSE]
  ELSE [state |-> IF row = None THEN "UNRESOLVED" ELSE row.state, board |-> None,
        due |-> FALSE, old |-> FALSE]
\* The row of an attempt; a miss leaves the former board in it, without use.
Found(found) ==
  IF found # None THEN [state |-> "RESOLVED", board |-> found, due |-> TRUE, old |-> FALSE]
  ELSE [state |-> "UNRESOLVED", board |-> None, due |-> FALSE, old |-> FALSE]

Store(t) ==
  /\ task[t].step = "store"
  /\ row' = Found(task[t].found) /\ crossed' = (crossed \/ UnderWay(t))
  /\ Answers(t, task[t].again,
       IF task[t].found = None THEN Miss ELSE [board |-> task[t].found, cached |-> FALSE])
  /\ UNCHANGED <<home, open, shared, lists, faults>>

\* The employer's board lists its openings; one it left may go on with the old ones.
Listed(b) == IF b = home /\ open THEN {"full"} ELSE {"full", "empty"}

\* MUTANT of GivenUp: an empty board is reported, and kept.
GivenUpNever(t, list) == FALSE
\* A cached board that lists nothing is given up, once.
GivenUp(t, list) == list = "empty" /\ task[t].cached /\ ~task[t].again

\* boardJobsFor: the run reads a board once; an empty list is also what a bot wall gives.
List(t) ==
  /\ task[t].step = "list"
  /\ LET r == RunOf[t]
         b == task[t].board IN
     \E list \in {"full", "empty"} :
       /\ IF lists[r][b] # "unread" THEN list = lists[r][b] /\ UNCHANGED faults
          ELSE \/ list \in Listed(b) /\ UNCHANGED faults
               \/ list = "empty" /\ list \notin Listed(b) /\ faults < MaxFaults /\ faults' = faults + 1
       /\ lists' = [lists EXCEPT ![r][b] = list]
       /\ task' = [task EXCEPT ![t] =
            IF GivenUp(t, list) THEN [step |-> "invalidate"] ELSE [step |-> "done"]]
  /\ UNCHANGED <<home, open, row, shared, promise, crossed>>

\* invalidateBoardResolution: only a row that counts as resolved is cleared ...
Invalidate(t) ==
  /\ task[t].step = "invalidate"
  /\ task' = [task EXCEPT ![t].step = IF row.state = "RESOLVED" THEN "clear" ELSE "done"]
  /\ UNCHANGED <<home, open, row, shared, promise, lists, crossed, faults>>

\* ... by its key, whatever it holds by now; the task looks again, on its own.
Clear(t) ==
  /\ task[t].step = "clear"
  /\ row' = [row EXCEPT !.state = "STALE", !.board = None, !.due = TRUE]
  /\ shared' = [shared EXCEPT ![RunOf[t]] = None]
  /\ task' = [task EXCEPT ![t] = [step |-> "read", again |-> TRUE]]
  /\ crossed' = (crossed \/ UnderWay(t))
  /\ UNCHANGED <<home, open, promise, lists, faults>>

End(r) ==
  /\ \A t \in Tasks : RunOf[t] = r => task[t].step = "done"
  /\ task' = [t \in Tasks |-> IF RunOf[t] = r THEN Idle ELSE task[t]]
  /\ UNCHANGED <<home, open, row, shared, promise, lists, crossed, faults>>

TaskSteps(t) ==
  \/ Ask(t) \/ GetsAnswer(t) \/ Read(t) \/ Check(t) \/ Crawl(t) \/ Store(t)
  \/ List(t) \/ Invalidate(t) \/ Clear(t)
RunSteps(r) ==
  \/ Begin(r) \/ End(r) \/ \E t \in Tasks : RunOf[t] = r /\ TaskSteps(t)

Next == EmployerMoves \/ ComesDue \/ GrowsOld \/ \E r \in Runs : RunSteps(r)

Spec == Init /\ [][Next]_boardVars
  /\ WF_boardVars(ComesDue) /\ \A r \in Runs : WF_boardVars(RunSteps(r))

-----------------------------------------------------------------------------
\* Only a miss waits, and only a board that was found has a name.
BoardsTypeOK ==
  /\ home \in Boards /\ open \in BOOLEAN /\ faults \in 0..MaxFaults
  /\ row = None \/
     /\ row.state \in {"RESOLVED", "UNRESOLVED", "STALE"}
     /\ row.state = "RESOLVED" <=> row.board \in Boards
     /\ ~row.due => row.state = "UNRESOLVED"
  /\ shared \in [Runs -> Tasks \union {None}] /\ crossed \in BOOLEAN

\* A miss is left alone while its delay runs, so that the employer is not crawled every
\* few minutes - unless another resolution, under way already, writes over it.
SettledMissStays ==
  [][row # None => (row.due \/ crossed' \/ [row' EXCEPT !.old = row.old] = row
       \/ [row' EXCEPT !.due = FALSE] = row)]_boardVars

BoardIsKnown == open => row # None /\ row.board = home

\* A run reads openings on a board that the employer has left.
OldOpenings == \E r \in Runs : \E b \in Boards : b # home /\ lists[r][b] = "full"

\* What makes a run look for the board again: boards that were left stop to list openings
\* some day, or the week of the row passes again and again.
Reconsidered == <>[]~OldOpenings \/ []<>(row = None \/ row.old)

\* Wherever the employer goes, the row names its board in the end and keeps it, although
\* looks fail and runs lie across each other.
FoundAgain == Reconsidered => <>[]BoardIsKnown
=============================================================================
