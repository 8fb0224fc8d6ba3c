-------------------------------- MODULE Scheduler --------------------------------
(***************************************************************************)
(* One schedule of the scheduler process that guards its passes (the broad *)
(* radar and the scoring maintenance): the ticks of its interval, of the   *)
(* bootstrap and of the registration, the guard in memory, and the row     *)
(* with the schedule's totals.                                             *)
(***************************************************************************)
EXTENDS Integers

CONSTANTS MaxTicks,   \* bound: the ticks that start
          None

VARIABLES row,        \* the AppSetting row scheduler:tick:<name>, or None
          paused,     \* the AppSetting row scheduler:paused
          running,    \* the guard: __internshipPilot...Running
          tick,       \* the ticks
          crossed,    \* history: two updates of the row lay across each other
          recorded,   \* history: what the ticks have reported
          frozen      \* history: the ticks that have seen nothing but a pause

schedulerVars == <<row, paused, running, tick, crossed, recorded, frozen>>

Ticks == 1..MaxTicks
Totals == [newJobs : 0..MaxTicks, errors : 0..2 * MaxTicks]
Nothing == [newJobs |-> 0, errors |-> 0]
New == [newJobs |-> 1, errors |-> 0]
Error == [newJobs |-> 0, errors |-> 1]
Plus(t, u) == [newJobs |-> t.newJobs + u.newJobs, errors |-> t.errors + u.errors]

Waiting == [at |-> "new", seen |-> None, result |-> Nothing]
Done == [Waiting EXCEPT !.at = "done"]

Init ==
  /\ row = None /\ paused = FALSE /\ running = FALSE
  /\ tick = [t \in Ticks |-> Waiting]
  /\ crossed = FALSE /\ recorded = Nothing /\ frozen = {}

\* The row was read, and what is written next comes from that reading.
Updating(t) == tick[t].at \in {"scheduled", "registers", "write"}
Crosses(t) == crossed' = (crossed \/ \E u \in Ticks \ {t} : Updating(u))

\* scheduleNextTick, called first by a tick and alone by the registration: the timer
\* fires whether or not the tick before it has ended.
ScheduleReads(t) ==
  /\ tick[t].at = "new" /\ \A u \in 1..(t - 1) : tick[u].at # "new"
  /\ \E at \in {"scheduled", "registers"} :
       tick' = [tick EXCEPT ![t].at = at, ![t].seen = row]
  /\ Crosses(t)
  /\ frozen' = IF paused THEN frozen \union {t} ELSE frozen
  /\ UNCHANGED <<row, paused, running, recorded>>

ScheduleWrites(t) ==
  /\ tick[t].at \in {"scheduled", "registers"}
  /\ row' = IF tick[t].seen = None THEN Nothing ELSE tick[t].seen
  /\ tick' = [tick EXCEPT ![t].at = IF @ = "registers" THEN "done" ELSE "look"]
  /\ UNCHANGED <<paused, running, crossed, recorded, frozen>>

\* MUTANT of LookAtPause: the pause counts for the schedule only.
LookAtNothing(t) ==
  /\ tick[t].at = "look"
  /\ tick' = [tick EXCEPT ![t].at = "enter"]
  /\ UNCHANGED <<row, paused, running, crossed, recorded, frozen>>

LookAtPause(t) ==
  /\ tick[t].at = "look"
  /\ tick' = [tick EXCEPT ![t] = IF paused THEN Done ELSE [@ EXCEPT !.at = "enter"]]
  /\ UNCHANGED <<row, paused, running, crossed, recorded, frozen>>

\* A tick that finds a pass at work reports "already running".
Enter(t) ==
  /\ tick[t].at = "enter"
  /\ tick' = [tick EXCEPT ![t].at = IF running THEN "read" ELSE "pass"]
  /\ running' = TRUE
  /\ UNCHANGED <<row, paused, crossed, recorded, frozen>>

\* MUTANT of PassEnds: a pass that throws keeps the guard.
PassEndsWithout(t) ==
  /\ tick[t].at = "pass"
  /\ \E result \in {Nothing, New, Error} :
       /\ tick' = [tick EXCEPT ![t].at = "read", ![t].result = result]
       /\ running' = (result = Error)
  /\ UNCHANGED <<row, paused, crossed, recorded, frozen>>

PassEnds(t) ==
  /\ tick[t].at = "pass"
  /\ \E result \in {Nothing, New, Error} :
       tick' = [tick EXCEPT ![t].at = "read", ![t].result = result]
  /\ running' = FALSE
  /\ UNCHANGED <<row, paused, crossed, recorded, frozen>>

\* MUTANT of RecordReads: the totals of the tick's start are added to.
RecordReadsNothing(t) ==
  /\ tick[t].at = "read"
  /\ tick' = [tick EXCEPT ![t].at = "write", ![t].seen = IF @ = None THEN Nothing ELSE @]
  /\ Crosses(t)
  /\ UNCHANGED <<row, paused, running, recorded, frozen>>

\* MUTANT of RecordReads: the reading of the tick's start serves, if there was one.
RecordReadsNever(t) ==
  /\ tick[t].at = "read"
  /\ tick' = [tick EXCEPT ![t].at = "write"]
  /\ Crosses(t)
  /\ UNCHANGED <<row, paused, running, recorded, frozen>>

\* recordTickResult.
RecordReads(t) ==
  /\ tick[t].at = "read"
  /\ tick' = [tick EXCEPT ![t] = IF row = None THEN Done ELSE [@ EXCEPT !.at = "write", !.seen = row]]
  /\ Crosses(t)
  /\ UNCHANGED <<row, paused, running, recorded, frozen>>

RecordWrites(t) ==
  /\ tick[t].at = "write"
  /\ row' = Plus(tick[t].seen, tick[t].result)
  /\ recorded' = Plus(recorded, tick[t].result)
  /\ tick' = [tick EXCEPT ![t] = Done]
  /\ UNCHANGED <<paused, running, crossed, frozen>>

\* The report of a success that fails is followed by the report of an error; that of
\* an error is given up.
RecordFails(t) ==
  /\ tick[t].at \in {"read", "write"}
  /\ tick' = [tick EXCEPT ![t] = IF tick[t].result = Error THEN Done
                                 ELSE [Waiting EXCEPT !.at = "read", !.result = Error]]
  /\ UNCHANGED <<row, paused, running, crossed, recorded, frozen>>

\* The update of the schedule fails, and with it the tick: it is an unhandled rejection
\* that the process logs.
TickFails(t) ==
  /\ tick[t].at \in {"scheduled", "registers", "look"}
  /\ tick' = [tick EXCEPT ![t] = Done]
  /\ UNCHANGED <<row, paused, running, crossed, recorded, frozen>>

\* The routes scheduler/pause and scheduler/resume.
SetPaused ==
  /\ paused' = ~paused
  /\ frozen' = IF paused THEN {} ELSE frozen
  /\ UNCHANGED <<row, running, tick, crossed, recorded>>

\* The process ends and is started again: its ticks are gone, and so is the guard.
Restart ==
  /\ \E t \in Ticks : tick[t].at \notin {"new", "done"}
  /\ tick' = [t \in Ticks |-> IF tick[t].at = "new" THEN Waiting ELSE Done]
  /\ running' = FALSE
  /\ UNCHANGED <<row, paused, crossed, recorded, frozen>>

Next ==
  \/ \E t \in Ticks :
       \/ ScheduleReads(t) \/ ScheduleWrites(t) \/ LookAtPause(t) \/ Enter(t) \/ PassEnds(t)
       \/ RecordReads(t) \/ RecordWrites(t) \/ RecordFails(t) \/ TickFails(t)
  \/ SetPaused \/ Restart

Spec == Init /\ [][Next]_schedulerVars

-----------------------------------------------------------------------------

\* Every tick is at one of its steps, and one that is to write has read the row.
SchedulerTypeOK ==
  /\ row \in Totals \union {None} /\ recorded \in Totals
  /\ paused \in BOOLEAN /\ running \in BOOLEAN /\ crossed \in BOOLEAN
  /\ frozen \subseteq Ticks
  /\ \A t \in Ticks :
       /\ tick[t].at \in {"new", "scheduled", "registers", "look", "enter", "pass", "read",
                          "write", "done"}
       /\ tick[t].seen \in Totals \union {None}
       /\ tick[t].at = "write" => tick[t].seen # None

\* "Avoid starting a second high-throughput public-feed pass": one pass at a time, and
\* the guard is up exactly while there is one, also after passes that threw.
GuardFollowsThePass ==
  /\ \A t, u \in Ticks : tick[t].at = "pass" /\ tick[u].at = "pass" => t = u
  /\ running <=> \E t \in Ticks : tick[t].at = "pass"

\* The totals are the sum of the reports, unless two updates of the row lay across each
\* other, which "nothing to race" (schedulerState.ts) leaves out.
TotalsAddUp ==
  ~crossed => recorded = IF row = None THEN Nothing ELSE row

\* A tick that has seen nothing but a pause since it began does no work.
PauseHolds == \A t \in frozen : tick[t].at # "pass"
=============================================================================
