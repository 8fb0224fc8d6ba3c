------------------------------ MODULE BrowserManager ------------------------------
(***************************************************************************)
(* The browser that the application worker owns: the worker takes its runs *)
(* one at a time and asks the manager for a page, while Chromium may close *)
(* at any moment and reports it later.  Contexts are numbered by their     *)
(* generation.                                                             *)
(***************************************************************************)
EXTENDS Integers

CONSTANTS Runs, None,
          MaxLaunches   \* bound: the contexts that are launched

VARIABLES live,          \* the Chromium contexts that are running
          closings,      \* the close events still to be delivered
          context,       \* the manager's context, or None
          contextClosed,
          browserState,
          generation,
          stale,         \* the context a restart is closing
          pausedPages,   \* the page retained for each run
          at,            \* where the worker is
          run, resuming, \* the run in hand, and whether it was paused before
          page,          \* its page
          retrying,      \* newPage has failed once
          abandoned      \* history: contexts a failed restart left running

managerVars == <<live, closings, context, contextClosed, browserState, generation, stale,
                 pausedPages, at, run, resuming, page, retrying, abandoned>>
workerVars == <<at, run, resuming, page, retrying>>

Contexts == 1..MaxLaunches
Page == [in : Contexts, of : Runs, open : BOOLEAN]
NoPages == [r \in Runs |-> None]

Init ==
  /\ live = {} /\ closings = {}
  /\ context = None /\ contextClosed = TRUE
  /\ browserState = "unhealthy" /\ generation = 0 /\ stale = None
  /\ pausedPages = NoPages
  /\ at = "ensure" /\ run = None /\ resuming = FALSE /\ page = None /\ retrying = FALSE
  /\ abandoned = {}

IsContextHealthy == context # None /\ ~contextClosed /\ browserState = "healthy"

\* The worker takes the next queued run; it resumes it when it had stopped before.
Take ==
  /\ at = "idle"
  /\ run' \in Runs /\ resuming' \in BOOLEAN
  /\ at' = "ensure" /\ retrying' = FALSE
  /\ UNCHANGED <<live, closings, context, contextClosed, browserState, generation, stale,
                 pausedPages, page, abandoned>>

\* MUTANT of ForgetPages: the retained pages stay until their runs ask for them.
KeepPages == UNCHANGED pausedPages

ForgetPages == pausedPages' = NoPages

MarkUnhealthy == browserState' = "unhealthy" /\ contextClosed' = TRUE /\ ForgetPages

\* A context in order is used, unless the extension has been rebuilt since it was loaded:
\* then it is marked, though it lives, and the mark is reported before the restart.
Ensure ==
  /\ at = "ensure"
  /\ \/ /\ IsContextHealthy
        /\ at' = IF run = None THEN "idle" ELSE "acquire"
        /\ UNCHANGED <<contextClosed, browserState, pausedPages>>
     \/ /\ ~IsContextHealthy
        /\ at' = "restart" /\ browserState' = "restarting"
        /\ UNCHANGED <<contextClosed, pausedPages>>
     \/ /\ generation > 0
        /\ at' = "marked" /\ MarkUnhealthy
  /\ UNCHANGED <<live, closings, context, generation, stale, run, resuming, page, retrying,
                 abandoned>>

\* The mark has been reported.
Restart ==
  /\ at = "marked"
  /\ at' = "restart" /\ browserState' = "restarting"
  /\ UNCHANGED <<live, closings, context, contextClosed, generation, stale, pausedPages, run,
                 resuming, page, retrying, abandoned>>

ClearReferences == context' = None /\ contextClosed' = TRUE /\ ForgetPages

DropStale ==
  /\ at = "restart"
  /\ at' = "close" /\ stale' = context
  /\ ClearReferences
  /\ UNCHANGED <<live, closings, browserState, generation, run, resuming, page, retrying,
                 abandoned>>

\* MUTANT of CloseStale: the old browser is left to itself.
ForgetStale ==
  /\ at = "close"
  /\ at' = "launch" /\ stale' = None
  /\ UNCHANGED <<live, closings, context, contextClosed, browserState, generation,
                 pausedPages, run, resuming, page, retrying, abandoned>>

CloseStale ==
  /\ at = "close"
  /\ at' = "launch" /\ stale' = None
  /\ live' = live \ {stale} /\ closings' = closings \union (live \cap {stale})
  /\ UNCHANGED <<context, contextClosed, browserState, generation, pausedPages, run,
                 resuming, page, retrying, abandoned>>

\* The attempt fails: the run fails with it, or the worker starts without a browser.
Failed == at' = "idle" /\ run' = None /\ resuming' = FALSE /\ page' = None

\* The profile directory admits one browser at a time.
Launch ==
  /\ at = "launch"
  /\ generation < MaxLaunches /\ live = {}
  /\ generation' = generation + 1
  /\ live' = {generation + 1} /\ context' = generation + 1 /\ contextClosed' = FALSE
  /\ at' = "probe"
  /\ UNCHANGED <<closings, browserState, stale, pausedPages, run, resuming, page, retrying,
                 abandoned>>

LaunchFails ==
  /\ at = "launch"
  /\ ClearReferences /\ browserState' = "unhealthy"
  /\ Failed
  /\ UNCHANGED <<live, closings, generation, stale, retrying, abandoned>>

Probe ==
  /\ at = "probe" /\ generation \in live
  /\ at' = "probed"
  /\ UNCHANGED <<live, closings, context, contextClosed, browserState, generation, stale,
                 pausedPages, run, resuming, page, retrying, abandoned>>

\* A probe or a report that fails drops the new context without closing it.
ProbeFails ==
  /\ at \in {"probe", "probed"}
  /\ ClearReferences /\ browserState' = "unhealthy"
  /\ abandoned' = abandoned \union (live \cap {generation})
  /\ Failed
  /\ UNCHANGED <<live, closings, generation, stale, retrying>>

\* MUTANT of Healthy: the flag of a close that came during the probe is reset.
HealthyAgain ==
  /\ at = "probed"
  /\ browserState' = "healthy" /\ contextClosed' = FALSE
  /\ at' = IF run = None THEN "idle" ELSE IF retrying THEN "newPage" ELSE "acquire"
  /\ UNCHANGED <<live, closings, context, generation, stale, pausedPages, run, resuming,
                 page, retrying, abandoned>>

Healthy ==
  /\ at = "probed"
  /\ browserState' = "healthy"
  /\ at' = IF run = None THEN "idle" ELSE IF retrying THEN "newPage" ELSE "acquire"
  /\ UNCHANGED <<live, closings, context, contextClosed, generation, stale, pausedPages,
                 run, resuming, page, retrying, abandoned>>

\* MUTANT of Acquire: a resumed run gets whichever page is retained.
AcquireAny ==
  /\ at = "acquire"
  /\ \/ /\ resuming /\ \E r \in Runs : pausedPages[r] # None /\ page' = pausedPages[r]
        /\ at' = "working" /\ UNCHANGED pausedPages
     \/ /\ pausedPages' = [pausedPages EXCEPT ![run] = None]
        /\ at' = "newPage" /\ UNCHANGED page
  /\ UNCHANGED <<live, closings, context, contextClosed, browserState, generation, stale,
                 run, resuming, retrying, abandoned>>

\* A resumed run gets its retained page, if it is still open; any other a new one.
Acquire ==
  /\ at = "acquire"
  /\ LET retained == pausedPages[run]
     IN \/ /\ resuming /\ retained # None /\ retained.open /\ IsContextHealthy
           /\ page' = retained /\ at' = "working"
           /\ UNCHANGED pausedPages
        \/ /\ ~(resuming /\ retained # None /\ retained.open /\ IsContextHealthy)
           /\ pausedPages' = [pausedPages EXCEPT ![run] = None]
           /\ at' = "newPage" /\ UNCHANGED page
  /\ UNCHANGED <<live, closings, context, contextClosed, browserState, generation, stale,
                 run, resuming, retrying, abandoned>>

NewPage ==
  /\ at = "newPage" /\ generation \in live
  /\ page' = [in |-> generation, of |-> run, open |-> TRUE]
  /\ at' = "working"
  /\ UNCHANGED <<live, closings, context, contextClosed, browserState, generation, stale,
                 pausedPages, run, resuming, retrying, abandoned>>

\* A page can fail in a context that lives too.  An error that names a closed target gets
\* one restart for the run, any other fails the run at once; the second page fails it
\* whatever the error, and marks the new context.
NewPageFails ==
  /\ at = "newPage"
  /\ \/ /\ ~retrying
        /\ retrying' = TRUE /\ at' = "marked" /\ MarkUnhealthy
        /\ UNCHANGED <<run, resuming, page>>
     \/ /\ ~retrying
        /\ Failed /\ UNCHANGED <<browserState, contextClosed, pausedPages, retrying>>
     \/ /\ retrying
        /\ MarkUnhealthy /\ Failed /\ UNCHANGED retrying
  /\ UNCHANGED <<live, closings, context, generation, stale, abandoned>>

\* A run that is kept open keeps its page; any other page is closed.
Finish ==
  /\ at = "working"
  /\ \E keepOpen \in BOOLEAN :
       pausedPages' = [pausedPages EXCEPT ![run] =
         IF keepOpen /\ page.open /\ IsContextHealthy THEN page ELSE None]
  /\ Failed
  /\ UNCHANGED <<live, closings, context, contextClosed, browserState, generation, stale,
                 retrying, abandoned>>

\* Chromium crashes, or its window is closed.
Crash ==
  /\ \E c \in live : live' = live \ {c} /\ closings' = closings \union {c}
  /\ UNCHANGED <<context, contextClosed, browserState, generation, stale, pausedPages,
                 abandoned, workerVars>>

Shut(p, c) == IF p # None /\ p.in = c THEN [p EXCEPT !.open = FALSE] ELSE p

\* MUTANT of CloseEvent: the close of an old context counts for the new one.
CloseEventOfAny ==
  /\ \E c \in closings :
       /\ closings' = closings \ {c}
       /\ page' = IF page = None THEN None ELSE Shut(page, c)
  /\ MarkUnhealthy
  /\ UNCHANGED <<live, context, generation, stale, abandoned, at, run, resuming, retrying>>

\* The handler is bound to its own context and generation.
CloseEvent ==
  /\ \E c \in closings :
       /\ closings' = closings \ {c}
       /\ page' = Shut(page, c)
       /\ IF context = c
            THEN MarkUnhealthy
            ELSE /\ pausedPages' = [r \in Runs |-> Shut(pausedPages[r], c)]
                 /\ UNCHANGED <<browserState, contextClosed>>
  /\ UNCHANGED <<live, context, generation, stale, abandoned, at, run, resuming, retrying>>

\* The user closes a tab that waits for him.
TabCloses ==
  /\ \E r \in Runs : /\ pausedPages[r] # None /\ pausedPages[r].open
                     /\ pausedPages' = [pausedPages EXCEPT ![r].open = FALSE]
  /\ UNCHANGED <<live, closings, context, contextClosed, browserState, generation, stale,
                 abandoned, workerVars>>

Next ==
  \/ Take \/ Ensure \/ Restart \/ DropStale \/ CloseStale \/ Launch \/ LaunchFails
  \/ Probe \/ ProbeFails \/ Healthy \/ Acquire \/ NewPage \/ NewPageFails \/ Finish
  \/ Crash \/ CloseEvent \/ TabCloses

Spec == Init /\ [][Next]_managerVars

-----------------------------------------------------------------------------

\* A working run has a page of its own, and contexts have the numbers of their launches.
BrowserTypeOK ==
  /\ live \subseteq 1..generation /\ closings \subseteq 1..generation
  /\ context \in Contexts \union {None} /\ stale \in Contexts \union {None}
  /\ contextClosed \in BOOLEAN /\ retrying \in BOOLEAN /\ resuming \in BOOLEAN
  /\ browserState \in {"healthy", "unhealthy", "restarting"}
  /\ generation \in 0..MaxLaunches /\ abandoned \subseteq Contexts
  /\ pausedPages \in [Runs -> Page \union {None}]
  /\ at \in {"idle", "ensure", "marked", "restart", "close", "launch", "probe", "probed", "acquire",
             "newPage", "working"}
  /\ run \in Runs \union {None}
  /\ at = "working" => page \in Page /\ page.of = run

\* A page that is retained for a run was made for that run, in the context in use: no
\* restart leaves one behind that a resume could be handed.
RetainedAreCurrent ==
  \A r \in Runs : pausedPages[r] # None => pausedPages[r].of = r /\ pausedPages[r].in = context

\* A context the manager would hand out runs, or its close has yet to be heard of, also
\* when it closed while it was being probed.
UsableIsLive == IsContextHealthy => context \in live \union closings

\* Every browser that runs is the manager's or about to be closed by it, but for those
\* whose restart failed after the launch.
NoStrayBrowser == live \subseteq {context, stale} \union abandoned

\* An event, which comes while the worker stays where it is, marks the context in use as
\* closed only when that context has ended: never the late end of the one it replaced,
\* also not during the probe.  (The worker itself marks a context that lives, when the
\* extension has changed or a page has failed.)
LateEventsSpareTheNew ==
  [][~contextClosed /\ contextClosed' => at' # at \/ context \notin live]_managerVars
=============================================================================
