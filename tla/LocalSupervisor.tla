----------------------------- MODULE LocalSupervisor -----------------------------
(***************************************************************************)
(* The local stack: supervisors (`npm run local`) that decide what to do   *)
(* about the web port and the lock file, start and restart their children, *)
(* and shut down; `npm run local:stop`; and foreign processes on the port. *)
(* The scheduler and the application worker are treated alike: `worker`    *)
(* stands for them.  A synchronous stretch of the code is one action.      *)
(***************************************************************************)
EXTENDS Integers

CONSTANTS Supervisors,
          MaxRestarts,  \* MAX_WEB_RESTARTS, MAX_WORKER_RESTARTS
          MaxCrashes,   \* bound: supervisors that die without a word
          MaxForeign,   \* bound: foreign processes that take the port
          Foreign, None

VARIABLES sup,      \* per supervisor, the step of main or of shutdown
          told,     \* the processes with a SIGTERM pending
          child,    \* per supervisor and kind, the child started last
          port,     \* the process that listens on the web port, or None
          lock,     \* the lock file, or None
          seen,     \* the owner of the port a supervisor or the stopper has looked up
          stop,     \* the step of local:stop
          targets,  \* history: the processes alive when local:stop read the lock
          crashes, foreigners,
          beside,   \* history: two startups lay across each other
          lost,     \* history: a lock of a working stack was taken from it
          changed,  \* history: the port changed hands between two looks
          hurt      \* history: a foreign process was signalled

supervisorVars == <<sup, told, child, port, lock, seen, stop, targets, crashes, foreigners,
                    beside, lost, changed, hurt>>
supervisorHistory == <<targets, beside, lost, changed, hurt>>

Kinds == {"web", "worker"}
Unlocked == [supervisor |-> None, web |-> None, worker |-> None]

Init ==
  /\ sup = [s \in Supervisors |-> "off"] /\ told = {}
  /\ child = [s \in Supervisors |-> [k \in Kinds |-> [n |-> 0, state |-> "none"]]]
  /\ port = None /\ lock = Unlocked
  /\ seen = [s \in Supervisors \union {"stopper"} |-> None]
  /\ stop = "off" /\ targets = {} /\ crashes = 0 /\ foreigners = 0
  /\ beside = FALSE /\ lost = FALSE /\ changed = FALSE /\ hurt = FALSE

Sup(s) == [of |-> s, kind |-> "supervisor", n |-> 1]
Pid(s, k) == [of |-> s, kind |-> k, n |-> child[s][k].n]
Running(s) == sup[s] \notin {"off", "crashed", "ended"}
\* A supervisor that ends takes no more signals.
EndsItself(s) == sup' = [sup EXCEPT ![s] = "ended"] /\ told' = told \ {Sup(s)}
Ours == {Sup(s) : s \in {t \in Supervisors : Running(t)}}
  \union {Pid(x[1], x[2]) :
           x \in {y \in Supervisors \X Kinds : child[y[1]][y[2]].state = "up"}}
LockPids == {lock.supervisor, lock.web, lock.worker} \ {None}
\* pidAlive.
LiveLockPids == LockPids \intersect Ours

Starting(s) == sup[s] \in {"waiting", "migrate"}
BesideOthers(s) == beside' = (beside \/ \E t \in Supervisors \ {s} : Starting(t))

\* A process of the stack of s that nobody has asked to end.
Untold(p) == p \in Ours /\ p \notin told /\ Sup(p.of) \notin told /\ sup[p.of] # "stopping"

\* The lock is taken from processes that live and have not been asked to end.
Loses(s) == lost' = (lost \/ \E p \in LockPids : p.of # s /\ Untold(p))
ClearLock(s) == lock' = Unlocked /\ Loses(s)

\* stopProcessTree of each of them.
Signal(pids) ==
  /\ told' = told \union (pids \intersect Ours)
  /\ hurt' = (hurt \/ Foreign \in pids)

-----------------------------------------------------------------------------
\* MUTANT of StartIfFree: a free port is enough to start.
StartIfPortFree(s) ==
  /\ sup[s] = "off" /\ port = None
  /\ sup' = [sup EXCEPT ![s] = "migrate"] /\ lock' = Unlocked /\ BesideOthers(s)
  /\ UNCHANGED <<told, child, port, seen, stop, crashes, foreigners, targets, lost, changed,
                 hurt>>

\* resolvePortBeforeStart on a free port: it starts, or refuses to start twice.
StartIfFree(s) ==
  /\ sup[s] = "off" /\ port = None
  /\ IF LiveLockPids = {}
     THEN /\ sup' = [sup EXCEPT ![s] = "migrate"] /\ lock' = Unlocked /\ BesideOthers(s)
          /\ UNCHANGED told
     ELSE EndsItself(s) /\ UNCHANGED <<lock, beside>>
  /\ UNCHANGED <<child, port, seen, stop, crashes, foreigners, targets, lost, changed, hurt>>

\* The owner of a busy port, if the system would tell.
LookAtPort(s) ==
  /\ sup[s] = "off" /\ port # None
  /\ sup' = [sup EXCEPT ![s] = "probe"]
  /\ \E owner \in {port, None} : seen' = [seen EXCEPT ![s] = owner]
  /\ UNCHANGED <<told, child, port, lock, stop, crashes, foreigners, supervisorHistory>>

\* The one that answers on the port proves itself, if it answers at all: by its
\* identity, or as the owner that the lock names.
Identified == port \notin {None, Foreign}
ProvenByLock(owner) == owner # None /\ owner \in {lock.web, lock.supervisor}
\* MUTANT of Owned: whoever is listening may be stopped.
OwnedBySight(s) == Identified \/ seen[s] # None

Owned(s) == Identified \/ ProvenByLock(seen[s])

\* The look at the port is used once.
Forget(a) == seen' = [seen EXCEPT ![a] = None]

\* The port was looked up before its owner was asked who it is.
ChangesHands(a) == changed' = (changed \/ (seen[a] # None /\ seen[a] # port))

\* The answer: of a server of this checkout that may be used, or may not, or of one
\* that proves nothing.
Leave(s) ==
  /\ sup[s] = "probe" /\ EndsItself(s) /\ Forget(s)
  /\ UNCHANGED <<child, port, lock, stop, crashes, foreigners, supervisorHistory>>

RestartOwned(s) ==
  /\ sup[s] = "probe" /\ Owned(s)
  /\ Signal(LiveLockPids \union ({seen[s]} \ {None}))
  /\ lock' = Unlocked /\ ChangesHands(s) /\ BesideOthers(s)
  /\ sup' = [sup EXCEPT ![s] = "waiting"] /\ Forget(s)
  /\ UNCHANGED <<child, port, stop, crashes, foreigners, targets, lost>>

\* waitForPortFree, up to 15 s.
Wait(s) ==
  /\ sup[s] = "waiting"
  /\ IF port = None THEN sup' = [sup EXCEPT ![s] = "migrate"] /\ UNCHANGED told
                    ELSE EndsItself(s)
  /\ UNCHANGED <<child, port, lock, seen, stop, crashes, foreigners, supervisorHistory>>

MigrationFails(s) ==
  /\ sup[s] = "migrate" /\ EndsItself(s)
  /\ UNCHANGED <<child, port, lock, seen, stop, crashes, foreigners, supervisorHistory>>

Start(s) ==
  /\ sup[s] = "migrate"
  /\ sup' = [sup EXCEPT ![s] = "serving"]
  /\ child' = [child EXCEPT ![s] = [k \in Kinds |-> [n |-> 1, state |-> "up"]]]
  /\ lock' = [supervisor |-> Sup(s), web |-> Pid(s, "web")', worker |-> Pid(s, "worker")']
  /\ Loses(s)
  /\ UNCHANGED <<told, port, seen, stop, crashes, foreigners, targets, beside, changed, hurt>>

-----------------------------------------------------------------------------
\* updateLockPids writes into any lock whose supervisor lives.
UpdateLockPids(s) ==
  IF lock.supervisor \in Ours
  THEN /\ lock' = [lock EXCEPT
            !.web = Pid(s, "web")',
            !.worker = IF child'[s]["worker"].state = "gone" THEN None ELSE Pid(s, "worker")']
       /\ Loses(s)
  ELSE UNCHANGED <<lock, lost>>

Bind(s) ==
  /\ child[s]["web"].state = "up" /\ port = None
  /\ port' = Pid(s, "web")
  /\ UNCHANGED <<sup, told, child, lock, seen, stop, crashes, foreigners, supervisorHistory>>

\* MUTANT of MayRestart: one restart more.
RestartOnceMore(s, k) == child[s][k].n <= MaxRestarts + 1

MayRestart(s, k) == child[s][k].n <= MaxRestarts

\* A child exits: because it was told to, because the port is taken, or for reasons of
\* its own.
ChildExits(s, k) ==
  LET givesUp == sup[s] = "serving" /\ ~MayRestart(s, k)
      toldToo == IF givesUp /\ k = "web" THEN {Pid(s, "worker")} \intersect Ours ELSE {}
      restarts == sup[s] = "serving" /\ MayRestart(s, k)
  IN
  /\ child[s][k].state = "up"
  /\ child' = [child EXCEPT ![s][k].state = IF restarts THEN "pending" ELSE "gone"]
  /\ port' = IF port = Pid(s, k) THEN None ELSE port
  /\ told' = (told \union toldToo) \ {Pid(s, k)}
  /\ sup' = IF givesUp /\ k = "web" THEN [sup EXCEPT ![s] = "stopping"] ELSE sup
  /\ IF givesUp /\ k = "worker" THEN UpdateLockPids(s) ELSE UNCHANGED <<lock, lost>>
  /\ UNCHANGED <<seen, stop, crashes, foreigners, targets, beside, changed, hurt>>

\* MUTANT of RestartChild: the timer does not look whether the supervisor is stopping.
RestartAnyway(s, k) ==
  /\ child[s][k].state = "pending" /\ sup[s] \in {"serving", "stopping"}
  /\ child' = [child EXCEPT ![s][k] = [n |-> @.n + 1, state |-> "up"]]
  /\ UpdateLockPids(s)
  /\ UNCHANGED <<sup, told, port, seen, stop, crashes, foreigners, targets, beside, changed, hurt>>

\* 1.5 s later.
RestartChild(s, k) ==
  /\ child[s][k].state = "pending" /\ sup[s] = "serving"
  /\ child' = [child EXCEPT ![s][k] = [n |-> @.n + 1, state |-> "up"]]
  /\ UpdateLockPids(s)
  /\ UNCHANGED <<sup, told, port, seen, stop, crashes, foreigners, targets, beside, changed, hurt>>

\* The user asks the supervisor to end.
Interrupt(s) ==
  /\ Running(s) /\ sup[s] # "stopping" /\ told' = told \union {Sup(s)}
  /\ UNCHANGED <<sup, child, port, lock, seen, stop, crashes, foreigners, supervisorHistory>>

\* shutdown, on the signal: at an await of main.  Migrations are synchronous.
Shutdown(s) ==
  /\ Sup(s) \in told
  /\ \/ /\ sup[s] \in {"probe", "waiting"}
        /\ EndsItself(s) /\ ClearLock(s)
     \/ /\ sup[s] = "serving"
        /\ sup' = [sup EXCEPT ![s] = "stopping"]
        /\ told' = told \union ({Pid(s, k) : k \in Kinds} \intersect Ours)
        /\ UNCHANGED <<lock, lost>>
  /\ Forget(s)
  /\ UNCHANGED <<child, port, stop, crashes, foreigners, targets, beside, changed, hurt>>

\* The children have exited, or 5 s are over.
Finish(s) ==
  /\ sup[s] = "stopping"
  /\ EndsItself(s) /\ ClearLock(s)
  /\ UNCHANGED <<child, port, seen, stop, crashes, foreigners, targets, beside, changed, hurt>>

\* The supervisor dies without a word, and leaves its children behind: not while a
\* signal is on its way, which it obeys within milliseconds.
Crash(s) ==
  /\ crashes < MaxCrashes /\ crashes' = crashes + 1
  /\ sup[s] \in {"migrate", "serving"} /\ sup' = [sup EXCEPT ![s] = "crashed"]
  /\ Sup(s) \notin told
  /\ child' = [child EXCEPT ![s] = [k \in Kinds |->
       IF @[k].state = "pending" THEN [@[k] EXCEPT !.state = "gone"] ELSE @[k]]]
  /\ UNCHANGED <<told, port, lock, seen, stop, foreigners, supervisorHistory>>

ForeignBinds ==
  /\ foreigners < MaxForeign /\ foreigners' = foreigners + 1
  /\ port = None /\ port' = Foreign
  /\ UNCHANGED <<sup, told, child, lock, seen, stop, crashes, supervisorHistory>>

ForeignLeaves ==
  /\ port = Foreign /\ port' = None
  /\ UNCHANGED <<sup, told, child, lock, seen, stop, crashes, foreigners, supervisorHistory>>

-----------------------------------------------------------------------------
\* MUTANT of Stoppable: the supervisor takes its children along.
StoppableSupervisor == {lock.supervisor, lock.web} \intersect Ours

\* stoppablePids.
Stoppable == LiveLockPids

\* local:stop: the recorded processes, then an orphan on the port, then the lock.
StopRecorded ==
  /\ stop = "off" /\ stop' = IF lock = Unlocked THEN "sweep" ELSE "sweepLocked"
  /\ Signal(Stoppable)
  /\ targets' = {p \in Ours : p.kind # "supervisor" \/ sup[p.of] = "serving"}
  /\ UNCHANGED <<sup, child, port, lock, seen, crashes, foreigners, beside, lost, changed>>

StopLooksAtPort ==
  /\ stop \in {"sweep", "sweepLocked"}
  /\ stop' = IF port = None THEN IF stop = "sweep" THEN "done" ELSE "clear"
             ELSE IF stop = "sweep" THEN "ask" ELSE "askLocked"
  /\ \E owner \in {port, None} : seen' = [seen EXCEPT !["stopper"] = owner]
  /\ UNCHANGED <<sup, told, child, port, lock, crashes, foreigners, supervisorHistory>>

\* orphanRecoveryTarget: the one that answers must prove itself.
StopOrphan ==
  /\ stop \in {"ask", "askLocked"}
  /\ stop' = IF stop = "ask" THEN "done" ELSE "clear"
  /\ \/ Identified /\ Signal({seen["stopper"]} \ {None}) /\ ChangesHands("stopper")
     \/ UNCHANGED <<told, hurt, changed>>
  /\ Forget("stopper")
  /\ UNCHANGED <<sup, child, port, lock, crashes, foreigners, targets, beside, lost>>

StopClears ==
  /\ stop = "clear" /\ stop' = "done"
  /\ lock' = Unlocked
  /\ lost' = (lost \/ \E p \in LockPids \ targets : Untold(p))
  /\ UNCHANGED <<sup, told, child, port, seen, crashes, foreigners, targets, beside, changed, hurt>>

Next ==
  \/ \E s \in Supervisors :
       \/ StartIfFree(s) \/ LookAtPort(s) \/ Leave(s) \/ RestartOwned(s) \/ Wait(s)
       \/ MigrationFails(s) \/ Start(s) \/ Bind(s)
       \/ Interrupt(s) \/ Shutdown(s) \/ Finish(s) \/ Crash(s)
       \/ \E k \in Kinds : ChildExits(s, k) \/ RestartChild(s, k)
  \/ ForeignBinds \/ ForeignLeaves
  \/ StopRecorded \/ StopLooksAtPort \/ StopOrphan \/ StopClears

Spec == Init /\ [][Next]_supervisorVars

-----------------------------------------------------------------------------

\* Who listens on the port is alive, the lock names processes of the stack, and no child
\* is started more often than its restarts allow.
SupervisorTypeOK ==
  /\ \A s \in Supervisors :
       /\ sup[s] \in {"off", "probe", "waiting", "migrate", "serving", "stopping", "ended",
                      "crashed"}
       /\ \A k \in Kinds : /\ child[s][k].n \in 0..MaxRestarts + 1
                           /\ child[s][k].state \in {"none", "up", "pending", "gone"}
  /\ stop \in {"off", "sweep", "sweepLocked", "ask", "askLocked", "clear", "done"}
  /\ port \in Ours \union {Foreign, None}
  /\ \A p \in LockPids : p.of \in Supervisors

\* "An unrelated Node app on port 3000 is reported, never killed" (localStartup.ts):
\* unless the port changed hands between the look at its owner and the answer.
ForeignIsSpared == hurt => changed

\* "Double-starting would race two Next servers onto one port and one database": no two
\* stacks work, unless their startups lay across each other, before the lock is
\* written, or a lock was taken from a stack at work.
OneStack ==
  \A p, q \in Ours :
    /\ p.kind # "supervisor" /\ Untold(p)
    /\ q.kind # "supervisor" /\ Untold(q)
    => p.of = q.of \/ beside \/ lost

\* A supervisor that has shut down leaves no child behind that was not told to end: no
\* restart that was pending comes after it.
NoneIsLeftBehind ==
  \A s \in Supervisors : sup[s] = "ended" =>
    \A k \in Kinds : child[s][k].state = "up" => Pid(s, k) \in told

\* local:stop "genuinely leaves" nothing of what was at work when it began, also when
\* the supervisor had died before: unless a lock was lost.
StopEndsTheStack ==
  stop = "done" => lost \/ beside \/ \A p \in targets : ~Untold(p)
=============================================================================
