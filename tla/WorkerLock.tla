------------------------------- MODULE WorkerLock -------------------------------
(***************************************************************************)
(* The lock of the application worker (src/lib/applications/workerLock.ts) *)
(* and the part of scripts/application-worker.ts that takes and leaves it. *)
(*                                                                         *)
(* A worker is one start of the process.  It creates the lock file         *)
(* exclusively, or inspects the file it finds and removes it when its      *)
(* owner looks dead; then it binds the health port, and polls the queue of *)
(* runs while a timer rewrites the file.  A step is one system call.       *)
(* Creating the file and filling it are two calls, and so are truncating   *)
(* and filling it on a heartbeat: a reader in between finds no owner.  A   *)
(* handle stays with the inode it was opened on, so a write through it is  *)
(* lost when the path was unlinked: `writers` are the workers whose open   *)
(* handle is on the file the path names now.                               *)
(*                                                                         *)
(* A worker hangs when its process gets no time for longer than the        *)
(* heartbeat limit (a suspended machine).  Process ids are not reused.     *)
(***************************************************************************)
EXTENDS Integers, FiniteSets

CONSTANTS
  Workers,    \* starts of the worker process
  None,       \* no worker, no file
  MaxFaults   \* bound on crashes, hangs and stops

ASSUME WorkersAssumption == None \notin Workers /\ MaxFaults \in Nat

MaxAttempts == 2

VARIABLES
  file,     \* the lock file, or None
  port,     \* the worker bound to the health port
  step,     \* per worker, the call it makes next
  attempt,  \* per worker, its pass through the loop of the acquisition, while in it
  seen,     \* per worker, what it read in the file, until it has judged it
  hung,     \* the workers whose process gets no time
  told,     \* the workers with a SIGTERM pending
  faults,   \* crashes, hangs and stops so far
  rival     \* history: the starts during which another worker was alive

vars == <<file, port, step, attempt, seen, hung, told, faults, rival>>

\* owner: whom the content names (None: empty, truncated or unparsable);
\* aged: its heartbeatAt is more than 10 s ago; writers: see above.
FileRecord == [owner : Workers \cup {None}, aged : BOOLEAN, writers : SUBSET Workers]
SeenRecord == [owner : Workers \cup {None}, aged : BOOLEAN]
Unseen == [owner |-> None, aged |-> FALSE]

Steps == {"off", "open", "fill", "inspect", "probe", "unlink", "listen",
          "working", "closing", "release", "remove",
          "refused", "failed", "stopped", "dead"}
Over == {"off", "refused", "failed", "stopped", "dead"}
Starting == {"open", "fill", "inspect", "probe", "unlink", "listen"}

Alive(w) == step[w] \notin Over
Running(w) == Alive(w) /\ w \notin hung
Goto(w, s) == step' = [step EXCEPT ![w] = s]

\* The file once worker w's handle is closed.
Closed(f, w) == IF f = None THEN None ELSE [f EXCEPT !.writers = @ \ {w}]

\* Worker w has a handle on the file the path names.
Writing(w) == file # None /\ w \in file.writers

\* Worker w writes its record through its handle.  Over the content of another
\* writer the result may have a tail of the longer record and not parse.
Filled(w) ==
  IF ~Writing(w) THEN {file}
  ELSE {[owner |-> o, aged |-> FALSE, writers |-> file.writers \ {w}] :
          o \in IF file.owner = None THEN {w} ELSE {w, None}}

-----------------------------------------------------------------------------
(* acquireApplicationWorkerLock                                              *)

Start(w) ==
  /\ step[w] = "off"
  /\ Goto(w, "open")
  /\ attempt' = [attempt EXCEPT ![w] = 1]
  /\ rival' = LET others == {o \in Workers \ {w} : Alive(o)} IN
       rival \cup {o \in others : step[o] \in Starting}
             \cup (IF others = {} THEN {} ELSE {w})
  /\ UNCHANGED <<file, port, seen, hung, told, faults>>

\* open(lockPath, "wx")
Open(w) ==
  /\ step[w] = "open" /\ Running(w)
  /\ IF file = None
     THEN /\ file' = [owner |-> None, aged |-> FALSE, writers |-> {w}]
          /\ Goto(w, "fill")
     ELSE Goto(w, "inspect") /\ UNCHANGED file
  /\ UNCHANGED <<port, attempt, seen, hung, told, faults, rival>>

\* handle.writeFile and close; the constructor of the lock.
Fill(w) ==
  /\ step[w] = "fill" /\ Running(w)
  /\ file' \in Filled(w)
  /\ Goto(w, "listen")
  /\ attempt' = [attempt EXCEPT ![w] = 0]
  /\ UNCHANGED <<port, seen, hung, told, faults, rival>>

\* readWorkerLock: null unless the file names an owner.
Inspect(w) ==
  /\ step[w] = "inspect" /\ Running(w)
  /\ LET found == IF file = None THEN Unseen
                  ELSE [owner |-> file.owner, aged |-> file.aged] IN
       /\ seen' = [seen EXCEPT ![w] = found]
       /\ Goto(w, IF found.owner = None THEN "unlink" ELSE "probe")
  /\ UNCHANGED <<file, port, attempt, hung, told, faults, rival>>

\* fetchWorkerHealth: the port answers with the token of the owner.
Healthy(o) == port = o /\ o \notin hung

\* Faulty: a process that does not answer is taken for dead.
StaleWhenSilent(w) == ~Healthy(seen[w].owner)

\* isStale
IsStale(w) ==
  LET o == seen[w].owner IN
    \/ ~Alive(o)
    \/ ~Healthy(o) /\ seen[w].aged

\* A running owner that is stale is told to stop.
Probe(w) ==
  /\ step[w] = "probe" /\ Running(w)
  /\ IF IsStale(w)
     THEN /\ Goto(w, "unlink")
          /\ told' = told \cup {o \in {seen[w].owner} : Alive(o)}
          /\ UNCHANGED attempt
     ELSE /\ Goto(w, "refused")
          /\ attempt' = [attempt EXCEPT ![w] = 0]
          /\ UNCHANGED told
  /\ seen' = [seen EXCEPT ![w] = Unseen]
  /\ UNCHANGED <<file, port, hung, faults, rival>>

\* Faulty: one attempt only.
UnlinkOnce(w) ==
  /\ step[w] = "unlink" /\ Running(w)
  /\ file' = None
  /\ Goto(w, "refused")
  /\ UNCHANGED <<port, attempt, seen, hung, told, faults, rival>>

\* Faulty: the loop has no end.
UnlinkAgain(w) ==
  /\ step[w] = "unlink" /\ Running(w)
  /\ file' = None
  /\ attempt' = [attempt EXCEPT ![w] = @ + 1]
  /\ Goto(w, "open")
  /\ UNCHANGED <<port, seen, hung, told, faults, rival>>

\* unlink(lockPath), whatever file the path names by now.
Unlink(w) ==
  /\ step[w] = "unlink" /\ Running(w)
  /\ file' = None
  /\ IF attempt[w] < MaxAttempts
     THEN /\ attempt' = [attempt EXCEPT ![w] = @ + 1]
          /\ Goto(w, "open")
     ELSE /\ attempt' = [attempt EXCEPT ![w] = 0]
          /\ Goto(w, "refused")
  /\ UNCHANGED <<port, seen, hung, told, faults, rival>>

-----------------------------------------------------------------------------
(* The worker                                                                *)

\* Faulty: the port is bound without regard to whether another process has it
\* (a port of its own for every worker).
ListenAnywhere(w) ==
  /\ step[w] = "listen" /\ Running(w)
  /\ port' = w
  /\ Goto(w, "working")
  /\ UNCHANGED <<file, attempt, seen, hung, told, faults, rival>>

\* startHealthServer and startHeartbeat; EADDRINUSE ends in shutdown(1).
Listen(w) ==
  /\ step[w] = "listen" /\ Running(w)
  /\ IF port = None
     THEN port' = w /\ Goto(w, "working")
     ELSE Goto(w, "closing") /\ UNCHANGED port
  /\ UNCHANGED <<file, attempt, seen, hung, told, faults, rival>>

\* Faulty: the heartbeat does not create a missing file.
BeatExisting(w) ==
  /\ step[w] \in {"working", "closing", "release", "remove"} /\ Running(w)
  /\ file # None /\ ~Writing(w)
  /\ file' = [owner |-> None, aged |-> FALSE, writers |-> file.writers \cup {w}]
  /\ UNCHANGED <<port, step, attempt, seen, hung, told, faults, rival>>

\* ApplicationWorkerLock.update, on the timer and from the loop and the browser
\* manager, while the process lives: writeFile truncates or creates the file ...
BeatOpens(w) ==
  /\ step[w] \in {"working", "closing", "release", "remove"} /\ Running(w)
  /\ ~Writing(w)
  /\ file' = [owner |-> None, aged |-> FALSE,
              writers |-> IF file = None THEN {w} ELSE file.writers \cup {w}]
  /\ UNCHANGED <<port, step, attempt, seen, hung, told, faults, rival>>

\* ... and fills it.
BeatFills(w) ==
  /\ step[w] \in {"working", "closing", "release", "remove"} /\ Running(w)
  /\ Writing(w)
  /\ file' \in Filled(w)
  /\ UNCHANGED <<port, step, attempt, seen, hung, told, faults, rival>>

\* SIGTERM, from a contender: shutdown.
Obey(w) ==
  /\ step[w] \in {"listen", "working"} /\ Running(w) /\ w \in told
  /\ Goto(w, "closing")
  /\ told' = told \ {w}
  /\ UNCHANGED <<file, port, attempt, seen, hung, faults, rival>>

\* An operator's signal, or an exception of the start of the worker.
Stop(w) ==
  /\ step[w] = "working" /\ Running(w) /\ faults < MaxFaults
  /\ Goto(w, "closing")
  /\ faults' = faults + 1
  /\ UNCHANGED <<file, port, attempt, seen, hung, told, rival>>

\* healthServer.close
ClosePort(w) ==
  /\ step[w] = "closing" /\ Running(w)
  /\ port' = IF port = w THEN None ELSE port
  /\ Goto(w, "release")
  /\ UNCHANGED <<file, attempt, seen, hung, told, faults, rival>>

Exit(w, s) ==
  /\ Goto(w, s)
  /\ told' = told \ {w}

\* release: the record is removed when it is this worker's.
Release(w) ==
  /\ step[w] = "release" /\ Running(w)
  /\ IF file # None /\ file.owner = w
     THEN Goto(w, "remove") /\ UNCHANGED <<file, told>>
     ELSE Exit(w, "stopped") /\ file' = Closed(file, w)
  /\ UNCHANGED <<port, attempt, seen, hung, faults, rival>>

Remove(w) ==
  /\ step[w] = "remove" /\ Running(w)
  /\ file' = None
  /\ Exit(w, "stopped")
  /\ UNCHANGED <<port, attempt, seen, hung, faults, rival>>

-----------------------------------------------------------------------------
(* The operating system                                                      *)

\* The process is killed: its port is free again, the file stays.
Crash(w) ==
  /\ Alive(w) /\ faults < MaxFaults
  /\ Exit(w, "dead")
  /\ port' = IF port = w THEN None ELSE port
  /\ file' = Closed(file, w)
  /\ hung' = hung \ {w}
  /\ faults' = faults + 1
  /\ seen' = [seen EXCEPT ![w] = Unseen]
  /\ attempt' = [attempt EXCEPT ![w] = 0]
  /\ UNCHANGED rival

Hang(w) ==
  /\ Running(w) /\ faults < MaxFaults
  /\ hung' = hung \cup {w}
  /\ faults' = faults + 1
  /\ UNCHANGED <<file, port, step, attempt, seen, told, rival>>

Resume(w) ==
  /\ w \in hung
  /\ hung' = hung \ {w}
  /\ UNCHANGED <<file, port, step, attempt, seen, told, faults, rival>>

\* The record grows old: nobody who runs rewrites it.
Ages ==
  /\ file # None /\ file.owner # None /\ ~file.aged
  /\ ~Running(file.owner)
  /\ file' = [file EXCEPT !.aged = TRUE]
  /\ UNCHANGED <<port, step, attempt, seen, hung, told, faults, rival>>

-----------------------------------------------------------------------------
Init ==
  /\ file = None
  /\ port = None
  /\ step = [w \in Workers |-> "off"]
  /\ attempt = [w \in Workers |-> 0]
  /\ seen = [w \in Workers |-> Unseen]
  /\ hung = {}
  /\ told = {}
  /\ faults = 0
  /\ rival = {}

Worker(w) ==
  \/ Start(w) \/ Open(w) \/ Fill(w) \/ Inspect(w) \/ Probe(w) \/ Unlink(w)
  \/ Listen(w) \/ BeatOpens(w) \/ BeatFills(w)
  \/ Obey(w) \/ Stop(w) \/ ClosePort(w) \/ Release(w) \/ Remove(w)
  \/ Crash(w) \/ Hang(w) \/ Resume(w)

Next == Ages \/ \E w \in Workers : Worker(w)

\* The timer of a worker and the write it starts.
Fairness ==
  \A w \in Workers : WF_vars(BeatOpens(w)) /\ WF_vars(BeatFills(w))

Spec == Init /\ [][Next]_vars /\ Fairness

-----------------------------------------------------------------------------
(* Properties                                                                *)

\* Every variable has its type.
LockTypeOK ==
  /\ file \in FileRecord \cup {None}
  /\ port \in Workers \cup {None}
  /\ step \in [Workers -> Steps]
  /\ attempt \in [Workers -> 0..MaxAttempts]
  /\ seen \in [Workers -> SeenRecord]
  /\ hung \subseteq Workers
  /\ told \subseteq Workers
  /\ faults \in 0..MaxFaults
  /\ rival \subseteq Workers

\* application-worker.ts: one worker polls the queue at a time, although two may
\* hold the lock at once (one of them lost its file to an `unlink`): the lock
\* implements the abstract exclusive lane.
Pollers == {w \in Workers : step[w] = "working"}
Queue == INSTANCE ExclusiveLane WITH Invocations <- Workers, inside <- Pollers
OnePoller == Queue!Spec

\* A file left behind by a crash never costs a start: who exits as a duplicate
\* had a competitor that was alive at some time during its start.
RefusedForALiveWorker ==
  \A w \in Workers : step[w] = "refused" => w \in rival

\* Contenders do not turn each other away until nobody is left: without a crash,
\* a hang or a stop, when every start is over some worker polls.
NotAllTurnedAway ==
  /\ faults = 0
  /\ \A w \in Workers : step[w] \in Over \cup {"working"}
  /\ \E w \in Workers : step[w] # "off"
  => Pollers # {}

\* diagnostics.ts finds the worker through the file: one that polls on, alone
\* and responsive, is named there again and again, whatever contenders removed.
Alone(w) ==
  /\ step[w] = "working" /\ Running(w)
  /\ \A o \in Workers \ {w} : ~Alive(o)
FileNamesThePoller ==
  <>[](\E w \in Workers : Alone(w))
    => []<>(\E w \in Workers : Alone(w) /\ file # None /\ file.owner = w)
=============================================================================
