--------------------------- MODULE MoreServicesProofs ---------------------------
(***************************************************************************)
(* Proofs about more services of MCServices, as in ServicesProofs.         *)
(***************************************************************************)
EXTENDS MCServices, Sequences, FiniteSetTheorems, TLAPS

-----------------------------------------------------------------------------
(* The local supervisor                                                      *)

Processes == [of : Supervisors, kind : {"supervisor", "web", "worker"}, n : Nat]

\* No process of the stack is one of the others, or none.
LocalParameters ==
  /\ MaxRestarts \in Nat /\ MaxCrashes \in Nat /\ MaxForeign \in Nat
  /\ "stopper" \notin Supervisors
  /\ None \notin Processes /\ Foreign \notin Processes /\ None # Foreign

Before == {"off", "probe", "waiting", "migrate"}
After == {"serving", "stopping", "ended", "crashed"}

LocalTypes ==
  /\ sup \in [Supervisors -> Before \union After]
  /\ child \in [Supervisors -> [Local!Kinds ->
       [n : Nat, state : {"none", "up", "pending", "gone"}]]]
  /\ toldTo \subseteq Processes /\ targets \subseteq Processes
  /\ lock \in [supervisor : Processes \union {None}, web : Processes \union {None},
               worker : Processes \union {None}]
  /\ lock.web # None => lock.web.kind = "web"
  /\ lock.worker # None => lock.worker.kind = "worker"
  /\ looked \in [Supervisors \union {"stopper"} -> Processes \union {Foreign, None}]
  /\ stop \in {"off", "sweep", "sweepLocked", "ask", "askLocked", "clear", "done"}
  /\ beside \in BOOLEAN /\ lost \in BOOLEAN

\* A supervisor has children once it serves, and a child that will be started again is
\* short of its restarts.
ChildrenFollow ==
  \A s \in Supervisors : \A k \in Local!Kinds :
    /\ sup[s] \in Before => child[s][k].state = "none"
    /\ child[s][k].state = "none" <=> child[s][k].n = 0
    /\ child[s][k].state = "pending" => child[s][k].n <= MaxRestarts
    /\ child[s][k].n <= MaxRestarts + 1

\* The one on the port, if it is of the stack, is a web server that lives.
PortIsServed ==
  webPort \in {Foreign, None} \/
    \E s \in Supervisors : child[s]["web"].state = "up" /\ webPort = Local!Pid(s, "web")

\* What a supervisor that stops or has ended left was told to end.
ChildrenAreTold ==
  \A s \in Supervisors : sup[s] \in {"stopping", "ended"} =>
    \A k \in Local!Kinds : child[s][k].state = "up" => Local!Pid(s, k) \in toldTo

\* The processes that local:stop found: none of them was started since.
TargetsAreOld ==
  \A p \in targets :
    IF p.kind = "supervisor" THEN p.n = 1 /\ sup[p.of] \in After
    ELSE 1 <= p.n /\ p.n <= child[p.of][p.kind].n

\* What is at work and was not told to end: supervisors that serve, children that are up.
Work ==
  {p \in Processes :
     /\ p \notin toldTo /\ Local!Sup(p.of) \notin toldTo /\ sup[p.of] # "stopping"
     /\ IF p.kind = "supervisor" THEN p.n = 1 /\ sup[p.of] = "serving"
        ELSE child[p.of][p.kind].state = "up" /\ p.n = child[p.of][p.kind].n}

Starters == {s \in Supervisors : Local!Starting(s)}

\* All that works is of one stack and named by the lock, one supervisor starts at a time
\* and only when nothing works, and what local:stop found works no more.
Stack ==
  /\ Work \subseteq Local!LockPids
  /\ \A p, q \in Work : p.of = q.of
  /\ \A s, t \in Starters : s = t
  /\ Starters # {} => Work = {}
  /\ stop # "off" => Work \intersect targets = {}

LocalInv ==
  /\ LocalTypes /\ ChildrenFollow /\ PortIsServed /\ ChildrenAreTold /\ TargetsAreOld
  /\ Local!ForeignIsSpared
  /\ beside \/ lost \/ Stack

LEMMA FreeLockIsTyped ==
  /\ Local!Unlocked \in [supervisor : Processes \union {None}, web : Processes \union {None},
                         worker : Processes \union {None}]
  /\ Local!Unlocked.web = None /\ Local!Unlocked.worker = None
  BY DEF Local!Unlocked

LEMMA LocalInvAtFirst == ASSUME LocalParameters, Local!Init PROVE LocalInv
<1> USE DEF Local!Init, LocalParameters
<1>1. LocalTypes
  <2>1. /\ sup \in [Supervisors -> Before \union After]
        /\ looked \in [Supervisors \union {"stopper"} -> Processes \union {Foreign, None}]
    BY DEF Before, After
  <2>2. child \in [Supervisors -> [Local!Kinds ->
          [n : Nat, state : {"none", "up", "pending", "gone"}]]]
    OBVIOUS
  <2> QED
    BY <2>1, <2>2, FreeLockIsTyped DEF LocalTypes
<1>2. ChildrenFollow /\ PortIsServed /\ ChildrenAreTold /\ TargetsAreOld
  BY DEF ChildrenFollow, PortIsServed, ChildrenAreTold, TargetsAreOld, Local!Kinds
<1>3. Local!ForeignIsSpared
  BY DEF Local!ForeignIsSpared
<1>4. Work = {} /\ Starters = {}
  BY DEF Work, Starters, Local!Starting, Local!Kinds, Processes
<1>5. Stack
  BY <1>4 DEF Stack
<1> QED
  BY <1>1, <1>2, <1>3, <1>5 DEF LocalInv

\* The processes of the stack that live.
LEMMA OursAre ==
  ASSUME LocalTypes
  PROVE  /\ Local!Ours \subseteq Processes
         /\ \A s \in Supervisors : Local!Running(s) => Local!Sup(s) \in Local!Ours
         /\ \A s \in Supervisors, k \in Local!Kinds :
              child[s][k].state = "up" => Local!Pid(s, k) \in Local!Ours
         /\ \A p \in Local!Ours :
              \/ p.kind = "supervisor" /\ p.n = 1 /\ Local!Running(p.of)
              \/ /\ p.kind \in Local!Kinds
                 /\ child[p.of][p.kind].state = "up" /\ p.n = child[p.of][p.kind].n
<1> USE DEF LocalTypes
<1>1. \A s \in Supervisors : Local!Sup(s) \in Processes /\ Local!Sup(s).kind = "supervisor"
                             /\ Local!Sup(s).of = s /\ Local!Sup(s).n = 1
  BY DEF Local!Sup, Processes
<1>2. \A s \in Supervisors, k \in Local!Kinds :
        /\ Local!Pid(s, k) \in Processes /\ Local!Pid(s, k).kind = k /\ Local!Pid(s, k).of = s
        /\ Local!Pid(s, k).n = child[s][k].n
  <2> TAKE s \in Supervisors, k \in Local!Kinds
  <2>1. child[s][k].n \in Nat /\ k \in {"supervisor", "web", "worker"}
    BY DEF Local!Kinds
  <2> QED
    BY <2>1 DEF Local!Pid, Processes
<1>3. \A s \in Supervisors : Local!Running(s) => Local!Sup(s) \in Local!Ours
  BY DEF Local!Ours
<1>4. \A s \in Supervisors, k \in Local!Kinds :
        child[s][k].state = "up" => Local!Pid(s, k) \in Local!Ours
  <2> SUFFICES ASSUME NEW s \in Supervisors, NEW k \in Local!Kinds, child[s][k].state = "up"
               PROVE  Local!Pid(s, k) \in Local!Ours
    OBVIOUS
  <2>1. <<s, k>> \in {y \in Supervisors \X Local!Kinds : child[y[1]][y[2]].state = "up"}
    OBVIOUS
  <2>2. Local!Pid(<<s, k>>[1], <<s, k>>[2]) = Local!Pid(s, k)
    BY DEF Local!Pid
  <2> QED
    BY <2>1, <2>2 DEF Local!Ours
<1>5. ASSUME NEW p \in Local!Ours
      PROVE  \/ \E s \in Supervisors : p = Local!Sup(s) /\ Local!Running(s)
             \/ \E s \in Supervisors, k \in Local!Kinds :
                  p = Local!Pid(s, k) /\ child[s][k].state = "up"
  <2>1. CASE p \in {Local!Sup(s) : s \in {t \in Supervisors : Local!Running(t)}}
    BY <2>1
  <2>2. CASE p \in {Local!Pid(x[1], x[2]) :
               x \in {y \in Supervisors \X Local!Kinds : child[y[1]][y[2]].state = "up"}}
    <3>1. PICK x \in Supervisors \X Local!Kinds :
            child[x[1]][x[2]].state = "up" /\ p = Local!Pid(x[1], x[2])
      BY <2>2
    <3> QED
      BY <3>1
  <2> QED
    BY <2>1, <2>2 DEF Local!Ours
<1>6. ASSUME NEW p \in Local!Ours PROVE p \in Processes
  <2>1. ASSUME NEW s \in Supervisors, p = Local!Sup(s) PROVE p \in Processes
    BY <1>1, <2>1
  <2>2. ASSUME NEW s \in Supervisors, NEW k \in Local!Kinds, p = Local!Pid(s, k)
        PROVE  p \in Processes
    BY <1>2, <2>2
  <2> QED
    BY <1>5, <2>1, <2>2
<1>7. ASSUME NEW p \in Local!Ours
      PROVE  \/ p.kind = "supervisor" /\ p.n = 1 /\ Local!Running(p.of)
             \/ /\ p.kind \in Local!Kinds
                /\ child[p.of][p.kind].state = "up" /\ p.n = child[p.of][p.kind].n
  <2>1. ASSUME NEW s \in Supervisors, p = Local!Sup(s), Local!Running(s)
        PROVE  p.kind = "supervisor" /\ p.n = 1 /\ Local!Running(p.of)
    BY <1>1, <2>1
  <2>2. ASSUME NEW s \in Supervisors, NEW k \in Local!Kinds, p = Local!Pid(s, k),
               child[s][k].state = "up"
        PROVE  /\ p.kind \in Local!Kinds
               /\ child[p.of][p.kind].state = "up" /\ p.n = child[p.of][p.kind].n
    <3>1. p.of = s /\ p.kind = k /\ p.n = child[s][k].n
      BY <1>2, <2>2
    <3> QED
      BY <2>2, <3>1
  <2> QED
    BY <1>5, <2>1, <2>2
<1> QED
  BY <1>3, <1>4, <1>6, <1>7

\* What is at work lives and was not told to end; nothing else that was at work did.
LEMMA WorkIsUntold ==
  ASSUME LocalTypes
  PROVE  /\ Work \subseteq Processes
         /\ \A p \in Work : p \in Local!Ours /\ Local!Untold(p)
         /\ \A p \in Local!Ours :
              Local!Untold(p) /\ (p.kind = "supervisor" => sup[p.of] = "serving") => p \in Work
<1>1. Work \subseteq Processes
  BY DEF Work
<1>2. ASSUME NEW p \in Work PROVE p \in Local!Ours /\ Local!Untold(p)
  <2>0. /\ p \in Processes
        /\ p \notin toldTo /\ Local!Sup(p.of) \notin toldTo /\ sup[p.of] # "stopping"
        /\ IF p.kind = "supervisor" THEN p.n = 1 /\ sup[p.of] = "serving"
           ELSE child[p.of][p.kind].state = "up" /\ p.n = child[p.of][p.kind].n
    BY <1>2 DEF Work
  <2>1. CASE p.kind = "supervisor"
    <3>1. p = Local!Sup(p.of) /\ p.of \in Supervisors /\ Local!Running(p.of)
      BY <2>0, <2>1 DEF Processes, Local!Sup, Local!Running
    <3> QED
      BY <2>0, <3>1, OursAre DEF Local!Untold
  <2>2. CASE p.kind # "supervisor"
    <3>1. /\ p.of \in Supervisors /\ p.kind \in Local!Kinds /\ p = Local!Pid(p.of, p.kind)
          /\ child[p.of][p.kind].state = "up"
      BY <2>0, <2>2 DEF Processes, Local!Kinds, Local!Pid
    <3> QED
      BY <2>0, <3>1, OursAre DEF Local!Untold
  <2> QED
    BY <2>1, <2>2
<1>3. ASSUME NEW p \in Local!Ours, Local!Untold(p), p.kind = "supervisor" => sup[p.of] = "serving"
      PROVE  p \in Work
  BY <1>3, OursAre DEF Work, Local!Untold, Local!Kinds
<1> QED
  BY <1>1, <1>2, <1>3

\* Fewer work, as many or fewer start, and the lock names what is left: the stack is kept.
LEMMA Quieter ==
  ASSUME Stack, Work' \subseteq Work, Starters' \subseteq Starters,
         Work' \subseteq Local!LockPids', targets' = targets, stop' # "off" => stop # "off"
  PROVE  Stack'
  BY DEF Stack

\* Whoever takes the lock from others that work loses it for them.
LEMMA LosersAreMarked ==
  ASSUME LocalTypes, NEW s, Local!Loses(s), ~lost'
  PROVE  ~lost /\ \A p \in Work : p \in Local!LockPids => p.of = s
  BY WorkIsUntold DEF Local!Loses

\* What moves supervisors towards their end, and takes no signal back but from those
\* that end, leaves the children told and starts no work.
LEMMA Calm ==
  ASSUME LocalTypes, LocalTypes', ChildrenFollow, ChildrenAreTold, child' = child,
         \A s \in Supervisors :
           \/ sup'[s] = sup[s]
           \/ sup[s] \in Before /\ sup'[s] \in Before \union {"ended"}
           \/ /\ sup[s] \in {"serving", "stopping"} /\ sup'[s] \in {"stopping", "ended"}
              /\ \A k \in Local!Kinds : child[s][k].state = "up" => Local!Pid(s, k) \in toldTo',
         \A p \in toldTo : p \in toldTo' \/ \E s \in Supervisors : p = Local!Sup(s) /\ sup'[s] = "ended"
  PROVE  /\ ChildrenFollow' /\ ChildrenAreTold' /\ Work' \subseteq Work
         /\ TargetsAreOld /\ targets' = targets => TargetsAreOld'
<1>0. \A s \in Supervisors : \A k \in Local!Kinds :
        /\ Local!Pid(s, k)' = Local!Pid(s, k)
        /\ \A t \in Supervisors : Local!Pid(s, k) # Local!Sup(t)
  BY DEF Local!Pid, Local!Sup, Local!Kinds
<1>1. ChildrenFollow'
  <2>1. \A s \in Supervisors : sup'[s] \in Before => sup[s] \in Before
    BY DEF Before
  <2> QED
    BY <2>1 DEF ChildrenFollow
<1>2. ChildrenAreTold'
  <2> SUFFICES ASSUME NEW s \in Supervisors, sup'[s] \in {"stopping", "ended"},
                      NEW k \in Local!Kinds, child'[s][k].state = "up"
               PROVE  Local!Pid(s, k)' \in toldTo'
    BY DEF ChildrenAreTold
  <2>1. CASE sup'[s] = sup[s]
    BY <1>0, <2>1 DEF ChildrenAreTold
  <2>2. CASE sup[s] \in Before
    BY <2>2 DEF ChildrenFollow
  <2>3. CASE \A j \in Local!Kinds : child[s][j].state = "up" => Local!Pid(s, j) \in toldTo'
    BY <1>0, <2>3
  <2> QED
    BY <2>1, <2>2, <2>3
<1>3. Work' \subseteq Work
  <2> SUFFICES ASSUME NEW p \in Work' PROVE p \in Work
    OBVIOUS
  <2>0. /\ p \in Processes
        /\ p \notin toldTo' /\ Local!Sup(p.of) \notin toldTo' /\ sup'[p.of] # "stopping"
        /\ IF p.kind = "supervisor" THEN p.n = 1 /\ sup'[p.of] = "serving"
           ELSE child[p.of][p.kind].state = "up" /\ p.n = child[p.of][p.kind].n
    BY DEF Work, Local!Sup
  <2>1. p.of \in Supervisors /\ (p.kind = "supervisor" \/ p.kind \in Local!Kinds)
    BY <2>0 DEF Processes, Local!Kinds
  <2>2. p.kind \in Local!Kinds => p = Local!Pid(p.of, p.kind)
    BY <2>0 DEF Processes, Local!Kinds, Local!Pid
  <2>3. sup'[p.of] # "ended"
    BY <1>0, <1>2, <2>0, <2>1, <2>2 DEF ChildrenAreTold
  <2>4. \A s \in Supervisors : Local!Sup(p.of) = Local!Sup(s) => s = p.of
    BY DEF Local!Sup
  <2>5. Local!Sup(p.of) \notin toldTo
    BY <2>0, <2>3, <2>4
  <2>6. p \notin toldTo
    <3>1. ASSUME NEW s \in Supervisors, p = Local!Sup(s) PROVE s = p.of
      BY <3>1 DEF Local!Sup
    <3> QED
      BY <2>0, <2>3, <3>1
  <2>7. sup[p.of] # "stopping" /\ (sup'[p.of] = "serving" => sup[p.of] = "serving")
    BY <2>0, <2>1, <2>3 DEF Before
  <2> QED
    BY <2>0, <2>5, <2>6, <2>7 DEF Work
<1>4. ASSUME TargetsAreOld, targets' = targets PROVE TargetsAreOld'
  BY <1>4 DEF TargetsAreOld, After, Before, LocalTypes, Processes
<1> QED
  BY <1>1, <1>2, <1>3, <1>4

\* Such a step keeps the invariant, if no more supervisors start, and the lock keeps the
\* names of those that work or is lost for them.
LEMMA CalmKeeps ==
  ASSUME LocalInv, LocalTypes', child' = child, targets' = targets,
         webPort' \in {webPort, None, Foreign},
         \A s \in Supervisors :
           \/ sup'[s] = sup[s]
           \/ sup[s] \in Before /\ sup'[s] \in Before \union {"ended"}
           \/ /\ sup[s] \in {"serving", "stopping"} /\ sup'[s] \in {"stopping", "ended"}
              /\ \A k \in Local!Kinds : child[s][k].state = "up" => Local!Pid(s, k) \in toldTo',
         \A p \in toldTo : p \in toldTo' \/ \E s \in Supervisors : p = Local!Sup(s) /\ sup'[s] = "ended",
         Local!ForeignIsSpared',
         beside => beside', lost => lost', stop' # "off" => stop # "off",
         \A s \in Supervisors : sup'[s] \in {"waiting", "migrate"} => sup[s] \in {"waiting", "migrate"},
         lock' = lock \/ lost' \/ beside' \/ Work' \subseteq Local!LockPids'
  PROVE  LocalInv'
<1>1. /\ ChildrenFollow' /\ ChildrenAreTold' /\ Work' \subseteq Work /\ TargetsAreOld'
  BY Calm DEF LocalInv
<1>2. PortIsServed'
  <2>1. \A s \in Supervisors : Local!Pid(s, "web")' = Local!Pid(s, "web")
    BY DEF Local!Pid
  <2> QED
    BY <2>1 DEF LocalInv, PortIsServed
<1>3. Starters' \subseteq Starters
  BY DEF Starters, Local!Starting
<1>4. beside' \/ lost' \/ Stack'
  <2>1. ASSUME Stack, lock' = lock PROVE Work' \subseteq Local!LockPids'
    BY <1>1, <2>1 DEF Stack, Local!LockPids
  <2> QED
    BY <1>1, <1>3, <2>1, Quieter DEF LocalInv
<1> QED
  BY <1>1, <1>2, <1>4 DEF LocalInv

LEMMA PidsAreProcesses ==
  ASSUME LocalTypes
  PROVE  /\ \A s \in Supervisors : Local!Sup(s) \in Processes
         /\ \A s \in Supervisors, k \in Local!Kinds : Local!Pid(s, k) \in Processes
<1>1. ASSUME NEW s \in Supervisors, NEW k \in Local!Kinds PROVE Local!Pid(s, k) \in Processes
  <2>1. child[s][k].n \in Nat /\ k \in {"supervisor", "web", "worker"}
    BY DEF Local!Kinds, LocalTypes
  <2> QED
    BY <2>1 DEF Local!Pid, Processes
<1> QED
  BY <1>1 DEF Local!Sup, Processes

LEMMA PortIsTyped == LocalInv => webPort \in Processes \union {Foreign, None}
<1>1. "web" \in Local!Kinds
  BY DEF Local!Kinds
<1> QED
  BY <1>1, PidsAreProcesses DEF LocalInv, PortIsServed

LEMMA LookAtPortKeeps ==
  ASSUME LocalParameters, LocalInv, NEW s \in Supervisors, Local!LookAtPort(s) PROVE LocalInv'
<1> USE DEF Local!LookAtPort, Local!supervisorHistory
<1>1. sup' = [sup EXCEPT ![s] = "probe"] /\ sup[s] = "off"
  OBVIOUS
<1>2. PICK owner \in {webPort, None} : looked' = [looked EXCEPT ![s] = owner]
  OBVIOUS
<1>3. webPort \in Processes \union {Foreign, None}
  BY PortIsTyped
<1>4. LocalTypes'
  <2>1. sup' \in [Supervisors -> Before \union After]
    BY <1>1 DEF LocalInv, LocalTypes, Before
  <2>2. looked' \in [Supervisors \union {"stopper"} -> Processes \union {Foreign, None}]
    BY <1>2, <1>3 DEF LocalInv, LocalTypes
  <2> QED
    BY <2>1, <2>2 DEF LocalInv, LocalTypes
<1>5. \A t \in Supervisors : sup'[t] = sup[t] \/ (sup[t] = "off" /\ sup'[t] = "probe")
  BY <1>1 DEF LocalInv, LocalTypes
<1>6. Local!ForeignIsSpared'
  BY DEF LocalInv, Local!ForeignIsSpared
<1>7. \A t \in Supervisors :
        sup'[t] \in {"waiting", "migrate"} => sup[t] \in {"waiting", "migrate"}
  BY <1>5
<1> QED
  BY <1>4, <1>5, <1>6, <1>7, CalmKeeps DEF Local!LookAtPort, Local!supervisorHistory, Before
LEMMA LosesMarks ==
  ASSUME LocalTypes, NEW s, Local!Loses(s) PROVE lost' \in BOOLEAN /\ (lost => lost')
<1>1. CASE \E p \in Local!LockPids : p.of # s /\ Local!Untold(p)
  BY <1>1 DEF Local!Loses
<1>2. CASE ~\E p \in Local!LockPids : p.of # s /\ Local!Untold(p)
  BY <1>2 DEF Local!Loses, LocalTypes
<1> QED
  BY <1>1, <1>2

\* A supervisor that ends, with or without clearing the lock.
LEMMA EndsKeeps ==
  ASSUME LocalParameters, LocalInv, NEW s \in Supervisors, sup[s] \in Before \union {"stopping"},
         Local!EndsItself(s),
         UNCHANGED <<child, webPort, stop, targets, beside, hurt, changed>>,
         looked' = looked \/ Local!Forget(s),
         UNCHANGED <<lock, lost>> \/ Local!ClearLock(s)
  PROVE  LocalInv'
<1> USE DEF Local!EndsItself
<1>0. LocalTypes /\ ChildrenFollow /\ ChildrenAreTold
  BY DEF LocalInv
<1>1. LocalTypes'
  <2>1. sup' \in [Supervisors -> Before \union After] /\ toldTo' \subseteq Processes
    BY <1>0 DEF LocalTypes, After
  <2>2. looked' \in [Supervisors \union {"stopper"} -> Processes \union {Foreign, None}]
    BY <1>0 DEF LocalTypes, Local!Forget
  <2>3. lock' = lock \/ lock' = Local!Unlocked
    BY DEF Local!ClearLock
  <2>4. lost' \in BOOLEAN
    BY <1>0, LosesMarks DEF LocalTypes, Local!ClearLock
  <2> QED
    BY <1>0, <2>1, <2>2, <2>3, <2>4, FreeLockIsTyped DEF LocalTypes
<1>2. ASSUME NEW t \in Supervisors
      PROVE  \/ sup'[t] = sup[t]
             \/ sup[t] \in Before /\ sup'[t] \in Before \union {"ended"}
             \/ /\ sup[t] \in {"serving", "stopping"} /\ sup'[t] \in {"stopping", "ended"}
                /\ \A k \in Local!Kinds : child[t][k].state = "up" => Local!Pid(t, k) \in toldTo'
  <2>1. CASE t # s
    BY <1>0, <2>1 DEF LocalTypes
  <2>2. CASE t = s
    <3>1. sup'[s] = "ended"
      BY <1>0 DEF LocalTypes
    <3>2. \A k \in Local!Kinds : Local!Pid(s, k) # Local!Sup(s)
      BY DEF Local!Pid, Local!Sup, Local!Kinds
    <3>3. toldTo' = toldTo \ {Local!Sup(s)}
      OBVIOUS
    <3> HIDE DEF Local!EndsItself
    <3>4. CASE sup[s] = "stopping"
      BY <1>0, <2>2, <3>1, <3>2, <3>3, <3>4 DEF ChildrenAreTold
    <3> QED
      BY <2>2, <3>1, <3>4
  <2> QED
    BY <2>1, <2>2
<1>3. /\ \A p \in toldTo : p \in toldTo' \/ \E t \in Supervisors : p = Local!Sup(t) /\ sup'[t] = "ended"
      /\ \A t \in Supervisors : sup'[t] \in {"waiting", "migrate"} => sup[t] \in {"waiting", "migrate"}
      /\ sup'[s] = "ended"
  BY <1>0 DEF LocalTypes
<1>4. Local!ForeignIsSpared' /\ (lost => lost')
  BY <1>0, LosesMarks DEF LocalInv, Local!ForeignIsSpared, Local!ClearLock
<1> HIDE DEF Local!EndsItself
<1>5. lock' = lock \/ lost' \/ beside \/ Work' \subseteq Local!LockPids'
  <2> SUFFICES ASSUME Local!ClearLock(s), ~lost', ~beside PROVE Work' = {}
    OBVIOUS
  <2>1. Work' \subseteq Work /\ ChildrenAreTold'
    BY <1>0, <1>1, <1>2, <1>3, Calm
  <2>2. \A p \in Work : p.of = s
    <3>1. Local!Loses(s)
      BY DEF Local!ClearLock
    <3>2. ~lost /\ \A p \in Work : p \in Local!LockPids => p.of = s
      BY <1>0, <3>1, LosersAreMarked
    <3> QED
      BY <3>2 DEF LocalInv, Stack
  <2>3. ASSUME NEW p \in Work', p.of = s PROVE FALSE
    <3>1. /\ p \in Processes /\ p \notin toldTo'
          /\ IF p.kind = "supervisor" THEN sup'[s] = "serving"
             ELSE child'[s][p.kind].state = "up" /\ p.n = child'[s][p.kind].n
      BY <2>3 DEF Work
    <3>2. p.kind \in Local!Kinds /\ p = Local!Pid(s, p.kind)'
      BY <1>3, <2>3, <3>1 DEF Processes, Local!Kinds, Local!Pid
    <3> QED
      BY <1>3, <2>1, <3>1, <3>2 DEF ChildrenAreTold, Local!Kinds
  <2> QED
    BY <2>1, <2>2, <2>3
<1> QED
  BY <1>1, <1>2, <1>3, <1>4, <1>5, CalmKeeps

LEMMA LeaveKeeps ==
  ASSUME LocalParameters, LocalInv, NEW s \in Supervisors, Local!Leave(s) PROVE LocalInv'
  BY EndsKeeps DEF Local!Leave, Local!supervisorHistory, Before

LEMMA MigrationFailsKeeps ==
  ASSUME LocalParameters, LocalInv, NEW s \in Supervisors, Local!MigrationFails(s) PROVE LocalInv'
  BY EndsKeeps DEF Local!MigrationFails, Local!supervisorHistory, Before

LEMMA FinishKeeps ==
  ASSUME LocalParameters, LocalInv, NEW s \in Supervisors, Local!Finish(s) PROVE LocalInv'
  BY EndsKeeps DEF Local!Finish

LEMMA WaitKeeps ==
  ASSUME LocalParameters, LocalInv, NEW s \in Supervisors, Local!Wait(s) PROVE LocalInv'
<1> USE DEF Local!Wait, Local!supervisorHistory
<1>1. CASE webPort # None
  BY <1>1, EndsKeeps DEF Before
<1>2. CASE webPort = None
  <2>1. sup' = [sup EXCEPT ![s] = "migrate"] /\ sup[s] = "waiting" /\ toldTo' = toldTo
    BY <1>2
  <2>2. LocalTypes'
    <3>1. sup' \in [Supervisors -> Before \union After]
      BY <2>1 DEF LocalInv, LocalTypes, Before
    <3> QED
      BY <2>1, <3>1 DEF LocalInv, LocalTypes
  <2>3. \A t \in Supervisors : sup'[t] = sup[t] \/ (sup[t] = "waiting" /\ sup'[t] = "migrate")
    BY <2>1 DEF LocalInv, LocalTypes
  <2>4. Local!ForeignIsSpared'
    BY DEF LocalInv, Local!ForeignIsSpared
  <2>5. \A t \in Supervisors :
          sup'[t] \in {"waiting", "migrate"} => sup[t] \in {"waiting", "migrate"}
    BY <2>3
  <2> QED
    BY <2>1, <2>2, <2>3, <2>4, <2>5, CalmKeeps DEF Before
<1> QED
  BY <1>1, <1>2

LEMMA InterruptKeeps ==
  ASSUME LocalParameters, LocalInv, NEW s \in Supervisors, Local!Interrupt(s) PROVE LocalInv'
<1> USE DEF Local!Interrupt, Local!supervisorHistory
<1>1. LocalTypes'
  BY PidsAreProcesses DEF LocalInv, LocalTypes
<1>2. Local!ForeignIsSpared'
  BY DEF LocalInv, Local!ForeignIsSpared
<1> QED
  BY <1>1, <1>2, CalmKeeps

LEMMA ForeignKeeps ==
  ASSUME LocalParameters, LocalInv, Local!ForeignBinds \/ Local!ForeignLeaves PROVE LocalInv'
<1> USE DEF Local!ForeignBinds, Local!ForeignLeaves, Local!supervisorHistory
<1>1. LocalTypes'
  BY DEF LocalInv, LocalTypes
<1>2. Local!ForeignIsSpared'
  BY DEF LocalInv, Local!ForeignIsSpared
<1> QED
  BY <1>1, <1>2, CalmKeeps

LEMMA ShutdownKeeps ==
  ASSUME LocalParameters, LocalInv, NEW s \in Supervisors, Local!Shutdown(s) PROVE LocalInv'
<1> USE DEF Local!Shutdown
<1>1. CASE sup[s] \in {"probe", "waiting"}
  BY <1>1, EndsKeeps DEF Before
<1>2. CASE sup[s] = "serving"
  <2>0. /\ LocalTypes
        /\ sup' = [sup EXCEPT ![s] = "stopping"] /\ UNCHANGED <<lock, lost>> /\ Local!Forget(s)
        /\ toldTo' = toldTo \union ({Local!Pid(s, k) : k \in Local!Kinds} \intersect Local!Ours)
    BY <1>2 DEF LocalInv
  <2>1. LocalTypes'
    <3>1. sup' \in [Supervisors -> Before \union After]
      BY <2>0 DEF LocalTypes, After
    <3>2. looked' \in [Supervisors \union {"stopper"} -> Processes \union {Foreign, None}]
      BY <2>0 DEF LocalTypes, Local!Forget
    <3>3. toldTo' \subseteq Processes
      BY <2>0, OursAre DEF LocalTypes
    <3> QED
      BY <2>0, <3>1, <3>2, <3>3 DEF LocalTypes
  <2>2. ASSUME NEW t \in Supervisors
        PROVE  \/ sup'[t] = sup[t]
               \/ /\ sup[t] \in {"serving", "stopping"} /\ sup'[t] \in {"stopping", "ended"}
                  /\ \A k \in Local!Kinds :
                       child[t][k].state = "up" => Local!Pid(t, k) \in toldTo'
    <3>1. t # s => sup'[t] = sup[t]
      BY <2>0 DEF LocalTypes
    <3>2. sup'[s] = "stopping"
      BY <2>0 DEF LocalTypes
    <3>3. \A k \in Local!Kinds : child[s][k].state = "up" => Local!Pid(s, k) \in toldTo'
      BY <2>0, OursAre
    <3> QED
      BY <1>2, <3>1, <3>2, <3>3
  <2>3. Local!ForeignIsSpared'
    BY DEF LocalInv, Local!ForeignIsSpared
  <2>4. \A t \in Supervisors :
          sup'[t] \in {"waiting", "migrate"} => sup[t] \in {"waiting", "migrate"}
    BY <2>2
  <2> QED
    BY <2>0, <2>1, <2>2, <2>3, <2>4, CalmKeeps
<1> QED
  BY <1>1, <1>2

LEMMA StopLooksAtPortKeeps ==
  ASSUME LocalParameters, LocalInv, Local!StopLooksAtPort PROVE LocalInv'
<1> USE DEF Local!StopLooksAtPort, Local!supervisorHistory
<1>1. LocalTypes'
  <2>1. PICK owner \in {webPort, None} : looked' = [looked EXCEPT !["stopper"] = owner]
    OBVIOUS
  <2>2. looked' \in [Supervisors \union {"stopper"} -> Processes \union {Foreign, None}]
    BY <2>1, PortIsTyped DEF LocalInv, LocalTypes
  <2>3. stop' \in {"off", "sweep", "sweepLocked", "ask", "askLocked", "clear", "done"}
    OBVIOUS
  <2> QED
    BY <2>2, <2>3 DEF LocalInv, LocalTypes
<1>2. Local!ForeignIsSpared'
  BY DEF LocalInv, Local!ForeignIsSpared
<1> QED
  BY <1>1, <1>2, CalmKeeps

\* Only what was looked up before the port changed hands is taken for one of the stack.
LEMMA SignalsSpareForeign ==
  ASSUME LocalParameters, LocalInv, NEW a \in Supervisors \union {"stopper"},
         Local!Identified \/ Local!ProvenByLock(looked[a]),
         NEW pids, pids \subseteq Processes \union {looked[a]},
         Foreign \notin pids \/ looked[a] = Foreign, None \notin pids,
         Local!Signal(pids), Local!ChangesHands(a)
  PROVE  Local!ForeignIsSpared'
<1>1. ASSUME looked[a] = Foreign PROVE changed'
  <2>1. ~Local!ProvenByLock(Foreign)
    BY DEF LocalInv, LocalTypes, LocalParameters, Local!ProvenByLock
  <2>2. webPort # Foreign
    BY <1>1, <2>1 DEF Local!Identified
  <2> QED
    BY <1>1, <2>2 DEF Local!ChangesHands, LocalParameters
<1>2. hurt' => hurt \/ looked[a] = Foreign
  BY DEF Local!Signal
<1>3. changed => changed'
  BY DEF Local!ChangesHands
<1> QED
  BY <1>1, <1>2, <1>3 DEF LocalInv, Local!ForeignIsSpared

LEMMA StopOrphanKeeps ==
  ASSUME LocalParameters, LocalInv, Local!StopOrphan PROVE LocalInv'
<1> USE DEF Local!StopOrphan
<1>0. LocalTypes
  BY DEF LocalInv
<1>1. LocalTypes'
  <2>1. looked' \in [Supervisors \union {"stopper"} -> Processes \union {Foreign, None}]
    BY <1>0 DEF LocalTypes, Local!Forget
  <2>2. toldTo' \subseteq Processes
    BY <1>0, OursAre DEF LocalTypes, Local!Signal
  <2>3. stop' \in {"off", "sweep", "sweepLocked", "ask", "askLocked", "clear", "done"}
    OBVIOUS
  <2> QED
    BY <1>0, <2>1, <2>2, <2>3 DEF LocalTypes
<1>2. Local!ForeignIsSpared'
  <2>1. CASE Local!Identified /\ Local!Signal({looked["stopper"]} \ {None})
             /\ Local!ChangesHands("stopper")
    BY <2>1, SignalsSpareForeign
  <2>2. CASE UNCHANGED <<toldTo, hurt, changed>>
    BY <2>2 DEF LocalInv, Local!ForeignIsSpared
  <2> QED
    BY <2>1, <2>2
<1>3. toldTo \subseteq toldTo'
  BY DEF Local!Signal
<1> QED
  BY <1>1, <1>2, <1>3, CalmKeeps

LEMMA StopClearsKeeps ==
  ASSUME LocalParameters, LocalInv, Local!StopClears PROVE LocalInv'
<1> USE DEF Local!StopClears
<1>0. LocalTypes
  BY DEF LocalInv
<1>1. lost' \in BOOLEAN /\ (lost => lost')
  <2>1. CASE \E p \in Local!LockPids \ targets : Local!Untold(p)
    BY <2>1
  <2>2. CASE ~\E p \in Local!LockPids \ targets : Local!Untold(p)
    BY <1>0, <2>2 DEF LocalTypes
  <2> QED
    BY <2>1, <2>2
<1>2. LocalTypes'
  BY <1>0, <1>1, FreeLockIsTyped DEF LocalTypes
<1>3. Local!ForeignIsSpared'
  BY DEF LocalInv, Local!ForeignIsSpared
<1>4. Work' = Work
  BY DEF Work, Local!Sup
<1>5. lost' \/ beside' \/ Work' \subseteq Local!LockPids'
  <2> SUFFICES ASSUME ~lost', ~beside PROVE Work = {}
    BY <1>4
  <2>1. Stack
    BY <1>1 DEF LocalInv
  <2>2. ASSUME NEW p \in Work PROVE FALSE
    <3>1. p \in Local!LockPids /\ p \notin targets
      BY <2>1 DEF Stack
    <3>2. p \in Local!Ours /\ Local!Untold(p)
      BY <1>0, WorkIsUntold
    <3> QED
      BY <3>1, <3>2
  <2> QED
    BY <2>2
<1> QED
  BY <1>1, <1>2, <1>3, <1>5, CalmKeeps

LEMMA UpAreNumbered ==
  ASSUME LocalTypes, ChildrenFollow
  PROVE  \A s \in Supervisors, k \in Local!Kinds :
           child[s][k].state = "up" => 1 <= child[s][k].n /\ child[s][k].n <= child[s][k].n
<1> TAKE s \in Supervisors, k \in Local!Kinds
<1>1. child[s] \in [Local!Kinds -> [n : Nat, state : {"none", "up", "pending", "gone"}]]
  BY DEF LocalTypes
<1>2. child[s][k] \in [n : Nat, state : {"none", "up", "pending", "gone"}]
  BY <1>1
<1>3. child[s][k].state = "up" => child[s][k].n # 0
  BY DEF ChildrenFollow
<1> QED
  BY <1>2, <1>3

LEMMA StopRecordedKeeps ==
  ASSUME LocalParameters, LocalInv, Local!StopRecorded PROVE LocalInv'
<1> USE DEF Local!StopRecorded
<1>0. LocalTypes
  BY DEF LocalInv
<1>1. Local!LiveLockPids \subseteq Local!Ours /\ toldTo' = toldTo \union Local!LiveLockPids
  BY DEF Local!Signal, Local!Stoppable, Local!LiveLockPids
<1>2. targets' \subseteq Processes
  BY <1>0, OursAre
<1>3. LocalTypes'
  <2>1. toldTo' \subseteq Processes
    BY <1>0, <1>1, OursAre DEF LocalTypes
  <2>2. stop' \in {"off", "sweep", "sweepLocked", "ask", "askLocked", "clear", "done"}
    OBVIOUS
  <2> QED
    BY <1>0, <1>2, <2>1, <2>2 DEF LocalTypes
<1>4. Local!ForeignIsSpared'
  <2>1. Foreign \notin Local!LiveLockPids
    BY <1>0, <1>1, OursAre DEF LocalParameters
  <2> QED
    BY <2>1 DEF LocalInv, Local!ForeignIsSpared, Local!Signal, Local!Stoppable
<1>5. ChildrenFollow' /\ ChildrenAreTold' /\ Work' \subseteq Work
  BY <1>0, <1>1, <1>3, Calm DEF LocalInv
<1>6. PortIsServed'
  <2>1. \A s \in Supervisors : Local!Pid(s, "web")' = Local!Pid(s, "web")
    BY DEF Local!Pid
  <2> QED
    BY <2>1 DEF LocalInv, PortIsServed
<1>7. TargetsAreOld'
  <2> SUFFICES ASSUME NEW p \in targets'
               PROVE  IF p.kind = "supervisor" THEN p.n = 1 /\ sup[p.of] \in After
                      ELSE 1 <= p.n /\ p.n <= child[p.of][p.kind].n
    BY DEF TargetsAreOld
  <2>1. p \in Local!Ours /\ p \in Processes /\ (p.kind # "supervisor" \/ sup[p.of] = "serving")
    BY <1>0, OursAre
  <2>2. CASE p.kind = "supervisor"
    BY <1>0, <2>1, <2>2, OursAre DEF After, Local!Kinds
  <2>3. CASE p.kind # "supervisor"
    <3>1. /\ p.of \in Supervisors /\ p.kind \in Local!Kinds
          /\ child[p.of][p.kind].state = "up" /\ p.n = child[p.of][p.kind].n
      BY <1>0, <2>1, <2>3, OursAre DEF Processes
    <3>2. \A s \in Supervisors, k \in Local!Kinds :
            child[s][k].state = "up" => 1 <= child[s][k].n /\ child[s][k].n <= child[s][k].n
      BY UpAreNumbered DEF LocalInv
    <3> QED
      BY <2>3, <3>1, <3>2
  <2> QED
    BY <2>2, <2>3
<1>8. beside \/ lost \/ Stack'
  <2> SUFFICES ASSUME Stack PROVE Stack'
    BY DEF LocalInv
  <2>1. Work' = {}
    <3>1. Work \subseteq Local!LiveLockPids
      BY <1>0, WorkIsUntold DEF Stack, Local!LiveLockPids
    <3>2. \A p \in Work' : p \notin toldTo'
      BY DEF Work
    <3> QED
      BY <1>1, <1>5, <3>1, <3>2
  <2>2. Starters' = Starters
    BY DEF Starters, Local!Starting
  <2> QED
    BY <2>1, <2>2 DEF Stack
<1> QED
  BY <1>3, <1>4, <1>5, <1>6, <1>7, <1>8 DEF LocalInv

\* A start that goes on beside no other and when nothing works.
LEMMA StartsKeep ==
  ASSUME LocalParameters, LocalInv, NEW s \in Supervisors, sup[s] \in Before, LocalTypes',
         sup'[s] \in Before, \A t \in Supervisors \ {s} : sup'[t] = sup[t],
         UNCHANGED <<child, webPort, stop, targets, lost>>,
         toldTo \subseteq toldTo', Local!BesideOthers(s), Local!ForeignIsSpared',
         \A p \in Work : p \in Local!LockPids => p \in toldTo'
  PROVE  LocalInv'
<1>1. /\ ChildrenFollow' /\ ChildrenAreTold' /\ Work' \subseteq Work /\ TargetsAreOld'
  <2>1. \A t \in Supervisors : sup'[t] = sup[t] \/ (sup[t] \in Before /\ sup'[t] \in Before)
    OBVIOUS
  <2> QED
    BY <2>1, Calm DEF LocalInv
<1>2. PortIsServed'
  <2>1. \A t \in Supervisors : Local!Pid(t, "web")' = Local!Pid(t, "web")
    BY DEF Local!Pid
  <2> QED
    BY <2>1 DEF LocalInv, PortIsServed
<1>3. beside' \/ lost' \/ Stack'
  <2> SUFFICES ASSUME ~beside', ~lost' PROVE Stack'
    OBVIOUS
  <2>1. ~beside /\ \A t \in Supervisors \ {s} : ~Local!Starting(t)
    BY DEF Local!BesideOthers
  <2>2. Stack
    BY <2>1 DEF LocalInv
  <2>3. Work' = {}
    <3>1. \A p \in Work' : p \notin toldTo'
      BY DEF Work
    <3> QED
      BY <1>1, <2>2, <3>1 DEF Stack
  <2>4. Starters' \subseteq {s}
    BY <2>1 DEF Starters, Local!Starting
  <2> QED
    BY <2>3, <2>4 DEF Stack
<1> QED
  BY <1>1, <1>2, <1>3 DEF LocalInv

LEMMA BesideIsTyped ==
  ASSUME LocalTypes, NEW s, Local!BesideOthers(s) PROVE beside' \in BOOLEAN
<1>1. CASE \E t \in Supervisors \ {s} : Local!Starting(t)
  BY <1>1 DEF Local!BesideOthers
<1>2. CASE ~\E t \in Supervisors \ {s} : Local!Starting(t)
  BY <1>2 DEF Local!BesideOthers, LocalTypes
<1> QED
  BY <1>1, <1>2

LEMMA StartIfFreeKeeps ==
  ASSUME LocalParameters, LocalInv, NEW s \in Supervisors, Local!StartIfFree(s) PROVE LocalInv'
<1> USE DEF Local!StartIfFree
<1>0. LocalTypes
  BY DEF LocalInv
<1>1. CASE Local!LiveLockPids # {}
  BY <1>1, EndsKeeps DEF Before
<1>2. CASE Local!LiveLockPids = {}
  <2>1. /\ sup' = [sup EXCEPT ![s] = "migrate"] /\ lock' = Local!Unlocked
        /\ Local!BesideOthers(s) /\ toldTo' = toldTo
    BY <1>2
  <2>2. LocalTypes'
    <3>1. sup' \in [Supervisors -> Before \union After]
      BY <1>0, <2>1 DEF LocalTypes, Before
    <3> QED
      BY <1>0, <2>1, <3>1, BesideIsTyped, FreeLockIsTyped DEF LocalTypes
  <2>3. sup'[s] = "migrate" /\ \A t \in Supervisors \ {s} : sup'[t] = sup[t]
    BY <1>0, <2>1 DEF LocalTypes
  <2>4. Local!ForeignIsSpared'
    BY DEF LocalInv, Local!ForeignIsSpared
  <2>5. \A p \in Work : p \notin Local!LockPids
    BY <1>0, <1>2, WorkIsUntold DEF Local!LiveLockPids
  <2> QED
    BY <2>1, <2>2, <2>3, <2>4, <2>5, StartsKeep DEF Before
<1> QED
  BY <1>1, <1>2

LEMMA RestartOwnedKeeps ==
  ASSUME LocalParameters, LocalInv, NEW s \in Supervisors, Local!RestartOwned(s) PROVE LocalInv'
<1> USE DEF Local!RestartOwned
<1>0. LocalTypes
  BY DEF LocalInv
<1> DEFINE pids == Local!LiveLockPids \union ({looked[s]} \ {None})
<1>1. Local!LiveLockPids \subseteq Processes /\ Local!LiveLockPids \subseteq Local!Ours
  BY <1>0, OursAre DEF Local!LiveLockPids
<1>2. toldTo' = toldTo \union (pids \intersect Local!Ours)
  BY DEF Local!Signal
<1>3. LocalTypes'
  <2>1. sup' \in [Supervisors -> Before \union After]
    BY <1>0 DEF LocalTypes, Before
  <2>2. looked' \in [Supervisors \union {"stopper"} -> Processes \union {Foreign, None}]
    BY <1>0 DEF LocalTypes, Local!Forget
  <2>3. toldTo' \subseteq Processes
    BY <1>0, <1>2, OursAre DEF LocalTypes
  <2> QED
    BY <1>0, <2>1, <2>2, <2>3, BesideIsTyped, FreeLockIsTyped DEF LocalTypes
<1>4. sup'[s] = "waiting" /\ \A t \in Supervisors \ {s} : sup'[t] = sup[t]
  BY <1>0 DEF LocalTypes
<1>5. Local!ForeignIsSpared'
  <2>1. pids \subseteq Processes \union {looked[s]} /\ None \notin pids
        /\ (Foreign \notin pids \/ looked[s] = Foreign)
    BY <1>1 DEF LocalParameters
  <2>2. Local!Signal(pids) /\ Local!ChangesHands(s)
        /\ (Local!Identified \/ Local!ProvenByLock(looked[s]))
    BY DEF Local!Owned
  <2> QED
    BY <2>1, <2>2, SignalsSpareForeign
<1>6. \A p \in Work : p \in Local!LockPids => p \in toldTo'
  BY <1>0, <1>2, WorkIsUntold DEF Local!LiveLockPids
<1> QED
  BY <1>2, <1>3, <1>4, <1>5, <1>6, StartsKeep DEF Before

LEMMA BindKeeps ==
  ASSUME LocalParameters, LocalInv, NEW s \in Supervisors, Local!Bind(s) PROVE LocalInv'
<1> USE DEF Local!Bind, Local!supervisorHistory
<1>1. LocalTypes'
  BY DEF LocalInv, LocalTypes
<1>2. ChildrenFollow' /\ ChildrenAreTold' /\ Work' \subseteq Work /\ TargetsAreOld'
  BY <1>1, Calm DEF LocalInv
<1>3. PortIsServed'
  BY DEF PortIsServed, Local!Pid
<1>4. Starters' = Starters /\ Local!LockPids' = Local!LockPids
  BY DEF Starters, Local!Starting, Local!LockPids
<1>5. Stack => Stack'
  BY <1>2, <1>4 DEF Stack
<1>6. Local!ForeignIsSpared'
  BY DEF LocalInv, Local!ForeignIsSpared
<1> QED
  BY <1>1, <1>2, <1>3, <1>5, <1>6 DEF LocalInv

LEMMA ChildTyped ==
  ASSUME LocalTypes, NEW s \in Supervisors, NEW k \in Local!Kinds
  PROVE  /\ child[s][k] \in [n : Nat, state : {"none", "up", "pending", "gone"}]
         /\ child[s] \in [Local!Kinds -> [n : Nat, state : {"none", "up", "pending", "gone"}]]
<1>1. child[s] \in [Local!Kinds -> [n : Nat, state : {"none", "up", "pending", "gone"}]]
  BY DEF LocalTypes
<1> QED
  BY <1>1

LEMMA CrashKeeps ==
  ASSUME LocalParameters, LocalInv, NEW s \in Supervisors, Local!Crash(s) PROVE LocalInv'
<1> USE DEF Local!Crash, Local!supervisorHistory
<1>0. LocalTypes
  BY DEF LocalInv
<1>1. /\ sup'[s] = "crashed" /\ sup[s] \in {"migrate", "serving"}
      /\ \A t \in Supervisors \ {s} : sup'[t] = sup[t] /\ child'[t] = child[t]
      /\ sup' \in [Supervisors -> Before \union After]
  BY <1>0 DEF LocalTypes, After
<1>2. ASSUME NEW k \in Local!Kinds
      PROVE  IF child[s][k].state = "pending"
             THEN child'[s][k].state = "gone" /\ child'[s][k].n = child[s][k].n
             ELSE child'[s][k] = child[s][k]
  <2>1. child'[s] = [j \in Local!Kinds |->
          IF child[s][j].state = "pending" THEN [child[s][j] EXCEPT !.state = "gone"]
          ELSE child[s][j]]
    BY <1>0 DEF LocalTypes
  <2>2. child[s][k] \in [n : Nat, state : {"none", "up", "pending", "gone"}]
    BY <1>0, ChildTyped
  <2> QED
    BY <2>1, <2>2
<1>3. LocalTypes'
  <2>1. child' \in [Supervisors -> [Local!Kinds ->
          [n : Nat, state : {"none", "up", "pending", "gone"}]]]
    <3> DEFINE died == [j \in Local!Kinds |->
          IF child[s][j].state = "pending" THEN [child[s][j] EXCEPT !.state = "gone"]
          ELSE child[s][j]]
    <3>1. ASSUME NEW j \in Local!Kinds
          PROVE  died[j] \in [n : Nat, state : {"none", "up", "pending", "gone"}]
      <4>1. child[s][j] \in [n : Nat, state : {"none", "up", "pending", "gone"}]
        BY <1>0, ChildTyped
      <4> QED
        BY <4>1
    <3>2. died \in [Local!Kinds -> [n : Nat, state : {"none", "up", "pending", "gone"}]]
      BY <3>1
    <3>3. child' = [child EXCEPT ![s] = died]
      BY <1>0 DEF LocalTypes
    <3> HIDE DEF died
    <3> QED
      BY <1>0, <3>2, <3>3 DEF LocalTypes
  <2> QED
    BY <1>0, <1>1, <2>1 DEF LocalTypes
<1> HIDE DEF Local!Crash, Local!supervisorHistory
<1>4. \A t \in Supervisors, k \in Local!Kinds :
        /\ Local!Pid(t, k)' = Local!Pid(t, k) /\ child'[t][k].n = child[t][k].n
        /\ child'[t][k].state \in {child[t][k].state, "gone"}
        /\ child'[t][k].state = "up" <=> child[t][k].state = "up"
        /\ child'[t][k].state = "none" <=> child[t][k].state = "none"
  <2> TAKE t \in Supervisors, k \in Local!Kinds
  <2>1. /\ child'[t][k].n = child[t][k].n
        /\ \/ child'[t][k].state = child[t][k].state
           \/ child[t][k].state = "pending" /\ child'[t][k].state = "gone"
    <3>1. CASE t = s
      BY <1>2, <3>1
    <3>2. CASE t # s
      BY <1>1, <3>2
    <3> QED
      BY <3>1, <3>2
  <2> QED
    BY <2>1 DEF Local!Pid
<1>5. ChildrenFollow'
  BY <1>1, <1>4 DEF LocalInv, ChildrenFollow, Before
<1>6. ChildrenAreTold'
  BY <1>1, <1>4 DEF Local!Crash, Local!supervisorHistory, LocalInv, ChildrenAreTold
<1>7. PortIsServed'
  BY <1>4 DEF Local!Crash, Local!supervisorHistory, LocalInv, PortIsServed, Local!Kinds
<1>8. \A p \in Processes : p.of \in Supervisors /\ (p.kind = "supervisor" \/ p.kind \in Local!Kinds)
  BY DEF Processes, Local!Kinds
<1>9. TargetsAreOld'
  <2>1. targets' = targets /\ targets \subseteq Processes
    BY <1>0 DEF Local!Crash, Local!supervisorHistory, LocalTypes
  <2>2. \A t \in Supervisors : sup[t] \in After => sup'[t] \in After
    BY <1>1 DEF After
  <2>3. TargetsAreOld
    BY DEF LocalInv
  <2> QED
    BY <1>4, <1>8, <2>1, <2>2, <2>3 DEF TargetsAreOld
<1>10. Work' \subseteq Work
  BY <1>1, <1>4, <1>8 DEF Local!Crash, Local!supervisorHistory, Work, Local!Sup
<1>11. Starters' \subseteq Starters /\ Local!LockPids' = Local!LockPids
  BY <1>1 DEF Local!Crash, Local!supervisorHistory, Starters, Local!Starting, Local!LockPids
<1>12. Stack => Stack'
  BY <1>10, <1>11, Quieter DEF Local!Crash, Local!supervisorHistory, Stack
<1>13. Local!ForeignIsSpared'
  BY DEF Local!Crash, Local!supervisorHistory, LocalInv, Local!ForeignIsSpared
<1> QED
  BY <1>3, <1>5, <1>6, <1>7, <1>9, <1>12, <1>13
     DEF LocalInv, Local!Crash, Local!supervisorHistory

\* updateLockPids keeps the names of what works, or marks the lock as lost.
LEMMA UpdatesKeepNames ==
  ASSUME LocalParameters, LocalTypes, Stack, NEW s \in Supervisors, sup[s] = "serving",
         Local!UpdateLockPids(s), ~lost',
         Local!Sup(s) \in toldTo => Local!Sup(s) \in toldTo',
         \A p \in Work' : p \in Processes /\ (p \in Work \/ p.of = s),
         \A p \in Work' : p.of = s => Local!Sup(s) \notin toldTo',
         \A p \in Work' : p.of = s =>
           \/ p = Local!Sup(s) \/ p = Local!Pid(s, "web")'
           \/ p = Local!Pid(s, "worker")' /\ child'[s]["worker"].state = "up"
  PROVE  /\ lost \/ Work' \subseteq Local!LockPids'
         /\ \A p, q \in Work' : p.of = q.of
         /\ (\E p \in Work' : p.of = s) => Local!Sup(s) \in Work
<1> SUFFICES ASSUME TRUE
             PROVE  /\ Work' \subseteq Local!LockPids' /\ \A p, q \in Work' : p.of = q.of
                    /\ (\E p \in Work' : p.of = s) => Local!Sup(s) \in Work
  OBVIOUS
<1>1. ASSUME Local!Sup(s) \notin toldTo PROVE Local!Sup(s) \in Work
  BY <1>1, PidsAreProcesses DEF Work, Local!Sup
<1>2. ASSUME Local!Sup(s) \in Work
      PROVE  lock.supervisor = Local!Sup(s) /\ \A p \in Work : p.of = s
  <2>1. Local!Sup(s) \in {lock.supervisor, lock.web, lock.worker} /\ Local!Sup(s) # None
    BY <1>2 DEF Stack, Local!LockPids
  <2>2. Local!Sup(s).kind = "supervisor" /\ Local!Sup(s).of = s
    BY DEF Local!Sup
  <2>3. lock.supervisor = Local!Sup(s)
    <3>1. lock.web # Local!Sup(s) /\ lock.worker # Local!Sup(s)
      <4>1. /\ lock.web # None => lock.web.kind = "web"
            /\ lock.worker # None => lock.worker.kind = "worker"
        BY DEF LocalTypes
      <4> QED
        BY <2>1, <2>2, <4>1
    <3> QED
      BY <2>1, <3>1
  <2> QED
    BY <1>2, <2>2, <2>3 DEF Stack
<1>3. CASE lock.supervisor \in Local!Ours
  <2>1. /\ lock' = [lock EXCEPT
            !.web = Local!Pid(s, "web")',
            !.worker = IF child'[s]["worker"].state = "gone" THEN None ELSE Local!Pid(s, "worker")']
        /\ Local!Loses(s)
    BY <1>3, Zenon DEF Local!UpdateLockPids
  <2>2. \A p \in Work : p.of = s
    BY <2>1, LosersAreMarked DEF Stack
  <2>3. \A p \in Work' : p.of = s
    BY <2>2
  <2>4. ASSUME NEW p \in Work' PROVE p \in Local!LockPids' /\ Local!Sup(s) \in Work
    <3>1. Local!Sup(s) \in Work
      BY <1>1, <2>3
    <3>2. lock'.supervisor = Local!Sup(s) /\ lock'.web = Local!Pid(s, "web")'
          /\ (child'[s]["worker"].state = "up" => lock'.worker = Local!Pid(s, "worker")')
      BY <1>2, <2>1, <3>1 DEF LocalTypes
    <3>3. p \in {lock'.supervisor, lock'.web, lock'.worker}
      BY <2>3, <3>2
    <3>4. p # None
      BY DEF LocalParameters
    <3> QED
      BY <3>1, <3>3, <3>4 DEF Local!LockPids
  <2> QED
    BY <2>3, <2>4
<1>4. CASE lock.supervisor \notin Local!Ours
  <2>1. lock' = lock
    BY <1>4 DEF Local!UpdateLockPids
  <2>2. Local!Sup(s) \notin Work
    BY <1>2, <1>4, WorkIsUntold
  <2>3. \A p \in Work' : p.of # s
    BY <1>1, <2>2
  <2> QED
    BY <2>1, <2>3 DEF Stack, Local!LockPids
<1> QED
  BY <1>3, <1>4

LEMMA StartKeeps ==
  ASSUME LocalParameters, LocalInv, NEW s \in Supervisors, Local!Start(s) PROVE LocalInv'
<1> USE DEF Local!Start
<1>0. LocalTypes /\ sup[s] = "migrate"
  BY DEF LocalInv
<1>1. /\ sup'[s] = "serving" /\ \A t \in Supervisors \ {s} : sup'[t] = sup[t] /\ child'[t] = child[t]
      /\ sup' \in [Supervisors -> Before \union After]
      /\ \A k \in Local!Kinds : child'[s][k] = [n |-> 1, state |-> "up"]
  BY <1>0 DEF LocalTypes, After
<1>2. child' \in [Supervisors -> [Local!Kinds ->
        [n : Nat, state : {"none", "up", "pending", "gone"}]]]
  <2>1. [k \in Local!Kinds |-> [n |-> 1, state |-> "up"]] \in
          [Local!Kinds -> [n : Nat, state : {"none", "up", "pending", "gone"}]]
    OBVIOUS
  <2> QED
    BY <1>0, <2>1 DEF LocalTypes
<1>3. /\ lock' = [supervisor |-> Local!Sup(s), web |-> Local!Pid(s, "web")',
                  worker |-> Local!Pid(s, "worker")']
      /\ Local!Loses(s)
  OBVIOUS
<1>4. UNCHANGED <<toldTo, webPort, looked, stop, targets, beside, changed, hurt>>
  OBVIOUS
<1> HIDE DEF Local!Start
<1>5. \A k \in Local!Kinds : Local!Pid(s, k)' = [of |-> s, kind |-> k, n |-> 1]
  BY <1>1 DEF Local!Pid
<1>6. LocalTypes'
  <2>1. lock' \in [supervisor : Processes \union {None}, web : Processes \union {None},
                   worker : Processes \union {None}]
    BY <1>3, <1>5 DEF Processes, Local!Sup, Local!Kinds
  <2>2. lock'.web.kind = "web" /\ lock'.worker.kind = "worker"
    BY <1>3, <1>5 DEF Local!Kinds
  <2>3. lost' \in BOOLEAN
    BY <1>0, <1>3, LosesMarks
  <2> QED
    BY <1>0, <1>1, <1>2, <1>4, <2>1, <2>2, <2>3 DEF LocalTypes
<1>7. ChildrenFollow'
  BY <1>1 DEF LocalInv, ChildrenFollow, LocalParameters, Before
<1>8. \A k \in Local!Kinds : child[s][k].state = "none" /\ child[s][k].n = 0
  BY <1>0 DEF LocalInv, ChildrenFollow, Before
<1>9. PortIsServed'
  <2>1. \A t \in Supervisors \ {s} : Local!Pid(t, "web")' = Local!Pid(t, "web")
    BY <1>1 DEF Local!Pid
  <2>2. child[s]["web"].state # "up"
    BY <1>8 DEF Local!Kinds
  <2> QED
    BY <1>1, <1>4, <2>1, <2>2 DEF LocalInv, PortIsServed
<1>10. ChildrenAreTold'
  <2>1. \A t \in Supervisors \ {s} : \A k \in Local!Kinds :
          Local!Pid(t, k)' = Local!Pid(t, k) /\ child'[t][k] = child[t][k]
    BY <1>1 DEF Local!Pid
  <2> QED
    BY <1>1, <1>4, <2>1 DEF LocalInv, ChildrenAreTold
<1>11. \A p \in targets : p \in Processes /\ p.of \in Supervisors /\ p.of # s
  <2> SUFFICES ASSUME NEW p \in targets PROVE p \in Processes /\ p.of \in Supervisors /\ p.of # s
    OBVIOUS
  <2>1. p \in Processes /\ p.of \in Supervisors /\ (p.kind = "supervisor" \/ p.kind \in Local!Kinds)
        /\ p.n \in Nat
    BY <1>0 DEF LocalTypes, Processes, Local!Kinds
  <2>2. CASE p.kind = "supervisor"
    BY <1>0, <2>1, <2>2 DEF LocalInv, TargetsAreOld, After
  <2>3. CASE p.kind # "supervisor"
    BY <1>8, <2>1, <2>3 DEF LocalInv, TargetsAreOld
  <2> QED
    BY <2>1, <2>2, <2>3
<1>12. TargetsAreOld'
  BY <1>1, <1>4, <1>11 DEF LocalInv, TargetsAreOld
<1>13. beside' \/ lost' \/ Stack'
  <2> SUFFICES ASSUME ~beside', ~lost' PROVE Stack'
    OBVIOUS
  <2>1. Stack
    BY <1>0, <1>3, <1>4, LosesMarks DEF LocalInv
  <2>2. Starters' \subseteq Starters \ {s} /\ s \in Starters
    BY <1>0, <1>1 DEF Starters, Local!Starting
  <2>3. Work = {} /\ Starters' = {}
    BY <2>1, <2>2 DEF Stack
  <2>4. ASSUME NEW p \in Work' PROVE p.of = s /\ p \in Local!LockPids'
    <3>1. /\ p \in Processes /\ p \notin toldTo' /\ Local!Sup(p.of)' \notin toldTo'
          /\ sup'[p.of] # "stopping"
          /\ IF p.kind = "supervisor" THEN p.n = 1 /\ sup'[p.of] = "serving"
             ELSE child'[p.of][p.kind].state = "up" /\ p.n = child'[p.of][p.kind].n
      BY DEF Work
    <3>2. p.of = s
      <4> SUFFICES ASSUME p.of # s PROVE FALSE
        OBVIOUS
      <4>1. p.of \in Supervisors \ {s}
        BY <3>1 DEF Processes
      <4>2. p \in Work
        BY <1>1, <1>4, <3>1, <4>1 DEF Work, Local!Sup
      <4> QED
        BY <2>3, <4>2
    <3>3. p.n = 1 /\ p.kind \in {"supervisor", "web", "worker"}
      BY <1>1, <3>1, <3>2 DEF Processes, Local!Kinds
    <3>4. p \in {Local!Sup(s), Local!Pid(s, "web")', Local!Pid(s, "worker")'}
      BY <1>5, <3>1, <3>2, <3>3 DEF Processes, Local!Sup, Local!Kinds
    <3>5. p \in {lock'.supervisor, lock'.web, lock'.worker} /\ p # None
      BY <1>3, <3>1, <3>4 DEF LocalParameters
    <3> QED
      BY <3>2, <3>5 DEF Local!LockPids
  <2>5. Work' \intersect targets' = {}
    BY <1>4, <1>11, <2>4
  <2> QED
    BY <2>3, <2>4, <2>5 DEF Stack
<1>14. Local!ForeignIsSpared'
  BY <1>4 DEF LocalInv, Local!ForeignIsSpared
<1> QED
  BY <1>6, <1>7, <1>9, <1>10, <1>12, <1>13, <1>14 DEF LocalInv

LEMMA UpdatesAreTyped ==
  ASSUME LocalTypes, NEW s \in Supervisors, Local!UpdateLockPids(s),
         \A k \in Local!Kinds : Local!Pid(s, k)' \in Processes
  PROVE  /\ lock' \in [supervisor : Processes \union {None}, web : Processes \union {None},
                       worker : Processes \union {None}]
         /\ lock'.web # None => lock'.web.kind = "web"
         /\ lock'.worker # None => lock'.worker.kind = "worker"
         /\ lost' \in BOOLEAN /\ (lost => lost')
<1>1. CASE lock.supervisor \in Local!Ours
  <2>1. /\ lock' = [lock EXCEPT
            !.web = Local!Pid(s, "web")',
            !.worker = IF child'[s]["worker"].state = "gone" THEN None ELSE Local!Pid(s, "worker")']
        /\ Local!Loses(s)
    BY <1>1, Zenon DEF Local!UpdateLockPids
  <2>2. /\ Local!Pid(s, "web")' \in Processes /\ Local!Pid(s, "web")'.kind = "web"
        /\ Local!Pid(s, "worker")' \in Processes /\ Local!Pid(s, "worker")'.kind = "worker"
    BY DEF Local!Kinds, Local!Pid
  <2>3. lost' \in BOOLEAN /\ (lost => lost')
    BY <2>1, LosesMarks
  <2> QED
    BY <2>1, <2>2, <2>3 DEF LocalTypes
<1>2. CASE lock.supervisor \notin Local!Ours
  <2>1. UNCHANGED <<lock, lost>>
    BY <1>2 DEF Local!UpdateLockPids
  <2> QED
    BY <2>1 DEF LocalTypes
<1> QED
  BY <1>1, <1>2

LEMMA RestartChildKeeps ==
  ASSUME LocalParameters, LocalInv, NEW s \in Supervisors, NEW k \in Local!Kinds,
         Local!RestartChild(s, k)
  PROVE  LocalInv'
<1> DEFINE m == child[s][k].n
<1>0. LocalTypes /\ sup[s] = "serving" /\ child[s][k].state = "pending"
  BY DEF LocalInv, Local!RestartChild
<1>1. m \in Nat /\ m <= MaxRestarts /\ m # 0
  BY <1>0, ChildTyped DEF LocalInv, ChildrenFollow
<1>2. /\ child'[s][k] = [n |-> m + 1, state |-> "up"]
      /\ \A j \in Local!Kinds \ {k} : child'[s][j] = child[s][j]
      /\ \A t \in Supervisors \ {s} : child'[t] = child[t]
      /\ child' \in [Supervisors -> [Local!Kinds ->
           [n : Nat, state : {"none", "up", "pending", "gone"}]]]
  <2>1. child' = [child EXCEPT ![s] = [child[s] EXCEPT ![k] = [n |-> m + 1, state |-> "up"]]]
    BY <1>0 DEF Local!RestartChild, LocalTypes
  <2>2. [n |-> m + 1, state |-> "up"] \in [n : Nat, state : {"none", "up", "pending", "gone"}]
    BY <1>1
  <2> HIDE DEF m
  <2> QED
    BY <1>0, <2>1, <2>2 DEF LocalTypes
<1>3. Local!UpdateLockPids(s)
      /\ UNCHANGED <<sup, toldTo, webPort, looked, stop, targets, beside, changed, hurt>>
  BY DEF Local!RestartChild
<1> HIDE DEF m
<1>4. \A t \in Supervisors, j \in Local!Kinds :
        t # s \/ j # k => Local!Pid(t, j)' = Local!Pid(t, j) /\ child'[t][j] = child[t][j]
  BY <1>2 DEF Local!Pid
<1>5. Local!Pid(s, k)' = [of |-> s, kind |-> k, n |-> m + 1]
  BY <1>2 DEF Local!Pid
<1>6. LocalTypes'
  <2>1. \A j \in Local!Kinds : Local!Pid(s, j)' \in Processes
    BY <1>0, <1>1, <1>4, <1>5, PidsAreProcesses DEF Processes, Local!Kinds
  <2> QED
    BY <1>0, <1>2, <1>3, <2>1, UpdatesAreTyped DEF LocalTypes
<1>7. ChildrenFollow'
  <2> SUFFICES ASSUME NEW t \in Supervisors, NEW j \in Local!Kinds
               PROVE  /\ sup[t] \in Before => child'[t][j].state = "none"
                      /\ child'[t][j].state = "none" <=> child'[t][j].n = 0
                      /\ child'[t][j].state = "pending" => child'[t][j].n <= MaxRestarts
                      /\ child'[t][j].n <= MaxRestarts + 1
    BY <1>3 DEF ChildrenFollow
  <2>1. CASE t = s /\ j = k
    BY <1>0, <1>1, <1>2, <2>1 DEF LocalParameters, Before
  <2>2. CASE t # s \/ j # k
    BY <1>4, <2>2 DEF LocalInv, ChildrenFollow
  <2> QED
    BY <2>1, <2>2
<1>8. PortIsServed' /\ ChildrenAreTold'
  <2>1. \A t \in Supervisors : child[t]["web"].state = "up" =>
          child'[t]["web"].state = "up" /\ Local!Pid(t, "web")' = Local!Pid(t, "web")
    BY <1>0, <1>4 DEF Local!Kinds
  <2>2. PortIsServed'
    BY <1>3, <2>1 DEF LocalInv, PortIsServed
  <2>3. ChildrenAreTold'
    BY <1>0, <1>3, <1>4 DEF LocalInv, ChildrenAreTold
  <2> QED
    BY <2>2, <2>3
<1>9. \A p \in Processes : p.of \in Supervisors /\ (p.kind = "supervisor" \/ p.kind \in Local!Kinds)
  BY DEF Processes, Local!Kinds
<1>10. TargetsAreOld' /\ \A p \in targets : p # Local!Pid(s, k)'
  <2>1. \A p \in targets : p.of = s /\ p.kind = k => 1 <= p.n /\ p.n <= m
    BY DEF LocalInv, TargetsAreOld, Local!Kinds, m
  <2>2. \A p \in targets : p \in Processes /\ p.n \in Nat
    BY <1>0 DEF LocalTypes, Processes
  <2>3. \A p \in targets : p # Local!Pid(s, k)'
    BY <1>1, <1>5, <2>1
  <2>4. TargetsAreOld'
    <3> SUFFICES ASSUME NEW p \in targets
                 PROVE  IF p.kind = "supervisor" THEN p.n = 1 /\ sup[p.of] \in After
                        ELSE 1 <= p.n /\ p.n <= child'[p.of][p.kind].n
      BY <1>3 DEF TargetsAreOld
    <3>1. CASE p.of = s /\ p.kind = k
      BY <1>1, <1>2, <2>1, <2>2, <3>1 DEF Local!Kinds
    <3>2. CASE ~(p.of = s /\ p.kind = k)
      BY <1>4, <1>9, <2>2, <3>2 DEF LocalInv, TargetsAreOld
    <3> QED
      BY <3>1, <3>2
  <2> QED
    BY <2>3, <2>4
<1>11. ASSUME NEW p \in Work'
       PROVE  /\ p \in Processes /\ (p \in Work \/ p = Local!Pid(s, k)')
              /\ p.of = s => /\ Local!Sup(s) \notin toldTo'
                             /\ \/ p = Local!Sup(s)
                                \/ \E j \in Local!Kinds :
                                     p = Local!Pid(s, j)' /\ child'[s][j].state = "up"
  <2>1. /\ p \in Processes /\ p \notin toldTo /\ Local!Sup(p.of) \notin toldTo
        /\ sup[p.of] # "stopping"
        /\ IF p.kind = "supervisor" THEN p.n = 1 /\ sup[p.of] = "serving"
           ELSE child'[p.of][p.kind].state = "up" /\ p.n = child'[p.of][p.kind].n
    BY <1>3 DEF Work, Local!Sup
  <2>2. p.of \in Supervisors /\ (p.kind = "supervisor" \/ p.kind \in Local!Kinds)
    BY <1>9, <2>1
  <2>3. p.kind = "supervisor" => p = Local!Sup(p.of)
    BY <2>1 DEF Processes, Local!Sup
  <2>4. p.kind \in Local!Kinds => p = Local!Pid(p.of, p.kind)'
    BY <2>1 DEF Processes, Local!Pid, Local!Kinds
  <2>5. p \in Work \/ p = Local!Pid(s, k)'
    <3>1. CASE p.of = s /\ p.kind = k
      BY <2>4, <3>1
    <3>2. CASE ~(p.of = s /\ p.kind = k)
      BY <1>4, <2>1, <2>2, <3>2 DEF Work
    <3> QED
      BY <3>1, <3>2
  <2> QED
    BY <1>3, <2>1, <2>2, <2>3, <2>4, <2>5 DEF Local!Kinds
<1>12. beside' \/ lost' \/ Stack'
  <2> SUFFICES ASSUME ~beside', ~lost' PROVE Stack'
    OBVIOUS
  <2>1. Stack /\ ~lost
    <3>1. \A j \in Local!Kinds : Local!Pid(s, j)' \in Processes
      BY <1>0, <1>1, <1>4, <1>5, PidsAreProcesses DEF Processes, Local!Kinds
    <3> QED
      BY <1>0, <1>3, <3>1, UpdatesAreTyped DEF LocalInv
  <2>2. /\ Work' \subseteq Local!LockPids' /\ \A p, q \in Work' : p.of = q.of
        /\ (\E p \in Work' : p.of = s) => Local!Sup(s) \in Work
    <3>1. Local!Pid(s, k)'.of = s
      BY <1>5
    <3>2. \A p \in Work' : p.of = s =>
            \/ p = Local!Sup(s) \/ p = Local!Pid(s, "web")'
            \/ p = Local!Pid(s, "worker")' /\ child'[s]["worker"].state = "up"
      BY <1>11 DEF Local!Kinds
    <3> QED
      BY <1>0, <1>3, <1>11, <2>1, <3>1, <3>2, UpdatesKeepNames
  <2>3. Starters' = Starters
    BY <1>3 DEF Starters, Local!Starting
  <2>4. Work' # {} => Work # {}
    BY <1>5, <1>11, <2>2
  <2>5. stop # "off" => Work' \intersect targets = {}
    BY <1>10, <1>11, <2>1 DEF Stack
  <2> QED
    BY <1>3, <2>1, <2>2, <2>3, <2>4, <2>5 DEF Stack
<1>13. Local!ForeignIsSpared'
  BY <1>3 DEF LocalInv, Local!ForeignIsSpared
<1> QED
  BY <1>6, <1>7, <1>8, <1>10, <1>12, <1>13 DEF LocalInv

LEMMA ChildExitsKeeps ==
  ASSUME LocalParameters, LocalInv, NEW s \in Supervisors, NEW k \in Local!Kinds,
         Local!ChildExits(s, k)
  PROVE  LocalInv'
<1> DEFINE givesUp == sup[s] = "serving" /\ ~Local!MayRestart(s, k)
           restarts == sup[s] = "serving" /\ Local!MayRestart(s, k)
           toldToo == IF givesUp /\ k = "web" THEN {Local!Pid(s, "worker")} \intersect Local!Ours
                      ELSE {}
<1>0. LocalTypes /\ child[s][k].state = "up"
  BY DEF LocalInv, Local!ChildExits
<1>1. /\ child' = [child EXCEPT ![s][k].state = IF restarts THEN "pending" ELSE "gone"]
      /\ webPort' = IF webPort = Local!Pid(s, k) THEN None ELSE webPort
      /\ toldTo' = (toldTo \union toldToo) \ {Local!Pid(s, k)}
      /\ sup' = IF givesUp /\ k = "web" THEN [sup EXCEPT ![s] = "stopping"] ELSE sup
      /\ IF givesUp /\ k = "worker" THEN Local!UpdateLockPids(s) ELSE UNCHANGED <<lock, lost>>
      /\ UNCHANGED <<looked, stop, targets, beside, changed, hurt>>
  BY DEF Local!ChildExits
<1>2. restarts => sup[s] = "serving" /\ child[s][k].n <= MaxRestarts
  BY DEF Local!MayRestart
<1>3. toldToo \subseteq Local!Ours
      /\ (givesUp /\ k = "web" => toldToo = {Local!Pid(s, "worker")} \intersect Local!Ours)
  OBVIOUS
<1>4. givesUp => sup[s] = "serving"
  OBVIOUS
<1> HIDE DEF givesUp, restarts, toldToo
<1>5. /\ child'[s][k].n = child[s][k].n
      /\ child'[s][k].state = IF restarts THEN "pending" ELSE "gone"
      /\ \A t \in Supervisors, j \in Local!Kinds : t # s \/ j # k => child'[t][j] = child[t][j]
      /\ child' \in [Supervisors -> [Local!Kinds ->
           [n : Nat, state : {"none", "up", "pending", "gone"}]]]
  <2> DEFINE ended == [child[s][k] EXCEPT !.state = IF restarts THEN "pending" ELSE "gone"]
  <2>1. child' = [child EXCEPT ![s] = [child[s] EXCEPT ![k] = ended]]
    BY <1>0, <1>1 DEF LocalTypes
  <2>2. /\ ended \in [n : Nat, state : {"none", "up", "pending", "gone"}]
        /\ ended.n = child[s][k].n /\ ended.state = IF restarts THEN "pending" ELSE "gone"
    BY <1>0, ChildTyped
  <2> HIDE DEF ended
  <2>3. child'[s][k] = ended
    BY <1>0, <2>1 DEF LocalTypes
  <2> QED
    BY <1>0, <2>1, <2>2, <2>3 DEF LocalTypes
<1>6. \A t \in Supervisors, j \in Local!Kinds :
        /\ Local!Pid(t, j)' = Local!Pid(t, j) /\ child'[t][j].n = child[t][j].n
        /\ child'[t][j].state = "up" => child[t][j].state = "up" /\ ~(t = s /\ j = k)
        /\ child[t][j].state = "up" /\ ~(t = s /\ j = k) => child'[t][j].state = "up"
  <2> TAKE t \in Supervisors, j \in Local!Kinds
  <2>1. CASE t = s /\ j = k
    BY <1>5, <2>1 DEF Local!Pid
  <2>2. CASE ~(t = s /\ j = k)
    BY <1>5, <2>2 DEF Local!Pid
  <2> QED
    BY <2>1, <2>2
<1>7. /\ \A t \in Supervisors : sup'[t] = sup[t]
                                \/ (t = s /\ givesUp /\ k = "web" /\ sup'[t] = "stopping")
      /\ sup' \in [Supervisors -> Before \union After]
  BY <1>0, <1>1 DEF LocalTypes, After
<1>8. \A t \in Supervisors, j \in Local!Kinds :
        Local!Pid(t, j) = Local!Pid(s, k) => t = s /\ j = k
  BY DEF Local!Pid
<1>9. \A j \in Local!Kinds : Local!Pid(s, j)' \in Processes
  BY <1>0, <1>6, PidsAreProcesses
<1>10. lost => lost'
  BY <1>0, <1>1, <1>9, UpdatesAreTyped
<1>11. LocalTypes'
  <2>1. toldTo' \subseteq Processes
    BY <1>0, <1>1, <1>3, OursAre DEF LocalTypes
  <2>2. CASE givesUp /\ k = "worker"
    BY <1>0, <1>1, <1>5, <1>7, <1>9, <2>1, <2>2, UpdatesAreTyped DEF LocalTypes
  <2>3. CASE ~(givesUp /\ k = "worker")
    BY <1>0, <1>1, <1>5, <1>7, <2>1, <2>3 DEF LocalTypes
  <2> QED
    BY <2>2, <2>3
<1>12. ChildrenFollow'
  <2> SUFFICES ASSUME NEW t \in Supervisors, NEW j \in Local!Kinds
               PROVE  /\ sup'[t] \in Before => child'[t][j].state = "none"
                      /\ child'[t][j].state = "none" <=> child'[t][j].n = 0
                      /\ child'[t][j].state = "pending" => child'[t][j].n <= MaxRestarts
                      /\ child'[t][j].n <= MaxRestarts + 1
    BY DEF ChildrenFollow
  <2>1. sup'[t] \in Before => sup[t] \in Before
    BY <1>7 DEF Before
  <2>2. CASE t = s /\ j = k
    <3>1. sup[s] \notin Before /\ child[s][k].n # 0 /\ child[s][k].n <= MaxRestarts + 1
      BY <1>0 DEF LocalInv, ChildrenFollow
    <3> QED
      BY <1>2, <1>5, <2>1, <2>2, <3>1
  <2>3. CASE ~(t = s /\ j = k)
    <3>1. child'[t][j] = child[t][j]
      BY <1>5, <2>3
    <3> QED
      BY <2>1, <3>1 DEF LocalInv, ChildrenFollow
  <2> QED
    BY <2>2, <2>3
<1>13. PortIsServed'
  <2>1. CASE webPort' \in {Foreign, None}
    BY <2>1 DEF PortIsServed
  <2>2. CASE webPort' \notin {Foreign, None}
    <3>1. webPort' = webPort /\ webPort # Local!Pid(s, k)
      BY <1>1, <2>2
    <3>2. PICK t \in Supervisors : child[t]["web"].state = "up" /\ webPort = Local!Pid(t, "web")
      BY <2>2, <3>1 DEF LocalInv, PortIsServed
    <3>3. "web" \in Local!Kinds /\ ~(t = s /\ "web" = k)
      BY <3>1, <3>2 DEF Local!Kinds
    <3>4. child'[t]["web"].state = "up" /\ Local!Pid(t, "web")' = Local!Pid(t, "web")
      BY <1>6, <3>2, <3>3
    <3> QED
      BY <3>1, <3>2, <3>4 DEF PortIsServed
  <2> QED
    BY <2>1, <2>2
<1>14. ChildrenAreTold'
  <2> SUFFICES ASSUME NEW t \in Supervisors, sup'[t] \in {"stopping", "ended"},
                      NEW j \in Local!Kinds, child'[t][j].state = "up"
               PROVE  Local!Pid(t, j)' \in toldTo'
    BY DEF ChildrenAreTold
  <2>1. Local!Pid(t, j)' = Local!Pid(t, j) /\ child[t][j].state = "up"
        /\ Local!Pid(t, j) # Local!Pid(s, k)
    BY <1>6, <1>8
  <2>2. Local!Pid(t, j) \in toldTo \union toldToo
    <3>1. CASE sup'[t] = sup[t]
      BY <2>1, <3>1 DEF LocalInv, ChildrenAreTold
    <3>2. CASE t = s /\ givesUp /\ k = "web"
      <4>1. j = "worker"
        BY <2>1, <3>2 DEF Local!Kinds
      <4> QED
        BY <1>0, <1>3, <2>1, <3>2, <4>1, OursAre
    <3> QED
      BY <1>7, <3>1, <3>2
  <2> QED
    BY <1>1, <2>1, <2>2
<1>15. \A p \in Processes : p.of \in Supervisors /\ (p.kind = "supervisor" \/ p.kind \in Local!Kinds)
  BY DEF Processes, Local!Kinds
<1>16. TargetsAreOld'
  <2> SUFFICES ASSUME NEW p \in targets
               PROVE  IF p.kind = "supervisor" THEN p.n = 1 /\ sup'[p.of] \in After
                      ELSE 1 <= p.n /\ p.n <= child'[p.of][p.kind].n
    BY <1>1 DEF TargetsAreOld
  <2>1. p.of \in Supervisors /\ (p.kind = "supervisor" \/ p.kind \in Local!Kinds)
    BY <1>0, <1>15 DEF LocalTypes
  <2>2. CASE p.kind = "supervisor"
    BY <1>7, <2>1, <2>2 DEF LocalInv, TargetsAreOld, After
  <2>3. CASE p.kind # "supervisor"
    BY <1>6, <2>1, <2>3 DEF LocalInv, TargetsAreOld
  <2> QED
    BY <2>2, <2>3
<1>17. ASSUME NEW p \in Work'
       PROVE  /\ p \in Work /\ p # Local!Pid(s, k) /\ Local!Sup(p.of) \notin toldTo'
              /\ \/ p = Local!Sup(p.of)
                 \/ \E j \in Local!Kinds : p = Local!Pid(p.of, j) /\ child'[p.of][j].state = "up"
  <2>1. /\ p \in Processes /\ p \notin toldTo' /\ Local!Sup(p.of) \notin toldTo'
        /\ sup'[p.of] # "stopping"
        /\ IF p.kind = "supervisor" THEN p.n = 1 /\ sup'[p.of] = "serving"
           ELSE child'[p.of][p.kind].state = "up" /\ p.n = child'[p.of][p.kind].n
    BY DEF Work, Local!Sup
  <2>2. p.of \in Supervisors /\ (p.kind = "supervisor" \/ p.kind \in Local!Kinds)
    BY <1>15, <2>1
  <2>3. p.kind = "supervisor" => p = Local!Sup(p.of)
    BY <2>1 DEF Processes, Local!Sup
  <2>4. p.kind \in Local!Kinds => p = Local!Pid(p.of, p.kind)
    BY <1>6, <2>1, <2>2 DEF Processes, Local!Pid, Local!Kinds
  <2>5. p # Local!Pid(s, k) /\ Local!Sup(p.of) # Local!Pid(s, k)
    <3>1. Local!Sup(p.of) # Local!Pid(s, k)
      BY DEF Local!Sup, Local!Pid, Local!Kinds
    <3>2. p.kind \in Local!Kinds => ~(p.of = s /\ p.kind = k)
      BY <1>6, <2>1, <2>2 DEF Local!Kinds
    <3> QED
      BY <1>8, <2>2, <2>3, <2>4, <3>1, <3>2
  <2>6. p \notin toldTo /\ Local!Sup(p.of) \notin toldTo
    BY <1>1, <2>1, <2>5
  <2>7. sup[p.of] = sup'[p.of]
    BY <1>7, <2>1, <2>2
  <2>8. p \in Work
    BY <1>6, <2>1, <2>2, <2>6, <2>7 DEF Work, Local!Kinds
  <2> QED
    BY <2>1, <2>2, <2>3, <2>4, <2>5, <2>8
<1>18. beside' \/ lost' \/ Stack'
  <2> SUFFICES ASSUME ~beside', ~lost' PROVE Stack'
    OBVIOUS
  <2>1. Stack
    BY <1>1, <1>10 DEF LocalInv
  <2>2. Starters' \subseteq Starters
    BY <1>7 DEF Starters, Local!Starting
  <2>3. Work' \subseteq Local!LockPids'
    <3>1. CASE ~(givesUp /\ k = "worker")
      BY <1>1, <1>17, <2>1, <3>1 DEF Stack, Local!LockPids
    <3>2. CASE givesUp /\ k = "worker"
      <4>1. \A p \in Work' : p.of = s =>
              \/ p = Local!Sup(s) \/ p = Local!Pid(s, "web")'
              \/ p = Local!Pid(s, "worker")' /\ child'[s]["worker"].state = "up"
        BY <1>6, <1>17 DEF Local!Kinds
      <4>2. Local!Sup(s) \in toldTo => Local!Sup(s) \in toldTo'
        <5>1. Local!Sup(s) # Local!Pid(s, k)
          BY DEF Local!Sup, Local!Pid, Local!Kinds
        <5> QED
          BY <1>1, <5>1
      <4>3. \A p \in Work' : p \in Processes
        BY DEF Work
      <4> QED
        BY <1>0, <1>1, <1>4, <1>10, <1>17, <2>1, <3>2, <4>1, <4>2, <4>3, UpdatesKeepNames
    <3> QED
      BY <3>1, <3>2
  <2> QED
    BY <1>1, <1>17, <2>1, <2>2, <2>3, Quieter
<1>19. Local!ForeignIsSpared'
  BY <1>1 DEF LocalInv, Local!ForeignIsSpared
<1> QED
  BY <1>11, <1>12, <1>13, <1>14, <1>16, <1>18, <1>19 DEF LocalInv

LEMMA LocalInvStep ==
  ASSUME LocalParameters, LocalInv, [Local!Next]_supervisorVars PROVE LocalInv'
<1>1. CASE UNCHANGED supervisorVars
  <2>1. /\ LocalTypes' = LocalTypes /\ ChildrenFollow' = ChildrenFollow
        /\ PortIsServed' = PortIsServed /\ ChildrenAreTold' = ChildrenAreTold
    BY <1>1 DEF supervisorVars, LocalTypes, ChildrenFollow, PortIsServed, ChildrenAreTold, Local!Pid
  <2>2. /\ TargetsAreOld' = TargetsAreOld /\ Local!ForeignIsSpared' = Local!ForeignIsSpared
        /\ Work' = Work /\ Starters' = Starters /\ Local!LockPids' = Local!LockPids
    BY <1>1 DEF supervisorVars, TargetsAreOld, Local!ForeignIsSpared, Work, Starters, Local!Sup,
                Local!Starting, Local!LockPids
  <2>3. Stack => Stack'
    BY <1>1, <2>2 DEF supervisorVars, Stack
  <2>4. UNCHANGED <<beside, lost>>
    BY <1>1 DEF supervisorVars
  <2> QED
    BY <2>1, <2>2, <2>3, <2>4 DEF LocalInv
<1>2. ASSUME NEW s \in Supervisors,
             \/ Local!StartIfFree(s) \/ Local!LookAtPort(s) \/ Local!Leave(s)
             \/ Local!RestartOwned(s) \/ Local!Wait(s) \/ Local!MigrationFails(s) \/ Local!Start(s)
      PROVE  LocalInv'
  BY <1>2, StartIfFreeKeeps, LookAtPortKeeps, LeaveKeeps, RestartOwnedKeeps, WaitKeeps,
     MigrationFailsKeeps, StartKeeps
<1>3. ASSUME NEW s \in Supervisors,
             \/ Local!Bind(s) \/ Local!Interrupt(s) \/ Local!Shutdown(s) \/ Local!Finish(s)
             \/ Local!Crash(s)
             \/ \E k \in Local!Kinds : Local!ChildExits(s, k) \/ Local!RestartChild(s, k)
      PROVE  LocalInv'
  BY <1>3, BindKeeps, InterruptKeeps, ShutdownKeeps, FinishKeeps, CrashKeeps, ChildExitsKeeps,
     RestartChildKeeps
<1> QED
  BY <1>1, <1>2, <1>3, ForeignKeeps, StopRecordedKeeps, StopLooksAtPortKeeps, StopOrphanKeeps,
     StopClearsKeeps DEF Local!Next

LEMMA LocalInvSuffices ==
  ASSUME LocalParameters, LocalInv
  PROVE  /\ Local!SupervisorTypeOK /\ Local!ForeignIsSpared /\ Local!OneStack
         /\ Local!NoneIsLeftBehind /\ Local!StopEndsTheStack
<1>0. LocalTypes
  BY DEF LocalInv
<1>1. Local!SupervisorTypeOK
  <2>1. ASSUME NEW s \in Supervisors, NEW k \in Local!Kinds
        PROVE  child[s][k].n \in 0..MaxRestarts + 1
               /\ child[s][k].state \in {"none", "up", "pending", "gone"}
    <3>1. child[s][k] \in [n : Nat, state : {"none", "up", "pending", "gone"}]
      BY <1>0, ChildTyped
    <3>2. child[s][k].n <= MaxRestarts + 1
      BY DEF LocalInv, ChildrenFollow
    <3> QED
      BY <3>1, <3>2 DEF LocalParameters
  <2>2. webPort \in Local!Ours \union {Foreign, None}
    BY <1>0, OursAre DEF LocalInv, PortIsServed, Local!Kinds
  <2>3. \A p \in Local!LockPids : p.of \in Supervisors
    BY <1>0 DEF LocalTypes, Local!LockPids, Processes
  <2>4. \A s \in Supervisors :
          sup[s] \in {"off", "probe", "waiting", "migrate", "serving", "stopping", "ended",
                      "crashed"}
    BY <1>0 DEF LocalTypes, Before, After
  <2> QED
    BY <1>0, <2>1, <2>2, <2>3, <2>4 DEF LocalTypes, Local!SupervisorTypeOK
<1>2. Local!ForeignIsSpared
  BY DEF LocalInv
<1>3. Local!OneStack
  BY <1>0, WorkIsUntold DEF LocalInv, Stack, Local!OneStack
<1>4. Local!NoneIsLeftBehind
  BY DEF LocalInv, ChildrenAreTold, Local!NoneIsLeftBehind
<1>5. Local!StopEndsTheStack
  <2> SUFFICES ASSUME stop = "done", ~lost, ~beside, NEW p \in targets, Local!Untold(p)
               PROVE  FALSE
    BY DEF Local!StopEndsTheStack
  <2>1. p \in Local!Ours /\ sup[p.of] # "stopping"
    BY DEF Local!Untold
  <2>2. p.kind = "supervisor" => sup[p.of] = "serving"
    <3>1. p.kind = "supervisor" => sup[p.of] \in After
      BY DEF LocalInv, TargetsAreOld
    <3>2. p.kind = "supervisor" => Local!Running(p.of)
      BY <1>0, <2>1, OursAre DEF Local!Kinds
    <3> QED
      BY <2>1, <3>1, <3>2 DEF After, Local!Running
  <2>3. p \in Work
    BY <1>0, <2>1, <2>2, WorkIsUntold
  <2> QED
    BY <2>3 DEF LocalInv, Stack
<1> QED
  BY <1>1, <1>2, <1>3, <1>4, <1>5

\* Supervisors (local.ts) signal nothing foreign, unless the port changed hands while
\* they looked, run one stack, unless their startups lay across each other or a lock was
\* taken from a stack at work, leave no child behind, and local:stop ends what it found:
\* for any number of supervisors, restarts, crashes and foreign processes.
THEOREM StackStaysSupervised ==
  ASSUME LocalParameters
  PROVE  Local!Spec => []( /\ Local!SupervisorTypeOK /\ Local!ForeignIsSpared
                           /\ Local!OneStack /\ Local!NoneIsLeftBehind
                           /\ Local!StopEndsTheStack )
<1>1. Local!Init => LocalInv
  BY LocalInvAtFirst
<1>2. LocalInv /\ [Local!Next]_(Local!supervisorVars) => LocalInv'
  BY LocalInvStep DEF supervisorVars, Local!supervisorVars
<1>3. LocalInv => /\ Local!SupervisorTypeOK /\ Local!ForeignIsSpared /\ Local!OneStack
                  /\ Local!NoneIsLeftBehind /\ Local!StopEndsTheStack
  BY LocalInvSuffices
<1> QED
  BY <1>1, <1>2, <1>3, PTL DEF Local!Spec

\* Beside the other services, too.
THEOREM StackIsSupervisedBesideOthers ==
  ASSUME LocalParameters
  PROVE  Services => []StackIsSupervised
<1>1. ServicesInit => LocalInv
  BY LocalInvAtFirst DEF ServicesInit
<1>2. LocalInv /\ [ServicesNext]_servicesVars => LocalInv'
  <2> SUFFICES ASSUME LocalInv, [ServicesNext]_servicesVars PROVE LocalInv'
    OBVIOUS
  <2>1. [Local!Next]_supervisorVars
    BY Zenon DEF ServicesNext, Only, servicesVars
  <2> QED
    BY <2>1, LocalInvStep
<1>3. LocalInv => StackIsSupervised
  BY LocalInvSuffices DEF StackIsSupervised
<1> QED
  BY <1>1, <1>2, <1>3, PTL DEF Services

-----------------------------------------------------------------------------
(* The mailbox                                                               *)

MailParameters ==
  MaxSyncs \in Nat /\ MaxMails \in Nat /\ PageSize \in Nat /\ None \notin Mailbox!Classes

Statuses == {"none", "ASSESSMENT_REQUIRED", "INTERVIEW", "REJECTED", "CLOSED"}

SyncRecord ==
  [at : {"new", "list", "look", "fetch", "create", "status", "entry", "done"},
   since : Nat, listed : Nat, todo : Seq(Mailbox!Mails),
   class : Mailbox!Classes \union {None}, apply : Statuses \union {None}]

\* Marks lie in the past, and a step that needs a mail or its class has it in hand.
MailTypes ==
  /\ arrived \in 0..MaxMails /\ lastSyncAt \in 0..arrived
  /\ tracked \in [Mailbox!Mails -> Mailbox!Classes \union {None}]
  /\ status \in Statuses
  /\ entries \in [Mailbox!Mails -> 0..1]
  /\ unread \subseteq Mailbox!Mails /\ broken \subseteq Mailbox!Mails /\ crossed \in BOOLEAN
  /\ sync \in [Mailbox!Syncs -> SyncRecord]
  /\ \A s \in Mailbox!Syncs :
       /\ sync[s].since <= lastSyncAt /\ sync[s].listed <= arrived
       /\ Len(sync[s].todo) <= PageSize
       /\ sync[s].at \in {"fetch", "create", "status", "entry"} => sync[s].todo # <<>>
       /\ sync[s].at = "create" => sync[s].class # None

\* A mail that a sync was to read, up to a page, is tracked, passed over, or still to do.
ListIsWorkedOff ==
  \A s \in Mailbox!Syncs : sync[s].at \in {"look", "fetch", "create", "status", "entry"} =>
    \A m \in Mailbox!Mails :
      sync[s].since < m /\ m <= sync[s].listed /\ sync[s].listed - PageSize < m
        => tracked[m] # None \/ m \in unread \/ \E i \in 1..Len(sync[s].todo) : sync[s].todo[i] = m

\* Who is at the status or the entry of a mail is the only one, has made its row, and
\* there is no entry yet.
RowsAreOwned ==
  /\ \A m \in Mailbox!Mails : tracked[m] = None => entries[m] = 0
  /\ \A s \in Mailbox!Syncs : Mailbox!Tracking(s) =>
       /\ tracked[Mailbox!Mail(s)] = sync[s].class /\ sync[s].class # None
       /\ entries[Mailbox!Mail(s)] = 0
  /\ \A s, r \in Mailbox!Syncs :
       Mailbox!Tracking(s) /\ Mailbox!Tracking(r) /\ Mailbox!Mail(s) = Mailbox!Mail(r) => s = r

\* A sync alone applies a status that is higher than the one it applies it to.
StatusIsCurrent ==
  /\ \A s, r \in Mailbox!Syncs : Mailbox!Working(s) /\ Mailbox!Working(r) => s = r
  /\ \A s \in Mailbox!Syncs : sync[s].at \in {"create", "status"} =>
       \/ sync[s].apply \in {None, "REJECTED", "CLOSED"}
       \/ Mailbox!Rank(sync[s].apply) > Mailbox!Rank(status)

MailInv ==
  /\ MailTypes /\ ListIsWorkedOff /\ Mailbox!NothingUnread
  /\ RowsAreOwned /\ Mailbox!OneEntryPerAssessment
  /\ ~crossed => StatusIsCurrent

LEMMA MailInvAtFirst == ASSUME MailParameters, Mailbox!Init PROVE MailInv
<1> USE DEF Mailbox!Init, MailParameters
<1>1. Mailbox!Waiting \in SyncRecord
  BY DEF Mailbox!Waiting, SyncRecord, Statuses
<1>2. \A s \in Mailbox!Syncs : sync[s] = Mailbox!Waiting
  OBVIOUS
<1>3. Mailbox!Waiting.at = "new" /\ Mailbox!Waiting.since = 0 /\ Mailbox!Waiting.listed = 0
      /\ Mailbox!Waiting.todo = <<>>
  BY DEF Mailbox!Waiting
<1>4. MailTypes
  <2>1. sync \in [Mailbox!Syncs -> SyncRecord]
    BY <1>1
  <2>2. arrived \in 0..MaxMails /\ lastSyncAt \in 0..arrived /\ entries \in [Mailbox!Mails -> 0..1]
        /\ tracked \in [Mailbox!Mails -> Mailbox!Classes \union {None}]
    OBVIOUS
  <2>3. Len(<<>>) = 0
    OBVIOUS
  <2>4. \A s \in Mailbox!Syncs :
          /\ sync[s].since <= lastSyncAt /\ sync[s].listed <= arrived
          /\ Len(sync[s].todo) <= PageSize
          /\ sync[s].at \in {"fetch", "create", "status", "entry"} => sync[s].todo # <<>>
          /\ sync[s].at = "create" => sync[s].class # None
    BY <1>2, <1>3, <2>3
  <2> QED
    BY <2>1, <2>2, <2>4 DEF MailTypes, Statuses
<1>5. ListIsWorkedOff /\ StatusIsCurrent /\ RowsAreOwned
  BY <1>2, <1>3 DEF ListIsWorkedOff, StatusIsCurrent, RowsAreOwned, Mailbox!Working, Mailbox!Tracking
<1>6. Mailbox!NothingUnread /\ Mailbox!OneEntryPerAssessment
  <2>1. None # "assessment"
    BY DEF Mailbox!Classes
  <2>2. Mailbox!NothingUnread
    BY DEF Mailbox!NothingUnread
  <2>3. \A m \in Mailbox!Mails : tracked[m] # "assessment" /\ entries[m] <= 1
    BY <2>1
  <2> QED
    BY <2>2, <2>3 DEF Mailbox!OneEntryPerAssessment
<1> QED
  BY <1>4, <1>5, <1>6 DEF MailInv

\* One sync moves, to another step.
LEMMA SyncMoves ==
  ASSUME MailTypes, NEW s \in Mailbox!Syncs, NEW x, x \in SyncRecord,
         sync' = [sync EXCEPT ![s] = x]
  PROVE  /\ sync' \in [Mailbox!Syncs -> SyncRecord] /\ sync'[s] = x
         /\ \A r \in Mailbox!Syncs \ {s} : sync'[r] = sync[r]
  BY DEF MailTypes

LEMMA GoOnMoves ==
  ASSUME MailTypes, NEW s \in Mailbox!Syncs, sync[s].todo # <<>>, Mailbox!GoOn(s)
  PROVE  /\ sync' \in [Mailbox!Syncs -> SyncRecord]
         /\ \A r \in Mailbox!Syncs \ {s} : sync'[r] = sync[r]
         /\ sync'[s].at = "look" /\ sync'[s].since = sync[s].since
         /\ sync'[s].listed = sync[s].listed
         /\ Len(sync'[s].todo) <= Len(sync[s].todo)
         /\ \A m \in Mailbox!Mails : (\E i \in 1..Len(sync[s].todo) : sync[s].todo[i] = m) =>
              \/ m = Mailbox!Mail(s)
              \/ \E i \in 1..Len(sync'[s].todo) : sync'[s].todo[i] = m
<1> DEFINE x == [sync[s] EXCEPT !.at = "look", !.todo = Tail(sync[s].todo),
                                !.class = None, !.apply = None]
           todo == sync[s].todo
<1>1. sync[s] \in SyncRecord /\ todo \in Seq(Mailbox!Mails)
  BY DEF MailTypes, SyncRecord
<1>2. Tail(todo) \in Seq(Mailbox!Mails) /\ Len(Tail(todo)) = Len(todo) - 1
      /\ \A i \in 1..Len(todo) - 1 : Tail(todo)[i] = todo[i + 1]
  BY <1>1
<1>3. x \in SyncRecord /\ x.at = "look" /\ x.since = sync[s].since /\ x.listed = sync[s].listed
      /\ x.todo = Tail(todo)
  BY <1>1, <1>2 DEF SyncRecord
<1>4. sync' = [sync EXCEPT ![s] = x]
  BY DEF MailTypes, Mailbox!GoOn
<1> HIDE DEF x, todo
<1>5. /\ sync' \in [Mailbox!Syncs -> SyncRecord] /\ sync'[s] = x
      /\ \A r \in Mailbox!Syncs \ {s} : sync'[r] = sync[r]
  BY <1>3, <1>4, SyncMoves
<1>6. ASSUME NEW m \in Mailbox!Mails, NEW i \in 1..Len(todo), todo[i] = m
      PROVE  m = Head(todo) \/ \E j \in 1..Len(Tail(todo)) : Tail(todo)[j] = m
  <2>1. CASE i = 1
    BY <1>1, <1>6, <2>1
  <2>2. CASE i # 1
    <3>1. i - 1 \in 1..Len(todo) - 1 /\ Tail(todo)[i - 1] = todo[i]
      BY <1>1, <1>2, <2>2
    <3> QED
      BY <1>2, <1>6, <3>1
  <2> QED
    BY <2>1, <2>2
<1>7. Len(Tail(todo)) <= Len(todo)
  BY <1>1, <1>2
<1> QED
  BY <1>3, <1>5, <1>6, <1>7 DEF Mailbox!Mail, todo

\* A step of a sync keeps what its list owes, if a mail leaves the list only when it is
\* tracked or passed over.
LEMMA ListStays ==
  ASSUME MailParameters, MailInv, NEW s \in Mailbox!Syncs, \A r \in Mailbox!Syncs \ {s} : sync'[r] = sync[r],
         \A m \in Mailbox!Mails : tracked[m] # None => tracked'[m] # None,
         unread \subseteq unread', lastSyncAt' = lastSyncAt, arrived' = arrived,
         \/ sync'[s].at \in {"new", "list", "done"}
         \/ /\ sync[s].at \in {"look", "fetch", "create", "status", "entry"}
            /\ sync'[s].since = sync[s].since /\ sync'[s].listed = sync[s].listed
            /\ \A m \in Mailbox!Mails : (\E i \in 1..Len(sync[s].todo) : sync[s].todo[i] = m) =>
                 \/ tracked'[m] # None \/ m \in unread'
                 \/ \E i \in 1..Len(sync'[s].todo) : sync'[s].todo[i] = m
  PROVE  ListIsWorkedOff' /\ Mailbox!NothingUnread'
<1>1. ASSUME NEW r \in Mailbox!Syncs, sync'[r].at \in {"look", "fetch", "create", "status", "entry"},
             NEW m \in Mailbox!Mails, sync'[r].since < m, m <= sync'[r].listed,
             sync'[r].listed - PageSize < m
      PROVE  \/ tracked'[m] # None \/ m \in unread'
             \/ \E i \in 1..Len(sync'[r].todo) : sync'[r].todo[i] = m
  <2>1. CASE r # s
    <3>1. sync'[r] = sync[r]
      BY <2>1
    <3>2. \/ tracked[m] # None \/ m \in unread
          \/ \E i \in 1..Len(sync[r].todo) : sync[r].todo[i] = m
      BY <1>1, <3>1 DEF MailInv, ListIsWorkedOff
    <3> QED
      BY <3>1, <3>2
  <2>2. CASE r = s
    <3>1. \/ tracked[m] # None \/ m \in unread
          \/ \E i \in 1..Len(sync[s].todo) : sync[s].todo[i] = m
      BY <1>1, <2>2 DEF MailInv, ListIsWorkedOff
    <3> QED
      BY <1>1, <2>2, <3>1
  <2> QED
    BY <2>1, <2>2
<1>2. ListIsWorkedOff'
  BY <1>1 DEF ListIsWorkedOff, Mailbox!Mails
<1>3. Mailbox!NothingUnread'
  <2>1. \A m \in 1..lastSyncAt : m \in Mailbox!Mails
    BY DEF MailParameters, MailInv, MailTypes, Mailbox!Mails
  <2> QED
    BY <2>1 DEF MailInv, Mailbox!NothingUnread
<1> QED
  BY <1>2, <1>3

\* A step that makes no row and no entry keeps them, if a sync leaves the row it made only
\* when no entry is owed.
LEMMA RowsStay ==
  ASSUME MailInv, NEW s \in Mailbox!Syncs, \A r \in Mailbox!Syncs \ {s} : sync'[r] = sync[r],
         UNCHANGED <<tracked, entries>>, broken \subseteq broken',
         \/ sync'[s].at \notin {"status", "entry"}
         \/ sync[s].at \in {"status", "entry"} /\ sync'[s].todo = sync[s].todo
            /\ sync'[s].class = sync[s].class,
         sync[s].at \in {"status", "entry"} /\ sync'[s].at \notin {"status", "entry"} =>
           tracked[Mailbox!Mail(s)] # "assessment" \/ Mailbox!Mail(s) \in broken'
  PROVE  RowsAreOwned' /\ Mailbox!OneEntryPerAssessment'
<1> USE DEF Mailbox!Tracking, Mailbox!Mail
<1>1. \A r \in Mailbox!Syncs : sync'[r].at \in {"status", "entry"} =>
        sync[r].at \in {"status", "entry"} /\ sync'[r].todo = sync[r].todo
        /\ sync'[r].class = sync[r].class
  OBVIOUS
<1>2. RowsAreOwned'
  BY <1>1 DEF MailInv, RowsAreOwned, Mailbox!Mails
<1>3. ASSUME NEW r \in Mailbox!Syncs, NEW m \in Mailbox!Mails, m \notin broken',
             tracked[m] = "assessment", sync[r].at \in {"status", "entry"}, Head(sync[r].todo) = m
      PROVE  sync'[r].at \in {"status", "entry"} /\ Head(sync'[r].todo) = m
  BY <1>1, <1>3
<1>4. Mailbox!OneEntryPerAssessment'
  BY <1>3 DEF MailInv, Mailbox!OneEntryPerAssessment
<1> QED
  BY <1>2, <1>4

\* A step that starts no sync and takes no status in hand keeps those in hand current.
LEMMA StatusStays ==
  ASSUME MailInv, NEW s \in Mailbox!Syncs, \A r \in Mailbox!Syncs \ {s} : sync'[r] = sync[r],
         UNCHANGED <<status, crossed>>,
         sync'[s].at \notin {"new", "done"} => sync[s].at \notin {"new", "done"},
         sync'[s].at \in {"create", "status"} =>
           sync[s].at \in {"create", "status"} /\ sync'[s].apply = sync[s].apply
  PROVE  ~crossed' => StatusIsCurrent'
<1> SUFFICES ASSUME ~crossed PROVE StatusIsCurrent'
  OBVIOUS
<1>1. StatusIsCurrent
  BY DEF MailInv
<1>2. \A r \in Mailbox!Syncs : sync'[r].at \notin {"new", "done"} => sync[r].at \notin {"new", "done"}
  OBVIOUS
<1>3. \A r \in Mailbox!Syncs : sync'[r].at \in {"create", "status"} =>
        sync[r].at \in {"create", "status"} /\ sync'[r].apply = sync[r].apply
  OBVIOUS
<1> QED
  BY <1>1, <1>2, <1>3 DEF StatusIsCurrent, Mailbox!Working, Mailbox!Rank

LEMMA ArriveKeeps == ASSUME MailParameters, MailInv, Mailbox!Arrive PROVE MailInv'
<1> USE DEF Mailbox!Arrive
<1>1. MailTypes'
  BY DEF MailInv, MailTypes, MailParameters, SyncRecord
<1>2. ListIsWorkedOff' /\ Mailbox!NothingUnread'
  BY DEF MailInv, ListIsWorkedOff, Mailbox!NothingUnread
<1>3. RowsAreOwned' /\ Mailbox!OneEntryPerAssessment' /\ (~crossed' => StatusIsCurrent')
  BY DEF MailInv, RowsAreOwned, Mailbox!OneEntryPerAssessment, StatusIsCurrent, Mailbox!Tracking,
         Mailbox!Mail, Mailbox!Working
<1> QED
  BY <1>1, <1>2, <1>3 DEF MailInv

\* What a step leaves of the types, if the step itself is typed.
LEMMA TypesStay ==
  ASSUME MailInv, NEW s \in Mailbox!Syncs, sync' \in [Mailbox!Syncs -> SyncRecord],
         \A r \in Mailbox!Syncs \ {s} : sync'[r] = sync[r],
         UNCHANGED <<arrived, lastSyncAt>>,
         tracked' \in [Mailbox!Mails -> Mailbox!Classes \union {None}], status' \in Statuses,
         entries' \in [Mailbox!Mails -> 0..1], unread' \subseteq Mailbox!Mails,
         broken' \subseteq Mailbox!Mails, crossed' \in BOOLEAN,
         sync'[s].since <= lastSyncAt, sync'[s].listed <= arrived, Len(sync'[s].todo) <= PageSize,
         sync'[s].at \in {"fetch", "create", "status", "entry"} => sync'[s].todo # <<>>,
         sync'[s].at = "create" => sync'[s].class # None
  PROVE  MailTypes'
<1>1. \A r \in Mailbox!Syncs :
        /\ sync'[r].since <= lastSyncAt /\ sync'[r].listed <= arrived
        /\ Len(sync'[r].todo) <= PageSize
        /\ sync'[r].at \in {"fetch", "create", "status", "entry"} => sync'[r].todo # <<>>
        /\ sync'[r].at = "create" => sync'[r].class # None
  BY DEF MailInv, MailTypes
<1> QED
  BY <1>1 DEF MailInv, MailTypes

LEMMA StartOfSyncKeeps ==
  ASSUME MailParameters, MailInv, NEW s \in Mailbox!Syncs, Mailbox!Start(s) PROVE MailInv'
<1> USE DEF Mailbox!Start
<1> DEFINE x == [sync[s] EXCEPT !.at = "list", !.since = lastSyncAt]
<1>0. sync[s] \in SyncRecord /\ lastSyncAt \in Nat /\ MailTypes
  BY DEF MailInv, MailTypes
<1>1. x \in SyncRecord /\ x.at = "list" /\ x.since = lastSyncAt /\ x.listed = sync[s].listed
      /\ x.todo = sync[s].todo
  BY <1>0 DEF SyncRecord
<1>2. sync' = [sync EXCEPT ![s] = x]
  BY <1>0 DEF MailTypes
<1> HIDE DEF x
<1>3. /\ sync' \in [Mailbox!Syncs -> SyncRecord] /\ sync'[s] = x
      /\ \A r \in Mailbox!Syncs \ {s} : sync'[r] = sync[r]
  BY <1>0, <1>1, <1>2, SyncMoves
<1>4. UNCHANGED <<arrived, lastSyncAt, tracked, status, entries, unread, broken>> /\ sync[s].at = "new"
      /\ crossed' = (crossed \/ \E r \in Mailbox!Syncs : Mailbox!Working(r))
  OBVIOUS
<1> HIDE DEF Mailbox!Start
<1>5. crossed' \in BOOLEAN /\ (~crossed' => ~crossed /\ \A r \in Mailbox!Syncs : ~Mailbox!Working(r))
  <2>1. CASE \E r \in Mailbox!Syncs : Mailbox!Working(r)
    BY <1>4, <2>1
  <2>2. CASE ~\E r \in Mailbox!Syncs : Mailbox!Working(r)
    BY <1>0, <1>4, <2>2 DEF MailTypes
  <2> QED
    BY <2>1, <2>2
<1>6. MailTypes'
  BY <1>0, <1>1, <1>3, <1>4, <1>5, TypesStay DEF MailTypes
<1>7. ListIsWorkedOff' /\ Mailbox!NothingUnread'
  BY <1>1, <1>3, <1>4, ListStays
<1>8. RowsAreOwned' /\ Mailbox!OneEntryPerAssessment'
  BY <1>1, <1>3, <1>4, RowsStay
<1>9. ~crossed' => StatusIsCurrent'
  <2> SUFFICES ASSUME ~crossed' PROVE StatusIsCurrent'
    OBVIOUS
  <2>1. \A r \in Mailbox!Syncs \ {s} : sync'[r].at \in {"new", "done"}
    BY <1>3, <1>5 DEF Mailbox!Working
  <2>2. \A r \in Mailbox!Syncs : sync'[r].at \notin {"create", "status"}
    BY <1>1, <1>3, <2>1
  <2> QED
    BY <2>1, <2>2 DEF StatusIsCurrent, Mailbox!Working
<1> QED
  BY <1>6, <1>7, <1>8, <1>9 DEF MailInv

\* The page that is listed.
LEMMA PageIsListed ==
  ASSUME MailParameters, MailTypes, NEW since \in 0..arrived
  PROVE  /\ Mailbox!NewestFirst(since) \in Seq(Mailbox!Mails)
         /\ Len(Mailbox!NewestFirst(since)) <= PageSize
         /\ \A m \in Mailbox!Mails : since < m /\ m <= arrived /\ arrived - PageSize < m =>
              \E i \in 1..Len(Mailbox!NewestFirst(since)) : Mailbox!NewestFirst(since)[i] = m
<1> DEFINE count == IF arrived - since > PageSize THEN PageSize ELSE arrived - since
           listing == [i \in 1..count |-> arrived + 1 - i]
<1>0. arrived \in Nat /\ arrived <= MaxMails /\ since \in Nat /\ since <= arrived
      /\ PageSize \in Nat /\ MaxMails \in Nat
  BY DEF MailParameters, MailTypes
<1>1. count \in Nat /\ count <= PageSize /\ count <= arrived - since
  BY <1>0
<1>2. Mailbox!NewestFirst(since) = listing
  BY DEF Mailbox!NewestFirst
<1>3. \A m \in Mailbox!Mails : since < m /\ m <= arrived /\ arrived - PageSize < m =>
        arrived + 1 - m \in 1..count /\ arrived + 1 - (arrived + 1 - m) = m
  BY <1>0 DEF Mailbox!Mails
<1> HIDE DEF count
<1>4. \A i \in 1..count : arrived + 1 - i \in Mailbox!Mails
  BY <1>0, <1>1 DEF Mailbox!Mails
<1>5. listing \in Seq(Mailbox!Mails) /\ Len(listing) = count
  BY <1>1, <1>4
<1> QED
  BY <1>1, <1>2, <1>3, <1>5

LEMMA ListKeeps ==
  ASSUME MailParameters, MailInv, NEW s \in Mailbox!Syncs, Mailbox!List(s) PROVE MailInv'
<1> USE DEF Mailbox!List
<1>0. /\ sync[s] \in SyncRecord /\ MailTypes /\ sync[s].at = "list" /\ arrived \in Nat
      /\ sync[s].since \in 0..arrived /\ sync[s].since \in Nat
  BY DEF MailInv, MailTypes, SyncRecord
<1>1. UNCHANGED <<arrived, lastSyncAt, tracked, status, entries, unread, broken, crossed>>
  OBVIOUS
<1>2. PICK x \in SyncRecord :
        /\ sync' = [sync EXCEPT ![s] = x]
        /\ x.at = "look" /\ x.since = sync[s].since
        /\ \/ x.todo = Mailbox!NewestFirst(sync[s].since) /\ x.listed = arrived
           \/ x.todo = sync[s].todo /\ x.listed = sync[s].since
  <2>1. ASSUME sync' = [sync EXCEPT ![s].at = "look", ![s].todo = Mailbox!NewestFirst(sync[s].since),
                                    ![s].listed = arrived]
        PROVE  \E x \in SyncRecord :
                 /\ sync' = [sync EXCEPT ![s] = x] /\ x.at = "look" /\ x.since = sync[s].since
                 /\ x.todo = Mailbox!NewestFirst(sync[s].since) /\ x.listed = arrived
    <3> DEFINE x == [sync[s] EXCEPT !.at = "look", !.todo = Mailbox!NewestFirst(sync[s].since),
                                    !.listed = arrived]
    <3>1. Mailbox!NewestFirst(sync[s].since) \in Seq(Mailbox!Mails)
      BY <1>0, PageIsListed
    <3>2. x \in SyncRecord /\ x.at = "look" /\ x.since = sync[s].since
          /\ x.todo = Mailbox!NewestFirst(sync[s].since) /\ x.listed = arrived
      BY <1>0, <3>1 DEF SyncRecord
    <3>3. sync' = [sync EXCEPT ![s] = x]
      BY <1>0, <2>1 DEF MailTypes
    <3> QED
      BY <3>2, <3>3
  <2>2. ASSUME sync' = [sync EXCEPT ![s].at = "look", ![s].listed = sync[s].since]
        PROVE  \E x \in SyncRecord :
                 /\ sync' = [sync EXCEPT ![s] = x] /\ x.at = "look" /\ x.since = sync[s].since
                 /\ x.todo = sync[s].todo /\ x.listed = sync[s].since
    <3> DEFINE x == [sync[s] EXCEPT !.at = "look", !.listed = sync[s].since]
    <3>1. x \in SyncRecord /\ x.at = "look" /\ x.since = sync[s].since
          /\ x.todo = sync[s].todo /\ x.listed = sync[s].since
      BY <1>0 DEF SyncRecord
    <3>2. sync' = [sync EXCEPT ![s] = x]
      BY <1>0, <2>2 DEF MailTypes
    <3> QED
      BY <3>1, <3>2
  <2> QED
    BY <2>1, <2>2
<1> HIDE DEF Mailbox!List
<1>3. /\ sync' \in [Mailbox!Syncs -> SyncRecord] /\ sync'[s] = x
      /\ \A r \in Mailbox!Syncs \ {s} : sync'[r] = sync[r]
  BY <1>0, <1>2, SyncMoves
<1>4. MailTypes'
  <2>1. Len(x.todo) <= PageSize
    BY <1>0, <1>2, PageIsListed DEF MailTypes
  <2>2. x.listed <= arrived /\ x.since <= lastSyncAt
    BY <1>0, <1>2 DEF MailTypes
  <2> QED
    BY <1>0, <1>1, <1>2, <1>3, <2>1, <2>2, TypesStay DEF MailTypes
<1>5. ListIsWorkedOff' /\ Mailbox!NothingUnread'
  <2>1. ASSUME NEW m \in Mailbox!Mails, x.since < m, m <= x.listed, x.listed - PageSize < m
        PROVE  \E i \in 1..Len(x.todo) : x.todo[i] = m
    <3>1. x.listed = arrived /\ x.todo = Mailbox!NewestFirst(sync[s].since)
      BY <1>0, <1>2, <2>1 DEF Mailbox!Mails
    <3>2. sync[s].since < m /\ m <= arrived /\ arrived - PageSize < m
      BY <1>2, <2>1, <3>1
    <3>3. \E i \in 1..Len(Mailbox!NewestFirst(sync[s].since)) :
            Mailbox!NewestFirst(sync[s].since)[i] = m
      BY <1>0, <3>2, PageIsListed
    <3> QED
      BY <3>1, <3>3
  <2>2. ListIsWorkedOff'
    <3> SUFFICES ASSUME NEW r \in Mailbox!Syncs,
                        sync'[r].at \in {"look", "fetch", "create", "status", "entry"},
                        NEW m \in Mailbox!Mails, sync'[r].since < m, m <= sync'[r].listed,
                        sync'[r].listed - PageSize < m
                 PROVE  \/ tracked[m] # None \/ m \in unread
                        \/ \E i \in 1..Len(sync'[r].todo) : sync'[r].todo[i] = m
      BY <1>1 DEF ListIsWorkedOff
    <3>1. CASE r = s
      BY <1>3, <2>1, <3>1
    <3>2. CASE r # s
      <4>1. sync'[r] = sync[r]
        BY <1>3, <3>2
      <4> QED
        BY <4>1 DEF MailInv, ListIsWorkedOff
    <3> QED
      BY <3>1, <3>2
  <2>3. Mailbox!NothingUnread'
    BY <1>1 DEF MailInv, Mailbox!NothingUnread
  <2> QED
    BY <2>2, <2>3
<1>6. RowsAreOwned' /\ Mailbox!OneEntryPerAssessment'
  BY <1>0, <1>1, <1>2, <1>3, RowsStay
<1>7. ~crossed' => StatusIsCurrent'
  BY <1>0, <1>1, <1>2, <1>3, StatusStays
<1> QED
  BY <1>4, <1>5, <1>6, <1>7 DEF MailInv

LEMMA InHand ==
  ASSUME MailTypes, NEW s \in Mailbox!Syncs, sync[s].todo # <<>>
  PROVE  Mailbox!Mail(s) \in Mailbox!Mails
  BY DEF MailTypes, SyncRecord, Mailbox!Mail

\* The next mail is taken up: what it leaves of the types and of the list.
LEMMA GoOnKeeps ==
  ASSUME MailParameters, MailInv, NEW s \in Mailbox!Syncs, sync[s].todo # <<>>,
         sync[s].at \in {"look", "fetch", "create", "status", "entry"}, Mailbox!GoOn(s),
         UNCHANGED <<arrived, lastSyncAt, crossed>>,
         tracked' \in [Mailbox!Mails -> Mailbox!Classes \union {None}], status' \in Statuses,
         entries' \in [Mailbox!Mails -> 0..1], unread' \subseteq Mailbox!Mails,
         broken' \subseteq Mailbox!Mails, unread \subseteq unread',
         \A m \in Mailbox!Mails : tracked[m] # None => tracked'[m] # None,
         tracked'[Mailbox!Mail(s)] # None \/ Mailbox!Mail(s) \in unread'
  PROVE  /\ MailTypes' /\ ListIsWorkedOff' /\ Mailbox!NothingUnread'
         /\ sync'[s].at = "look" /\ \A r \in Mailbox!Syncs \ {s} : sync'[r] = sync[r]
<1>0. MailTypes /\ sync[s].since <= lastSyncAt /\ sync[s].listed <= arrived
      /\ Len(sync[s].todo) <= PageSize /\ crossed \in BOOLEAN /\ sync[s] \in SyncRecord
  BY DEF MailInv, MailTypes
<1>1. /\ sync' \in [Mailbox!Syncs -> SyncRecord]
      /\ \A r \in Mailbox!Syncs \ {s} : sync'[r] = sync[r]
      /\ sync'[s].at = "look" /\ sync'[s].since = sync[s].since
      /\ sync'[s].listed = sync[s].listed /\ Len(sync'[s].todo) <= Len(sync[s].todo)
      /\ \A m \in Mailbox!Mails : (\E i \in 1..Len(sync[s].todo) : sync[s].todo[i] = m) =>
           \/ m = Mailbox!Mail(s)
           \/ \E i \in 1..Len(sync'[s].todo) : sync'[s].todo[i] = m
  BY <1>0, GoOnMoves
<1>2. Len(sync'[s].todo) <= PageSize
  <2>1. Len(sync'[s].todo) \in Nat /\ Len(sync[s].todo) \in Nat /\ PageSize \in Nat
    BY <1>0, <1>1 DEF SyncRecord, MailParameters
  <2> QED
    BY <1>0, <1>1, <2>1
<1>3. MailTypes'
  BY <1>0, <1>1, <1>2, TypesStay
<1>4. \A m \in Mailbox!Mails : (\E i \in 1..Len(sync[s].todo) : sync[s].todo[i] = m) =>
        \/ tracked'[m] # None \/ m \in unread'
        \/ \E i \in 1..Len(sync'[s].todo) : sync'[s].todo[i] = m
  BY <1>1
<1>5. ListIsWorkedOff' /\ Mailbox!NothingUnread'
  BY <1>1, <1>4, ListStays
<1> QED
  BY <1>1, <1>3, <1>5

LEMMA LookKeeps ==
  ASSUME MailParameters, MailInv, NEW s \in Mailbox!Syncs, Mailbox!Look(s) PROVE MailInv'
<1> USE DEF Mailbox!Look
<1>0. /\ MailTypes /\ sync[s] \in SyncRecord /\ sync[s].at = "look" /\ sync[s].todo # <<>>
      /\ UNCHANGED <<arrived, lastSyncAt, tracked, status, entries, unread, broken, crossed>>
      /\ Mailbox!Mail(s) \in Mailbox!Mails
  BY InHand DEF MailInv, MailTypes
<1>1. CASE tracked[Mailbox!Mail(s)] # None /\ Mailbox!GoOn(s)
  <2>1. /\ MailTypes' /\ ListIsWorkedOff' /\ Mailbox!NothingUnread'
        /\ sync'[s].at = "look" /\ \A r \in Mailbox!Syncs \ {s} : sync'[r] = sync[r]
    BY <1>0, <1>1, GoOnKeeps DEF MailTypes
  <2>2. RowsAreOwned' /\ Mailbox!OneEntryPerAssessment'
    BY <1>0, <2>1, RowsStay
  <2>3. ~crossed' => StatusIsCurrent'
    BY <1>0, <2>1, StatusStays
  <2> QED
    BY <2>1, <2>2, <2>3 DEF MailInv
<1>2. CASE sync' = [sync EXCEPT ![s].at = "fetch"]
  <2> DEFINE x == [sync[s] EXCEPT !.at = "fetch"]
  <2>1. x \in SyncRecord /\ x.at = "fetch" /\ x.since = sync[s].since /\ x.listed = sync[s].listed
        /\ x.todo = sync[s].todo
    BY <1>0 DEF SyncRecord
  <2>2. sync' = [sync EXCEPT ![s] = x]
    BY <1>2 DEF MailTypes
  <2> HIDE DEF x
  <2>3. /\ sync' \in [Mailbox!Syncs -> SyncRecord] /\ sync'[s] = x
        /\ \A r \in Mailbox!Syncs \ {s} : sync'[r] = sync[r]
    BY <1>0, <2>1, <2>2, SyncMoves
  <2>4. MailTypes'
    BY <1>0, <2>1, <2>3, TypesStay DEF MailTypes
  <2>5. ListIsWorkedOff' /\ Mailbox!NothingUnread'
    BY <1>0, <2>1, <2>3, ListStays
  <2>6. RowsAreOwned' /\ Mailbox!OneEntryPerAssessment'
    BY <1>0, <2>1, <2>3, RowsStay
  <2>7. ~crossed' => StatusIsCurrent'
    BY <1>0, <2>1, <2>3, StatusStays
  <2> QED
    BY <2>4, <2>5, <2>6, <2>7 DEF MailInv
<1> QED
  BY <1>1, <1>2

LEMMA ClassifyKeeps ==
  ASSUME MailParameters, MailInv, NEW s \in Mailbox!Syncs, Mailbox!Classify(s) PROVE MailInv'
<1>0. /\ MailTypes /\ sync[s] \in SyncRecord /\ sync[s].at = "fetch" /\ sync[s].todo # <<>>
      /\ UNCHANGED <<arrived, lastSyncAt, tracked, status, entries, unread, broken, crossed>>
  BY DEF MailInv, MailTypes, Mailbox!Classify
<1>1. PICK class \in Mailbox!Classes, apply \in Statuses \union {None} :
        /\ sync' = [sync EXCEPT ![s].at = "create", ![s].class = class, ![s].apply = apply]
        /\ \/ apply \in {None, "REJECTED", "CLOSED"}
           \/ Mailbox!Rank(apply) > Mailbox!Rank(status)
  <2>1. PICK class \in Mailbox!Classes :
          \E apply \in IF class = "alert" THEN {None} ELSE Mailbox!StatusApplied(class) :
            sync' = [sync EXCEPT ![s].at = "create", ![s].class = class, ![s].apply = apply]
    BY DEF Mailbox!Classify
  <2>2. PICK apply \in IF class = "alert" THEN {None} ELSE Mailbox!StatusApplied(class) :
          sync' = [sync EXCEPT ![s].at = "create", ![s].class = class, ![s].apply = apply]
    BY <2>1
  <2>3. \A c : Mailbox!Target(c) \in Statuses
    BY DEF Mailbox!Target, Statuses
  <2>4. Mailbox!Ends = {"REJECTED", "CLOSED"}
    BY DEF Mailbox!Ends
  <2>5. apply \in Statuses \union {None}
        /\ (apply \in {None, "REJECTED", "CLOSED"} \/ Mailbox!Rank(apply) > Mailbox!Rank(status))
    <3> HIDE DEF Mailbox!Classify
    <3>1. CASE apply = None
      BY <3>1
    <3>2. CASE apply # None
      <4>1. class # "alert" /\ apply = Mailbox!Target(class)
            /\ (Mailbox!Target(class) \in Mailbox!Ends \/ Mailbox!Rank(Mailbox!Target(class)) > Mailbox!Rank(status))
        BY <3>2 DEF Mailbox!StatusApplied
      <4>2. CASE Mailbox!Target(class) \in Mailbox!Ends
        BY <2>3, <2>4, <4>1, <4>2
      <4>3. CASE Mailbox!Rank(Mailbox!Target(class)) > Mailbox!Rank(status)
        BY <2>3, <4>1, <4>3
      <4> QED
        BY <4>1, <4>2, <4>3
    <3> QED
      BY <3>1, <3>2
  <2> QED
    BY <2>2, <2>5
<1> DEFINE x == [sync[s] EXCEPT !.at = "create", !.class = class, !.apply = apply]
<1>2. x \in SyncRecord /\ x.at = "create" /\ x.since = sync[s].since /\ x.listed = sync[s].listed
      /\ x.todo = sync[s].todo /\ x.apply = apply /\ x.class # None
  BY <1>0 DEF SyncRecord, MailParameters
<1>3. sync' = [sync EXCEPT ![s] = x]
  BY <1>0, <1>1 DEF MailTypes
<1> HIDE DEF x
<1>4. /\ sync' \in [Mailbox!Syncs -> SyncRecord] /\ sync'[s] = x
      /\ \A r \in Mailbox!Syncs \ {s} : sync'[r] = sync[r]
  BY <1>0, <1>2, <1>3, SyncMoves
<1>5. MailTypes'
  BY <1>0, <1>2, <1>4, TypesStay DEF MailTypes
<1>6. ListIsWorkedOff' /\ Mailbox!NothingUnread'
  BY <1>0, <1>2, <1>4, ListStays
<1>7. RowsAreOwned' /\ Mailbox!OneEntryPerAssessment'
  BY <1>0, <1>2, <1>4, RowsStay
<1>8. ~crossed' => StatusIsCurrent'
  <2> SUFFICES ASSUME ~crossed PROVE StatusIsCurrent'
    BY <1>0
  <2>1. StatusIsCurrent
    BY DEF MailInv
  <2>2. \A r \in Mailbox!Syncs : sync'[r].at \notin {"new", "done"} => sync[r].at \notin {"new", "done"}
    BY <1>0, <1>4
  <2>3. \A r \in Mailbox!Syncs : sync'[r].at \in {"create", "status"} =>
          \/ sync'[r].apply \in {None, "REJECTED", "CLOSED"}
          \/ Mailbox!Rank(sync'[r].apply) > Mailbox!Rank(status)
    <3> SUFFICES ASSUME NEW r \in Mailbox!Syncs, sync'[r].at \in {"create", "status"}
                 PROVE  \/ sync'[r].apply \in {None, "REJECTED", "CLOSED"}
                        \/ Mailbox!Rank(sync'[r].apply) > Mailbox!Rank(status)
      OBVIOUS
    <3>1. CASE r = s
      BY <1>1, <1>2, <1>4, <3>1
    <3>2. CASE r # s
      <4>1. sync'[r] = sync[r]
        BY <1>4, <3>2
      <4> QED
        BY <2>1, <4>1 DEF StatusIsCurrent
    <3> QED
      BY <3>1, <3>2
  <2> QED
    BY <1>0, <2>1, <2>2, <2>3 DEF StatusIsCurrent, Mailbox!Working, Mailbox!Rank
<1> QED
  BY <1>5, <1>6, <1>7, <1>8 DEF MailInv

LEMMA CreateKeeps ==
  ASSUME MailParameters, MailInv, NEW s \in Mailbox!Syncs, Mailbox!Create(s) PROVE MailInv'
<1>0. /\ MailTypes /\ sync[s] \in SyncRecord /\ sync[s].at = "create" /\ sync[s].todo # <<>>
      /\ UNCHANGED <<arrived, lastSyncAt, status, entries, unread, broken, crossed>>
      /\ Mailbox!Mail(s) \in Mailbox!Mails
  BY InHand DEF MailInv, MailTypes, Mailbox!Create
<1>1. CASE tracked[Mailbox!Mail(s)] # None /\ Mailbox!GoOn(s) /\ UNCHANGED tracked
  <2>1. /\ MailTypes' /\ ListIsWorkedOff' /\ Mailbox!NothingUnread'
        /\ sync'[s].at = "look" /\ \A r \in Mailbox!Syncs \ {s} : sync'[r] = sync[r]
    BY <1>0, <1>1, GoOnKeeps DEF MailTypes
  <2>2. RowsAreOwned' /\ Mailbox!OneEntryPerAssessment'
    BY <1>0, <1>1, <2>1, RowsStay
  <2>3. ~crossed' => StatusIsCurrent'
    BY <1>0, <2>1, StatusStays
  <2> QED
    BY <2>1, <2>2, <2>3 DEF MailInv
<1>2. CASE /\ tracked[Mailbox!Mail(s)] = None
           /\ tracked' = [tracked EXCEPT ![Mailbox!Mail(s)] = sync[s].class]
           /\ IF sync[s].class = "alert" THEN Mailbox!GoOn(s)
                                         ELSE sync' = [sync EXCEPT ![s].at = "status"]
  <2> DEFINE mail == Mailbox!Mail(s)
             class == sync[s].class
  <2>1. class \in Mailbox!Classes \union {None}
    BY <1>0 DEF SyncRecord
  <2>2. class # None
    BY <1>0 DEF MailTypes
  <2>3. tracked' \in [Mailbox!Mails -> Mailbox!Classes \union {None}] /\ tracked'[mail] = class
        /\ \A m \in Mailbox!Mails \ {mail} : tracked'[m] = tracked[m]
    BY <1>0, <1>2, <2>1 DEF MailTypes
  <2> HIDE DEF mail, class
  <2>4. /\ MailTypes' /\ ListIsWorkedOff' /\ Mailbox!NothingUnread' /\ (~crossed' => StatusIsCurrent')
        /\ \A r \in Mailbox!Syncs \ {s} : sync'[r] = sync[r]
        /\ IF class = "alert" THEN sync'[s].at = "look"
           ELSE sync'[s].at = "status" /\ sync'[s].todo = sync[s].todo /\ sync'[s].class = class
    <3>1. CASE class = "alert"
      <4>1. /\ MailTypes' /\ ListIsWorkedOff' /\ Mailbox!NothingUnread'
            /\ sync'[s].at = "look" /\ \A r \in Mailbox!Syncs \ {s} : sync'[r] = sync[r]
        BY <1>0, <1>2, <2>2, <2>3, <3>1, GoOnKeeps DEF MailTypes, mail, class
      <4>2. ~crossed' => StatusIsCurrent'
        BY <1>0, <4>1, StatusStays
      <4> QED
        BY <3>1, <4>1, <4>2
    <3>2. CASE class # "alert"
      <4> DEFINE x == [sync[s] EXCEPT !.at = "status"]
      <4>1. x \in SyncRecord /\ x.at = "status" /\ x.since = sync[s].since
            /\ x.listed = sync[s].listed /\ x.todo = sync[s].todo /\ x.apply = sync[s].apply
            /\ x.class = class
        BY <1>0 DEF SyncRecord, class
      <4>2. sync' = [sync EXCEPT ![s] = x]
        BY <1>0, <1>2, <3>2 DEF MailTypes, class
      <4> HIDE DEF x
      <4>3. /\ sync' \in [Mailbox!Syncs -> SyncRecord] /\ sync'[s] = x
            /\ \A r \in Mailbox!Syncs \ {s} : sync'[r] = sync[r]
        BY <1>0, <4>1, <4>2, SyncMoves
      <4>4. MailTypes'
        BY <1>0, <2>3, <4>1, <4>3, TypesStay DEF MailTypes
      <4>5. ListIsWorkedOff' /\ Mailbox!NothingUnread'
        BY <1>0, <1>2, <2>2, <2>3, <4>1, <4>3, ListStays DEF mail
      <4>6. ~crossed' => StatusIsCurrent'
        BY <1>0, <4>1, <4>3, StatusStays
      <4> QED
        BY <3>2, <4>1, <4>3, <4>4, <4>5, <4>6
    <3> QED
      BY <3>1, <3>2
  <2>5. RowsAreOwned /\ Mailbox!OneEntryPerAssessment
    BY DEF MailInv
  <2>6. \A r \in Mailbox!Syncs \ {s} : sync[r].at \in {"status", "entry"} =>
          sync[r].todo # <<>> /\ Head(sync[r].todo) # mail /\ Head(sync[r].todo) \in Mailbox!Mails
    <3> SUFFICES ASSUME NEW r \in Mailbox!Syncs \ {s}, sync[r].at \in {"status", "entry"}
                 PROVE  sync[r].todo # <<>> /\ Head(sync[r].todo) # mail
                        /\ Head(sync[r].todo) \in Mailbox!Mails
      OBVIOUS
    <3>1. tracked[Head(sync[r].todo)] # None
      BY <2>5 DEF RowsAreOwned, Mailbox!Tracking, Mailbox!Mail
    <3>2. sync[r].todo # <<>>
      BY <1>0 DEF MailTypes
    <3>3. Head(sync[r].todo) \in Mailbox!Mails
      BY <1>0, <3>2, InHand DEF Mailbox!Mail
    <3> QED
      BY <1>2, <3>1, <3>2, <3>3 DEF mail
  <2>7. entries[mail] = 0
    BY <1>0, <1>2, <2>5 DEF RowsAreOwned, mail
  <2>8. \A m \in Mailbox!Mails : tracked'[m] = None => entries[m] = 0
    BY <2>2, <2>3, <2>5 DEF RowsAreOwned
  <2>9. ASSUME NEW r \in Mailbox!Syncs, sync'[r].at \in {"status", "entry"}
        PROVE  /\ tracked'[Head(sync'[r].todo)] = sync'[r].class /\ sync'[r].class # None
               /\ entries[Head(sync'[r].todo)] = 0
    <3>1. CASE r = s
      <4>1. sync'[s].todo = sync[s].todo /\ sync'[s].class = class
        BY <2>4, <2>9, <3>1
      <4> QED
        BY <2>2, <2>3, <2>7, <3>1, <4>1 DEF mail, Mailbox!Mail
    <3>2. CASE r # s
      <4>1. sync'[r] = sync[r]
        BY <2>4, <3>2
      <4>2. /\ tracked[Head(sync[r].todo)] = sync[r].class /\ sync[r].class # None
            /\ entries[Head(sync[r].todo)] = 0
        BY <2>5, <2>9, <4>1 DEF RowsAreOwned, Mailbox!Tracking, Mailbox!Mail
      <4> QED
        BY <2>3, <2>6, <2>9, <3>2, <4>1, <4>2
    <3> QED
      BY <3>1, <3>2
  <2>10. ASSUME NEW q \in Mailbox!Syncs, NEW r \in Mailbox!Syncs,
                sync'[q].at \in {"status", "entry"}, sync'[r].at \in {"status", "entry"},
                Head(sync'[q].todo) = Head(sync'[r].todo)
         PROVE  q = r
    <3>1. \A p \in Mailbox!Syncs : p # s => sync'[p] = sync[p]
      BY <2>4
    <3>2. sync'[s].at \in {"status", "entry"} => Head(sync'[s].todo) = mail
      BY <2>4 DEF mail, Mailbox!Mail
    <3>3. CASE q # s /\ r # s
      BY <2>5, <2>10, <3>1, <3>3 DEF RowsAreOwned, Mailbox!Tracking, Mailbox!Mail
    <3>4. CASE q = s /\ r # s
      BY <2>6, <2>10, <3>1, <3>2, <3>4
    <3>5. CASE q # s /\ r = s
      BY <2>6, <2>10, <3>1, <3>2, <3>5
    <3> QED
      BY <3>3, <3>4, <3>5
  <2>11. RowsAreOwned'
    BY <1>0, <2>8, <2>9, <2>10 DEF RowsAreOwned, Mailbox!Tracking, Mailbox!Mail, Mailbox!Mails
  <2>12. ASSUME NEW m \in Mailbox!Mails, tracked'[m] = "assessment", m \notin broken
         PROVE  \/ entries[m] = 1
                \/ \E r \in Mailbox!Syncs : sync'[r].at \in {"status", "entry"} /\ Head(sync'[r].todo) = m
    <3>1. CASE m = mail
      <4>1. class = "assessment"
        BY <2>3, <2>12, <3>1
      <4>2. sync'[s].at = "status" /\ Head(sync'[s].todo) = m
        BY <2>4, <3>1, <4>1 DEF mail, Mailbox!Mail
      <4> QED
        BY <4>2
    <3>2. CASE m # mail
      <4>1. \/ entries[m] = 1
            \/ \E r \in Mailbox!Syncs : sync[r].at \in {"status", "entry"} /\ Head(sync[r].todo) = m
        BY <2>3, <2>5, <2>12, <3>2 DEF Mailbox!OneEntryPerAssessment, Mailbox!Tracking, Mailbox!Mail
      <4> QED
        BY <1>0, <2>4, <4>1
    <3> QED
      BY <3>1, <3>2
  <2>13. Mailbox!OneEntryPerAssessment'
    BY <1>0, <2>5, <2>12 DEF Mailbox!OneEntryPerAssessment, Mailbox!Tracking, Mailbox!Mail, Mailbox!Mails
  <2> QED
    BY <2>4, <2>11, <2>13 DEF MailInv
<1> QED
  BY <1>1, <1>2 DEF Mailbox!Create

LEMMA ApplyStatusKeeps ==
  ASSUME MailParameters, MailInv, NEW s \in Mailbox!Syncs, Mailbox!ApplyStatus(s) PROVE MailInv'
<1>0. /\ MailTypes /\ sync[s] \in SyncRecord /\ sync[s].at = "status" /\ sync[s].todo # <<>>
      /\ UNCHANGED <<arrived, lastSyncAt, tracked, entries, unread, broken, crossed>>
      /\ Mailbox!Mail(s) \in Mailbox!Mails
      /\ tracked[Mailbox!Mail(s)] = sync[s].class /\ sync[s].class # None
  BY InHand DEF MailInv, MailTypes, Mailbox!ApplyStatus, RowsAreOwned, Mailbox!Tracking
<1>1. status' \in Statuses
  BY <1>0 DEF Mailbox!ApplyStatus, SyncRecord, MailTypes
<1>2. /\ MailTypes' /\ ListIsWorkedOff' /\ Mailbox!NothingUnread'
      /\ \A r \in Mailbox!Syncs \ {s} : sync'[r] = sync[r]
      /\ \/ sync'[s].at = "look" /\ sync[s].class # "assessment"
         \/ sync'[s].at = "entry" /\ sync'[s].todo = sync[s].todo /\ sync'[s].class = sync[s].class
  <2>1. CASE sync[s].class = "assessment"
    <3> DEFINE x == [sync[s] EXCEPT !.at = "entry"]
    <3>1. x \in SyncRecord /\ x.at = "entry" /\ x.since = sync[s].since /\ x.listed = sync[s].listed
          /\ x.todo = sync[s].todo /\ x.class = sync[s].class
      BY <1>0 DEF SyncRecord
    <3>2. sync' = [sync EXCEPT ![s] = x]
      BY <1>0, <2>1 DEF MailTypes, Mailbox!ApplyStatus
    <3> HIDE DEF x
    <3>3. /\ sync' \in [Mailbox!Syncs -> SyncRecord] /\ sync'[s] = x
          /\ \A r \in Mailbox!Syncs \ {s} : sync'[r] = sync[r]
      BY <1>0, <3>1, <3>2, SyncMoves
    <3>4. MailTypes'
      BY <1>0, <1>1, <3>1, <3>3, TypesStay DEF MailTypes
    <3>5. ListIsWorkedOff' /\ Mailbox!NothingUnread'
      BY <1>0, <3>1, <3>3, ListStays
    <3> QED
      BY <3>1, <3>3, <3>4, <3>5
  <2>2. CASE sync[s].class # "assessment"
    <3>1. Mailbox!GoOn(s)
      BY <2>2 DEF Mailbox!ApplyStatus
    <3>2. /\ MailTypes' /\ ListIsWorkedOff' /\ Mailbox!NothingUnread'
          /\ sync'[s].at = "look" /\ \A r \in Mailbox!Syncs \ {s} : sync'[r] = sync[r]
      BY <1>0, <1>1, <3>1, GoOnKeeps DEF MailTypes
    <3> QED
      BY <2>2, <3>2
  <2> QED
    BY <2>1, <2>2
<1>3. RowsAreOwned' /\ Mailbox!OneEntryPerAssessment'
  BY <1>0, <1>2, RowsStay
<1>4. ~crossed' => StatusIsCurrent'
  <2> SUFFICES ASSUME ~crossed PROVE StatusIsCurrent'
    BY <1>0
  <2>1. \A q, r \in Mailbox!Syncs :
          sync[q].at \notin {"new", "done"} /\ sync[r].at \notin {"new", "done"} => q = r
    BY DEF MailInv, StatusIsCurrent, Mailbox!Working
  <2>2. \A r \in Mailbox!Syncs : sync'[r].at \notin {"new", "done"} => r = s
    BY <1>0, <1>2, <2>1
  <2> QED
    BY <1>2, <2>2 DEF StatusIsCurrent, Mailbox!Working
<1> QED
  BY <1>2, <1>3, <1>4 DEF MailInv

LEMMA AddEntryKeeps ==
  ASSUME MailParameters, MailInv, NEW s \in Mailbox!Syncs, Mailbox!AddEntry(s) PROVE MailInv'
<1> DEFINE mail == Mailbox!Mail(s)
<1>0. /\ MailTypes /\ sync[s].at = "entry" /\ sync[s].todo # <<>> /\ Mailbox!GoOn(s)
      /\ UNCHANGED <<arrived, lastSyncAt, tracked, status, unread, broken, crossed>>
      /\ mail \in Mailbox!Mails /\ mail = Head(sync[s].todo)
      /\ tracked[mail] # None /\ entries[mail] = 0
  BY InHand DEF MailInv, MailTypes, Mailbox!AddEntry, RowsAreOwned, Mailbox!Tracking, Mailbox!Mail
<1>1. /\ entries' \in [Mailbox!Mails -> 0..1] /\ entries'[mail] = 1
      /\ \A m \in Mailbox!Mails \ {mail} : entries'[m] = entries[m]
  <2>1. entries' = [entries EXCEPT ![mail] = 1]
    BY <1>0 DEF Mailbox!AddEntry, MailTypes
  <2> QED
    BY <1>0, <2>1 DEF MailTypes
<1> HIDE DEF mail
<1>2. /\ MailTypes' /\ ListIsWorkedOff' /\ Mailbox!NothingUnread'
      /\ sync'[s].at = "look" /\ \A r \in Mailbox!Syncs \ {s} : sync'[r] = sync[r]
  BY <1>0, <1>1, GoOnKeeps DEF MailTypes, mail
<1>3. RowsAreOwned /\ Mailbox!OneEntryPerAssessment
  BY DEF MailInv
<1>4. \A r \in Mailbox!Syncs : sync'[r].at \in {"status", "entry"} =>
        /\ r # s /\ sync'[r] = sync[r] /\ Head(sync[r].todo) # mail
        /\ Head(sync[r].todo) \in Mailbox!Mails
  <2> SUFFICES ASSUME NEW r \in Mailbox!Syncs, sync'[r].at \in {"status", "entry"}
               PROVE  /\ r # s /\ sync'[r] = sync[r] /\ Head(sync[r].todo) # mail
                      /\ Head(sync[r].todo) \in Mailbox!Mails
    OBVIOUS
  <2>1. r # s /\ sync'[r] = sync[r]
    BY <1>2
  <2>2. Head(sync[r].todo) # mail
    BY <1>0, <1>3, <2>1 DEF RowsAreOwned, Mailbox!Tracking, Mailbox!Mail
  <2>3. Head(sync[r].todo) \in Mailbox!Mails
    BY <1>0, <2>1, InHand DEF MailTypes, Mailbox!Mail
  <2> QED
    BY <2>1, <2>2, <2>3
<1>5. RowsAreOwned'
  <2>1. \A m \in Mailbox!Mails : tracked[m] = None => entries'[m] = 0
    BY <1>0, <1>1, <1>3 DEF RowsAreOwned
  <2>2. \A r \in Mailbox!Syncs : sync'[r].at \in {"status", "entry"} =>
          /\ tracked[Head(sync'[r].todo)] = sync'[r].class /\ sync'[r].class # None
          /\ entries'[Head(sync'[r].todo)] = 0
    BY <1>1, <1>3, <1>4 DEF RowsAreOwned, Mailbox!Tracking, Mailbox!Mail
  <2>3. \A q, r \in Mailbox!Syncs :
          sync'[q].at \in {"status", "entry"} /\ sync'[r].at \in {"status", "entry"}
            /\ Head(sync'[q].todo) = Head(sync'[r].todo) => q = r
    BY <1>3, <1>4 DEF RowsAreOwned, Mailbox!Tracking, Mailbox!Mail
  <2> QED
    BY <1>0, <2>1, <2>2, <2>3 DEF RowsAreOwned, Mailbox!Tracking, Mailbox!Mail, Mailbox!Mails
<1>6. Mailbox!OneEntryPerAssessment'
  <2>1. ASSUME NEW m \in Mailbox!Mails, tracked[m] = "assessment", m \notin broken
        PROVE  \/ entries'[m] = 1
               \/ \E r \in Mailbox!Syncs : sync'[r].at \in {"status", "entry"} /\ Head(sync'[r].todo) = m
    <3>1. CASE m = mail
      BY <1>1, <3>1
    <3>2. CASE m # mail
      <4>1. \/ entries[m] = 1
            \/ \E r \in Mailbox!Syncs : sync[r].at \in {"status", "entry"} /\ Head(sync[r].todo) = m
        BY <1>3, <2>1 DEF Mailbox!OneEntryPerAssessment, Mailbox!Tracking, Mailbox!Mail
      <4> QED
        BY <1>0, <1>1, <1>2, <3>2, <4>1
    <3> QED
      BY <3>1, <3>2
  <2>2. \A m \in Mailbox!Mails : entries'[m] <= 1
    BY <1>1
  <2> QED
    BY <1>0, <2>1, <2>2 DEF Mailbox!OneEntryPerAssessment, Mailbox!Tracking, Mailbox!Mail, Mailbox!Mails
<1>7. ~crossed' => StatusIsCurrent'
  <2> SUFFICES ASSUME ~crossed PROVE StatusIsCurrent'
    BY <1>0
  <2>1. StatusIsCurrent
    BY DEF MailInv
  <2>2. \A r \in Mailbox!Syncs : sync'[r].at \notin {"new", "done"} => sync[r].at \notin {"new", "done"}
    BY <1>0, <1>2
  <2>3. \A r \in Mailbox!Syncs : sync'[r].at \in {"create", "status"} => sync'[r] = sync[r]
    BY <1>2
  <2> QED
    BY <1>0, <2>1, <2>2, <2>3 DEF StatusIsCurrent, Mailbox!Working, Mailbox!Rank
<1> QED
  BY <1>2, <1>5, <1>6, <1>7 DEF MailInv

LEMMA FailedMailKeeps ==
  ASSUME MailParameters, MailInv, NEW s \in Mailbox!Syncs, Mailbox!Fail(s) PROVE MailInv'
<1>0. /\ MailTypes /\ sync[s].at \in {"fetch", "create", "status", "entry"} /\ sync[s].todo # <<>>
      /\ Mailbox!GoOn(s) /\ Mailbox!Mail(s) \in Mailbox!Mails
      /\ UNCHANGED <<arrived, lastSyncAt, tracked, status, entries, crossed>>
  BY InHand DEF MailInv, MailTypes, Mailbox!Fail
<1>1. /\ unread \subseteq unread' /\ unread' \subseteq Mailbox!Mails
      /\ broken \subseteq broken' /\ broken' \subseteq Mailbox!Mails
      /\ IF sync[s].at \in {"status", "entry"} THEN Mailbox!Mail(s) \in broken'
                                               ELSE Mailbox!Mail(s) \in unread'
  BY <1>0 DEF MailTypes, Mailbox!Fail, Mailbox!Tracking
<1>2. tracked[Mailbox!Mail(s)] # None \/ Mailbox!Mail(s) \in unread'
  BY <1>0, <1>1 DEF MailInv, RowsAreOwned, Mailbox!Tracking
<1>3. /\ MailTypes' /\ ListIsWorkedOff' /\ Mailbox!NothingUnread'
      /\ sync'[s].at = "look" /\ \A r \in Mailbox!Syncs \ {s} : sync'[r] = sync[r]
  BY <1>0, <1>1, <1>2, GoOnKeeps DEF MailTypes
<1>4. RowsAreOwned' /\ Mailbox!OneEntryPerAssessment'
  BY <1>0, <1>1, <1>3, RowsStay
<1>5. ~crossed' => StatusIsCurrent'
  BY <1>0, <1>3, StatusStays
<1> QED
  BY <1>3, <1>4, <1>5 DEF MailInv

LEMMA DoneTyped ==
  /\ Mailbox!Done \in SyncRecord /\ Mailbox!Done.at = "done" /\ Mailbox!Done.since = 0
  /\ Mailbox!Done.listed = 0 /\ Mailbox!Done.todo = <<>> /\ Len(Mailbox!Done.todo) = 0
<1>1. Mailbox!Waiting \in SyncRecord
  BY DEF Mailbox!Waiting, SyncRecord, Statuses
<1>2. Mailbox!Done = [Mailbox!Waiting EXCEPT !.at = "done"]
  BY DEF Mailbox!Done
<1>3. Mailbox!Done \in SyncRecord
  BY <1>1, <1>2 DEF SyncRecord
<1>4. Mailbox!Done.at = "done" /\ Mailbox!Done.since = 0 /\ Mailbox!Done.listed = 0
      /\ Mailbox!Done.todo = <<>>
  BY <1>2 DEF Mailbox!Waiting
<1> QED
  BY <1>3, <1>4

LEMMA FinishOfSyncKeeps ==
  ASSUME MailParameters, MailInv, NEW s \in Mailbox!Syncs, Mailbox!Finish(s) PROVE MailInv'
<1> DEFINE passed == Mailbox!PassedOver(s)
<1>0. /\ MailTypes /\ sync[s].at = "look" /\ sync[s].todo = <<>>
      /\ lastSyncAt' = arrived /\ unread' = unread \union passed
      /\ sync' = [sync EXCEPT ![s] = Mailbox!Done]
      /\ UNCHANGED <<arrived, tracked, status, entries, broken, crossed>>
  BY DEF MailInv, Mailbox!Finish
<1>1. /\ arrived \in Nat /\ arrived <= MaxMails /\ lastSyncAt \in 0..arrived /\ MaxMails \in Nat
      /\ PageSize \in Nat /\ sync[s].since \in Nat /\ sync[s].listed \in Nat
      /\ sync[s].since <= lastSyncAt /\ sync[s].listed <= arrived
  BY <1>0 DEF MailTypes, MailParameters, SyncRecord
<1>2. Mailbox!Done \in SyncRecord /\ Mailbox!Done.at = "done"
  BY DoneTyped
<1>3. Mailbox!Done.since = 0 /\ Mailbox!Done.listed = 0 /\ Mailbox!Done.todo = <<>>
  BY DoneTyped
<1>4. /\ sync' \in [Mailbox!Syncs -> SyncRecord] /\ sync'[s] = Mailbox!Done
      /\ \A r \in Mailbox!Syncs \ {s} : sync'[r] = sync[r]
  BY <1>0, <1>2, SyncMoves
<1>5. passed \subseteq Mailbox!Mails
  BY <1>1 DEF Mailbox!PassedOver, Mailbox!Mails
<1>6. \A m \in 1..arrived : tracked[m] # None \/ m \in unread \/ m \in passed
  <2> SUFFICES ASSUME NEW m \in 1..arrived, m \notin passed
               PROVE  tracked[m] # None \/ m \in unread
    OBVIOUS
  <2>1. m \in Mailbox!Mails /\ m \in Nat
    BY <1>1 DEF Mailbox!Mails
  <2>2. m <= sync[s].listed
    BY <1>1 DEF Mailbox!PassedOver
  <2>3. CASE m <= sync[s].since
    BY <1>1, <2>3 DEF MailInv, Mailbox!NothingUnread
  <2>4. CASE sync[s].since < m
    <3>1. sync[s].listed - PageSize < m
      BY <1>1, <2>1, <2>4 DEF Mailbox!PassedOver
    <3>2. Len(sync[s].todo) = 0
      BY <1>0
    <3>3. \/ tracked[m] # None \/ m \in unread
          \/ \E i \in 1..Len(sync[s].todo) : sync[s].todo[i] = m
      BY <1>0, <2>1, <2>2, <2>4, <3>1 DEF MailInv, ListIsWorkedOff
    <3> QED
      BY <3>2, <3>3
  <2> QED
    BY <1>1, <2>1, <2>3, <2>4
<1> HIDE DEF passed
<1>7. MailTypes'
  <2>1. \A r \in Mailbox!Syncs :
          /\ sync'[r].since <= arrived /\ sync'[r].listed <= arrived
          /\ Len(sync'[r].todo) <= PageSize
          /\ sync'[r].at \in {"fetch", "create", "status", "entry"} => sync'[r].todo # <<>>
          /\ sync'[r].at = "create" => sync'[r].class # None
    <3> SUFFICES ASSUME NEW r \in Mailbox!Syncs
                 PROVE  /\ sync'[r].since <= arrived /\ sync'[r].listed <= arrived
                        /\ Len(sync'[r].todo) <= PageSize
                        /\ sync'[r].at \in {"fetch", "create", "status", "entry"} => sync'[r].todo # <<>>
                        /\ sync'[r].at = "create" => sync'[r].class # None
      OBVIOUS
    <3>1. CASE r = s
      <4>1. Len(<<>>) = 0
        OBVIOUS
      <4> QED
        BY <1>1, <1>2, <1>3, <1>4, <3>1, <4>1
    <3>2. CASE r # s
      <4>1. sync'[r] = sync[r] /\ sync[r].since \in Nat
        BY <1>0, <1>4, <3>2 DEF MailTypes, SyncRecord
      <4>2. sync[r].since <= lastSyncAt
        BY <1>0 DEF MailTypes
      <4>3. sync[r].since <= arrived
        BY <1>1, <4>1, <4>2
      <4> QED
        BY <1>0, <4>1, <4>3 DEF MailTypes
    <3> QED
      BY <3>1, <3>2
  <2>2. lastSyncAt' \in 0..arrived' /\ unread' \subseteq Mailbox!Mails
    BY <1>0, <1>1, <1>5 DEF MailTypes
  <2>3. /\ arrived \in 0..MaxMails /\ tracked \in [Mailbox!Mails -> Mailbox!Classes \union {None}]
        /\ status \in Statuses /\ entries \in [Mailbox!Mails -> 0..1]
        /\ broken \subseteq Mailbox!Mails /\ crossed \in BOOLEAN
    BY <1>0 DEF MailTypes
  <2>4. UNCHANGED <<arrived, tracked, status, entries, broken, crossed>> /\ lastSyncAt' = arrived
    BY <1>0
  <2>5. sync' \in [Mailbox!Syncs -> SyncRecord]
    BY <1>4
  <2> HIDE <1>0, <1>1, <1>4, <1>5
  <2> QED
    BY <2>1, <2>2, <2>3, <2>4, <2>5 DEF MailTypes, Mailbox!Mails, Mailbox!Classes, Mailbox!Syncs
<1>8. ListIsWorkedOff'
  <2> SUFFICES ASSUME NEW r \in Mailbox!Syncs,
                      sync'[r].at \in {"look", "fetch", "create", "status", "entry"},
                      NEW m \in Mailbox!Mails, sync'[r].since < m, m <= sync'[r].listed,
                      sync'[r].listed - PageSize < m
               PROVE  \/ tracked[m] # None \/ m \in unread'
                      \/ \E i \in 1..Len(sync'[r].todo) : sync'[r].todo[i] = m
    BY <1>0 DEF ListIsWorkedOff, Mailbox!Syncs, Mailbox!Mails
  <2>1. sync'[r] = sync[r]
    BY <1>2, <1>4
  <2> QED
    BY <1>0, <2>1 DEF MailInv, ListIsWorkedOff
<1>9. Mailbox!NothingUnread'
  BY <1>0, <1>6 DEF Mailbox!NothingUnread
<1>10. RowsAreOwned' /\ Mailbox!OneEntryPerAssessment'
  BY <1>0, <1>2, <1>4, RowsStay
<1>11. ~crossed' => StatusIsCurrent'
  BY <1>0, <1>2, <1>4, StatusStays
<1> QED
  BY <1>7, <1>8, <1>9, <1>10, <1>11 DEF MailInv

LEMMA DieKeeps ==
  ASSUME MailParameters, MailInv, NEW s \in Mailbox!Syncs, Mailbox!Die(s) PROVE MailInv'
<1>0. /\ MailTypes /\ sync[s].at \notin {"new", "done"}
      /\ sync' = [sync EXCEPT ![s] = Mailbox!Done]
      /\ UNCHANGED <<arrived, lastSyncAt, tracked, status, entries, unread, crossed>>
  BY DEF MailInv, Mailbox!Die, Mailbox!Working
<1>1. Mailbox!Done \in SyncRecord /\ Mailbox!Done.at = "done" /\ Mailbox!Done.since = 0
      /\ Mailbox!Done.listed = 0 /\ Mailbox!Done.todo = <<>> /\ Len(Mailbox!Done.todo) = 0
  BY DoneTyped
<1>2. /\ sync' \in [Mailbox!Syncs -> SyncRecord] /\ sync'[s] = Mailbox!Done
      /\ \A r \in Mailbox!Syncs \ {s} : sync'[r] = sync[r]
  BY <1>0, <1>1, SyncMoves
<1>3. /\ broken \subseteq broken' /\ broken' \subseteq Mailbox!Mails
      /\ sync[s].at \in {"status", "entry"} => Mailbox!Mail(s) \in broken'
  <2>1. CASE sync[s].at \in {"status", "entry"}
    <3>1. broken' = broken \union {Mailbox!Mail(s)}
      BY <2>1 DEF Mailbox!Die, Mailbox!Tracking
    <3>2. Mailbox!Mail(s) \in Mailbox!Mails
      BY <1>0, <2>1, InHand DEF MailTypes
    <3> QED
      BY <1>0, <3>1, <3>2 DEF MailTypes
  <2>2. CASE sync[s].at \notin {"status", "entry"}
    BY <1>0, <2>2 DEF MailTypes, Mailbox!Die, Mailbox!Tracking
  <2> QED
    BY <2>1, <2>2
<1>4. MailTypes'
  <2>1. 0 <= lastSyncAt /\ 0 <= arrived /\ 0 <= PageSize
    BY <1>0 DEF MailTypes, MailParameters
  <2> QED
    BY <1>0, <1>1, <1>2, <1>3, <2>1, TypesStay DEF MailTypes
<1>5. ListIsWorkedOff' /\ Mailbox!NothingUnread'
  BY <1>0, <1>1, <1>2, ListStays
<1>6. RowsAreOwned' /\ Mailbox!OneEntryPerAssessment'
  BY <1>0, <1>1, <1>2, <1>3, RowsStay
<1>7. ~crossed' => StatusIsCurrent'
  BY <1>0, <1>1, <1>2, StatusStays
<1> QED
  BY <1>4, <1>5, <1>6, <1>7 DEF MailInv

LEMMA MailInvStep == ASSUME MailParameters, MailInv, [Mailbox!Next]_(Mailbox!gmailVars) PROVE MailInv'
<1>1. CASE Mailbox!Arrive
  BY <1>1, ArriveKeeps
<1>2. ASSUME NEW s \in Mailbox!Syncs,
             \/ Mailbox!Start(s) \/ Mailbox!List(s) \/ Mailbox!Look(s) \/ Mailbox!Classify(s)
             \/ Mailbox!Create(s) \/ Mailbox!ApplyStatus(s) \/ Mailbox!AddEntry(s)
             \/ Mailbox!Fail(s) \/ Mailbox!Finish(s) \/ Mailbox!Die(s)
      PROVE  MailInv'
  BY <1>2, StartOfSyncKeeps, ListKeeps, LookKeeps, ClassifyKeeps, CreateKeeps, ApplyStatusKeeps,
     AddEntryKeeps, FailedMailKeeps, FinishOfSyncKeeps, DieKeeps
<1>3. CASE UNCHANGED Mailbox!gmailVars
  BY <1>3 DEF Mailbox!gmailVars, MailInv, MailTypes, ListIsWorkedOff, Mailbox!NothingUnread,
              RowsAreOwned, Mailbox!OneEntryPerAssessment, StatusIsCurrent, Mailbox!Tracking,
              Mailbox!Mail, Mailbox!Working
<1> QED
  BY <1>1, <1>2, <1>3 DEF Mailbox!Next

LEMMA MailInvSuffices ==
  MailInv => Mailbox!GmailTypeOK /\ Mailbox!NothingUnread /\ Mailbox!OneEntryPerAssessment
<1> SUFFICES ASSUME MailInv PROVE Mailbox!GmailTypeOK
  BY DEF MailInv
<1> QED
  BY DEF MailInv, MailTypes, SyncRecord, Statuses, Mailbox!Ends, Mailbox!GmailTypeOK

\* Only the sync at its status moves the job, and the status it has in hand is current.
LEMMA StatusMovesUp ==
  ASSUME MailInv, [Mailbox!Next]_(Mailbox!gmailVars), ~crossed, status' # status
  PROVE  status' \in Mailbox!Ends \/ Mailbox!Rank(status') > Mailbox!Rank(status)
<1>1. PICK s \in Mailbox!Syncs : Mailbox!ApplyStatus(s)
  BY DEF Mailbox!Next, Mailbox!gmailVars, Mailbox!Arrive, Mailbox!Start, Mailbox!List,
         Mailbox!Look, Mailbox!Classify, Mailbox!Create, Mailbox!AddEntry, Mailbox!Fail,
         Mailbox!Finish, Mailbox!Die
<1>2. sync[s].at = "status" /\ status' = sync[s].apply /\ sync[s].apply # None
  BY <1>1 DEF Mailbox!ApplyStatus
<1> QED
  BY <1>2 DEF MailInv, StatusIsCurrent, Mailbox!Ends

\* Syncs (syncGmailInbox of gmail/sync.ts) leave no mail behind lastSyncAt unread, but
\* for what one passed over, and give an assessment with details one entry: for any number of syncs and
\* mails and any size of a page.
THEOREM MailIsNotLost ==
  ASSUME MailParameters
  PROVE  Mailbox!Spec => []( /\ Mailbox!GmailTypeOK /\ Mailbox!NothingUnread
                             /\ Mailbox!OneEntryPerAssessment )
<1>1. Mailbox!Init => MailInv
  BY MailInvAtFirst
<1>2. MailInv /\ [Mailbox!Next]_(Mailbox!gmailVars) => MailInv'
  BY MailInvStep
<1>3. MailInv => Mailbox!GmailTypeOK /\ Mailbox!NothingUnread /\ Mailbox!OneEntryPerAssessment
  BY MailInvSuffices
<1> QED
  BY <1>1, <1>2, <1>3, PTL DEF Mailbox!Spec

\* A mail (applyProcessedEmail of gmail/sync.ts) takes no job back to an earlier stage,
\* short of a rejection or a withdrawal, while syncs do not cross.
THEOREM NothingIsTakenBack ==
  ASSUME MailParameters
  PROVE  Mailbox!Spec => Mailbox!NeverTakenBack
<1>1. Mailbox!Init => MailInv
  BY MailInvAtFirst
<1>2. MailInv /\ [Mailbox!Next]_(Mailbox!gmailVars) => MailInv'
  BY MailInvStep
<1>3. MailInv /\ [Mailbox!Next]_(Mailbox!gmailVars) =>
        [~crossed /\ status' # status =>
           status' \in Mailbox!Ends \/ Mailbox!Rank(status') > Mailbox!Rank(status)]_(Mailbox!gmailVars)
  BY StatusMovesUp
<1> QED
  BY <1>1, <1>2, <1>3, PTL DEF Mailbox!Spec, Mailbox!NeverTakenBack

\* Both, beside the other services.
THEOREM MailIsTrackedBesideOthers ==
  ASSUME MailParameters
  PROVE  Services => MailIsTracked
<1>1. ServicesInit => MailInv
  BY MailInvAtFirst DEF ServicesInit
<1>2. [ServicesNext]_servicesVars => [Mailbox!Next]_(Mailbox!gmailVars)
  BY Zenon DEF ServicesNext, Only, servicesVars, gmailVars, Mailbox!gmailVars
<1>3. MailInv /\ [ServicesNext]_servicesVars => MailInv'
  BY <1>2, MailInvStep
<1>4. MailInv => (focus = "gmail" => Mailbox!NothingUnread /\ Mailbox!OneEntryPerAssessment)
  BY MailInvSuffices
<1>5. MailInv /\ [ServicesNext]_servicesVars =>
        [~crossed /\ status' # status =>
           status' \in Mailbox!Ends \/ Mailbox!Rank(status') > Mailbox!Rank(status)]_(Mailbox!gmailVars)
  BY <1>2, StatusMovesUp
<1> QED
  BY <1>1, <1>3, <1>4, <1>5, PTL DEF Services, MailIsTracked, Mailbox!NeverTakenBack

-----------------------------------------------------------------------------
(* The rows of the postings                                                  *)

IdentityParameters == MaxSightings \in Nat

\* An ingest has a sighting, and the row it found as it was read.
IngestTyped(w) ==
  \/ w = Identity!Idle
  \/ /\ w.state = "resolving" /\ w.sees \in Sightings
     /\ w.row \in {Identity!NewRow} \union DOMAIN jobs
     /\ w.row # Identity!NewRow => w.was \in Identity!Rows

JobTypes ==
  /\ jobs \in Seq(Identity!Rows) /\ sighted \in 0..MaxSightings
  /\ ingestsCrossed \in BOOLEAN /\ unresolved \in BOOLEAN
  /\ ingest = [i \in Ingests |-> ingest[i]]
  /\ \A i \in Ingests : IngestTyped(ingest[i])

\* A row stands for a posting that was seen under its identity, and is official with a board's.
RowSound(entry) ==
  /\ entry.official <=> entry.source \in Official
  /\ \E s \in Sightings : s.source = entry.source /\ s.id = entry.id /\ s.of \in entry.of

\* A row of one posting has the link, or the requisition, that all its sources show.
AllShowLink(p, link) == link # None /\ \A s \in Sightings : s.of = p => s.site = link
AllShowReq(p, req) == req # None /\ \A s \in Sightings : s.of = p => s.req = req
RowShows(entry, noLink) ==
  \A p : entry.of = {p} =>
    /\ \A link : AllShowLink(p, link) => noLink \/ entry.site = link
    /\ \A req : AllShowReq(p, req) => entry.req = req

\* Unless ingests crossed there is one, and what it found it would find again.
OneIngest == \A i, j \in Ingests : ingest[i] # Identity!Idle /\ ingest[j] # Identity!Idle => i = j
FindsAgain(w) ==
  IF w.row = Identity!NewRow
  THEN /\ Identity!BySourceId(w.sees) = {} /\ Identity!ByRequisition(w.sees) = {}
       /\ Identity!ByLink(w.sees) = {}
  ELSE Identity!BySourceId(w.sees) = {} \/ w.row \in Identity!BySourceId(w.sees)
IngestsAreCurrent ==
  ~ingestsCrossed =>
    OneIngest /\ \A i \in Ingests : ingest[i] # Identity!Idle => FindsAgain(ingest[i])

RowsInv ==
  /\ JobTypes
  /\ \A r \in DOMAIN jobs : RowSound(jobs[r]) /\ RowShows(jobs[r], unresolved)
  /\ IngestsAreCurrent /\ Identity!OneRowPerSourceId /\ Identity!OneRowPerPosting

\* What the merges rely on: an id of a source and a link belong to one posting, and all
\* sources show a posting with the same role and requisition.
SightingsIdentify ==
  \A s, t \in Sightings :
    /\ s.source = t.source /\ s.id = t.id => s.of = t.of
    /\ {s.site, s.listing} \intersect {t.site, t.listing} \subseteq {None} \/ s.of = t.of
    /\ s.of = t.of => s.role = t.role /\ s.req = t.req

Shown(entry, link) ==
  link # None => \E s \in Sightings : s.of \in entry.of /\ link \in {s.site, s.listing}

\* A row has links of its postings, their requisition and, when they have none, their role;
\* its postings have keys in common.
RowMatches(entry) ==
  /\ Shown(entry, entry.site) /\ Shown(entry, entry.listing)
  /\ \A s \in Sightings : s.of \in entry.of =>
       s.req = entry.req /\ (entry.req = None => s.role = entry.role)
  /\ \A p \in entry.of : entry.of = {p} \/ \E q \in entry.of \ {p} : Identity!Alike(p, q)

\* So has the sighting that was found to belong to it.
IngestMatches(w, entry) ==
  /\ Shown(entry, w.was.site) /\ w.was.req = entry.req /\ w.sees.req = entry.req
  /\ entry.req = None => w.sees.role = entry.role
  /\ w.sees.of \in entry.of \/ \E q \in entry.of : Identity!Alike(w.sees.of, q)

MergesInv ==
  /\ \A r \in DOMAIN jobs : RowMatches(jobs[r])
  /\ \A i \in Ingests : ingest[i] # Identity!Idle /\ ingest[i].row # Identity!NewRow =>
       IngestMatches(ingest[i], jobs[ingest[i].row])

OfficialStays ==
  \A r \in DOMAIN jobs : jobs[r].official =>
    /\ jobs'[r].official
    /\ <<jobs'[r].source, jobs'[r].id>> # <<jobs[r].source, jobs[r].id>> =>
         jobs'[r].source \in Official

\* What an update writes of a row, but for its closing.
UpdatedRow(w, old, new, link) ==
  /\ new.site = link /\ new.listing = w.sees.listing /\ new.role = w.sees.role
  /\ new.req = IF w.sees.req # None THEN w.sees.req ELSE w.was.req
  /\ new.of = old.of \union {w.sees.of}
  /\ \/ new.source = old.source /\ new.id = old.id /\ new.official = old.official
     \/ /\ w.sees.source \in Official /\ new.official = TRUE
        /\ new.source = w.sees.source /\ new.id = w.sees.id
SameButClosed(old, new) ==
  /\ new.source = old.source /\ new.id = old.id /\ new.official = old.official
  /\ new.site = old.site /\ new.listing = old.listing /\ new.role = old.role
  /\ new.req = old.req /\ new.of = old.of

LEMMA IdentityAtFirst ==
  ASSUME IdentityParameters, Identity!Init
  PROVE  RowsInv /\ MergesInv
<1>1. /\ jobs = <<>> /\ ingest = [i \in Ingests |-> Identity!Idle] /\ sighted = 0
      /\ ingestsCrossed = FALSE /\ unresolved = FALSE
  BY DEF Identity!Init
<1>2. DOMAIN jobs = {}
  BY <1>1
<1>3. JobTypes
  <2>1. jobs \in Seq(Identity!Rows)
    BY <1>1
  <2>2. sighted \in 0..MaxSightings
    BY <1>1 DEF IdentityParameters
  <2>3. ingest = [i \in Ingests |-> ingest[i]] /\ \A i \in Ingests : ingest[i] = Identity!Idle
    BY <1>1
  <2> QED
    BY <1>1, <2>1, <2>2, <2>3 DEF JobTypes, IngestTyped
<1>4. IngestsAreCurrent /\ Identity!OneRowPerSourceId /\ Identity!OneRowPerPosting
  BY <1>1, <1>2 DEF IngestsAreCurrent, OneIngest, Identity!OneRowPerSourceId,
     Identity!OneRowPerPosting
<1> QED
  BY <1>1, <1>2, <1>3, <1>4 DEF RowsInv, MergesInv

\* The rows are numbered from 1, so that "a new row" is none of them.
LEMMA RowsAreNumbered ==
  ASSUME JobTypes
  PROVE  /\ DOMAIN jobs = 1..Len(jobs) /\ Len(jobs) \in Nat /\ Identity!NewRow \notin DOMAIN jobs
         /\ \A r \in DOMAIN jobs : jobs[r] \in Identity!Rows
BY DEF JobTypes, Identity!NewRow

LEMMA IngestGoes ==
  ASSUME JobTypes, NEW i \in Ingests, NEW next, ingest' = [ingest EXCEPT ![i] = next]
  PROVE  /\ ingest' = [j \in Ingests |-> ingest'[j]] /\ ingest'[i] = next
         /\ \A j \in Ingests \ {i} : ingest'[j] = ingest[j]
BY DEF JobTypes

\* Where the link of a sighting leads.
LEMMA LinkLeads ==
  ASSUME JobTypes, NEW i \in Ingests, ingest[i] # Identity!Idle,
         NEW link \in Identity!Destinations(ingest[i])
  PROVE  /\ link \in Identity!Links
         /\ ingest[i].sees.site # None => link \in {ingest[i].sees.site, None}
         /\ \/ link \in {None, ingest[i].sees.site}
            \/ ingest[i].row # Identity!NewRow /\ link = ingest[i].was.site
<1> DEFINE w == ingest[i]
<1>1. w.sees \in Sightings /\ (w.row # Identity!NewRow => w.was \in Identity!Rows)
  BY DEF JobTypes, IngestTyped
<1>2. w.sees.site \in Identity!Links /\ None \in Identity!Links
  BY <1>1 DEF Identity!Links
<1>3. w.row # Identity!NewRow => w.was.site \in Identity!Links
  BY <1>1 DEF Identity!Rows
<1>4. \/ link \in {None, w.sees.site} /\ w.sees.site # None
      \/ w.sees.site = None /\ link \in {None, IF w.row = Identity!NewRow THEN None ELSE w.was.site}
  BY DEF Identity!Destinations
<1> QED
  BY <1>2, <1>3, <1>4

LEMMA UpdateWrites ==
  ASSUME JobTypes, NEW i \in Ingests, ingest[i] # Identity!Idle,
         NEW link \in Identity!Destinations(ingest[i]), Identity!Update(i, link)
  PROVE  /\ ingest[i].row \in DOMAIN jobs /\ jobs' \in Seq(Identity!Rows)
         /\ DOMAIN jobs' = DOMAIN jobs
         /\ \A r \in DOMAIN jobs \ {ingest[i].row} : jobs'[r] = jobs[r]
         /\ UpdatedRow(ingest[i], jobs[ingest[i].row], jobs'[ingest[i].row], link)
<1> DEFINE w == ingest[i]
           old == jobs[w.row]
           once == Identity!Refreshed(old, w, link)
           new == IF Identity!CanonicalPromotion(w) THEN Identity!Promoted(once, w) ELSE once
<1>1. w.row \in DOMAIN jobs /\ w.was \in Identity!Rows /\ w.sees \in Sightings
  BY DEF JobTypes, IngestTyped, Identity!Update
<1>2. jobs' = [jobs EXCEPT ![w.row] = new] /\ old \in Identity!Rows
  BY <1>1, RowsAreNumbered DEF Identity!Update
<1>3. link \in Identity!Links
  BY LinkLeads
<1>4. /\ w.sees.listing \in Identity!Links /\ w.sees.role \in {s.role : s \in Sightings}
      /\ w.sees.req \in Identity!Reqs /\ w.was.req \in Identity!Reqs
      /\ w.sees.of \in {s.of : s \in Sightings} /\ w.sees.source \in {s.source : s \in Sightings}
      /\ w.sees.id \in {s.id : s \in Sightings}
  BY <1>1 DEF Identity!Links, Identity!Reqs, Identity!Rows
<1> DEFINE req == IF w.sees.req # None THEN w.sees.req ELSE w.was.req
           of == old.of \union {w.sees.of}
<1>5. /\ once \in Identity!Rows /\ once.site = link /\ once.listing = w.sees.listing
      /\ once.role = w.sees.role /\ once.req = req /\ once.of = of
      /\ once.source = old.source /\ once.id = old.id /\ once.official = old.official
  <2>1. req \in Identity!Reqs /\ of \in SUBSET {s.of : s \in Sightings}
    BY <1>2, <1>4 DEF Identity!Rows
  <2>2. once = [old EXCEPT !.site = link, !.listing = w.sees.listing, !.role = w.sees.role,
                  !.req = req, !.of = of]
    BY <1>2 DEF Identity!Refreshed, Identity!Rows
  <2> HIDE DEF req, of, old, once
  <2> QED
    BY <1>2, <1>3, <1>4, <2>1, <2>2 DEF Identity!Rows
<1>6. /\ Identity!Promoted(once, w) \in Identity!Rows
      /\ Identity!Promoted(once, w).source = w.sees.source /\ Identity!Promoted(once, w).id = w.sees.id
      /\ Identity!Promoted(once, w).official = TRUE
      /\ Identity!Promoted(once, w).site = once.site
      /\ Identity!Promoted(once, w).listing = once.listing
      /\ Identity!Promoted(once, w).role = once.role /\ Identity!Promoted(once, w).req = once.req
      /\ Identity!Promoted(once, w).of = once.of
  <2> HIDE DEF once
  <2> QED
    BY <1>4, <1>5 DEF Identity!Promoted, Identity!Rows
<1>7. new \in Identity!Rows /\ UpdatedRow(w, old, new, link)
  <2>1. CASE Identity!CanonicalPromotion(w)
    <3>1. w.sees.source \in Official
      BY <2>1 DEF Identity!CanonicalPromotion
    <3>2. new = Identity!Promoted(once, w)
      BY <2>1
    <3> HIDE DEF new, once
    <3> QED
      BY <1>5, <1>6, <3>1, <3>2 DEF UpdatedRow
  <2>2. CASE ~Identity!CanonicalPromotion(w)
    <3>1. new = once
      BY <2>2
    <3> HIDE DEF new, once
    <3> QED
      BY <1>5, <3>1 DEF UpdatedRow
  <2> QED
    BY <2>1, <2>2
<1> HIDE DEF new
<1>8. /\ jobs' \in Seq(Identity!Rows) /\ DOMAIN jobs' = DOMAIN jobs
      /\ jobs'[w.row] = new /\ \A r \in DOMAIN jobs \ {w.row} : jobs'[r] = jobs[r]
  BY <1>1, <1>2, <1>7 DEF JobTypes
<1> QED
  BY <1>1, <1>7, <1>8

CreatedRow(w, link) ==
  [source |-> w.sees.source, id |-> w.sees.id, req |-> w.sees.req, site |-> link,
   listing |-> w.sees.listing, role |-> w.sees.role, closed |-> FALSE,
   official |-> w.sees.source \in Official, of |-> {w.sees.of}]

LEMMA CreateWrites ==
  ASSUME JobTypes, NEW i \in Ingests, ingest[i] # Identity!Idle,
         NEW link \in Identity!Destinations(ingest[i]), Identity!Create(i, link)
  PROVE  /\ jobs' \in Seq(Identity!Rows)
         /\ DOMAIN jobs' = DOMAIN jobs \union {Len(jobs) + 1} /\ Len(jobs) + 1 \notin DOMAIN jobs
         /\ \A r \in DOMAIN jobs : jobs'[r] = jobs[r]
         /\ jobs'[Len(jobs) + 1] = CreatedRow(ingest[i], link)
<1> DEFINE new == CreatedRow(ingest[i], link)
<1>1. jobs' = Append(jobs, new) /\ jobs \in Seq(Identity!Rows)
  BY DEF JobTypes, Identity!Create, CreatedRow
<1>2. new \in Identity!Rows
  <2>1. ingest[i].sees \in Sightings /\ link \in Identity!Links
    BY LinkLeads DEF JobTypes, IngestTyped
  <2> QED
    BY <2>1 DEF CreatedRow, Identity!Rows, Identity!Links, Identity!Reqs
<1> HIDE DEF new
<1>3. jobs' \in Seq(Identity!Rows) /\ DOMAIN jobs' = 1..(Len(jobs) + 1)
  BY <1>1, <1>2
<1>4. (\A r \in DOMAIN jobs : jobs'[r] = jobs[r]) /\ jobs'[Len(jobs) + 1] = new
  BY <1>1, <1>2
<1>5. DOMAIN jobs = 1..Len(jobs) /\ Len(jobs) \in Nat
  BY <1>1
<1> QED
  BY <1>3, <1>4, <1>5 DEF new

LEMMA CloseWrites ==
  ASSUME JobTypes, NEW r \in DOMAIN jobs, Identity!Close(r)
  PROVE  /\ jobs' \in Seq(Identity!Rows) /\ DOMAIN jobs' = DOMAIN jobs
         /\ \A t \in DOMAIN jobs : SameButClosed(jobs[t], jobs'[t])
<1> DEFINE new == [jobs[r] EXCEPT !.closed = TRUE]
<1>1. jobs[r] \in Identity!Rows
  BY RowsAreNumbered
<1>2. new \in Identity!Rows /\ SameButClosed(jobs[r], new)
  BY <1>1 DEF Identity!Rows, SameButClosed
<1>3. jobs' = [jobs EXCEPT ![r] = new]
  BY DEF Identity!Close
<1> HIDE DEF new
<1> QED
  BY <1>2, <1>3 DEF JobTypes, SameButClosed


\* The rows of which nothing but the closing changed are found as before.
LEMMA FoundAsBefore ==
  ASSUME DOMAIN jobs' = DOMAIN jobs, \A t \in DOMAIN jobs : SameButClosed(jobs[t], jobs'[t]), NEW s
  PROVE  /\ Identity!BySourceId(s)' = Identity!BySourceId(s)
         /\ Identity!ByRequisition(s)' = Identity!ByRequisition(s)
         /\ Identity!ByLink(s)' = Identity!ByLink(s)
<1> USE DEF SameButClosed
<1>1. {r \in DOMAIN jobs' : jobs'[r].source = s.source /\ jobs'[r].id = s.id}
        = {r \in DOMAIN jobs : jobs[r].source = s.source /\ jobs[r].id = s.id}
  OBVIOUS
<1>2. {r \in DOMAIN jobs' : s.req # None /\ jobs'[r].req = s.req}
        = {r \in DOMAIN jobs : s.req # None /\ jobs[r].req = s.req}
  OBVIOUS
<1>3. {r \in DOMAIN jobs' : Identity!CanonicalLink(s) \in {jobs'[r].site, jobs'[r].listing} \ {None}}
        = {r \in DOMAIN jobs : Identity!CanonicalLink(s) \in {jobs[r].site, jobs[r].listing} \ {None}}
  OBVIOUS
<1> QED
  BY <1>1, <1>2, <1>3 DEF Identity!BySourceId, Identity!ByRequisition, Identity!ByLink,
     Identity!CanonicalLink

LEMMA WhatIsFound ==
  ASSUME JobTypes, NEW s, NEW r \in Identity!Existing(s)
  PROVE  \/ /\ r = Identity!NewRow
            /\ Identity!BySourceId(s) = {} /\ Identity!ByRequisition(s) = {} /\ Identity!ByLink(s) = {}
         \/ /\ r \in DOMAIN jobs
            /\ \/ r \in Identity!BySourceId(s)
               \/ /\ Identity!BySourceId(s) = {}
                  /\ r \in Identity!ByRequisition(s) \union Identity!ByLink(s) \union Identity!ByRole(s)
<1>1. Identity!BySourceId(s) \subseteq DOMAIN jobs /\ Identity!ByRequisition(s) \subseteq DOMAIN jobs
  BY DEF Identity!BySourceId, Identity!ByRequisition
<1>2. Identity!ByLink(s) \subseteq DOMAIN jobs /\ Identity!ByRole(s) \subseteq DOMAIN jobs
  BY DEF Identity!ByLink, Identity!ByRole
<1> QED
  BY <1>1, <1>2, Zenon DEF Identity!Existing

\* A sighting is looked up.
LEMMA FindStep ==
  ASSUME IdentityParameters, RowsInv, NEW i \in Ingests, NEW s \in Sightings, Identity!Find(i, s)
  PROVE  RowsInv' /\ OfficialStays
<1> USE DEF RowsInv
<1> DEFINE found(r) == [state |-> "resolving", sees |-> s, row |-> r,
                        was |-> IF r = Identity!NewRow THEN None ELSE jobs[r]]
<1>1. PICK r \in Identity!Existing(s) : ingest' = [ingest EXCEPT ![i] = found(r)]
  BY DEF Identity!Find
<1>2. /\ UNCHANGED <<jobs, unresolved>> /\ sighted' = sighted + 1 /\ sighted < MaxSightings
      /\ ingest[i] = Identity!Idle
      /\ ingestsCrossed' = (ingestsCrossed \/ \E j \in Ingests \ {i} : ingest[j] # Identity!Idle)
  BY DEF Identity!Find
<1> DEFINE w == found(r)
<1>3. \/ /\ r = Identity!NewRow
         /\ Identity!BySourceId(s) = {} /\ Identity!ByRequisition(s) = {} /\ Identity!ByLink(s) = {}
      \/ /\ r \in DOMAIN jobs /\ r # Identity!NewRow
         /\ Identity!BySourceId(s) = {} \/ r \in Identity!BySourceId(s)
  BY WhatIsFound, RowsAreNumbered
<1>4. w.state = "resolving" /\ w.sees = s /\ w.row = r /\ (r # Identity!NewRow => w.was = jobs[r])
  OBVIOUS
<1>5. \A t \in DOMAIN jobs : jobs[t] \in Identity!Rows
  BY RowsAreNumbered
<1> HIDE DEF found
<1>6. /\ ingest' = [j \in Ingests |-> ingest'[j]] /\ ingest'[i] = w
      /\ \A j \in Ingests \ {i} : ingest'[j] = ingest[j]
  BY <1>1, IngestGoes
<1>7. JobTypes'
  <2>1. sighted' \in 0..MaxSightings
    BY <1>2 DEF JobTypes, IdentityParameters
  <2>2. IngestTyped(w)
    BY <1>3, <1>4, <1>5 DEF IngestTyped
  <2> QED
    BY <1>2, <1>6, <2>1, <2>2 DEF JobTypes, IngestTyped
<1>8. IngestsAreCurrent'
  <2>1. ASSUME ~ingestsCrossed' PROVE \A j \in Ingests \ {i} : ingest'[j] = Identity!Idle
    BY <1>2, <1>6, <2>1
  <2>2. FindsAgain(ingest[i])'
    BY <1>2, <1>3, <1>4, <1>6 DEF FindsAgain, Identity!BySourceId, Identity!ByRequisition,
       Identity!ByLink, Identity!CanonicalLink
  <2>3. ASSUME ~ingestsCrossed', NEW j \in Ingests, ingest'[j] # Identity!Idle
        PROVE  j = i
    BY <2>1, <2>3
  <2> QED
    BY <2>2, <2>3, Zenon DEF IngestsAreCurrent, OneIngest
<1>9. /\ Identity!OneRowPerSourceId' /\ Identity!OneRowPerPosting'
      /\ \A t \in DOMAIN jobs' : RowSound(jobs'[t]) /\ RowShows(jobs'[t], unresolved')
  <2>1. UNCHANGED <<jobs, unresolved>> /\ (ingestsCrossed => ingestsCrossed')
    BY <1>2
  <2>2. Identity!OneRowPerSourceId' /\ Identity!OneRowPerPosting'
    BY <2>1 DEF Identity!OneRowPerSourceId, Identity!OneRowPerPosting
  <2>3. \A t \in DOMAIN jobs' : RowSound(jobs'[t]) /\ RowShows(jobs'[t], unresolved')
    BY <2>1
  <2> QED
    BY <2>2, <2>3
<1>10. OfficialStays
  BY <1>2 DEF OfficialStays
<1> QED
  BY <1>7, <1>8, <1>9, <1>10

\* A row is closed.
LEMMA CloseStep ==
  ASSUME RowsInv, NEW r \in DOMAIN jobs, Identity!Close(r)
  PROVE  RowsInv' /\ OfficialStays
<1> USE DEF RowsInv
<1>1. UNCHANGED <<ingest, sighted, ingestsCrossed, unresolved>>
  BY DEF Identity!Close
<1>2. /\ jobs' \in Seq(Identity!Rows) /\ DOMAIN jobs' = DOMAIN jobs
      /\ \A t \in DOMAIN jobs : SameButClosed(jobs[t], jobs'[t])
  BY CloseWrites
<1>3. JobTypes'
  BY <1>1, <1>2 DEF JobTypes, IngestTyped
<1>4. \A t \in DOMAIN jobs' : RowSound(jobs'[t]) /\ RowShows(jobs'[t], unresolved')
  <2> SUFFICES ASSUME NEW t \in DOMAIN jobs
               PROVE  RowSound(jobs'[t]) /\ RowShows(jobs'[t], unresolved')
    BY <1>2
  <2>1. RowSound(jobs[t]) /\ RowShows(jobs[t], unresolved) /\ SameButClosed(jobs[t], jobs'[t])
    BY <1>2
  <2>2. RowSound(jobs'[t])
    BY <2>1 DEF SameButClosed, RowSound
  <2>3. RowShows(jobs'[t], unresolved')
    BY <1>1, <2>1 DEF SameButClosed, RowShows
  <2> QED
    BY <2>2, <2>3
<1>5. IngestsAreCurrent'
  <2>1. \A s : /\ Identity!BySourceId(s)' = Identity!BySourceId(s)
               /\ Identity!ByRequisition(s)' = Identity!ByRequisition(s)
               /\ Identity!ByLink(s)' = Identity!ByLink(s)
    BY <1>2, FoundAsBefore
  <2> QED
    BY <1>1, <2>1 DEF IngestsAreCurrent, OneIngest, FindsAgain
<1>6. Identity!OneRowPerSourceId' /\ Identity!OneRowPerPosting'
  BY <1>1, <1>2 DEF SameButClosed, Identity!OneRowPerSourceId, Identity!OneRowPerPosting
<1>7. OfficialStays
  BY <1>2 DEF SameButClosed, OfficialStays
<1> QED
  BY <1>3, <1>4, <1>5, <1>6, <1>7


\* A row that is written keeps an identity, and shows what all sources of its posting show.
LEMMA UpdatedIsSound ==
  ASSUME NEW w, NEW old, NEW new, NEW link, UpdatedRow(w, old, new, link), RowSound(old),
         w.sees \in Sightings
  PROVE  RowSound(new)
BY DEF UpdatedRow, RowSound

LEMMA UpdatedShows ==
  ASSUME NEW w, NEW old, NEW new, NEW link, UpdatedRow(w, old, new, link), w.sees \in Sightings,
         w.sees.site # None => link \in {w.sees.site, None},
         NEW noLink, link = None /\ w.sees.site # None => noLink
  PROVE  RowShows(new, noLink)
<1>1. ASSUME NEW p, new.of = {p} PROVE w.sees.of = p
  BY <1>1 DEF UpdatedRow
<1> QED
  BY <1>1 DEF UpdatedRow, RowShows, AllShowLink, AllShowReq

LEMMA CreatedIsSound ==
  ASSUME NEW w, NEW link, w.sees \in Sightings,
         w.sees.site # None => link \in {w.sees.site, None},
         NEW noLink, link = None /\ w.sees.site # None => noLink
  PROVE  RowSound(CreatedRow(w, link)) /\ RowShows(CreatedRow(w, link), noLink)
<1> DEFINE new == CreatedRow(w, link)
<1>1. /\ new.source = w.sees.source /\ new.id = w.sees.id /\ new.of = {w.sees.of}
      /\ new.site = link /\ new.req = w.sees.req /\ new.official = (w.sees.source \in Official)
  BY DEF CreatedRow
<1> HIDE DEF new
<1>2. RowSound(new)
  BY <1>1 DEF RowSound
<1>3. ASSUME NEW p, new.of = {p} PROVE w.sees.of = p
  BY <1>1, <1>3
<1>4. RowShows(new, noLink)
  BY <1>1, <1>3 DEF RowShows, AllShowLink, AllShowReq
<1> QED
  BY <1>2, <1>4 DEF new

\* What all sources show of a posting is on a row that stands for it alone.
LEMMA TiedIsShown ==
  ASSUME NEW p, Identity!Tied(p)
  PROVE  (\E link : AllShowLink(p, link)) \/ (\E req : AllShowReq(p, req))
BY DEF Identity!Tied, AllShowLink, AllShowReq

\* What an ingest does with its end.
LEMMA IngestEnds ==
  ASSUME RowsInv, NEW i \in Ingests, Identity!Write(i)
  PROVE  /\ UNCHANGED <<sighted, ingestsCrossed>> /\ ingest[i] # Identity!Idle
         /\ ingest[i].sees \in Sightings
         /\ ingest' = [j \in Ingests |-> ingest'[j]] /\ ingest'[i] = Identity!Idle
         /\ \A j \in Ingests \ {i} : ingest'[j] = ingest[j]
         /\ ~ingestsCrossed => FindsAgain(ingest[i]) /\ \A j \in Ingests : ingest'[j] = Identity!Idle
         /\ IngestsAreCurrent'
         /\ \E link \in Identity!Destinations(ingest[i]) :
              /\ Identity!Update(i, link) \/ Identity!Create(i, link)
              /\ unresolved' = (unresolved \/ (link = None /\ ingest[i].sees.site # None))
<1> USE DEF RowsInv
<1>1. /\ UNCHANGED <<sighted, ingestsCrossed>> /\ ingest[i] # Identity!Idle
      /\ ingest' = [ingest EXCEPT ![i] = Identity!Idle]
      /\ \E link \in Identity!Destinations(ingest[i]) :
           /\ Identity!Update(i, link) \/ Identity!Create(i, link)
           /\ unresolved' = (unresolved \/ (link = None /\ ingest[i].sees.site # None))
  BY DEF Identity!Write
<1>2. /\ ingest' = [j \in Ingests |-> ingest'[j]] /\ ingest'[i] = Identity!Idle
      /\ \A j \in Ingests \ {i} : ingest'[j] = ingest[j]
  BY <1>1, IngestGoes
<1>3. ~ingestsCrossed => FindsAgain(ingest[i]) /\ \A j \in Ingests : ingest'[j] = Identity!Idle
  BY <1>1, <1>2 DEF IngestsAreCurrent, OneIngest
<1>4. IngestsAreCurrent'
  BY <1>1, <1>3 DEF IngestsAreCurrent, OneIngest
<1>5. ingest[i].sees \in Sightings
  BY <1>1 DEF JobTypes, IngestTyped
<1> QED
  BY <1>1, <1>2, <1>3, <1>4, <1>5

\* A row is updated.
LEMMA UpdateStep ==
  ASSUME RowsInv, NEW i \in Ingests, Identity!Write(i), NEW link \in Identity!Destinations(ingest[i]),
         Identity!Update(i, link),
         unresolved' = (unresolved \/ (link = None /\ ingest[i].sees.site # None))
  PROVE  RowsInv' /\ OfficialStays
<1> USE DEF RowsInv
<1> DEFINE w == ingest[i]
           old == jobs[w.row]
           new == jobs'[w.row]
<1>1. /\ UNCHANGED <<sighted, ingestsCrossed>> /\ w # Identity!Idle /\ w.sees \in Sightings
      /\ ingest' = [j \in Ingests |-> ingest'[j]] /\ ingest'[i] = Identity!Idle
      /\ \A j \in Ingests \ {i} : ingest'[j] = ingest[j]
      /\ ~ingestsCrossed => FindsAgain(w)
      /\ IngestsAreCurrent'
  BY IngestEnds
<1>2. /\ w.row \in DOMAIN jobs /\ jobs' \in Seq(Identity!Rows) /\ DOMAIN jobs' = DOMAIN jobs
      /\ \A r \in DOMAIN jobs \ {w.row} : jobs'[r] = jobs[r]
      /\ UpdatedRow(w, old, new, link)
  BY <1>1, UpdateWrites
<1>3. w.sees.site # None => link \in {w.sees.site, None}
  BY <1>1, LinkLeads
<1>4. JobTypes'
  <2>1. unresolved' \in BOOLEAN
    BY DEF JobTypes
  <2>2. \A j \in Ingests : IngestTyped(ingest[j])'
    BY <1>1, <1>2 DEF JobTypes, IngestTyped
  <2> QED
    BY <1>1, <1>2, <2>1, <2>2 DEF JobTypes
<1> HIDE DEF old, new
<1>5. RowSound(old) /\ RowSound(new) /\ RowShows(new, unresolved')
  <2>1. RowSound(old)
    BY <1>2 DEF old
  <2> QED
    BY <1>1, <1>2, <1>3, <2>1, UpdatedIsSound, UpdatedShows
<1>6. \A r \in DOMAIN jobs' : RowSound(jobs'[r]) /\ RowShows(jobs'[r], unresolved')
  <2>1. \A r \in DOMAIN jobs : RowSound(jobs[r]) /\ RowShows(jobs[r], unresolved')
    BY DEF RowShows
  <2> QED
    BY <1>2, <1>5, <2>1 DEF new
<1>7. Identity!OneRowPerSourceId'
  <2>1. ASSUME ~ingestsCrossed, NEW r \in DOMAIN jobs, r # w.row,
               jobs[r].source = new.source, jobs[r].id = new.id
        PROVE  FALSE
    <3>1. CASE new.source = old.source /\ new.id = old.id
      BY <1>2, <2>1, <3>1 DEF old, Identity!OneRowPerSourceId
    <3>2. CASE new.source = w.sees.source /\ new.id = w.sees.id
      <4>1. r \in Identity!BySourceId(w.sees)
        BY <2>1, <3>2 DEF Identity!BySourceId
      <4>2. w.row \in Identity!BySourceId(w.sees)
        BY <1>1, <1>2, <2>1, <4>1, RowsAreNumbered DEF FindsAgain
      <4>3. jobs[w.row].source = w.sees.source /\ jobs[w.row].id = w.sees.id
        BY <4>2 DEF Identity!BySourceId
      <4> QED
        BY <1>2, <2>1, <3>2, <4>3 DEF Identity!OneRowPerSourceId
    <3> QED
      BY <1>2, <3>1, <3>2 DEF UpdatedRow
  <2> QED
    BY <1>1, <1>2, <2>1 DEF new, Identity!OneRowPerSourceId
<1>8. Identity!OneRowPerPosting'
  <2>1. ASSUME NEW p, new.of = {p} PROVE old.of = {p}
    BY <1>2, <1>5, <2>1 DEF UpdatedRow, RowSound
  <2>2. ASSUME ~ingestsCrossed', ~unresolved', NEW r \in DOMAIN jobs, NEW t \in DOMAIN jobs,
               NEW p, jobs'[r].of = {p}, jobs'[t].of = {p}, Identity!Tied(p)
        PROVE  r = t
    <3>1. jobs[r].of = {p} /\ jobs[t].of = {p}
      BY <1>2, <2>1, <2>2 DEF old, new
    <3> QED
      BY <1>1, <2>2, <3>1 DEF Identity!OneRowPerPosting
  <2> QED
    BY <1>2, <2>2 DEF Identity!OneRowPerPosting
<1>9. OfficialStays
  BY <1>2 DEF old, new, OfficialStays, UpdatedRow
<1> QED
  BY <1>1, <1>4, <1>6, <1>7, <1>8, <1>9

\* A row is created.
LEMMA CreateStep ==
  ASSUME RowsInv, NEW i \in Ingests, Identity!Write(i), NEW link \in Identity!Destinations(ingest[i]),
         Identity!Create(i, link),
         unresolved' = (unresolved \/ (link = None /\ ingest[i].sees.site # None))
  PROVE  RowsInv' /\ OfficialStays
<1> USE DEF RowsInv
<1> DEFINE w == ingest[i]
           n == Len(jobs) + 1
           new == CreatedRow(w, link)
<1>1. /\ UNCHANGED <<sighted, ingestsCrossed>> /\ w # Identity!Idle /\ w.sees \in Sightings
      /\ ingest' = [j \in Ingests |-> ingest'[j]] /\ ingest'[i] = Identity!Idle
      /\ \A j \in Ingests \ {i} : ingest'[j] = ingest[j]
      /\ ~ingestsCrossed => FindsAgain(w)
      /\ IngestsAreCurrent'
  BY IngestEnds
<1>2. /\ jobs' \in Seq(Identity!Rows) /\ DOMAIN jobs' = DOMAIN jobs \union {n} /\ n \notin DOMAIN jobs
      /\ \A r \in DOMAIN jobs : jobs'[r] = jobs[r]
      /\ jobs'[n] = new
  BY <1>1, CreateWrites
<1>3. w.sees.site # None => link \in {w.sees.site, None}
  BY <1>1, LinkLeads
<1>4. JobTypes'
  <2>1. unresolved' \in BOOLEAN
    BY DEF JobTypes
  <2>2. \A j \in Ingests : IngestTyped(ingest[j])'
    BY <1>1, <1>2 DEF JobTypes, IngestTyped
  <2> QED
    BY <1>1, <1>2, <2>1, <2>2 DEF JobTypes
<1>5. /\ new.source = w.sees.source /\ new.id = w.sees.id /\ new.of = {w.sees.of}
      /\ w.row = Identity!NewRow
  BY DEF CreatedRow, Identity!Create
<1>6. RowSound(new) /\ RowShows(new, unresolved')
  BY <1>1, <1>3, CreatedIsSound
<1> HIDE DEF new, n
<1>7. \A r \in DOMAIN jobs' : RowSound(jobs'[r]) /\ RowShows(jobs'[r], unresolved')
  <2>1. \A r \in DOMAIN jobs : RowSound(jobs[r]) /\ RowShows(jobs[r], unresolved')
    BY DEF RowShows
  <2> QED
    BY <1>2, <1>6, <2>1
<1>8. ~ingestsCrossed => /\ Identity!BySourceId(w.sees) = {} /\ Identity!ByRequisition(w.sees) = {}
                         /\ Identity!ByLink(w.sees) = {}
  BY <1>1, <1>5 DEF FindsAgain
<1>9. Identity!OneRowPerSourceId'
  <2>1. ~ingestsCrossed => \A r \in DOMAIN jobs :
          jobs[r].source # new.source \/ jobs[r].id # new.id
    BY <1>5, <1>8 DEF Identity!BySourceId
  <2> QED
    BY <1>1, <1>2, <2>1 DEF Identity!OneRowPerSourceId
<1>10. Identity!OneRowPerPosting'
  <2>1. ASSUME ~ingestsCrossed, ~unresolved', NEW r \in DOMAIN jobs, NEW p,
               jobs[r].of = {p}, new.of = {p}, Identity!Tied(p)
        PROVE  FALSE
    <3>1. w.sees.of = p
      BY <1>5, <2>1
    <3>2. RowShows(jobs[r], unresolved)
      OBVIOUS
    <3>3. ASSUME NEW shown, AllShowLink(p, shown) PROVE FALSE
      <4>1. jobs[r].site = shown
        BY <2>1, <3>2, <3>3 DEF RowShows
      <4>2. Identity!CanonicalLink(w.sees) = shown /\ shown # None
        BY <1>1, <3>1, <3>3 DEF AllShowLink, Identity!CanonicalLink
      <4>3. r \in Identity!ByLink(w.sees)
        BY <4>1, <4>2 DEF Identity!ByLink
      <4> QED
        BY <1>8, <2>1, <4>3
    <3>4. ASSUME NEW req, AllShowReq(p, req) PROVE FALSE
      <4>1. jobs[r].req = req
        BY <2>1, <3>2, <3>4 DEF RowShows
      <4>2. w.sees.req = req /\ req # None
        BY <1>1, <3>1, <3>4 DEF AllShowReq
      <4>3. r \in Identity!ByRequisition(w.sees)
        BY <4>1, <4>2 DEF Identity!ByRequisition
      <4> QED
        BY <1>8, <2>1, <4>3
    <3> QED
      BY <2>1, <3>3, <3>4, TiedIsShown
  <2>2. ASSUME ~ingestsCrossed', ~unresolved', NEW r \in DOMAIN jobs', NEW t \in DOMAIN jobs',
               NEW p, jobs'[r].of = {p}, jobs'[t].of = {p}, Identity!Tied(p)
        PROVE  r = t
    <3>1. CASE r \in DOMAIN jobs /\ t \in DOMAIN jobs
      <4>1. jobs[r].of = {p} /\ jobs[t].of = {p} /\ ~ingestsCrossed /\ ~unresolved
        BY <1>1, <1>2, <2>2, <3>1
      <4> QED
        BY <2>2, <3>1, <4>1 DEF Identity!OneRowPerPosting
    <3>2. CASE r = n /\ t \in DOMAIN jobs
      BY <1>1, <1>2, <2>1, <2>2, <3>2
    <3>3. CASE t = n /\ r \in DOMAIN jobs
      BY <1>1, <1>2, <2>1, <2>2, <3>3
    <3> QED
      BY <1>2, <2>2, <3>1, <3>2, <3>3
  <2> QED
    BY <2>2 DEF Identity!OneRowPerPosting
<1>11. OfficialStays
  BY <1>2 DEF OfficialStays
<1> QED
  BY <1>1, <1>4, <1>7, <1>9, <1>10, <1>11

\* Whatever the ingests do, or nothing.
LEMMA RowsInvStep ==
  ASSUME IdentityParameters, RowsInv, [Identity!Next]_(Identity!identityVars)
  PROVE  RowsInv' /\ [OfficialStays]_(Identity!identityVars)
<1>1. CASE UNCHANGED Identity!identityVars
  <2>1. UNCHANGED <<jobs, ingest, sighted, ingestsCrossed, unresolved>>
    BY <1>1 DEF Identity!identityVars
  <2>2. JobTypes' /\ IngestsAreCurrent'
    BY <2>1 DEF RowsInv, JobTypes, IngestTyped, IngestsAreCurrent, OneIngest, FindsAgain,
       Identity!BySourceId, Identity!ByRequisition, Identity!ByLink
  <2>3. /\ Identity!OneRowPerSourceId' /\ Identity!OneRowPerPosting'
        /\ \A r \in DOMAIN jobs' : RowSound(jobs'[r]) /\ RowShows(jobs'[r], unresolved')
    BY <2>1 DEF RowsInv, Identity!OneRowPerSourceId, Identity!OneRowPerPosting
  <2> QED
    BY <1>1, <2>2, <2>3 DEF RowsInv
<1>2. CASE \E i \in Ingests : Identity!Write(i)
  BY <1>2, IngestEnds, UpdateStep, CreateStep
<1> QED
  BY <1>1, <1>2, FindStep, CloseStep DEF Identity!Next


-----------------------------------------------------------------------------
LEMMA AlikeBothWays == ASSUME NEW p, NEW q, Identity!Alike(p, q) PROVE Identity!Alike(q, p)
BY DEF Identity!Alike

LEMMA ShownOn ==
  ASSUME NEW old, NEW new, old.of \subseteq new.of, NEW link, Shown(old, link)
  PROVE  Shown(new, link)
BY DEF Shown

\* What else is found to belong to a row still does when the row is updated.
LEMMA MatchesOn ==
  ASSUME NEW v, NEW old, NEW new, IngestMatches(v, old), old.of \subseteq new.of,
         new.req = old.req, old.req = None => new.role = old.role
  PROVE  IngestMatches(v, new)
<1>1. Shown(new, v.was.site)
  BY ShownOn DEF IngestMatches
<1> QED
  BY <1>1 DEF IngestMatches

\* What is found shares a key with a posting of the row.
LEMMA FoundMatches ==
  ASSUME SightingsIdentify, JobTypes, NEW s \in Sightings, NEW r \in DOMAIN jobs,
         RowSound(jobs[r]), RowMatches(jobs[r]),
         r \in Identity!BySourceId(s) \union Identity!ByRequisition(s) \union Identity!ByLink(s)
                 \union Identity!ByRole(s)
  PROVE  /\ s.req = jobs[r].req /\ (jobs[r].req = None => s.role = jobs[r].role)
         /\ s.of \in jobs[r].of \/ \E q \in jobs[r].of : Identity!Alike(s.of, q)
<1> DEFINE entry == jobs[r]
<1>1. PICK t \in Sightings : t.source = entry.source /\ t.id = entry.id /\ t.of \in entry.of
  BY DEF RowSound
<1>2. \A u \in Sightings : u.of \in entry.of =>
        u.req = entry.req /\ (entry.req = None => u.role = entry.role)
  BY DEF RowMatches
<1>3. t.req = entry.req /\ (entry.req = None => t.role = entry.role)
  BY <1>1, <1>2
<1>4. CASE s.of \in entry.of
  BY <1>2, <1>4
<1>5. CASE r \in Identity!BySourceId(s)
  <2>1. s.source = t.source /\ s.id = t.id
    BY <1>1, <1>5 DEF Identity!BySourceId
  <2>2. s.of = t.of
    BY <2>1 DEF SightingsIdentify
  <2> QED
    BY <1>1, <1>4, <2>2
<1>6. CASE r \in Identity!ByRequisition(s)
  <2>1. s.req # None /\ s.req = entry.req
    BY <1>6 DEF Identity!ByRequisition
  <2>2. Identity!Alike(s.of, t.of)
    BY <1>3, <2>1 DEF Identity!Alike
  <2> QED
    BY <1>1, <2>1, <2>2
<1>7. CASE r \in Identity!ByLink(s)
  <2> DEFINE link == Identity!CanonicalLink(s)
  <2>1. link \in {entry.site, entry.listing} /\ link # None
    BY <1>7 DEF Identity!ByLink
  <2>2. link \in {s.site, s.listing}
    BY DEF Identity!CanonicalLink
  <2> HIDE DEF link
  <2>3. PICK u \in Sightings : u.of \in entry.of /\ link \in {u.site, u.listing}
    BY <2>1 DEF RowMatches, Shown
  <2>4. s.of = u.of
    BY <2>1, <2>2, <2>3 DEF SightingsIdentify
  <2> QED
    BY <1>4, <2>3, <2>4
<1>8. CASE r \in Identity!ByRole(s)
  <2>1. entry.source = s.source /\ entry.role = s.role /\ entry.req = s.req
    BY <1>8 DEF Identity!ByRole
  <2>2. Identity!Alike(s.of, t.of)
    <3>1. CASE s.req # None
      BY <1>3, <2>1, <3>1 DEF Identity!Alike
    <3>2. CASE s.req = None
      BY <1>1, <1>3, <2>1, <3>2 DEF Identity!Alike
    <3> QED
      BY <3>1, <3>2
  <2> QED
    BY <1>1, <2>1, <2>2
<1> QED
  BY <1>5, <1>6, <1>7, <1>8

\* A row that is updated by what belongs to it matches.
LEMMA UpdatedMatches ==
  ASSUME SightingsIdentify, NEW w, NEW old, NEW new, NEW link, UpdatedRow(w, old, new, link),
         RowSound(old), RowMatches(old), IngestMatches(w, old), w.sees \in Sightings,
         link \in {None, w.sees.site} \/ link = w.was.site
  PROVE  /\ RowMatches(new) /\ old.of \subseteq new.of /\ new.req = old.req
         /\ old.req = None => new.role = old.role
<1>1. /\ new.of = old.of \union {w.sees.of} /\ new.req = old.req
      /\ new.site = link /\ new.listing = w.sees.listing /\ new.role = w.sees.role
  BY DEF UpdatedRow, IngestMatches
<1>2. old.req = None => new.role = old.role
  BY <1>1 DEF IngestMatches
<1>3. Shown(new, new.site)
  <2>1. Shown(new, w.was.site)
    BY <1>1, ShownOn DEF IngestMatches
  <2>2. Shown(new, w.sees.site) /\ Shown(new, None)
    BY <1>1 DEF Shown
  <2> QED
    BY <1>1, <2>1, <2>2
<1>4. Shown(new, new.listing)
  BY <1>1 DEF Shown
<1>5. \A s \in Sightings : s.of \in new.of =>
        s.req = new.req /\ (new.req = None => s.role = new.role)
  <2>1. ASSUME NEW s \in Sightings, s.of = w.sees.of
        PROVE  s.req = new.req /\ (new.req = None => s.role = new.role)
    BY <1>1, <2>1 DEF SightingsIdentify, IngestMatches
  <2>2. ASSUME NEW s \in Sightings, s.of \in old.of
        PROVE  s.req = new.req /\ (new.req = None => s.role = new.role)
    BY <1>1, <1>2, <2>2 DEF RowMatches
  <2> QED
    BY <1>1, <2>1, <2>2
<1>6. \A p \in new.of : new.of = {p} \/ \E q \in new.of \ {p} : Identity!Alike(p, q)
  <2> DEFINE o == w.sees.of
  <2>1. CASE o \in old.of
    <3>1. new.of = old.of
      BY <1>1, <2>1
    <3> QED
      BY <3>1 DEF RowMatches
  <2>2. CASE o \notin old.of
    <3>1. PICK q \in old.of : Identity!Alike(o, q)
      BY <2>2 DEF IngestMatches
    <3>2. q # o /\ Identity!Alike(q, o)
      BY <2>2, <3>1, AlikeBothWays
    <3>3. ASSUME NEW p \in old.of PROVE \E u \in new.of \ {p} : Identity!Alike(p, u)
      <4>1. CASE old.of = {p}
        BY <1>1, <2>2, <3>2, <4>1
      <4>2. CASE \E u \in old.of \ {p} : Identity!Alike(p, u)
        BY <1>1, <4>2
      <4> QED
        BY <4>1, <4>2 DEF RowMatches
    <3> QED
      BY <1>1, <3>1, <3>2, <3>3
  <2> QED
    BY <2>1, <2>2
<1> QED
  BY <1>1, <1>2, <1>3, <1>4, <1>5, <1>6 DEF RowMatches

LEMMA CreatedMatches ==
  ASSUME SightingsIdentify, NEW w, NEW link, w.sees \in Sightings, link \in {None, w.sees.site}
  PROVE  RowMatches(CreatedRow(w, link))
<1> DEFINE new == CreatedRow(w, link)
<1>1. /\ new.of = {w.sees.of} /\ new.req = w.sees.req /\ new.role = w.sees.role
      /\ new.site = link /\ new.listing = w.sees.listing
  BY DEF CreatedRow
<1> HIDE DEF new
<1>2. Shown(new, new.site) /\ Shown(new, new.listing)
  BY <1>1 DEF Shown
<1>3. \A s \in Sightings : s.of \in new.of =>
        s.req = new.req /\ (new.req = None => s.role = new.role)
  BY <1>1 DEF SightingsIdentify
<1>4. \A p \in new.of : new.of = {p}
  BY <1>1
<1>5. RowMatches(new)
  BY <1>2, <1>3, <1>4 DEF RowMatches
<1> QED
  BY <1>5 DEF new

\* Rows and ingests that go on.
LEMMA MergesGoOn ==
  ASSUME RowsInv, MergesInv, NEW i \in Ingests,
         \A j \in Ingests \ {i} : ingest'[j] = ingest[j],
         DOMAIN jobs \subseteq DOMAIN jobs',
         \A r \in DOMAIN jobs : /\ jobs[r].of \subseteq jobs'[r].of /\ jobs'[r].req = jobs[r].req
                                /\ jobs[r].req = None => jobs'[r].role = jobs[r].role,
         \A r \in DOMAIN jobs' : RowMatches(jobs'[r]),
         \/ ingest'[i] = ingest[i] \/ ingest'[i] = Identity!Idle
         \/ /\ ingest'[i].row # Identity!NewRow => IngestMatches(ingest'[i], jobs'[ingest'[i].row])
  PROVE  MergesInv'
<1>1. ASSUME NEW j \in Ingests, ingest'[j] = ingest[j], ingest[j] # Identity!Idle,
             ingest[j].row # Identity!NewRow
      PROVE  IngestMatches(ingest'[j], jobs'[ingest'[j].row])
  <2>1. ingest[j].row \in DOMAIN jobs
    BY <1>1 DEF RowsInv, JobTypes, IngestTyped
  <2>2. IngestMatches(ingest[j], jobs[ingest[j].row])
    BY <1>1 DEF MergesInv
  <2>3. IngestMatches(ingest[j], jobs'[ingest[j].row])
    BY <2>1, <2>2, MatchesOn
  <2> QED
    BY <1>1, <2>3
<1> QED
  BY <1>1 DEF MergesInv

LEMMA MergesInvStep ==
  ASSUME SightingsIdentify, IdentityParameters, RowsInv, MergesInv,
         [Identity!Next]_(Identity!identityVars)
  PROVE  MergesInv'
<1>1. CASE UNCHANGED Identity!identityVars
  BY <1>1 DEF Identity!identityVars, MergesInv
<1>2. ASSUME NEW i \in Ingests, NEW s \in Sightings, Identity!Find(i, s)
      PROVE  MergesInv'
  <2> DEFINE found(r) == [state |-> "resolving", sees |-> s, row |-> r,
                          was |-> IF r = Identity!NewRow THEN None ELSE jobs[r]]
  <2>1. PICK r \in Identity!Existing(s) : ingest' = [ingest EXCEPT ![i] = found(r)]
    BY <1>2 DEF Identity!Find
  <2> DEFINE w == found(r)
  <2>2. w.sees = s /\ w.row = r /\ (r # Identity!NewRow => w.was = jobs[r])
    OBVIOUS
  <2> HIDE DEF found
  <2>3. ingest'[i] = w /\ \A j \in Ingests \ {i} : ingest'[j] = ingest[j]
    BY <2>1, IngestGoes DEF RowsInv
  <2>4. UNCHANGED jobs
    BY <1>2 DEF Identity!Find
  <2>5. ASSUME r # Identity!NewRow PROVE IngestMatches(w, jobs[r])
    <3>1. r \in DOMAIN jobs /\ r \in Identity!BySourceId(s) \union Identity!ByRequisition(s)
             \union Identity!ByLink(s) \union Identity!ByRole(s)
      BY <2>5, WhatIsFound DEF RowsInv
    <3>2. RowSound(jobs[r]) /\ RowMatches(jobs[r])
      BY <3>1 DEF RowsInv, MergesInv
    <3>3. /\ s.req = jobs[r].req /\ (jobs[r].req = None => s.role = jobs[r].role)
          /\ s.of \in jobs[r].of \/ \E q \in jobs[r].of : Identity!Alike(s.of, q)
      BY <3>1, <3>2, FoundMatches DEF RowsInv
    <3>4. Shown(jobs[r], jobs[r].site)
      BY <3>2 DEF RowMatches
    <3> QED
      BY <2>2, <2>5, <3>3, <3>4 DEF IngestMatches
  <2>6. \A t \in DOMAIN jobs' : RowMatches(jobs'[t])
    BY <2>4 DEF MergesInv
  <2> QED
    BY <2>2, <2>3, <2>4, <2>5, <2>6, MergesGoOn
<1>3. ASSUME NEW i \in Ingests, Identity!Write(i)
      PROVE  MergesInv'
  <2> DEFINE w == ingest[i]
  <2>1. /\ w # Identity!Idle /\ w.sees \in Sightings /\ ingest'[i] = Identity!Idle
        /\ \A j \in Ingests \ {i} : ingest'[j] = ingest[j]
    BY <1>3, IngestEnds
  <2>2. PICK link \in Identity!Destinations(w) : Identity!Update(i, link) \/ Identity!Create(i, link)
    BY <1>3, IngestEnds
  <2>3. /\ link \in {None, w.sees.site} \/ (w.row # Identity!NewRow /\ link = w.was.site)
    BY <2>1, LinkLeads DEF RowsInv
  <2>4. CASE Identity!Update(i, link)
    <3> DEFINE old == jobs[w.row]
               new == jobs'[w.row]
    <3>1. /\ w.row \in DOMAIN jobs /\ DOMAIN jobs' = DOMAIN jobs
          /\ \A r \in DOMAIN jobs \ {w.row} : jobs'[r] = jobs[r]
          /\ UpdatedRow(w, old, new, link)
      BY <2>1, <2>4, UpdateWrites DEF RowsInv
    <3>2. RowSound(old) /\ RowMatches(old) /\ w.row # Identity!NewRow
      BY <2>4, <3>1 DEF RowsInv, MergesInv, Identity!Update
    <3>3. IngestMatches(w, old)
      BY <2>1, <3>2 DEF MergesInv
    <3> HIDE DEF old, new
    <3>4. /\ RowMatches(new) /\ old.of \subseteq new.of /\ new.req = old.req
          /\ old.req = None => new.role = old.role
      BY <2>1, <2>3, <3>1, <3>2, <3>3, UpdatedMatches
    <3>5. \A r \in DOMAIN jobs' : RowMatches(jobs'[r])
      BY <3>1, <3>4 DEF MergesInv, new
    <3>6. \A r \in DOMAIN jobs : /\ jobs[r].of \subseteq jobs'[r].of /\ jobs'[r].req = jobs[r].req
                                 /\ jobs[r].req = None => jobs'[r].role = jobs[r].role
      BY <3>1, <3>4 DEF old, new
    <3> QED
      BY <2>1, <3>1, <3>5, <3>6, MergesGoOn
  <2>5. CASE Identity!Create(i, link)
    <3>1. /\ DOMAIN jobs' = DOMAIN jobs \union {Len(jobs) + 1}
          /\ \A r \in DOMAIN jobs : jobs'[r] = jobs[r]
          /\ jobs'[Len(jobs) + 1] = CreatedRow(w, link)
      BY <2>1, <2>5, CreateWrites DEF RowsInv
    <3>2. RowMatches(CreatedRow(w, link))
      BY <2>1, <2>3, <2>5, CreatedMatches DEF Identity!Create
    <3>3. \A r \in DOMAIN jobs' : RowMatches(jobs'[r])
      BY <3>1, <3>2 DEF MergesInv
    <3> QED
      BY <2>1, <3>1, <3>3, MergesGoOn
  <2> QED
    BY <2>2, <2>4, <2>5
<1>4. ASSUME NEW r \in DOMAIN jobs, Identity!Close(r)
      PROVE  MergesInv'
  <2>1. DOMAIN jobs' = DOMAIN jobs /\ \A t \in DOMAIN jobs : SameButClosed(jobs[t], jobs'[t])
    BY <1>4, CloseWrites DEF RowsInv
  <2>2. UNCHANGED ingest
    BY <1>4 DEF Identity!Close
  <2>3. \A t \in DOMAIN jobs' : RowMatches(jobs'[t])
    BY <2>1 DEF MergesInv, SameButClosed, RowMatches, Shown
  <2>4. ASSUME NEW i \in Ingests PROVE MergesInv'
    BY <2>1, <2>2, <2>3, MergesGoOn DEF SameButClosed
  <2> QED
    BY <2>2, <2>3, <2>4 DEF MergesInv
<1> QED
  BY <1>1, <1>2, <1>3, <1>4 DEF Identity!Next

LEMMA IdentityInvSuffices ==
  /\ RowsInv => Identity!IdentityTypeOK /\ Identity!OneRowPerSourceId /\ Identity!OneRowPerPosting
  /\ MergesInv => Identity!MergedShareAKey
<1>1. RowsInv => Identity!IdentityTypeOK
  BY RowsAreNumbered DEF RowsInv, JobTypes, IngestTyped, RowSound, Identity!IdentityTypeOK
<1>2. MergesInv => Identity!MergedShareAKey
  BY DEF MergesInv, RowMatches, Identity!MergedShareAKey
<1> QED
  BY <1>1, <1>2 DEF RowsInv

\* Whatever is seen, and however ingests cross (ingest.ts): every row has the identity of a
\* posting that was seen; while they do not cross, no two rows have one source's id, and a
\* posting its sources show with one link or requisition has one row; and a row verified
\* on the employer's board stays verified.
THEOREM PostingsHaveOneRow ==
  ASSUME IdentityParameters
  PROVE  Identity!Spec =>
           /\ [](Identity!IdentityTypeOK /\ Identity!OneRowPerSourceId /\ Identity!OneRowPerPosting)
           /\ Identity!OfficialStaysOfficial
<1>1. Identity!Init => RowsInv
  BY IdentityAtFirst
<1>2. RowsInv /\ [Identity!Next]_(Identity!identityVars) =>
        RowsInv' /\ [OfficialStays]_(Identity!identityVars)
  BY RowsInvStep
<1> QED
  BY <1>1, <1>2, IdentityInvSuffices, PTL
     DEF Identity!Spec, Identity!OfficialStaysOfficial, OfficialStays

\* Where ids and links belong to one posting, and its sources agree on role and
\* requisition, findExistingJob merges "never merely a similar-looking" posting, also
\* while ingests cross.
THEOREM MergesShareAKey ==
  ASSUME IdentityParameters, SightingsIdentify
  PROVE  Identity!Spec => []Identity!MergedShareAKey
<1>1. Identity!Init => RowsInv /\ MergesInv
  BY IdentityAtFirst
<1>2. RowsInv /\ MergesInv /\ [Identity!Next]_(Identity!identityVars) => RowsInv' /\ MergesInv'
  BY RowsInvStep, MergesInvStep
<1> QED
  BY <1>1, <1>2, IdentityInvSuffices, PTL DEF Identity!Spec

\* Both of the ingests beside the other services.
THEOREM PostingsKeepTheirIdentityBesideOthers ==
  ASSUME IdentityParameters, SightingsIdentify
  PROVE  Services => PostingsKeepTheirIdentity
<1>1. ServicesInit => RowsInv /\ MergesInv
  BY IdentityAtFirst DEF ServicesInit
<1>2. [ServicesNext]_servicesVars => [Identity!Next]_(Identity!identityVars)
  BY Zenon DEF ServicesNext, Only, servicesVars, identityVars, Identity!identityVars
<1>3. RowsInv /\ MergesInv /\ [ServicesNext]_servicesVars =>
        RowsInv' /\ MergesInv' /\ [OfficialStays]_(Identity!identityVars)
  BY <1>2, RowsInvStep, MergesInvStep
<1>4. RowsInv /\ MergesInv =>
        (focus = "identity" => Identity!MergedShareAKey /\ Identity!OneRowPerSourceId
                               /\ Identity!OneRowPerPosting)
  BY IdentityInvSuffices
<1> QED
  BY <1>1, <1>3, <1>4, PTL
     DEF Services, PostingsKeepTheirIdentity, Identity!OfficialStaysOfficial, OfficialStays
=============================================================================
