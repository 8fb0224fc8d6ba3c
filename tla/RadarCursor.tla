------------------------------ MODULE RadarCursor ------------------------------
(***************************************************************************)
(* enqueueJobrightFreshSignals (src/lib/sync/liveDiscoveryQueue.ts): which *)
(* signals of the fresh radar are queued, and the cursor over the times    *)
(* they were posted at.                                                    *)
(*                                                                         *)
(* A pass fetches the feed, reads the cursor, queues what was posted since *)
(* (less an overlap), and writes the cursor, unguarded.  The cron route    *)
(* and the route of the browser both start passes, after a check of the    *)
(* running ones that two of them may pass at once, and the platform may    *)
(* kill one.  A step is one statement or the fetch.  All signals are       *)
(* younger than the 7 days the feed is read for.                           *)
(***************************************************************************)
EXTENDS Integers, FiniteSets

CONSTANTS
  FeedSignals, \* the times at which the signals are posted, all different
  Overlap,     \* CURSOR_OVERLAP_MS
  Categories,  \* the pages of the feed
  CategoryOf,  \* per signal, the page that shows it
  Passes       \* passes that may overlap

VARIABLES
  feed,    \* the signals published so far
  cursor,  \* lastSourcePostedAt; 0 before the first pass
  queued,  \* the signals that have a record
  pass,    \* per pass, the statement it executes next and what it has read
  \* History, of signals that are not queued yet:
  late,    \* published after one posted later by more than the overlap
  missed   \* published when a fetch of their category failed

cursorVars == <<feed, cursor, queued, pass, late, missed>>

\* signals: fetched, then to be queued; latest: the cursor to be written.
Pass == [step : {"fetch", "read", "create", "advance"},
         signals : SUBSET FeedSignals, latest : FeedSignals \cup {0}]

Idle == [step |-> "fetch", signals |-> {}, latest |-> 0]

Latest(times) == CHOOSE t \in times : \A u \in times : u <= t

-----------------------------------------------------------------------------
\* The feed shows one more signal, perhaps posted before others it shows.
Publish(s) ==
  /\ s \notin feed
  /\ feed' = feed \cup {s}
  /\ late' = IF \E t \in feed : t > s + Overlap THEN late \cup {s} ELSE late
  /\ UNCHANGED <<cursor, queued, pass, missed>>

\* fetchJobrightFreshSignals: a category that fails counts as an empty one.
Fetch(p) ==
  /\ pass[p].step = "fetch"
  /\ \E failing \in {{}} \cup {{c} : c \in Categories} :
       LET hidden == {s \in feed : CategoryOf[s] \in failing} IN
         /\ pass' = [pass EXCEPT ![p] =
                       [step |-> "read", signals |-> feed \ hidden, latest |-> 0]]
         /\ missed' = missed \cup (hidden \ queued)
  /\ UNCHANGED <<feed, cursor, queued, late>>

\* Faulty: only what was posted after the cursor is considered.
ConsideredSince(p) == {s \in pass[p].signals : s >= cursor}

\* The threshold; without a cursor, 7 days.
Considered(p) == {s \in pass[p].signals : cursor = 0 \/ s >= cursor - Overlap}

ReadCursor(p) ==
  /\ pass[p].step = "read"
  /\ pass' = [pass EXCEPT ![p] =
                [step |-> "create", signals |-> Considered(p),
                 latest |-> Latest(pass[p].signals \cup {cursor})]]
  /\ UNCHANGED <<feed, cursor, queued, late, missed>>

\* createMany with skipDuplicates, of those without a record.
CreateMany(p) ==
  /\ pass[p].step = "create"
  /\ queued' = queued \cup pass[p].signals
  /\ pass' = [pass EXCEPT ![p] =
                [step |-> "advance", signals |-> {}, latest |-> pass[p].latest]]
  /\ late' = late \ queued' /\ missed' = missed \ queued'
  /\ UNCHANGED <<feed, cursor>>

\* Faulty: the cursor is the time after the latest signal.
AdvancePast(p) ==
  /\ pass[p].step = "advance"
  /\ cursor' = pass[p].latest + 1
  /\ pass' = [pass EXCEPT ![p] = Idle]
  /\ UNCHANGED <<feed, queued, late, missed>>

\* The upsert of the cursor ends the pass.
Advance(p) ==
  /\ pass[p].step = "advance"
  /\ cursor' = pass[p].latest
  /\ pass' = [pass EXCEPT ![p] = Idle]
  /\ UNCHANGED <<feed, queued, late, missed>>

PassDies(p) ==
  /\ pass[p].step # "fetch"
  /\ pass' = [pass EXCEPT ![p] = Idle]
  /\ UNCHANGED <<feed, cursor, queued, late, missed>>

CursorInit ==
  /\ feed = {} /\ cursor = 0 /\ queued = {} /\ late = {} /\ missed = {}
  /\ pass = [p \in Passes |-> Idle]

PassSteps(p) == Fetch(p) \/ ReadCursor(p) \/ CreateMany(p) \/ Advance(p) \/ PassDies(p)

CursorNext == (\E s \in FeedSignals : Publish(s)) \/ (\E p \in Passes : PassSteps(p))

CursorSpec == CursorInit /\ [][CursorNext]_cursorVars

-----------------------------------------------------------------------------
(* Properties                                                                *)

\* Every variable has its type.
CursorTypeOK ==
  /\ feed \subseteq FeedSignals
  /\ cursor \in FeedSignals \cup {0}
  /\ queued \subseteq feed
  /\ pass \in [Passes -> Pass]
  /\ late \subseteq feed /\ missed \subseteq feed

\* liveDiscoveryQueue.ts: the cursor never leaves a signal behind: beyond the
\* overlap it only passes signals that are queued, although passes overlap, die
\* and write it back and forth.  (Not so for a signal the feed published later
\* than the overlap allows, nor for one whose category failed in some fetch.)
NothingSkipped ==
  \A s \in feed \ (late \cup missed) : cursor > s + Overlap => s \in queued
=============================================================================
