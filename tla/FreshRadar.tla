------------------------------- MODULE FreshRadar -------------------------------
(***************************************************************************)
(* The fresh radar: a run reads the newest signals of a public feed, keeps *)
(* a row for each, and searches the employer's own posting of those whose  *)
(* row asks for it, several at a time, until they are through or its time  *)
(* is up.  Runs are started by the hosted lane, by the local scheduler and *)
(* by hand, so that two may lie across each other.                         *)
(***************************************************************************)
EXTENDS FiniteSets, Integers

CONSTANTS Runs,
          MaxSignals,   \* bound: signals published; the newest has the highest number
          Limit,        \* the signals a run examines at most
          Concurrency,  \* SIGNAL_CONCURRENCY
          MaxFaded,     \* bound: signals the feed drops
          MaxFaults,    \* bound: runs killed and outcomes that are not recorded
          None

VARIABLES published, faded, \* the feed shows the published signals that did not fade
          rows,        \* FreshSignalResolution, by signal
          run,
          promoted,    \* the signals whose official posting is in the tracker
          overlapped,  \* history: two runs lay across each other
          faults

radarVars == <<published, faded, rows, run, promoted, overlapped, faults>>

Signals == 1..MaxSignals
Shown == (1..published) \ faded
\* runJobrightFreshDiscovery looks at the newest ones only.
Selected == {s \in Shown : Cardinality({t \in Shown : t > s}) < Limit}

Idle == [step |-> "idle"]
Queued == [state |-> "PENDING", flow |-> "SIGNAL_SEEN", due |-> TRUE]
Searching == "searching"

Init ==
  /\ published = 0 /\ faded = {} /\ promoted = {}
  /\ rows = [s \in Signals |-> None] /\ run = [r \in Runs |-> Idle]
  /\ overlapped = FALSE /\ faults = 0

Publish ==
  /\ published < MaxSignals /\ published' = published + 1
  /\ UNCHANGED <<faded, rows, run, promoted, overlapped, faults>>

\* The feed drops the signal, or it gets older than the seven days that count as fresh.
Fade(s) ==
  /\ s \in Shown /\ Cardinality(faded) < MaxFaded /\ faded' = faded \union {s}
  /\ UNCHANGED <<published, rows, run, promoted, overlapped, faults>>

\* The retry delay of a row passes.
ComesDue(s) ==
  /\ rows[s] # None /\ ~rows[s].due
  /\ rows' = [rows EXCEPT ![s].due = TRUE]
  /\ UNCHANGED <<published, faded, run, promoted, overlapped, faults>>

Fetch(r) ==
  /\ run[r] = Idle /\ Selected # {}
  /\ run' = [run EXCEPT ![r] = [step |-> "load", selected |-> Selected]]
  /\ overlapped' = (overlapped \/ \E q \in Runs \ {r} : run[q] # Idle)
  /\ UNCHANGED <<published, faded, rows, promoted, faults>>

\* The catalog of official postings and the rows of the signals, as they are now.
Load(r) ==
  /\ run[r].step = "load"
  /\ run' = [run EXCEPT ![r] = [step |-> "create", selected |-> @.selected,
       official |-> promoted, was |-> [s \in @.selected |-> rows[s]]]]
  /\ UNCHANGED <<published, faded, rows, promoted, overlapped, faults>>

\* persistQueuedSignals, first statement; rows that exist by now are skipped.
CreateRows(r) ==
  /\ run[r].step = "create"
  /\ rows' = [s \in Signals |->
       IF s \in run[r].selected /\ run[r].was[s] = None /\ rows[s] = None
       THEN Queued ELSE rows[s]]
  /\ run' = [run EXCEPT ![r].step = "mark"]
  /\ UNCHANGED <<published, faded, promoted, overlapped, faults>>

\* MUTANT of Marked: every signal of the run.
MarkedAnyway(s, row) == [row EXCEPT !.flow = "OFFICIAL_SEARCH_QUEUED"]
\* MUTANT of Marked: a signal that is queued again begins its delay again.
MarkedPostponed(s, row) ==
  IF row.state = "RESOLVED" THEN row
  ELSE [row EXCEPT !.flow = "OFFICIAL_SEARCH_QUEUED", !.due = row.flow = "SIGNAL_SEEN"]
Marked(s, row) ==
  IF row.state = "RESOLVED" THEN row ELSE [row EXCEPT !.flow = "OFFICIAL_SEARCH_QUEUED"]

\* persistQueuedSignals, second statement.
MarkQueued(r) ==
  /\ run[r].step = "mark"
  /\ rows' = [s \in Signals |-> IF s \in run[r].selected THEN Marked(s, rows[s]) ELSE rows[s]]
  /\ run' = [run EXCEPT ![r] = [step |-> "work", left |-> @.selected, official |-> @.official,
       was |-> @.was, hand |-> [s \in {} |-> Searching]]]
  /\ UNCHANGED <<published, faded, promoted, overlapped, faults>>

InHand(r) == IF run[r].step \in {"work", "out of time"} THEN DOMAIN run[r].hand ELSE {}

\* MUTANT of Wanted: only the delay counts.
WantedWhenDue(was) == was = None \/ was.due
\* A resolved signal is done and one whose delay runs is postponed, by what was read.
Wanted(was) == was = None \/ (was.state # "RESOLVED" /\ was.due)

\* A worker takes the newest signal left.
Take(r, s) ==
  /\ run[r].step = "work" /\ s \in run[r].left /\ \A t \in run[r].left : t <= s
  /\ Cardinality(InHand(r)) < Concurrency
  /\ IF Wanted(run[r].was[s])
     THEN /\ rows' = [rows EXCEPT ![s].flow = "OFFICIAL_SEARCHING"]
          /\ run' = [run EXCEPT ![r].left = @ \ {s},
               ![r].hand = [t \in DOMAIN @ \union {s} |-> IF t = s THEN Searching ELSE @[t]]]
     ELSE /\ run' = [run EXCEPT ![r].left = @ \ {s}]
          /\ UNCHANGED rows
  /\ UNCHANGED <<published, faded, promoted, overlapped, faults>>

\* The time of the run is up: its workers end what they have in hand.
OutOfTime(r) ==
  /\ run[r].step = "work" /\ run[r].left # {}
  /\ run' = [run EXCEPT ![r].step = "out of time"]
  /\ UNCHANGED <<published, faded, rows, promoted, overlapped, faults>>

\* What resolveOneSignal can answer: a posting of the catalog is attached, another one is
\* found (and written), found closed, or not found.
Outcomes(r, s) ==
  IF s \in run[r].official THEN {"RESOLVED"} ELSE {"RESOLVED", "CLOSED", "PENDING"}

\* MUTANT of Promotes: the row of a posting that could not be written is kept as resolved.
PromotesPerhaps(outcome, s) == IF outcome = "RESOLVED" THEN {promoted, promoted \union {s}} ELSE {promoted}
Promotes(outcome, s) == IF outcome = "RESOLVED" THEN {promoted \union {s}} ELSE {promoted}

Search(r, s) ==
  /\ s \in InHand(r) /\ run[r].hand[s] = Searching
  /\ \E outcome \in Outcomes(r, s) :
       /\ run' = [run EXCEPT ![r].hand[s] = outcome]
       /\ promoted' \in Promotes(outcome, s)
  /\ UNCHANGED <<published, faded, rows, overlapped, faults>>

\* recordSignalOutcome; only a signal without a match gets a delay.
Recorded(outcome) ==
  CASE outcome = "RESOLVED" -> [state |-> "RESOLVED", flow |-> "OFFICIAL_RESOLVED", due |-> TRUE]
    [] outcome = "CLOSED" -> [state |-> "CLOSED", flow |-> "PERMANENT_FAILURE", due |-> TRUE]
    [] OTHER -> [state |-> "PENDING", flow |-> "NO_MATCH_YET", due |-> FALSE]

LetGo(r, s) ==
  run' = [run EXCEPT ![r].hand = [t \in DOMAIN @ \ {s} |-> @[t]]]

Record(r, s) ==
  /\ s \in InHand(r) /\ run[r].hand[s] # Searching
  /\ rows' = [rows EXCEPT ![s] = Recorded(run[r].hand[s])]
  /\ LetGo(r, s)
  /\ UNCHANGED <<published, faded, promoted, overlapped, faults>>

\* The exception of the write is swallowed.
RecordFails(r, s) ==
  /\ s \in InHand(r) /\ run[r].hand[s] # Searching /\ faults < MaxFaults
  /\ LetGo(r, s) /\ faults' = faults + 1
  /\ UNCHANGED <<published, faded, rows, promoted, overlapped>>

End(r) ==
  /\ run[r].step = "out of time" \/ (run[r].step = "work" /\ run[r].left = {})
  /\ InHand(r) = {}
  /\ run' = [run EXCEPT ![r] = Idle]
  /\ UNCHANGED <<published, faded, rows, promoted, overlapped, faults>>

\* The platform ends the function, or the process dies.
Killed(r) ==
  /\ run[r] # Idle /\ faults < MaxFaults
  /\ run' = [run EXCEPT ![r] = Idle] /\ faults' = faults + 1
  /\ UNCHANGED <<published, faded, rows, promoted, overlapped>>

RunSteps(r) ==
  \/ Fetch(r) \/ Load(r) \/ CreateRows(r) \/ MarkQueued(r) \/ End(r)
  \/ \E s \in Signals : Take(r, s) \/ Search(r, s) \/ Record(r, s)

Next ==
  \/ Publish \/ \E s \in Signals : Fade(s) \/ ComesDue(s)
  \/ \E r \in Runs :
       RunSteps(r) \/ OutOfTime(r) \/ Killed(r) \/ \E s \in Signals : RecordFails(r, s)

\* The lane and the scheduler start a run every few minutes, a run goes on by itself, and
\* delays pass.  Every run may be out of time before it comes to the last of its signals.
Fairness ==
  /\ \A r \in Runs : WF_radarVars(RunSteps(r))
  /\ \A s \in Signals : WF_radarVars(ComesDue(s))

Spec == Init /\ [][Next]_radarVars /\ Fairness

-----------------------------------------------------------------------------
Flows == {"SIGNAL_SEEN", "OFFICIAL_SEARCH_QUEUED", "OFFICIAL_SEARCHING", "OFFICIAL_RESOLVED",
          "NO_MATCH_YET", "PERMANENT_FAILURE"}
SignalRow == [state : {"PENDING", "RESOLVED", "CLOSED"}, flow : Flows, due : BOOLEAN]

\* The two state columns of a row agree, unless two runs lay across each other, and only a
\* pending signal waits.
FreshTypeOK ==
  /\ published \in 0..MaxSignals /\ faded \subseteq 1..published
  /\ promoted \subseteq 1..published /\ faults \in 0..MaxFaults
  /\ rows \in [Signals -> SignalRow \union {None}]
  /\ \A s \in Signals : rows[s] # None =>
       /\ ~overlapped => (rows[s].state = "RESOLVED" <=> rows[s].flow = "OFFICIAL_RESOLVED")
       /\ ~rows[s].due => rows[s].state = "PENDING"

\* Whatever runs lie across each other or die, a signal that counts as resolved has its
\* official posting in the tracker.
ResolvedHasPosting ==
  \A s \in Signals : rows[s] # None => (rows[s].state = "RESOLVED" => s \in promoted)

\* A resolved signal is not searched again, nor its row changed, unless two runs lay
\* across each other.
ResolvedStays ==
  [][\A s \in Signals : rows[s] # None =>
       (rows[s].state = "RESOLVED" => rows'[s] = rows[s] \/ overlapped)]_radarVars

Examined(s) == \E r \in Runs : s \in InHand(r)

\* A run comes to the signal, instead of being out of time before.
Passed(s) ==
  \E r \in Runs :
    run[r].step \in {"work", "out of time"} /\ s \in DOMAIN run[r].was \ run[r].left

\* A signal that runs come to again and again, as long as it is among those they look at,
\* is searched again and again until it is resolved, although other runs die or are out of
\* time before it ("A signal is never dropped - only postponed").
NeverDropped ==
  \A s \in Signals : []<>Passed(s) =>
    []<>(s \notin Selected \/ Examined(s) \/ (rows[s] # None /\ rows[s].state = "RESOLVED"))

\* "Stopping between signals is safe because nothing is lost - every unexamined signal is
\* already persisted in the resolution queue and is picked up by the next tick."
PickedUpLater ==
  \A s \in Signals : (rows[s] # None /\ rows[s].flow = "SIGNAL_SEEN") ~> Examined(s)
=============================================================================
